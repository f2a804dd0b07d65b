SPECIFICATION Spec
CONSTANTS
    c1 = c1
    c2 = c2
    alice = alice
    bob = bob
    r1 = r1
    r2 = r2
    None = None
    Conns = {c1}
    Contacts <- MCContacts
    Requests <- MCRequests
    MaxChannels = 2
    MaxCalls = 2
    MaxStreams = 2
SYMMETRY MCSymmetry
INVARIANTS
    TypeOK
    RequestsAreAnsweredOnce
    NoRequestForgotten
    CallHasItsChannel
    ChannelsTellTheTruth
\* The program may have aborted or crashed.
CHECK_DEADLOCK FALSE
