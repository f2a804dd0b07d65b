SPECIFICATION Spec
CONSTANTS
    alice = alice
    me = me
    m1 = m1
    m2 = m2
    m3 = m3
    None = None
    Contacts <- MCContacts
    Self <- me
    Messages <- MCMessages
    Sender <- MCSender
INVARIANTS
    TypeOK
    ChannelHasConversation
    NoStrayTimers
    RepeatsWhatWasSet
    ClientsSeeTheChannels
    NoMessageLost
PROPERTIES
    ImplementsMailboxes
\* The account may have been deleted.
CHECK_DEADLOCK FALSE
