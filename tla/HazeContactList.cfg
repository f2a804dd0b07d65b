SPECIFICATION Spec
CONSTANTS
    alice = alice
    queen = queen
    buddies_group = buddies_group
    friends = friends
    family = family
    r1 = r1
    r2 = r2
    None = None
    Absent = Absent
    Contacts <- MCContacts
    Fallback <- buddies_group
    Groups <- PublishGroups
    Requests <- PublishRequests
    From <- PublishFrom
INVARIANTS
    TypeOK
    PendingIsOpen
    OpenRequestsAreAnswerable
    OnlyReplacedRequestsAbort
    ListedStatesAreTrue
    BuddiesAreListed
PROPERTIES
    PresenceIsTheUsersToGive
\* The program may have aborted on an assertion.
CHECK_DEADLOCK FALSE
