SPECIFICATION FairSpec
CONSTANTS
    c1 = c1
    c2 = c2
    c3 = c3
    alice = alice
    bob = bob
    Conns <- MCConns
    Accounts <- MCAccounts
    AccountOf <- MCAccountOf
INVARIANTS
    TypeOK
    FinishedAfterPurple
    FinishedOnce
    ShutdownPending
    FlagsTellTheTruth
    OnePurpleConnectionPerAccount
    PromptIsAnswerable
PROPERTIES
    AccountIsFreed
    ImplementsLifecycle
\* Every connection may end up finalized: the system may stop.
CHECK_DEADLOCK FALSE
