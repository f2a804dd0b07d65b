SPECIFICATION Spec
CONSTANTS
    c1 = c1
    c2 = c2
    c3 = c3
    alice = alice
    bob = bob
    Conns <- MCConns
    Accounts <- MCAccounts
    AccountOf <- MCAccountOf
INVARIANT PlainPromptMeansNeverConnected
CHECK_DEADLOCK FALSE
