CONSTANTS
    Account = {"a", "b"}
    NoAccount = "nobody"
    Idle = 2
    MaxAsks = 3
SPECIFICATION FairSession
CHECK_DEADLOCK FALSE
INVARIANTS
    ServedTheSessionsKeys
    HoldsEndWithTheSwitch
PROPERTIES
    UnattendedLocks
