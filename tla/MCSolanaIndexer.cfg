CONSTANTS
    B = 2
    Blob = {"none", "verified", "mismatch"}
    MaxTxs = 3
    MaxFaults = 2
    MaxLost = 1
    MaxSwaps = 2
SPECIFICATION FairSpec
CHECK_DEADLOCK FALSE
INVARIANTS
    RowsTellTheLedger
    VerdictsAreToldOnce
PROPERTIES
    CatchesUp
