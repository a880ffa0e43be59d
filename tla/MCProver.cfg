CONSTANTS
    d = d
    t = t
    BootOrder <- MCBootOrder
    Request = {r1, r2}
    Boot = boot
    Nobody = nobody
    MaxLogs = 1
    PipeLines = 1
    MaxFaults = 2
SPECIFICATION FairSpec
CHECK_DEADLOCK FALSE
INVARIANTS
    ProofsAreTheirOwn
    BlameIsFair
PROPERTIES
    EveryRequestAnswered
