CONSTANTS
    Device <- MCDevice
    Purses <- MCPurses
    Asks <- MCAsks
    Tokens = 3
    TRANSFER10_ARITY = 3
    MaxPolls = 1
    MaxRuns = 2
SPECIFICATION FairWallet
CHECK_DEADLOCK FALSE
INVARIANTS
    PlansAreSound
    OnlyRivalsCollide
    BalanceMovesAsAsked
PROPERTY RunsEnd
