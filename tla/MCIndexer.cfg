SPECIFICATION FairSpec
CONSTANTS
  Module <- MCModule
  Pool = "pool"
  Chunk <- MCChunk
  Traffics <- MCTraffics
  Calldata <- MCHonest
  MaxBlocks = 5
  MaxFaults = 1
INVARIANTS RestartRebuildsTheTree RowsTellTheChain
PROPERTY CatchesUp
CHECK_DEADLOCK FALSE
