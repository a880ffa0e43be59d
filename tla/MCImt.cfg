\* The contract's tree against its oracle: appends and batches of 4 in 16 leaves.
CONSTANTS
  p = p
  q = q
  Leaf = {p, q}
  Empty = empty
  H = 4
  LOG_B = 2
  Batch <- MCBatch
SPECIFICATION ImtSpec
INVARIANTS RootsAgree PathsFoldToTheRoot
CHECK_DEADLOCK FALSE
