SPECIFICATION Spec
CONSTANTS
  Owner = {a, b}
  None = None
  BatchSize = 2
  Stake = 2
  Mixes <- MCMixes
  Published <- MCPublished
  MaxOps = 3
  MaxFaults = 1
  MaxPages = 6
  PageSize = 1
SYMMETRY Owners
INVARIANTS LedgerTellsTheChain BalancesAgree NoSilentGap PagesTellTheActivity
CHECK_DEADLOCK FALSE
