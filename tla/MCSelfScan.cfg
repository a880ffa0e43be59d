SPECIFICATION FairSpec
CONSTANTS
  a = a
  b = b
  Owner = {a, b}
  None = None
  PageSize = 1
  Settings <- MCSettings
INVARIANTS AnyScanIsOneScan
PROPERTIES MoneyComesUp
CHECK_DEADLOCK FALSE
