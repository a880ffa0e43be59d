SPECIFICATION DirectorySpec
CHECK_DEADLOCK FALSE
CONSTANTS
  alice = alice
  a = a
  b = b
  m1 = m1
  m2 = m2
  p1 = p1
  p2 = p2
  None = None
  Name = {alice}
  Owner = {a, b}
  Meta = {m1, m2}
  Pair = {p1, p2}
  MaxRequests = 3
  MaxCrashes = 1
INVARIANTS RecordsAreSigned ServedWasStored LatecomersAreRefused
SYMMETRY MCSymmetry
