\* Every op of either profile, in every order, with the latch and the token call.
CONSTANTS
  a = a
  b = b
  c = c
  alice = alice
  k1 = k1
  d = d
  t = t
  w = w
  x = x
  z = z
  Zero = zero
  Pool = pool
  NoRoot = noroot
  NoCall = nocall
  Note <- MCNote
  Value <- MCValue
  Account = {alice}
  Supply <- MCSupply
  Key = {k1}
  Module = {d, t, w, x, z}
  ModuleOp <- MCModuleOp
  chunkArity = 1
  B = 2
  Capacity = 6
  TRANSFER10_ARITY = 3
  ForgedRoots <- MCForged
  MaxEpochs = 1
SYMMETRY MCSymmetry
SPECIFICATION ModuleSpec
CONSTRAINT MCBound
INVARIANTS Solvency NoPhantomSpend RootsTellTheTree BatchesNameTheirLeaves
PROPERTY ImplementsLedger
CHECK_DEADLOCK FALSE
