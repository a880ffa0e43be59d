CONSTANTS
  a = a
  b = b
  z = z
  Zero = zero
  Note <- MCNote
  Value <- MCValue
  Account = {"alice"}
  Vault = "vault"
  Supply <- MCSupply
  Payloads <- MCPayloads
  CircuitB = 2
  Capacity = 4
  Arity = 2
  MaxAmount = 2
  ForgedRoots <- MCForged
  NoRoot = noroot
  NoConfig = noconfig
  Fundable <- MCFundable
SPECIFICATION PoolSpec
INVARIANTS AnchorsNameTheirBatch NoNoteIsFrozen
PROPERTY ImplementsLedger
CHECK_DEADLOCK FALSE
