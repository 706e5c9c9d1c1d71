CONSTANTS
  A = A
  B = B
  n1 = n1
  n2 = n2
  x = x
  y = y
  basic = basic
  admin = admin
  None = None
  Holder = {A}
  Node = {n1, n2}
  Name = {x, y}
  Caps = {basic, admin}
  Pinned = {}
  Seed <- SeedIsA
  TTL = 2
  GRACE = 4
  Faults = {}
  Syncing = {A}
  MaxTime = 3
  MaxSeq = 3
SPECIFICATION Spec
SYMMETRY Symmetry
INVARIANT NameExclusive
INVARIANT RegistryIsCurrent
INVARIANT DepartedUnknown
PROPERTY CapsDecisionHolds
CHECK_DEADLOCK FALSE
