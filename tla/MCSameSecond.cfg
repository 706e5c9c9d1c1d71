CONSTANTS
  A = A
  B = B
  n1 = n1
  n2 = n2
  x = x
  y = y
  basic = basic
  admin = admin
  None = None
  Holder = {A, B}
  Node = {n1}
  Name = {x}
  Caps = {basic}
  Pinned = {}
  Seed <- SeedIsA
  TTL = 2
  GRACE = 2
  Faults = {"sameSecond"}
  Syncing = {A, B, n1}
  MaxTime = 2
  MaxSeq = 2
SPECIFICATION Spec
PROPERTY ReenrollmentLives
CHECK_DEADLOCK FALSE
