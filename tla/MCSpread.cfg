CONSTANTS
  A = A
  B = B
  n1 = n1
  n2 = n2
  x = x
  y = y
  basic = basic
  admin = admin
  None = None
  Holder = {A, B}
  Node = {n1}
  Name = {x}
  Caps = {basic}
  Pinned = {}
  Seed <- SeedIsA
  TTL = 1
  GRACE = 1
  Faults = {}
  Syncing = {A, B, n1}
  MaxTime = 2
  MaxSeq = 1
SPECIFICATION FairSpec
PROPERTY RevokeReachesHolders
CHECK_DEADLOCK FALSE
