CONSTANTS
  A = A
  B = B
  n1 = n1
  n2 = n2
  x = x
  y = y
  basic = basic
  admin = admin
  None = None
  Holder = {A, B}
  Node = {n1}
  Name = {x}
  Caps = {basic}
  Pinned = {}
  Seed <- SeedIsA
  TTL = 1
  GRACE = 1
  Faults = {"flaky", "lostReply", "installFail", "restart"}
  Syncing = {A, B, n1}
  MaxTime = 3
  MaxSeq = 2
SPECIFICATION FairSpec
INVARIANT TypeOK
INVARIANT SeqOrder
PROPERTY NeverOlder
PROPERTY RevokeSetSpec
PROPERTY RevokeSticks
CHECK_DEADLOCK FALSE
