CONSTANTS
  Server = {s1, s2}
  Caps = {node}
  Kinds = {TRUE, FALSE}
  Length = 1
  MaxAttempts = 2
  Overlap = FALSE
  MaxToken = 2
  MaxTime = 1
  MaxLives = 1
  s1 = s1
  s2 = s2
  s3 = s3
  node = node
  web = web
SPECIFICATION FairSpec
CHECK_DEADLOCK FALSE
INVARIANT DoorTypeOK
INVARIANT UsedUp
INVARIANT AttemptsBounded
PROPERTY WindowKept
PROPERTY DeadForGood
PROPERTY Served
