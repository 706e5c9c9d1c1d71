CONSTANTS
  Server = {s1, s2}
  Caps = {node, web}
  Kinds = {FALSE}
  Length = 1
  MaxAttempts = 2
  Overlap = TRUE
  MaxToken = 2
  MaxTime = 1
  MaxLives = 0
  s1 = s1
  s2 = s2
  s3 = s3
  node = node
  web = web
SPECIFICATION Spec
CHECK_DEADLOCK FALSE
INVARIANT TermsMatch
