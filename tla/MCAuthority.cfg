SPECIFICATION Spec
CONSTANTS
  a = a
  b = b
  c = c
  Nodes <- MCPair
  First = a
  Strangers = {c}
  Requests = {1, 2}
  MaxNow = 3
  MaxCommands = 3
  MaxFaults = 2
  MaxRenewals = 1
INVARIANTS OncePerOffer
PROPERTIES GrantTakesEffect
CHECK_DEADLOCK FALSE
