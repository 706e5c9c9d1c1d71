SPECIFICATION Spec
CONSTANTS
  a = a
  b = b
  c = c
  Nodes <- MCPair
  First = a
  Strangers = {c}
  Requests = {1, 2}
  MaxNow = 3
  MaxCommands = 2
  MaxFaults = 0
  MaxRenewals = 1
PROPERTIES GrantStands
CHECK_DEADLOCK FALSE
