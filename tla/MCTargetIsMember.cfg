SPECIFICATION TransferSpec
CONSTANTS
  Members = {m, n}
  TargetWas = "member"
  Decisions = {d}
  MaxFailures = 3
  MaxTransfers = 2
PROPERTIES NeverAnchorless
CHECK_DEADLOCK FALSE
