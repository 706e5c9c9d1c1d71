SPECIFICATION TransferSpec
CONSTANTS
  Members = {m, n}
  TargetWas = "none"
  Decisions = {d}
  MaxFailures = 5
  MaxTransfers = 2
INVARIANTS StaysDown
PROPERTIES StopsLast NeverAnchorless
CHECK_DEADLOCK FALSE
