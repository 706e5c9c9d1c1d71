SPECIFICATION TransferSpec
CONSTANTS
  Members = {m, n}
  TargetWas = "none"
  Decisions = {d}
  MaxFailures = 3
  MaxTransfers = 2
INVARIANTS OneAnchor
CHECK_DEADLOCK FALSE
