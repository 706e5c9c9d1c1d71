SPECIFICATION Spec
CONSTANTS
  Names = {"home", "production-a", "production-b"}
  Links <- MCLinks
  LinkOf <- MCLinkOf
  Foreign = {"A", "B"}
  Own = "O"
  Called <- MCCalled
  Manager = "systemd"
  Frail <- MCFrail
  Careful = FALSE
  MaxIds = 2
  MaxCommands = 2
  MaxFaults = 0
  MaxRetitles = 1
INVARIANT NeverApart
CHECK_DEADLOCK FALSE
