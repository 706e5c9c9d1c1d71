SPECIFICATION Spec
CONSTANTS
  Names = {"home", "production-a", "production-b"}
  Links <- MCLinks
  LinkOf <- MCLinkOf
  Foreign = {"A", "B"}
  Own = "O"
  Called <- MCCalled
  Manager = "systemd"
  Frail <- MCFrail
  Careful = FALSE
  MaxIds = 3
  MaxCommands = 4
  MaxFaults = 0
  MaxRetitles = 0
INVARIANT OneIdentity
CHECK_DEADLOCK FALSE
