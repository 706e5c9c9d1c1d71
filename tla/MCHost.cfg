SPECIFICATION Spec
CONSTANTS
  Names = {"home", "production-a", "production-b"}
  Links <- MCLinks
  LinkOf <- MCLinkOf
  Foreign = {"A", "B"}
  Own = "O"
  Called <- MCCalled
  Manager = "systemd"
  Frail <- MCFrail
  Careful = TRUE
  MaxIds = 4
  MaxCommands = 4
  MaxFaults = 1
  MaxRetitles = 1
INVARIANTS EnabledIsWhole OneIdentity OwnLinks NothingHaunts
CHECK_DEADLOCK FALSE
