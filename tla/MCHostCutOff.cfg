SPECIFICATION Spec
CONSTANTS
  Names = {"home", "production-a", "production-b"}
  Links <- MCLinks
  LinkOf <- MCLinkOf
  Foreign = {"A", "B"}
  Own = "O"
  Called <- MCCalled
  Manager = "systemd"
  Frail = {}
  Careful = TRUE
  MaxIds = 3
  MaxCommands = 3
  MaxFaults = 1
  MaxRetitles = 0
INVARIANT OneIdentity
CHECK_DEADLOCK FALSE
