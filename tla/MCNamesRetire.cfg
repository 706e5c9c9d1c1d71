SPECIFICATION FairSpec
CONSTANTS
  Names = {"home", "production-a", "production-b"}
  Links <- MCLinks
  LinkOf <- MCLinkOf
  Foreign = {"A", "B"}
  Own = "O"
  Called <- MCCalled
  Manager = "systemd"
  Frail <- MCFrail
  Careful = TRUE
  MaxIds = 2
  MaxCommands = 3
  MaxFaults = 0
  MaxRetitles = 0
PROPERTY NamesRetire
CHECK_DEADLOCK FALSE
