SPECIFICATION FairSpec
CONSTANTS
  Daemons = {"a", "b"}
  Opted = {"a", "b"}
  Managed = {"a"}
  MaxVersion = 2
  MaxAnnounced = 2
  MaxMoves = 1
  MaxHands = 1
  MaxFaults = 1
PROPERTIES OnlyPinned NeverStranded CatchesUp
CHECK_DEADLOCK FALSE
