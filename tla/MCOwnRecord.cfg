SPECIFICATION FairSpec
CONSTANTS
    home = home
    away = away
    Addr = {home, away}
    Configured = home
    Undisturbed = TRUE
    MaxGen = 3
    MaxChanges = 2
    MaxFaults = 2
INVARIANTS SeqOnce Served
PROPERTY Announced
