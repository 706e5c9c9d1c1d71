SPECIFICATION FairSpec
CONSTANTS
    home = home
    away = away
    Addr = {home, away}
    Configured = home
    Undisturbed = FALSE
    MaxGen = 2
    MaxChanges = 2
    MaxFaults = 0
INVARIANT Served

