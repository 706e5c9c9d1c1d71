SPECIFICATION RenewalFairSpec
CONSTANTS
    Life = 6
    Jitter = 1
    Margin = 2
    Threshold = 1
    Ladder <- MCLadder
    Systemd = FALSE
    MaxMishaps = 3
INVARIANTS InTime SparesHealthy
PROPERTIES Renews Recovers
