SPECIFICATION FairSpec
CONSTANTS
    h1 = h1
    h2 = h2
    n1 = n1
    Old = Old
    New = New
    NoKey = NoKey
    Unset = Unset
    Node = {h1, h2, n1}
    OldHolders = {h1, h2}
    GrantSets = {g1, g2}
    Root <- MCRoot
    Rank <- MCRank
    Home = h1
    Waits = TRUE
    Resigns = FALSE
    MaxSeq = 3
    MaxStops = 4
    MaxFaults = 0
INVARIANT NeverFlat
