CONSTANTS
    NProcs = 3
    MaxKills = 1
    Removals = TRUE
    Stops = 1
    MaxOutside = 2
    Busies = {TRUE, FALSE}
SPECIFICATION PairFairSpec
CHECK_DEADLOCK FALSE
PROPERTIES PairIsWhole AbandonedPairLeaves 
