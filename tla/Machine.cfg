CONSTANTS
    brief = brief
    errand = errand
    launch = launch
    Foci = {"jobs", "pair", "own", "room", "threads"}
    Jobs <- ThreeJobs
    Stored <- OneOfThree
    Job <- ThreeSchedules
    Persistent <- Brief
    ByHand <- Errand
    Edited <- Launch1
    Results <- BadThenOk
    Losses <- AllLosses
    StoreFails = TRUE
    MaxCatchup = 2
    MissedAfter = 0
    FirstRunGrace = 1
    Timeout = 2
    Grace = 1
    Lookback = 5
    Slots = 1
    MaxRuns = 2
    MaxByHand = 1
    MaxTime = 2
    MaxDowns = 1
    NProcs = 3
    MaxKills = 1
    Removals = FALSE
    Stops = 1
    MaxOutside = 3
    Busies = {FALSE}
    SpaceIds = {s1, s2}
    Makers = {m1, m2}
    Askers = {a1}
    NoSpace = NoSpace
    Trouble <- AllTrouble
    MaxRestarts = 1
    MaxLost = 1
    MaxThreads = 2
SPECIFICATION MachineSpec
CHECK_DEADLOCK FALSE
INVARIANTS NoOverlap  RowsAreSound PairIsSound  RoomSaysWhatItIs
 
