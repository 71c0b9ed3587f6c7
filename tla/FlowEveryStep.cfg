SPECIFICATION FairSpec
CONSTANTS
    N = 2
    Goto <- TwoSteps
    MaxLoops <- Two
    AgentSteps <- OnlyFirst
    Overseen = TRUE
    EveryStep = TRUE
    Allow <- AllowSkip
    Budget = 2
    Verdicts <- MayBeQuiet
    OffBrief <- SaysRetry
    LateAt <- Nothing
    Torn = FALSE
    CrashAt <- MidStep
    FaultAt <- InClearing
    MaxProcs = 2
INVARIANTS RunsInOrder
PROPERTIES  DoneMeansDone
CHECK_DEADLOCK FALSE
