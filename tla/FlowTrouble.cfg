SPECIFICATION Spec
CONSTANTS
    N = 3
    Goto <- VerifySendsBack
    MaxLoops <- One
    AgentSteps <- Ends
    Overseen = TRUE
    EveryStep = FALSE
    Allow <- DefaultAllow
    Budget = 1
    Verdicts <- OneVerdict
    OffBrief <- SkipOrForward
    LateAt <- Nothing
    Torn = FALSE
    CrashAt <- CleanCrashes
    FaultAt <- InCharging
    MaxProcs = 2
INVARIANTS ReusesFreshWork EdgesAreBounded  VerdictIsOwn 
 
CHECK_DEADLOCK FALSE
