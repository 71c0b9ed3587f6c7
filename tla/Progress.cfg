CONSTANTS
    brief = brief
    Jobs <- Brief
    Stored <- JustBrief
    Job <- EverySecond
    Persistent <- Brief
    ByHand = {}
    Edited = {}
    Results = {"ok"}
    Losses = {"sight"}
    StoreFails = TRUE
    MaxCatchup = 2
    MissedAfter = 0
    FirstRunGrace = 1
    Timeout = 2
    Grace = 1
    Lookback = 5
    Slots = 1
    MaxRuns = 2
    MaxByHand = 1
    MaxTime = 2
    MaxDowns = 1
    SpaceIds = {s1, s2}
    Makers = {}
    Askers = {}
    NoSpace = NoSpace
    Trouble = {}
    MaxRestarts = 0
    MaxLost = 0
    MaxThreads = 2
    Notes = {n1, n2}
    FilesPerCall = 1
    MaxTexts = 2
    MaxDrops = 1
    MaxHands = 0
    MaxFails = 1
    FailsAt = {"compare", "call", "record"}
    Overlap = FALSE
    Restores = FALSE
    Upgrades = FALSE
    j1 = j1
    global = global
    webapp = webapp
    JobOrder <- OneJob
    NoJob = NoJob
    MaxKeys = 1
    MaxTalkKeys = 1
    MaxOthers = 1
    MaxTicks = 1
    ReadsPerTick = 12
    TalkIds = {global, webapp}
    GlobalTalk = global
    NoTalk = NoTalk
SPECIFICATION ProgressSpec
CHECK_DEADLOCK FALSE
PROPERTIES  ClaimsEnd  IndexCatchesUp ScreenCatchesUp
