CONSTANTS
    ada = ada
    bob = bob
    dot = dot
    w1 = w1
    w2 = w2
    p1 = p1
    p2 = p2
    p3 = p3
    buy = buy
    call = call
    j1 = j1
    j2 = j2
    global = global
    webapp = webapp
    docs = docs
    Foci = {"writing", "reading", "mention"}
    Clients = {c1, c2}
    WriterOf <- TwoAdas
    Boards = {ops}
    Everywhere = Everywhere
    Keys = {k1}
    NoKey = NoKey
    FeedLimit = 2
    MaxPosts = 3
    MaxRoots = 1
    LastSecond = 2
    Panes = {p1, p2, p3}
    NameOf <- OneIsAda
    AliasesOf <- SitAt
    SpaceOf <- InSpace
    NoName = NoName
    AllName = AllName
    NoWorkspace = NoWorkspace
    Bodies <- SomeBodies
    Speakers <- SomeSpeakers
    Texts = {buy, call}
    NoText = NoText
    StartsWith <- OnlyItself
    Firsts <- FirstPages
    Writers = {run, cli}
    Flow = run
    Toggles = {space}
    NoOne = NoOne
    Readers = {read}
    MaxItems = 3
    MaxSaves = 1
    MaxOps = 2
    MaxChecks = 2
    MaxLoads = 2
    Titles = {ti1, ti2}
    Slips = {TRUE, FALSE}
    JobOrder <- TwoJobs
    NoJob = NoJob
    MaxKeys = 2
    MaxTalkKeys = 3
    MaxOthers = 1
    MaxTicks = 1
    ReadsPerTick = 12
    TalkIds = {global, webapp, docs}
    GlobalTalk = global
    NoTalk = NoTalk
    Notes = {n1, n2}
    FilesPerCall = 1
    MaxTexts = 2
    MaxDrops = 1
    MaxHands = 1
    MaxFails = 1
    FailsAt = {"rules", "scan", "compare", "call", "record"}
    Overlap = FALSE
    Restores = FALSE
    Upgrades = TRUE
SPECIFICATION KnowledgeSpec
SYMMETRY ClientsAlike
CHECK_DEADLOCK FALSE
INVARIANTS IdemOnce ReadersSeeThePosts NothingResurfaces MentionsReachTheNamed
