----------------------------- MODULE MCProgress -----------------------------
(***************************************************************************)
(* Small instances for what must eventually happen: the daemon's jobs, the *)
(* threads of workspaces, the index and the open conversation of the       *)
(* board.  As in MCMachine a behaviour is one of one part, and `focus'     *)
(* says which.                                                             *)
(***************************************************************************)
EXTENDS JobRuns, Spaces, Index, Board

CONSTANTS brief, j1, global, webapp

VARIABLE focus

progressVars == <<focus, jobVars, spaceVars, indexVars, rowVars, talkVars, marqueeVars>>

\* A job every second on a kept agent, whose missed fires are replayed.
Brief == {brief}
JustBrief == {{brief}}
EverySecond == [j \in Brief |->
    [schedule |-> "interval", every |-> 1, runAt |-> 1, catchup |-> "all", created |-> 0]]
OneJob == <<j1>>

Boarding == <<rowVars, marqueeVars>>
Jobbing(A) == focus = "jobs" /\ A /\ UNCHANGED <<focus, spaceVars, indexVars, talkVars, Boarding>>
Housing(A) == focus = "threads" /\ A /\ UNCHANGED <<focus, jobVars, indexVars, talkVars, Boarding>>
Indexing(A) == focus = "index" /\ A /\ UNCHANGED <<focus, jobVars, spaceVars, talkVars, Boarding>>
Talking(A) == focus = "talk" /\ A /\ UNCHANGED <<focus, jobVars, spaceVars, indexVars, Boarding>>

\* An empty vault with nothing to index, and a conversation that is on the screen: what the
\* parts out of focus never leave.
IndexRests ==
    /\ note = [n \in Notes |-> 0] /\ lastText = 1 /\ dropped = 0
    /\ coll = [n \in Notes |-> {}] /\ mani = [n \in Notes |-> 0] /\ ruled = 0 /\ build = 1
    /\ sweeping = [s \in Sweepers |-> SweepOff]
    /\ wake = FALSE /\ indexOff = FALSE /\ hands = 0 /\ fails = 0
TalkRests ==
    /\ talks = TalkIds /\ reading = global /\ log = global /\ known = <<>> /\ picker = 0 /\ box = NoTalk
    /\ talkFlight = {} /\ posted = {}
    /\ talkKeys = 0 /\ talkOthers = 0 /\ talkTicks = 0

ProgressInit ==
    /\ focus \in {"jobs", "threads", "index", "talk"}
    /\ JobsInit /\ SpacesInit
    /\ IF focus = "index" THEN IndexInit ELSE IndexRests
    /\ IF focus = "talk" THEN TalkInit ELSE TalkRests
    /\ RowsInit /\ rows[j1].on /\ MarqueeInit /\ scrolling

ProgressNext ==
    \/ Jobbing(JobsNext) \/ Housing(ThreadsNext)
    \/ Indexing(IndexNext) \/ Talking(TalkNext)

\* The fairness of the parts (JobsFairSpec, SpacesFairSpec, IndexFairSpec, TalkFairSpec).
\* One conjunct serves a step of several parts: all but the one in focus are disabled for good.
ProgressSpec ==
    /\ ProgressInit /\ [][ProgressNext]_progressVars
    /\ WF_progressVars(Jobbing(Tick) \/ Housing(SweepLists)
                        \/ Indexing(IndexStep("daemon")) \/ Talking(TalkAnswers))
    /\ WF_progressVars(Jobbing(Stopped) \/ Housing(SweepReads) \/ Indexing(IndexStep("hand")))
    /\ SF_progressVars(Jobbing(DaemonStart))
    /\ SF_progressVars(Jobbing(ReconcileRuns)) /\ SF_progressVars(Jobbing(ReconcileParked))
    /\ WF_progressVars(Jobbing(\E x \in pass : Resolve(x)) \/ Housing(SweepEnds) \/ Indexing(IndexTick))
    /\ WF_progressVars(Jobbing(LaunchStops(brief) \/ \E r \in Runs : Launch(r, brief))
                        \/ Housing(AskName("sweep")) \/ Indexing(WorkerDone))
    /\ WF_progressVars(Jobbing(Supervise(1)) \/ Housing(AskFails("sweep")))
    /\ WF_progressVars(Jobbing(Supervise(2)) \/ Housing(SweepInserts))
    /\ WF_progressVars(Housing(\E s \in SpaceIds : SweepOpens(s)))
    /\ WF_progressVars(Housing(\E t \in DOMAIN threads : SweepCloses(t)))
    /\ WF_progressVars(Housing(\E t \in DOMAIN threads : LeaseEnds(t)))
=============================================================================
