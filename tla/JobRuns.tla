------------------------------- MODULE JobRuns -------------------------------
(***************************************************************************)
(* The runs of scheduled jobs: the daemon that launches them, the          *)
(* supervisor that executes each (cmd/bermuda/job.go and internal/runner), *)
(* the agents it prompts through herdr, the rows it records in the store,  *)
(* and the reconciler that reads those rows again.                         *)
(*                                                                         *)
(* Rows and result files outlive every process; agents outlive the         *)
(* supervisor that prompted them.  A run that is a flow is FlowEngine's    *)
(* business.  Prompts, notes, token counts and tab labels are left out.    *)
(***************************************************************************)
EXTENDS Schedule

CONSTANTS
    Jobs,
    Stored,         \* the sets of jobs a store may hold at the start
    Job,            \* per job its schedule: [schedule, every, runAt, catchup, created]
    Persistent,     \* the jobs whose agent is kept between runs
    Timeout,        \* what one run is given
    Grace,          \* inFlightGrace
    Lookback,       \* inFlightLookback
    Slots,          \* runs the daemon executes at once
    ByHand,         \* the jobs a person also starts with job run
    Edited,         \* the jobs a person edits, pauses and prunes
    Results,        \* what an agent may leave in its result.json
    Losses,         \* what may go wrong: "start" and "sight" of an agent, which "asks" or is "gone"
    StoreFails,     \* the outcome of a run may fail to reach its row
    MaxRuns, MaxByHand, MaxTime, MaxDowns     \* bounds: runs, those by hand, seconds, ends of a process

ASSUME JobsAssumption ==
    /\ Stored \subseteq SUBSET Jobs /\ Persistent \subseteq Jobs /\ ByHand \subseteq Jobs /\ Edited \subseteq Jobs
    /\ Results \subseteq {"bad", "ok", "failed"}
    /\ Losses \subseteq {"start", "sight", "asks", "gone"} /\ StoreFails \in BOOLEAN
    /\ \A j \in Jobs : Job[j].created \in Int /\ Job[j].runAt \in Int
ASSUME NumbersAssumption ==
    /\ Timeout \in Nat /\ Grace \in Nat /\ Lookback \in Nat \ {0} /\ Slots \in Nat \ {0}
    /\ MaxRuns \in Nat /\ MaxByHand \in Nat /\ MaxTime \in Nat /\ MaxDowns \in Nat

Runs == 1..MaxRuns
Agents == Jobs \cup Runs

VARIABLES
    now,
    enabled,    \* per job its row: "on", "off" or "deleted"
    edit,       \* the job somebody read to write back whole
    info,       \* per run its job, its start and who launched it
    row,        \* per run what its row says
    file,       \* per run its result.json
    status,     \* per agent what herdr says of it
    tasks,      \* per agent the runs it was prompted with and has not settled
    sup,        \* per run where its supervisor is
    seen,       \* how its wait for the agent ended
    verdict,    \* what it classified
    daemon, downs,
    claimed,    \* daemon.inflight
    owed,       \* the runs a launch still has to make
    first,      \* it has made none yet
    cur,        \* per launch the run it executes, which holds a slot
    pass        \* the rows the reconciler read and has not judged

jobsTable == <<enabled, edit>>
agentVars == <<status, tasks>>
supVars == <<sup, seen, verdict>>
daemonVars == <<daemon, downs, claimed, owed, first, cur>>
jobVars == <<now, jobsTable, info, row, file, agentVars, supVars, daemonVars, pass>>

NoRow == [outcome |-> "none", why |-> "", named |-> FALSE]
NoInfo == [job |-> "", at |-> 0, by |-> ""]
NoEdit == [job |-> "", state |-> "off"]
Made == {r \in Runs : row[r].outcome # "none"}
RunsOf(j) == {r \in Made : info[r].job = j}

Agent(r) == IF info[r].job \in Persistent THEN info[r].job ELSE r
Live(r) == sup[r] \notin {"none", "over", "killed"}
Readable(r) == file[r] \in {"ok", "failed"}
Verdict(r) == IF file[r] = "ok" THEN "done" ELSE "failed"
\* The clock of the model stops at MaxTime, and every deadline has come by then.
Expired(r) == now >= info[r].at + Timeout \/ now = MaxTime

\* LastRun: the newest row of the job.
Anchor(j) == IF RunsOf(j) = {} THEN Never
             ELSE info[CHOOSE r \in RunsOf(j) : \A q \in RunsOf(j) : q <= r].at

JobsInit ==
    /\ now = 0
    /\ \E S \in Stored : enabled = [j \in Jobs |-> IF j \in S THEN "on" ELSE "deleted"]
    /\ edit = NoEdit
    /\ info = [r \in Runs |-> NoInfo] /\ row = [r \in Runs |-> NoRow]
    /\ file = [r \in Runs |-> "none"]
    /\ status = [a \in Agents |-> "none"] /\ tasks = [a \in Agents |-> {}]
    /\ sup = [r \in Runs |-> "none"] /\ seen = [r \in Runs |-> ""]
    /\ verdict = [r \in Runs |-> NoRow]
    /\ daemon = "up" /\ downs = 0 /\ claimed = {}
    /\ owed = [j \in Jobs |-> 0] /\ first = [j \in Jobs |-> FALSE] /\ cur = [j \in Jobs |-> 0]
    /\ pass = {}

Tick ==
    /\ now < MaxTime
    /\ now' = now + 1
    /\ UNCHANGED <<jobsTable, info, row, file, agentVars, supVars, daemonVars, pass>>

-----------------------------------------------------------------------------
(* Commands on a job.  An edit reads the whole row and writes the whole row back. *)

JobEditReads(j) ==
    /\ edit = NoEdit /\ enabled[j] # "deleted"
    /\ edit' = [job |-> j, state |-> enabled[j]]
    /\ UNCHANGED <<now, enabled, info, row, file, agentVars, supVars, daemonVars, pass>>

PutJob ==
    /\ edit # NoEdit
    /\ enabled' = [enabled EXCEPT ![edit.job] = edit.state]
    /\ edit' = NoEdit
    /\ UNCHANGED <<now, info, row, file, agentVars, supVars, daemonVars, pass>>

SetEnabled(j, state) ==
    /\ enabled[j] \notin {"deleted", state}
    /\ enabled' = [enabled EXCEPT ![j] = state]
    /\ UNCHANGED <<now, edit, info, row, file, agentVars, supVars, daemonVars, pass>>

\* job prune --yes deletes the one-shots whose last run is done; the rows of runs stay.
Finished(j) ==
    /\ Job[j].schedule = "once" /\ RunsOf(j) # {}
    /\ row[CHOOSE r \in RunsOf(j) : \A q \in RunsOf(j) : q <= r].outcome = "done"

PruneJobs ==
    /\ Edited # {} /\ \E j \in Jobs : Finished(j) /\ enabled[j] # "deleted"
    /\ enabled' = [j \in Jobs |-> IF Finished(j) THEN "deleted" ELSE enabled[j]]
    /\ UNCHANGED <<now, edit, info, row, file, agentVars, supVars, daemonVars, pass>>

-----------------------------------------------------------------------------
(* The sweep and the launches of the daemon. *)

\* The row of an earlier fire still says running, and could still be true.
StillRunningVariant(j) == FALSE

StillRunning(j) ==
    \E r \in RunsOf(j) :
        /\ Cardinality({q \in RunsOf(j) : q > r}) < Lookback
        /\ row[r].outcome = "running"
        /\ now - info[r].at < Timeout + Grace

\* One claim for the whole backlog, without the look at the claims of this process.
SweepVariant(j) ==
    /\ daemon = "up" /\ enabled[j] = "on"
    /\ LET fires == Due(Job[j], Anchor(j), now) IN
           /\ fires # {} /\ ~StillRunning(j)
           /\ claimed' = claimed \cup {j}
           /\ owed' = [owed EXCEPT ![j] = Cardinality(fires)]
           /\ first' = [first EXCEPT ![j] = TRUE]
    /\ cur' = [cur EXCEPT ![j] = 0]
    /\ UNCHANGED <<now, jobsTable, info, row, file, agentVars, supVars, daemon, downs, pass>>

\* sweep, for one of its jobs: one claim for the whole backlog.
Sweep(j) ==
    /\ daemon = "up" /\ enabled[j] = "on"
    /\ j \notin claimed
    /\ LET fires == Due(Job[j], Anchor(j), now) IN
           /\ fires # {} /\ ~StillRunning(j)
           /\ owed' = [owed EXCEPT ![j] = Cardinality(fires)]
    /\ claimed' = claimed \cup {j}
    /\ first' = [first EXCEPT ![j] = TRUE]
    /\ UNCHANGED <<now, jobsTable, info, row, file, agentVars, supVars, daemon, downs, cur, pass>>

\* executePrompt records the run as started before any work.
Record(r, j, who) ==
    /\ row[r].outcome = "none" /\ \A q \in Runs : q < r => row[q].outcome # "none"
    /\ info' = [info EXCEPT ![r] = [job |-> j, at |-> now, by |-> who]]
    /\ row' = [row EXCEPT ![r] = [outcome |-> "running", why |-> "", named |-> FALSE]]
    /\ sup' = [sup EXCEPT ![r] = "begin"]
    /\ UNCHANGED <<now, jobsTable, file, agentVars, seen, verdict, downs, pass>>

\* launch: a slot, and the next run of the backlog; a backlog stops at shutdown.
Busy == {j \in Jobs : cur[j] # 0}

Launch(r, j) ==
    /\ j \in claimed /\ cur[j] = 0 /\ daemon # "down"
    /\ Cardinality(Busy) < Slots
    /\ daemon = "up" \/ first[j]
    /\ Record(r, j, "daemon")
    /\ cur' = [cur EXCEPT ![j] = r]
    /\ first' = [first EXCEPT ![j] = FALSE]
    /\ UNCHANGED <<daemon, claimed, owed>>

\* The launch ends at shutdown, while it waits for a slot.
LaunchStops(j) ==
    /\ daemon = "stopping" /\ j \in claimed /\ cur[j] = 0
    /\ claimed' = claimed \ {j}
    /\ owed' = [owed EXCEPT ![j] = 0]
    /\ UNCHANGED <<now, jobsTable, info, row, file, agentVars, supVars, daemon, downs, first, cur, pass>>

JobRun(r, j) ==
    /\ j \in ByHand /\ enabled[j] # "deleted"
    /\ Cardinality({q \in Made : info[q].by = "hand"}) < MaxByHand
    /\ Record(r, j, "hand")
    /\ UNCHANGED <<daemon, claimed, owed, first, cur>>

-----------------------------------------------------------------------------
(* The supervisor: ExecuteIn and promptAndClassify. *)

Settle(r, how) ==
    /\ sup' = [sup EXCEPT ![r] = "classify"]
    /\ seen' = [seen EXCEPT ![r] = how]

\* A run that parks before its prompt is sent: no tab, no start, or an agent that asks something.
ParkEarly(r, why) ==
    /\ sup' = [sup EXCEPT ![r] = "persist"]
    /\ verdict' = [verdict EXCEPT ![r] = [outcome |-> "parked", why |-> why, named |-> TRUE]]

StartFails(r) ==
    /\ sup[r] = "begin" /\ "start" \in Losses
    /\ ParkEarly(r, "no_result")
    /\ UNCHANGED <<now, jobsTable, info, row, file, agentVars, seen, daemonVars, pass>>

\* A persistent agent is looked up first; only one that waits for a human is not prompted.
AgentIsBlocked(r) ==
    /\ sup[r] = "begin" /\ Agent(r) \in Persistent /\ status[Agent(r)] = "blocked"
    /\ ParkEarly(r, "blocked")
    /\ UNCHANGED <<now, jobsTable, info, row, file, agentVars, seen, daemonVars, pass>>

Prompt(r) ==
    /\ sup[r] = "begin"
    /\ ~(Agent(r) \in Persistent /\ status[Agent(r)] = "blocked")
    /\ status' = [status EXCEPT ![Agent(r)] = "working"]
    /\ tasks' = [tasks EXCEPT ![Agent(r)] = @ \cup {r}]
    /\ sup' = [sup EXCEPT ![r] = "waiting"]
    /\ UNCHANGED <<now, jobsTable, info, row, file, seen, verdict, daemonVars, pass>>

\* prompt returns: the agent settled, asked, or is still at work when the time is up.
WaitEnds(r) ==
    /\ sup[r] = "waiting"
    /\ \/ status[Agent(r)] \in {"idle", "blocked"} /\ Settle(r, status[Agent(r)])
       \/ status[Agent(r)] = "working" /\ Expired(r) /\ Settle(r, "timeout")
    /\ UNCHANGED <<now, jobsTable, info, row, file, agentVars, verdict, daemonVars, pass>>

\* Any other error: bermuda lost sight of the agent, which may work on.
LoseSight(r) ==
    /\ sup[r] = "waiting"
    /\ "sight" \in Losses \/ status[Agent(r)] = "none"
    /\ sup' = [sup EXCEPT ![r] = "awaiting"]
    /\ UNCHANGED <<now, jobsTable, info, row, file, agentVars, seen, verdict, daemonVars, pass>>

\* awaitResult: the file, or the end of the job's budget.
AwaitEnds(r) ==
    /\ sup[r] = "awaiting"
    /\ Readable(r) \/ Expired(r)
    /\ Settle(r, "lost")
    /\ UNCHANGED <<now, jobsTable, info, row, file, agentVars, verdict, daemonVars, pass>>

\* The park reasons, in the order classify asks for them.
ParkReason(r) ==
    CASE seen[r] = "blocked" -> "blocked"
      [] seen[r] = "timeout" -> "timeout"
      [] file[r] = "bad" -> "bad_result"
      [] seen[r] = "lost" -> "agent_lost"
      [] OTHER -> "no_result"

\* A classification that takes the agent's rest for the end of its work.
ClassifyVariant(r) ==
    /\ sup[r] = "classify"
    /\ verdict' = [verdict EXCEPT ![r] =
           IF Readable(r) \/ seen[r] = "idle"
           THEN [outcome |-> Verdict(r), why |-> "", named |-> TRUE]
           ELSE [outcome |-> "parked", why |-> ParkReason(r), named |-> TRUE]]
    /\ sup' = [sup EXCEPT ![r] = "persist"]
    /\ UNCHANGED <<now, jobsTable, info, row, file, agentVars, seen, daemonVars, pass>>

\* classify, and the tab of a run that is done and whose agent is not kept.
Classify(r) ==
    /\ sup[r] = "classify"
    /\ verdict' = [verdict EXCEPT ![r] =
           IF Readable(r) THEN [outcome |-> Verdict(r), why |-> "", named |-> TRUE]
           ELSE [outcome |-> "parked", why |-> ParkReason(r), named |-> TRUE]]
    /\ sup' = [sup EXCEPT ![r] = "persist"]
    /\ seen' = [seen EXCEPT ![r] = ""]
    /\ IF file[r] = "ok" /\ Agent(r) \notin Persistent
       THEN /\ status' = [status EXCEPT ![Agent(r)] = "none"]
            /\ tasks' = [tasks EXCEPT ![Agent(r)] = {}]
       ELSE UNCHANGED agentVars
    /\ UNCHANGED <<now, jobsTable, info, row, file, daemonVars, pass>>

\* A release that comes one run too late.
ExecutedVariant(r) ==
    IF info[r].by = "daemon"
    THEN LET j == info[r].job IN
         /\ cur' = [cur EXCEPT ![j] = 0]
         /\ owed' = [owed EXCEPT ![j] = @ - 1]
         /\ claimed' = IF owed[j] = 0 THEN claimed \ {j} ELSE claimed
    ELSE UNCHANGED <<cur, owed, claimed>>

\* The slot is given back; the last run of a launch gives the claim back too.
Executed(r) ==
    IF info[r].by = "daemon"
    THEN LET j == info[r].job IN
         /\ cur' = [cur EXCEPT ![j] = 0]
         /\ owed' = [owed EXCEPT ![j] = @ - 1]
         /\ claimed' = IF owed[j] = 1 THEN claimed \ {j} ELSE claimed
    ELSE UNCHANGED <<cur, owed, claimed>>

\* persist writes the whole row, and a one-shot is disabled even if that failed.
Persist(r) ==
    /\ sup[r] = "persist"
    /\ \/ row' = [row EXCEPT ![r] = verdict[r]]
       \/ StoreFails /\ UNCHANGED row
    /\ sup' = [sup EXCEPT ![r] = "over"]
    /\ verdict' = [verdict EXCEPT ![r] = NoRow]
    /\ enabled' = [enabled EXCEPT ![info[r].job] =
           IF Job[info[r].job].schedule = "once" /\ @ = "on" THEN "off" ELSE @]
    /\ Executed(r)
    /\ UNCHANGED <<now, edit, info, file, agentVars, seen, daemon, downs, first, pass>>

-----------------------------------------------------------------------------
(* Agents.  One settles with or without a result; what it was not prompted  *)
(* with anew it may still write after its supervisor gave up.               *)

Writes(a, r, what) ==
    /\ status[a] = "working" /\ r \in tasks[a] /\ ~Readable(r)
    /\ what # file[r]
    /\ file' = [file EXCEPT ![r] = what]
    /\ UNCHANGED <<now, jobsTable, info, row, agentVars, supVars, daemonVars, pass>>

AgentSettles(a) ==
    /\ status[a] = "working"
    /\ status' = [status EXCEPT ![a] = "idle"]
    /\ tasks' = [tasks EXCEPT ![a] = {}]
    /\ UNCHANGED <<now, jobsTable, info, row, file, supVars, daemonVars, pass>>

AgentAsks(a) ==
    /\ status[a] = "working" /\ "asks" \in Losses
    /\ status' = [status EXCEPT ![a] = "blocked"]
    /\ UNCHANGED <<now, jobsTable, info, row, file, tasks, supVars, daemonVars, pass>>

HumanAnswers(a) ==
    /\ status[a] = "blocked"
    /\ status' = [status EXCEPT ![a] = "working"]
    /\ UNCHANGED <<now, jobsTable, info, row, file, tasks, supVars, daemonVars, pass>>

AgentIsGone(a) ==
    /\ status[a] # "none" /\ "gone" \in Losses
    /\ status' = [status EXCEPT ![a] = "none"]
    /\ tasks' = [tasks EXCEPT ![a] = {}]
    /\ UNCHANGED <<now, jobsTable, info, row, file, supVars, daemonVars, pass>>

-----------------------------------------------------------------------------
(* The end and the start of the daemon process.                            *)

\* A shutdown lets started runs finish.
Shutdown ==
    /\ daemon = "up" /\ downs < MaxDowns
    /\ daemon' = "stopping" /\ downs' = downs + 1
    /\ UNCHANGED <<now, jobsTable, info, row, file, agentVars, supVars, claimed, owed, first, cur, pass>>

Stopped ==
    /\ daemon = "stopping" /\ claimed = {}
    /\ daemon' = "down"
    /\ UNCHANGED <<now, jobsTable, info, row, file, agentVars, supVars, downs, claimed, owed, first, cur, pass>>

\* A crash takes the supervisors with it, and leaves their agents at work.
Crash ==
    /\ daemon # "down" /\ downs < MaxDowns
    /\ daemon' = "down" /\ downs' = downs + 1
    /\ sup' = [r \in Runs |-> IF Live(r) /\ info[r].by = "daemon" THEN "killed" ELSE sup[r]]
    /\ seen' = [r \in Runs |-> IF sup'[r] = "killed" THEN "" ELSE seen[r]]
    /\ verdict' = [r \in Runs |-> IF sup'[r] = "killed" THEN NoRow ELSE verdict[r]]
    /\ claimed' = {} /\ cur' = [j \in Jobs |-> 0]
    /\ owed' = [j \in Jobs |-> 0] /\ first' = [j \in Jobs |-> FALSE]
    /\ UNCHANGED <<now, jobsTable, info, row, file, agentVars, pass>>

\* job run is interrupted.
Interrupted(r) ==
    /\ Live(r) /\ info[r].by = "hand" /\ downs < MaxDowns
    /\ sup' = [sup EXCEPT ![r] = "killed"]
    /\ seen' = [seen EXCEPT ![r] = ""] /\ verdict' = [verdict EXCEPT ![r] = NoRow]
    /\ downs' = downs + 1
    /\ UNCHANGED <<now, jobsTable, info, row, file, agentVars, daemon, claimed, owed, first, cur, pass>>

-----------------------------------------------------------------------------
(* The reconciler: of the daemon as it starts, of ensure, and of the       *)
(* daemon's ticker, which reads the parked rows only.                      *)

NoResultSeen == {"no_result", "agent_lost", "timeout", "orphaned"}

\* The rows a pass goes through, as they are when it reads them.
Read(rs) == {[run |-> r, read |-> row[r]] : r \in rs}
RunningRows == {r \in Runs : row[r].outcome = "running"}
ParkedRows(whys) == {r \in Runs : row[r].outcome = "parked" /\ row[r].why \in whys}

\* ensure, after a start of herdr and on its timer.
ReconcileRuns ==
    /\ pass = {} /\ pass' = Read(RunningRows)
    /\ pass' # {}
    /\ UNCHANGED <<now, jobsTable, info, row, file, agentVars, supVars, daemonVars>>

ReconcileParkedVariant ==
    /\ pass = {} /\ pass' = Read(ParkedRows({"no_result"}))
    /\ pass' # {}
    /\ UNCHANGED <<now, jobsTable, info, row, file, agentVars, supVars, daemonVars>>

\* Only the parks that mean that no result was seen are read again.
ReconcileParked ==
    /\ daemon = "up"
    /\ pass = {} /\ pass' = Read(ParkedRows(NoResultSeen))
    /\ pass' # {}
    /\ UNCHANGED <<now, jobsTable, info, row, file, agentVars, supVars, daemonVars>>

\* resolveRun and reconcileOneParked: the file decides; without one only a row
\* that names its agent is judged, by whether herdr still has it.  What is
\* written is the row as it was read.
Resolve(x) ==
    /\ x \in pass
    /\ pass' = pass \ {x}
    /\ \/ /\ Readable(x.run)
          /\ row' = [row EXCEPT ![x.run] = [x.read EXCEPT !.outcome = Verdict(x.run), !.why = ""]]
       \/ /\ ~Readable(x.run) /\ x.read.outcome = "running"
          /\ x.read.named /\ status[Agent(x.run)] = "none"
          /\ row' = [row EXCEPT ![x.run] = [x.read EXCEPT !.outcome = "parked", !.why = "orphaned"]]
       \/ /\ ~Readable(x.run)
          /\ ~(x.read.outcome = "running" /\ x.read.named /\ status[Agent(x.run)] = "none")
          /\ UNCHANGED row
    /\ UNCHANGED <<now, jobsTable, info, file, agentVars, supVars, daemonVars>>

\* daemonCmd: reconcileOnStart reads the rows left running before anything is launched.
DaemonStart ==
    /\ daemon = "down" /\ pass = {}
    /\ daemon' = "up"
    /\ pass' = Read(RunningRows)
    /\ UNCHANGED <<now, jobsTable, info, row, file, agentVars, supVars, downs, claimed, owed, first, cur>>

-----------------------------------------------------------------------------
Supervise(r) ==
    \/ StartFails(r) \/ AgentIsBlocked(r) \/ Prompt(r)
    \/ WaitEnds(r) \/ LoseSight(r) \/ AwaitEnds(r)
    \/ Classify(r) \/ Persist(r)

AgentActs(a) ==
    \/ AgentSettles(a) \/ AgentAsks(a) \/ HumanAnswers(a) \/ AgentIsGone(a)
    \/ \E r \in Runs, what \in Results : Writes(a, r, what)

Commands(j) ==
    /\ j \in Edited
    /\ \/ JobEditReads(j) \/ SetEnabled(j, "on") \/ SetEnabled(j, "off")

Scheduling(j) ==
    \/ Sweep(j) \/ LaunchStops(j)
    \/ \E r \in Runs : Launch(r, j) \/ JobRun(r, j)

JobsNext ==
    \/ Tick \/ PutJob \/ PruneJobs
    \/ \E j \in Jobs : Commands(j) \/ Scheduling(j)
    \/ \E r \in Runs : Supervise(r) \/ Interrupted(r)
    \/ \E a \in Agents : AgentActs(a)
    \/ Shutdown \/ Stopped \/ Crash \/ DaemonStart
    \/ ReconcileRuns \/ ReconcileParked
    \/ \E x \in pass : Resolve(x)

JobsSpec == JobsInit /\ [][JobsNext]_jobVars

\* Time passes, the daemon is started again by its peer, and it and the supervisors go on;
\* ensure runs on a timer.  No agent has to do anything.
JobsFairSpec ==
    /\ JobsSpec
    /\ WF_jobVars(Tick) /\ WF_jobVars(Stopped) /\ SF_jobVars(DaemonStart)
    /\ SF_jobVars(ReconcileRuns) /\ SF_jobVars(ReconcileParked)
    /\ WF_jobVars(\E x \in pass : Resolve(x))
    /\ \A j \in Jobs : WF_jobVars(LaunchStops(j) \/ \E r \in Runs : Launch(r, j))
    /\ \A r \in Runs : WF_jobVars(Supervise(r))

-----------------------------------------------------------------------------
(* Properties.                                                             *)

Outcomes == {"none", "running", "done", "failed", "parked"}
Whys == NoResultSeen \cup {"", "blocked", "bad_result"}
RowType == [outcome : Outcomes, why : Whys, named : BOOLEAN]
InfoType == [job : Jobs \cup {""}, at : 0..MaxTime, by : {"", "daemon", "hand"}]
Places == {"none", "begin", "waiting", "awaiting", "classify", "persist", "over", "killed"}

\* Every variable holds what the code keeps there.
JobsTypeOK ==
    /\ now \in 0..MaxTime /\ downs \in 0..MaxDowns
    /\ enabled \in [Jobs -> {"on", "off", "deleted"}]
    /\ edit \in [job : Jobs \cup {""}, state : {"on", "off"}]
    /\ info \in [Runs -> InfoType]
    /\ row \in [Runs -> RowType] /\ verdict \in [Runs -> RowType]
    /\ file \in [Runs -> {"none", "bad", "ok", "failed"}]
    /\ status \in [Agents -> {"none", "working", "blocked", "idle"}]
    /\ tasks \in [Agents -> SUBSET Runs]
    /\ sup \in [Runs -> Places]
    /\ seen \in [Runs -> {"", "idle", "blocked", "timeout", "lost"}]
    /\ daemon \in {"up", "stopping", "down"} /\ claimed \subseteq Jobs
    /\ owed \in [Jobs -> Nat] /\ first \in [Jobs -> BOOLEAN] /\ cur \in [Jobs -> 0..MaxRuns]
    /\ pass \subseteq [run : Runs, read : RowType]

\* The no-overlap rule of daemon.claim: two runs of one job that the daemon launched are
\* never supervised at once, whatever crashes, edits and backlogs came between.
NoOverlap ==
    \A q, r \in Runs :
        Live(q) /\ Live(r) /\ info[q].by = "daemon" /\ info[r].by = "daemon" /\ q # r
            => info[q].job # info[r].job

\* What stillRunning is for: a daemon that forgot its claims does not launch a second agent
\* while a run it launched before has a row that says running and could still be true.
NoSecondLaunch ==
    [][\A r \in Runs :
        row[r].outcome = "none" /\ row'[r].outcome = "running" /\ info'[r].by = "daemon" =>
            ~\E q \in RunsOf(info'[r].job) :
                /\ info[q].by = "daemon" /\ row[q].outcome = "running" /\ sup[q] = "killed"
                /\ now - info[q].at < Timeout]_jobVars

\* A one-shot fires once: the daemon launches one run of it, though a crash came before the
\* job was disabled, or an edit that was read before wrote it back enabled.
OnceFiresOnce ==
    \A j \in Jobs : Job[j].schedule = "once" =>
        Cardinality({r \in RunsOf(j) : info[r].by = "daemon"}) <= 1

\* A row says done or failed only on the word of a readable result.json, and the same word:
\* not of herdr's status, and whether a supervisor or the reconciler wrote it.
OutcomeIsProven ==
    \A r \in Runs : row[r].outcome \in {"done", "failed"} =>
        Readable(r) /\ row[r].outcome = Verdict(r)

\* What the supervisors, the daemon and the reconciler keep is well formed and proven.
RowsAreSound == JobsTypeOK /\ OutcomeIsProven

\* The rows are settled by the disk: a result that can be read reaches the row of its run,
\* unless the run parked for a human or for a file that was unreadable then.
Settled(r) == row[r].outcome = Verdict(r)
NotRevisited(r) == row[r].outcome = "parked" /\ row[r].why \in {"blocked", "bad_result"}
RowsSettle == \A r \in Runs : Readable(r) ~> Settled(r) \/ NotRevisited(r)

\* The daemon gives every claim back, so no job stays claimed with nothing running.
ClaimsEnd == \A j \in Jobs : (j \in claimed) ~> (j \notin claimed)

\* reconcile.go: no result and the agent gone parks the run as orphaned for a human.
OrphansAreParked ==
    \A r \in Runs :
        (row[r].outcome = "running" /\ sup[r] = "killed") ~>
            (row[r].outcome # "running" \/ status[Agent(r)] # "none")

\* sched.go: catchup=skip drops what was missed; the current fire survives.
SkipTakesTheCurrentFire ==
    \A j \in Jobs :
        Job[j].catchup = "skip" /\ Anchor(j) # Never /\
        (\E t \in FiresAfter(Job[j], Anchor(j), now) : now - t <= MissedAfter)
            => Due(Job[j], Anchor(j), now) # {}
=============================================================================
