---------------------------- MODULE JobRunsProofs ----------------------------
(***************************************************************************)
(* Theorems about JobRuns, for any jobs, schedules, timeouts, slots and    *)
(* bounds: what the rows say is proven, no job overlaps itself, a one-shot *)
(* fires once.                                                             *)
(***************************************************************************)
EXTENDS JobRuns, FiniteSetTheorems, WellFoundedInduction, TLAPS

(***************************************************************************)
(* The claims: a run that the daemon supervises is the one its job's       *)
(* launch executes, and such a job is claimed and owed at least that run.  *)
(***************************************************************************)
Launched(r) == Live(r) /\ info[r].by = "daemon"
ClaimsInv ==
    /\ \A r \in Runs : Launched(r) => info[r].job \in Jobs /\ cur[info[r].job] = r
    /\ \A j \in Jobs : cur[j] # 0 =>
           cur[j] \in Runs /\ j \in claimed /\ Launched(cur[j]) /\ info[cur[j]].job = j
    /\ \A j \in claimed : owed[j] # 0

(***************************************************************************)
(* The rows: what a supervisor or a pass of the reconciler is about to     *)
(* write is as proven as what is written, and a row is never taken back.   *)
(***************************************************************************)
Proven(r, x) == x.outcome \in {"done", "failed"} => Readable(r) /\ x.outcome = Verdict(r)
Making(r) == row[r].outcome # "none"
RowsInv ==
    /\ \A r \in Runs : Proven(r, row[r]) /\ Proven(r, verdict[r])
    /\ \A r \in Runs : sup[r] = "persist" => verdict[r].outcome # "none"
    /\ \A r \in Runs : sup[r] # "none" => Making(r)
    /\ \A x \in pass : x.read.outcome \in {"running", "parked"} /\ Making(x.run)

(***************************************************************************)
(* The order of runs and their starts, and the runs of a one-shot: none    *)
(* before its launch, one from then on, and none that began too early.     *)
(***************************************************************************)
TimeInv == \A q, r \in Runs : (Making(r) /\ q <= r) =>
    Making(q) /\ info[q].at <= info[r].at /\ info[r].at <= now
Fired(r, j) == Making(r) /\ info[r].job = j /\ info[r].by = "daemon"
OnceInv == \A j \in Jobs : Job[j].schedule = "once" =>
    /\ \A r \in Runs : Fired(r, j) => info[r].at >= Job[j].runAt
    /\ \A q, r \in Runs : (Fired(q, j) /\ Fired(r, j)) => q = r
    /\ j \in claimed => owed[j] = 1 /\ Job[j].runAt <= now
    /\ (j \in claimed /\ cur[j] = 0) => \A r \in Runs : ~Fired(r, j)

JobInv == JobsTypeOK /\ ClaimsInv /\ RowsInv /\ TimeInv /\ OnceInv

LEMMA InfoFields ==
    ASSUME JobsTypeOK, NEW r \in Runs
    PROVE  info[r].at \in 0..MaxTime /\ info[r].job \in Jobs \cup {""}
<1>1. info \in [Runs -> InfoType]
  BY DEF JobsTypeOK
<1>2. info[r] \in InfoType
  BY <1>1
<1>3. QED
  BY <1>2 DEF InfoType

-----------------------------------------------------------------------------
(* Steps that leave one part of the invariant alone. *)

SameLives == \A r \in Runs : Live(r)' <=> Live(r)
SameMaking == \A r \in Runs : Making(r)' <=> Making(r)

LEMMA ClaimsFrame ==
    ASSUME ClaimsInv, SameLives, UNCHANGED <<info, cur, claimed, owed>> PROVE ClaimsInv'
BY DEF ClaimsInv, SameLives, Launched

LEMMA TimeFrame ==
    ASSUME TimeInv, SameMaking, UNCHANGED <<now, info>> PROVE TimeInv'
BY DEF TimeInv, SameMaking

LEMMA OnceFrame ==
    ASSUME OnceInv, SameMaking, UNCHANGED <<now, info, cur, claimed, owed>> PROVE OnceInv'
BY DEF OnceInv, SameMaking, Fired

LEMMA SameSup == ASSUME UNCHANGED sup PROVE SameLives
BY DEF SameLives, Live
LEMMA SameRow == ASSUME UNCHANGED row PROVE SameMaking
BY DEF SameMaking, Making

-----------------------------------------------------------------------------
(* Commands, agents, the end of the daemon: no run moves. *)

LEMMA QuietInv ==
    ASSUME JobInv, JobsTypeOK', UNCHANGED <<now, info, row, file, sup, verdict, claimed, owed, cur, pass>>
    PROVE  JobInv'
<1>1. ClaimsInv' /\ TimeInv' /\ OnceInv'
  BY ClaimsFrame, TimeFrame, OnceFrame, SameSup, SameRow DEF JobInv
<1>2. RowsInv'
  BY DEF JobInv, RowsInv, Proven, Readable, Verdict, Making
<1>3. QED
  BY <1>1, <1>2 DEF JobInv

LEMMA TickInv == ASSUME JobInv, NumbersAssumption, Tick PROVE JobInv'
<1> UNCHANGED <<jobsTable, info, row, file, agentVars, supVars, daemonVars, pass>>
  BY DEF Tick
<1>1. now \in 0..MaxTime /\ now' = now + 1 /\ now' \in 0..MaxTime
  <2>1. now \in 0..MaxTime
    BY DEF JobInv, JobsTypeOK
  <2>2. QED
    BY <2>1 DEF Tick, NumbersAssumption
<1>2. JobsTypeOK'
  BY <1>1 DEF JobInv, JobsTypeOK, jobsTable, agentVars, supVars, daemonVars
<1>3. ClaimsInv' /\ RowsInv'
  BY <1>1, ClaimsFrame, SameSup DEF JobInv, RowsInv, Proven, Readable, Verdict, Making, supVars, daemonVars
<1>4. TimeInv'
  <2>1. ASSUME NEW r \in Runs, info[r].at <= now PROVE info[r].at <= now'
    <3>1. info[r].at \in 0..MaxTime
      BY InfoFields DEF JobInv
    <3>2. QED
      BY <1>1, <2>1, <3>1, NumbersAssumption
  <2>2. QED
    BY <1>1, <2>1 DEF TimeInv, JobInv, Making
<1>5. OnceInv'
  <2>1. ASSUME NEW j \in Jobs, Job[j].runAt <= now PROVE Job[j].runAt <= now'
    BY <1>1, <2>1, JobsAssumption
  <2>2. QED
    BY <1>1, <2>1 DEF OnceInv, JobInv, Fired, Making, daemonVars
<1>6. QED
  BY <1>2, <1>3, <1>4, <1>5 DEF JobInv

LEMMA CommandsInv ==
    ASSUME JobInv, PutJob \/ PruneJobs \/ \E j \in Jobs : Commands(j) PROVE JobInv'
<1>1. enabled' \in [Jobs -> {"on", "off", "deleted"}] /\ edit' \in [job : Jobs \cup {""}, state : {"on", "off"}]
  <2>1. CASE PutJob
    BY <2>1 DEF PutJob, NoEdit, JobInv, JobsTypeOK
  <2>2. CASE PruneJobs
    BY <2>2 DEF PruneJobs, JobInv, JobsTypeOK
  <2>3. ASSUME NEW j \in Jobs, JobEditReads(j)
        PROVE  enabled' \in [Jobs -> {"on", "off", "deleted"}] /\ edit' \in [job : Jobs \cup {""}, state : {"on", "off"}]
    BY <2>3 DEF JobEditReads, JobInv, JobsTypeOK
  <2>4. ASSUME NEW j \in Jobs, NEW state \in {"on", "off"}, SetEnabled(j, state)
        PROVE  enabled' \in [Jobs -> {"on", "off", "deleted"}] /\ edit' \in [job : Jobs \cup {""}, state : {"on", "off"}]
    BY <2>4 DEF SetEnabled, JobInv, JobsTypeOK
  <2>5. QED
    BY <2>1, <2>2, <2>3, <2>4 DEF Commands
<1>2. UNCHANGED <<now, info, row, file, agentVars, supVars, daemonVars, pass>>
  BY DEF PutJob, PruneJobs, Commands, JobEditReads, SetEnabled
<1>3. JobsTypeOK'
  BY <1>1, <1>2 DEF JobInv, JobsTypeOK, agentVars, supVars, daemonVars
<1>4. QED
  BY <1>2, <1>3, QuietInv DEF supVars, daemonVars

LEMMA AgentInv ==
    ASSUME JobInv, NEW a \in Agents,
           AgentSettles(a) \/ AgentAsks(a) \/ HumanAnswers(a) \/ AgentIsGone(a)
    PROVE  JobInv'
<1>1. status' \in [Agents -> {"none", "working", "blocked", "idle"}] /\ tasks' \in [Agents -> SUBSET Runs]
  BY DEF AgentSettles, AgentAsks, HumanAnswers, AgentIsGone, JobInv, JobsTypeOK
<1>2. UNCHANGED <<now, jobsTable, info, row, file, supVars, daemonVars, pass>>
  BY DEF AgentSettles, AgentAsks, HumanAnswers, AgentIsGone
<1>3. JobsTypeOK'
  BY <1>1, <1>2 DEF JobInv, JobsTypeOK, jobsTable, supVars, daemonVars
<1>4. QED
  BY <1>2, <1>3, QuietInv DEF supVars, daemonVars

LEMMA WritesInv ==
    ASSUME JobInv, NEW a \in Agents, NEW r \in Runs, NEW what \in Results, Writes(a, r, what)
    PROVE  JobInv'
<1>1. what \in {"bad", "ok", "failed"}
  BY JobsAssumption
<1>2. file' = [file EXCEPT ![r] = what] /\ file \in [Runs -> {"none", "bad", "ok", "failed"}] /\ ~Readable(r)
      /\ UNCHANGED <<now, jobsTable, info, row, agentVars, supVars, daemonVars, pass>>
  BY DEF Writes, JobInv, JobsTypeOK
<1>3. file' \in [Runs -> {"none", "bad", "ok", "failed"}]
  BY <1>1, <1>2
<1>4. JobsTypeOK'
  BY <1>2, <1>3 DEF JobInv, JobsTypeOK, jobsTable, agentVars, supVars, daemonVars
<1>5. ASSUME NEW q \in Runs, Readable(q) PROVE Readable(q)' /\ Verdict(q)' = Verdict(q)
  BY <1>2, <1>5 DEF Readable, Verdict
<1>6. RowsInv'
  BY <1>2, <1>5 DEF JobInv, RowsInv, Proven, Making, supVars
<1>7. ClaimsInv' /\ TimeInv' /\ OnceInv'
  BY <1>2, ClaimsFrame, TimeFrame, OnceFrame, SameSup, SameRow DEF JobInv, supVars, daemonVars
<1>8. QED
  BY <1>4, <1>6, <1>7 DEF JobInv

LEMMA DaemonEndsInv ==
    ASSUME JobInv, NumbersAssumption, Shutdown \/ Stopped PROVE JobInv'
<1>1. daemon' \in {"up", "stopping", "down"} /\ downs' \in 0..MaxDowns
  <2>1. downs \in 0..MaxDowns
    BY DEF JobInv, JobsTypeOK
  <2>2. CASE Shutdown
    BY <2>1, <2>2 DEF Shutdown, NumbersAssumption
  <2>3. CASE Stopped
    BY <2>1, <2>3 DEF Stopped
  <2>4. QED
    BY <2>2, <2>3
<1>2. UNCHANGED <<now, jobsTable, info, row, file, agentVars, supVars, claimed, owed, first, cur, pass>>
  BY DEF Shutdown, Stopped
<1>3. JobsTypeOK'
  BY <1>1, <1>2 DEF JobInv, JobsTypeOK, jobsTable, agentVars, supVars
<1>4. QED
  BY <1>2, <1>3, QuietInv DEF supVars

-----------------------------------------------------------------------------
(* The supervisor moves one run on, and may put its verdict down. *)

Working == {"begin", "waiting", "awaiting", "classify", "persist"}

LEMMA MovesOn ==
    ASSUME JobInv, JobsTypeOK', NEW r \in Runs, sup[r] \in Working, NEW to \in Working,
           sup' = [sup EXCEPT ![r] = to], \A q \in Runs : Proven(q, verdict'[q]),
           \A q \in Runs : sup'[q] = "persist" => verdict'[q].outcome # "none",
           UNCHANGED <<now, info, row, file, claimed, owed, cur, pass>>
    PROVE  JobInv'
<1>1. sup \in [Runs -> Places]
  BY DEF JobInv, JobsTypeOK
<1>2. SameLives
  BY <1>1 DEF SameLives, Live, Working
<1>3. ClaimsInv' /\ TimeInv' /\ OnceInv'
  BY <1>2, ClaimsFrame, TimeFrame, OnceFrame, SameRow DEF JobInv
<1>4. \A q \in Runs : sup'[q] # "none" => Making(q)'
  BY <1>1 DEF JobInv, RowsInv, Making, Working
<1>5. RowsInv'
  BY <1>4 DEF JobInv, RowsInv, Proven, Readable, Verdict, Making
<1>6. QED
  BY <1>3, <1>5 DEF JobInv

\* Before the verdict.
LEMMA GoesOn ==
    ASSUME JobInv, JobsTypeOK', NEW r \in Runs, sup[r] \in Working, NEW to \in Working \ {"persist"},
           sup' = [sup EXCEPT ![r] = to],
           UNCHANGED <<now, info, row, file, verdict, claimed, owed, cur, pass>>
    PROVE  JobInv'
<1>1. \A q \in Runs : Proven(q, verdict'[q])
  BY DEF JobInv, RowsInv
<1>2. \A q \in Runs : sup'[q] = "persist" => verdict'[q].outcome # "none"
  <2>1. sup \in [Runs -> Places] /\ to # "persist"
    BY DEF JobInv, JobsTypeOK
  <2>2. \A q \in Runs : sup'[q] = "persist" => sup[q] = "persist"
    BY <2>1
  <2>3. QED
    BY <2>2 DEF JobInv, RowsInv
<1>3. to \in Working
  OBVIOUS
<1>4. QED
  BY <1>1, <1>2, <1>3, MovesOn

\* With the verdict v.
LEMMA Concludes ==
    ASSUME JobInv, JobsTypeOK', NEW r \in Runs, sup[r] \in Working, NEW v, Proven(r, v), v.outcome # "none",
           sup' = [sup EXCEPT ![r] = "persist"], verdict' = [verdict EXCEPT ![r] = v],
           UNCHANGED <<now, info, row, file, claimed, owed, cur, pass>>
    PROVE  JobInv'
<1>1. verdict \in [Runs -> RowType] /\ sup \in [Runs -> Places]
  BY DEF JobInv, JobsTypeOK
<1>2. \A q \in Runs : Proven(q, verdict'[q])
  BY <1>1 DEF JobInv, RowsInv
<1>3. \A q \in Runs : sup'[q] = "persist" => verdict'[q].outcome # "none"
  BY <1>1 DEF JobInv, RowsInv
<1>4. "persist" \in Working
  BY DEF Working
<1>5. QED
  BY <1>2, <1>3, <1>4, MovesOn

\* The variables a supervisor changes keep their types.
LEMMA SupTypes ==
    ASSUME JobsTypeOK, NEW r \in Runs, NEW to \in Working, sup' = [sup EXCEPT ![r] = to],
           seen' \in [Runs -> {"", "idle", "blocked", "timeout", "lost"}], verdict' \in [Runs -> RowType],
           status' \in [Agents -> {"none", "working", "blocked", "idle"}], tasks' \in [Agents -> SUBSET Runs],
           UNCHANGED <<now, jobsTable, info, row, file, daemonVars, pass>>
    PROVE  JobsTypeOK'
<1>1. sup' \in [Runs -> Places]
  BY DEF JobsTypeOK, Working, Places
<1>2. QED
  BY <1>1 DEF JobsTypeOK, jobsTable, daemonVars

LEMMA ParkedVerdict ==
    ASSUME NEW why \in Whys
    PROVE  LET v == [outcome |-> "parked", why |-> why, named |-> TRUE] IN
           v \in RowType /\ v.outcome # "none" /\ \A r : Proven(r, v)
BY DEF RowType, Outcomes, Proven

LEMMA ParkEarlyInv ==
    ASSUME JobInv, NEW r \in Runs, StartFails(r) \/ AgentIsBlocked(r) PROVE JobInv'
<1>1. PICK why \in {"no_result", "blocked"} : ParkEarly(r, why)
  BY DEF StartFails, AgentIsBlocked
<1> DEFINE v == [outcome |-> "parked", why |-> why, named |-> TRUE]
<1>2. v \in RowType /\ v.outcome # "none" /\ Proven(r, v)
  BY ParkedVerdict DEF Whys, NoResultSeen
<1>3. /\ sup' = [sup EXCEPT ![r] = "persist"] /\ verdict' = [verdict EXCEPT ![r] = v] /\ sup[r] = "begin"
      /\ UNCHANGED <<now, jobsTable, info, row, file, agentVars, seen, daemonVars, pass>>
  BY <1>1 DEF ParkEarly, StartFails, AgentIsBlocked
<1> HIDE DEF v
<1>4. verdict' \in [Runs -> RowType]
  BY <1>2, <1>3 DEF JobInv, JobsTypeOK
<1>5. JobsTypeOK'
  <2>1. seen' \in [Runs -> {"", "idle", "blocked", "timeout", "lost"}]
        /\ status' \in [Agents -> {"none", "working", "blocked", "idle"}] /\ tasks' \in [Agents -> SUBSET Runs]
    BY <1>3 DEF JobInv, JobsTypeOK, agentVars
  <2>2. "persist" \in Working
    BY DEF Working
  <2>3. QED
    BY <1>3, <1>4, <2>1, <2>2, SupTypes DEF JobInv
<1>6. QED
  BY <1>2, <1>3, <1>5, Concludes DEF Working, daemonVars

LEMMA WaitInv ==
    ASSUME JobInv, NEW r \in Runs, Prompt(r) \/ WaitEnds(r) \/ LoseSight(r) \/ AwaitEnds(r) PROVE JobInv'
<1>1. sup[r] \in Working /\ UNCHANGED <<now, jobsTable, info, row, file, verdict, daemonVars, pass>>
  BY DEF Prompt, WaitEnds, LoseSight, AwaitEnds, Working
<1>2. PICK to \in Working \ {"persist"} : sup' = [sup EXCEPT ![r] = to]
  <2>1. \/ sup' = [sup EXCEPT ![r] = "waiting"] \/ sup' = [sup EXCEPT ![r] = "awaiting"]
        \/ sup' = [sup EXCEPT ![r] = "classify"]
    BY DEF Prompt, WaitEnds, LoseSight, AwaitEnds, Settle
  <2>2. {"waiting", "awaiting", "classify"} \subseteq Working \ {"persist"}
    BY DEF Working
  <2>3. QED
    BY <2>1, <2>2
<1>3. status' \in [Agents -> {"none", "working", "blocked", "idle"}] /\ tasks' \in [Agents -> SUBSET Runs]
  <2>1. status \in [Agents -> {"none", "working", "blocked", "idle"}] /\ tasks \in [Agents -> SUBSET Runs]
    BY DEF JobInv, JobsTypeOK
  <2>2. CASE Prompt(r)
    <3>1. Agent(r) \in Agents
      BY JobsAssumption DEF Agent, Agents
    <3>2. status' = [status EXCEPT ![Agent(r)] = "working"] /\ tasks' = [tasks EXCEPT ![Agent(r)] = @ \cup {r}]
      BY <2>2 DEF Prompt
    <3>3. QED
      BY <2>1, <3>1, <3>2
  <2>3. CASE UNCHANGED agentVars
    BY <2>1, <2>3 DEF agentVars
  <2>4. QED
    BY <2>2, <2>3 DEF WaitEnds, LoseSight, AwaitEnds
<1>4. seen' \in [Runs -> {"", "idle", "blocked", "timeout", "lost"}]
  <2>1. seen \in [Runs -> {"", "idle", "blocked", "timeout", "lost"}]
    BY DEF JobInv, JobsTypeOK
  <2>2. UNCHANGED seen \/ \E how \in {"idle", "blocked", "timeout", "lost"} : seen' = [seen EXCEPT ![r] = how]
    BY DEF Prompt, WaitEnds, LoseSight, AwaitEnds, Settle
  <2>3. QED
    BY <2>1, <2>2
<1>5. verdict' \in [Runs -> RowType]
  BY <1>1 DEF JobInv, JobsTypeOK
<1>6. JobsTypeOK'
  BY <1>1, <1>2, <1>3, <1>4, <1>5, SupTypes DEF JobInv
<1>7. QED
  BY <1>1, <1>2, <1>6, GoesOn DEF daemonVars

LEMMA ClassifyInv == ASSUME JobInv, NEW r \in Runs, Classify(r) PROVE JobInv'
<1> DEFINE good == [outcome |-> Verdict(r), why |-> "", named |-> TRUE]
           bad == [outcome |-> "parked", why |-> ParkReason(r), named |-> TRUE]
           v == IF Readable(r) THEN good ELSE bad
<1>1. ParkReason(r) \in Whys
  BY DEF ParkReason, Whys, NoResultSeen
<1>2. bad \in RowType /\ bad.outcome # "none" /\ Proven(r, bad)
  BY <1>1, ParkedVerdict
<1>3. good \in RowType /\ good.outcome # "none" /\ good.outcome = Verdict(r)
  BY DEF RowType, Verdict, Outcomes, Whys
<1>4. Readable(r) => Proven(r, good)
  BY <1>3 DEF Proven
<1> HIDE DEF good, bad
<1>5. v \in RowType /\ v.outcome # "none" /\ Proven(r, v)
  BY <1>2, <1>3, <1>4
<1>6. /\ sup' = [sup EXCEPT ![r] = "persist"] /\ verdict' = [verdict EXCEPT ![r] = v] /\ sup[r] \in Working
      /\ UNCHANGED <<now, jobsTable, info, row, file, daemonVars, pass>>
  BY DEF Classify, good, bad, Working
<1> HIDE DEF v
<1>7. verdict' \in [Runs -> RowType]
  BY <1>5, <1>6 DEF JobInv, JobsTypeOK
<1>8. JobsTypeOK'
  <2>1. seen' \in [Runs -> {"", "idle", "blocked", "timeout", "lost"}]
        /\ status' \in [Agents -> {"none", "working", "blocked", "idle"}] /\ tasks' \in [Agents -> SUBSET Runs]
    BY DEF Classify, agentVars, JobInv, JobsTypeOK
  <2>2. "persist" \in Working
    BY DEF Working
  <2>3. QED
    BY <1>6, <1>7, <2>1, <2>2, SupTypes DEF JobInv
<1>9. QED
  BY <1>5, <1>6, <1>8, Concludes DEF daemonVars

-----------------------------------------------------------------------------
(* The end of a run. *)

\* The daemon lets go of the run, and keeps the claim while it owes more.
LEMMA ExecutedTypes ==
    ASSUME JobInv, NumbersAssumption, NEW r \in Runs, Live(r), Executed(r)
    PROVE  owed' \in [Jobs -> Nat] /\ claimed' \subseteq Jobs /\ cur' \in [Jobs -> 0..MaxRuns]
<1>1. owed \in [Jobs -> Nat] /\ claimed \subseteq Jobs /\ cur \in [Jobs -> 0..MaxRuns]
  BY DEF JobInv, JobsTypeOK
<1>2. CASE info[r].by # "daemon"
  BY <1>1, <1>2 DEF Executed
<1>3. CASE info[r].by = "daemon"
  <2> DEFINE j == info[r].job
  <2>1. j \in Jobs /\ cur[j] = r
    BY <1>3 DEF JobInv, ClaimsInv, Launched
  <2>2. r # 0
    BY NumbersAssumption DEF Runs
  <2>3. owed[j] # 0 /\ owed[j] \in Nat
    BY <1>1, <2>1, <2>2 DEF JobInv, ClaimsInv
  <2>4. owed' = [owed EXCEPT ![j] = @ - 1] /\ cur' = [cur EXCEPT ![j] = 0] /\ claimed' \subseteq claimed
    BY <1>3 DEF Executed
  <2> HIDE DEF j
  <2>5. owed[j] - 1 \in Nat
    BY <2>3
  <2>6. cur' \in [Jobs -> 0..MaxRuns]
    <3>1. 0 \in 0..MaxRuns
      BY NumbersAssumption
    <3>2. QED
      BY <1>1, <2>4, <3>1
  <2>7. QED
    BY <1>1, <2>1, <2>4, <2>5, <2>6
<1>4. QED
  BY <1>2, <1>3

LEMMA PersistInv ==
    ASSUME JobInv, NumbersAssumption, NEW r \in Runs, Persist(r) PROVE JobInv'
<1>1. /\ sup[r] = "persist" /\ sup' = [sup EXCEPT ![r] = "over"] /\ verdict' = [verdict EXCEPT ![r] = NoRow]
      /\ row' = [row EXCEPT ![r] = verdict[r]] \/ UNCHANGED row
      /\ UNCHANGED <<now, edit, info, file, agentVars, seen, daemon, downs, first, pass>>
  BY DEF Persist
<1>2. /\ row \in [Runs -> RowType] /\ verdict \in [Runs -> RowType] /\ sup \in [Runs -> Places]
  BY DEF JobInv, JobsTypeOK
<1>3. Live(r) /\ Making(r) /\ verdict[r].outcome # "none" /\ Proven(r, verdict[r])
  BY <1>1 DEF Live, JobInv, RowsInv
<1>4. NoRow \in RowType /\ NoRow.outcome = "none"
  BY DEF NoRow, RowType, Outcomes, Whys
<1>5. JobsTypeOK'
  <2>1. row' \in [Runs -> RowType] /\ verdict' \in [Runs -> RowType] /\ sup' \in [Runs -> Places]
    BY <1>1, <1>2, <1>4 DEF Places
  <2>2. enabled' \in [Jobs -> {"on", "off", "deleted"}]
    <3> DEFINE k == info[r].job
               to == IF Job[k].schedule = "once" /\ enabled[k] = "on" THEN "off" ELSE enabled[k]
    <3>1. enabled \in [Jobs -> {"on", "off", "deleted"}]
      BY DEF JobInv, JobsTypeOK
    <3>2. enabled' = [enabled EXCEPT ![k] = to]
      BY DEF Persist
    <3>3. k \in Jobs => to \in {"on", "off", "deleted"}
      BY <3>1
    <3> HIDE DEF to, k
    <3>4. QED
      BY <3>1, <3>2, <3>3
  <2>3. owed' \in [Jobs -> Nat] /\ claimed' \subseteq Jobs /\ cur' \in [Jobs -> 0..MaxRuns]
    BY <1>3, ExecutedTypes DEF Persist
  <2>4. QED
    BY <1>1, <2>1, <2>2, <2>3 DEF JobInv, JobsTypeOK, agentVars
<1>6. SameMaking
  BY <1>1, <1>2, <1>3 DEF SameMaking, Making
<1>7. TimeInv'
  BY <1>1, <1>6, TimeFrame DEF JobInv
<1>8. RowsInv'
  <2>1. ASSUME NEW q \in Runs PROVE Proven(q, row'[q])
    BY <1>1, <1>2, <1>3 DEF JobInv, RowsInv
  <2>2. ASSUME NEW q \in Runs PROVE Proven(q, verdict'[q])
    <3>1. Proven(q, NoRow)
      BY <1>4 DEF Proven
    <3>2. QED
      BY <1>1, <1>2, <3>1 DEF JobInv, RowsInv
  <2>3. ASSUME NEW q \in Runs PROVE sup'[q] = "persist" => verdict'[q].outcome # "none"
    BY <1>1, <1>2 DEF JobInv, RowsInv
  <2>4. ASSUME NEW q \in Runs PROVE sup'[q] # "none" => Making(q)'
    BY <1>1, <1>2, <1>3, <1>6 DEF JobInv, RowsInv, SameMaking
  <2>5. ASSUME NEW x \in pass PROVE x.read.outcome \in {"running", "parked"} /\ Making(x.run)'
    <3>1. x.run \in Runs
      BY DEF JobInv, JobsTypeOK
    <3>2. QED
      BY <1>6, <3>1 DEF JobInv, RowsInv, SameMaking
  <2>6. QED
    BY <1>1, <2>1, <2>2, <2>3, <2>4, <2>5 DEF RowsInv, Proven, Readable, Verdict
<1>9. /\ \A q \in Runs : q # r => (Live(q)' <=> Live(q))
      /\ ~Live(r)'
  BY <1>1, <1>2 DEF Live
<1>10. CASE info[r].by # "daemon"
  <2>1. UNCHANGED <<cur, owed, claimed>>
    BY <1>10 DEF Persist, Executed
  <2>2. ASSUME NEW q \in Runs PROVE Launched(q)' <=> Launched(q)
    BY <1>1, <1>9, <1>10 DEF Launched
  <2>3. ClaimsInv'
    BY <1>1, <2>1, <2>2 DEF JobInv, ClaimsInv
  <2>4. OnceInv'
    BY <1>1, <1>6, <2>1, OnceFrame DEF JobInv
  <2>5. QED
    BY <1>5, <1>7, <1>8, <2>3, <2>4 DEF JobInv
<1>11. CASE info[r].by = "daemon"
  <2> DEFINE j == info[r].job
  <2>1. j \in Jobs /\ cur[j] = r /\ Launched(r)
    BY <1>3, <1>11 DEF JobInv, ClaimsInv, Launched
  <2>2. cur' = [cur EXCEPT ![j] = 0] /\ owed' = [owed EXCEPT ![j] = @ - 1]
        /\ claimed' = IF owed[j] = 1 THEN claimed \ {j} ELSE claimed
    BY <1>11 DEF Persist, Executed
  <2>3. owed \in [Jobs -> Nat] /\ cur \in [Jobs -> 0..MaxRuns] /\ claimed \subseteq Jobs
    BY DEF JobInv, JobsTypeOK
  <2>4. r # 0 /\ j \in claimed /\ owed[j] # 0
    <3>1. r # 0
      BY NumbersAssumption DEF Runs
    <3>2. QED
      BY <2>1, <3>1 DEF JobInv, ClaimsInv
  <2>5. ClaimsInv'
    <3>1. ASSUME NEW q \in Runs, Launched(q)' PROVE info'[q].job \in Jobs /\ cur'[info'[q].job] = q
      <4>1. Launched(q) /\ q # r
        BY <1>1, <1>9, <3>1 DEF Launched
      <4>2. info[q].job \in Jobs /\ cur[info[q].job] = q /\ info[q].job # j
        BY <4>1, <2>1 DEF JobInv, ClaimsInv
      <4> HIDE DEF j
      <4>3. QED
        BY <1>1, <4>2, <2>2, <2>3
    <3>2. ASSUME NEW k \in Jobs, cur'[k] # 0
          PROVE  cur'[k] \in Runs /\ k \in claimed' /\ Launched(cur[k])' /\ info'[cur'[k]].job = k
      <4> HIDE DEF j
      <4>1. k # j /\ cur'[k] = cur[k]
        BY <2>1, <2>2, <2>3, <3>2
      <4>2. cur[k] \in Runs /\ k \in claimed /\ Launched(cur[k]) /\ info[cur[k]].job = k
        BY <3>2, <4>1 DEF JobInv, ClaimsInv
      <4>3. cur[k] # r
        BY <4>1, <4>2 DEF j
      <4>4. k \in claimed'
        BY <2>2, <4>1, <4>2
      <4>5. \A q \in Runs : q # r => (Launched(q)' <=> Launched(q)) /\ info'[q] = info[q]
        BY <1>1, <1>9 DEF Launched
      <4>6. QED
        BY <4>1, <4>2, <4>3, <4>4, <4>5 DEF Launched, Live
    <3>3. ASSUME NEW k \in claimed' PROVE owed'[k] # 0
      <4> HIDE DEF j
      <4>1. k \in claimed /\ k \in Jobs /\ owed[k] # 0 /\ (k = j => owed[j] # 1)
        BY <2>2, <2>3, <3>3 DEF JobInv, ClaimsInv
      <4>2. owed[j] \in Nat
        BY <2>1, <2>3
      <4>3. CASE k = j
        <5>1. owed'[k] = owed[j] - 1
          BY <4>3, <2>1, <2>2, <2>3
        <5>2. QED
          BY <4>1, <4>2, <4>3, <5>1
      <4>4. CASE k # j
        BY <4>1, <4>4, <2>2, <2>3
      <4>5. QED
        BY <4>3, <4>4
    <3>4. QED
      BY <3>1, <3>2, <3>3 DEF ClaimsInv
  <2>6. OnceInv'
    <3> SUFFICES ASSUME NEW k \in Jobs, Job[k].schedule = "once"
        PROVE  /\ \A q \in Runs : Fired(q, k)' => info'[q].at >= Job[k].runAt
               /\ \A p, q \in Runs : (Fired(p, k)' /\ Fired(q, k)') => p = q
               /\ k \in claimed' => owed'[k] = 1 /\ Job[k].runAt <= now'
               /\ (k \in claimed' /\ cur'[k] = 0) => \A q \in Runs : ~Fired(q, k)'
      BY DEF OnceInv
    <3>1. /\ \A q \in Runs : Fired(q, k) => info[q].at >= Job[k].runAt
          /\ \A p, q \in Runs : (Fired(p, k) /\ Fired(q, k)) => p = q
          /\ k \in claimed => owed[k] = 1 /\ Job[k].runAt <= now
          /\ (k \in claimed /\ cur[k] = 0) => \A q \in Runs : ~Fired(q, k)
      BY DEF JobInv, OnceInv
    <3>2. \A q \in Runs : Fired(q, k)' <=> Fired(q, k)
      BY <1>1, <1>6 DEF Fired, SameMaking
    <3>3. k \in claimed' => k \in claimed /\ k # j /\ owed'[k] = owed[k] /\ cur'[k] = cur[k]
      <4> HIDE DEF j
      <4>1. k \in claimed' => k \in claimed /\ (k = j => owed[j] # 1)
        BY <2>2
      <4>2. k \in claimed' => k # j
        BY <3>1, <4>1
      <4>3. QED
        BY <4>1, <4>2, <2>2, <2>3
    <3>4. QED
      BY <1>1, <3>1, <3>2, <3>3
  <2>7. QED
    BY <1>5, <1>7, <1>8, <2>5, <2>6 DEF JobInv
<1>12. QED
  BY <1>10, <1>11

\* A run that is interrupted is over, and no claim hung on it.
LEMMA InterruptedInv ==
    ASSUME JobInv, NumbersAssumption, NEW r \in Runs, Interrupted(r) PROVE JobInv'
<1>1. /\ Live(r) /\ info[r].by = "hand" /\ sup' = [sup EXCEPT ![r] = "killed"]
      /\ seen' = [seen EXCEPT ![r] = ""] /\ verdict' = [verdict EXCEPT ![r] = NoRow]
      /\ UNCHANGED <<now, jobsTable, info, row, file, agentVars, daemon, claimed, owed, first, cur, pass>>
  BY DEF Interrupted
<1>2. /\ sup \in [Runs -> Places] /\ verdict \in [Runs -> RowType]
      /\ seen \in [Runs -> {"", "idle", "blocked", "timeout", "lost"}] /\ downs \in 0..MaxDowns
  BY DEF JobInv, JobsTypeOK
<1>3. NoRow \in RowType /\ NoRow.outcome = "none"
  BY DEF NoRow, RowType, Outcomes, Whys
<1>4. JobsTypeOK'
  <2>1. downs' \in 0..MaxDowns
    <3>1. downs < MaxDowns /\ downs' = downs + 1
      BY DEF Interrupted
    <3>2. downs \in 0..MaxDowns
      BY <1>2
    <3>3. QED
      BY <3>1, <3>2, NumbersAssumption
  <2>2. /\ sup' \in [Runs -> Places] /\ verdict' \in [Runs -> RowType]
        /\ seen' \in [Runs -> {"", "idle", "blocked", "timeout", "lost"}]
    BY <1>1, <1>2, <1>3 DEF Places
  <2>3. QED
    BY <1>1, <2>1, <2>2 DEF JobInv, JobsTypeOK, jobsTable, agentVars
<1>5. \A q \in Runs : (Launched(q)' <=> Launched(q)) /\ info'[q] = info[q]
  BY <1>1, <1>2 DEF Launched, Live
<1>6. ClaimsInv'
  BY <1>1, <1>5 DEF JobInv, ClaimsInv
<1>7. TimeInv' /\ OnceInv'
  BY <1>1, SameRow, TimeFrame, OnceFrame DEF JobInv
<1>8. RowsInv'
  <2>1. ASSUME NEW q \in Runs
        PROVE  Proven(q, verdict'[q]) /\ (sup'[q] = "persist" => verdict'[q].outcome # "none")
               /\ (sup'[q] # "none" => Making(q))
    <3>1. Proven(q, NoRow)
      BY <1>3 DEF Proven
    <3>2. Making(r)
      BY <1>1 DEF Live, JobInv, RowsInv
    <3>3. QED
      BY <1>1, <1>2, <3>1, <3>2 DEF JobInv, RowsInv
  <2>2. QED
    BY <1>1, <2>1 DEF JobInv, RowsInv, Proven, Readable, Verdict, Making
<1>9. QED
  BY <1>4, <1>6, <1>7, <1>8 DEF JobInv

\* A crash leaves no claim, and no run of the daemon that is supervised.
LEMMA CrashInv ==
    ASSUME JobInv, NumbersAssumption, Crash PROVE JobInv'
<1>1. /\ sup' = [r \in Runs |-> IF Live(r) /\ info[r].by = "daemon" THEN "killed" ELSE sup[r]]
      /\ seen' = [r \in Runs |-> IF sup'[r] = "killed" THEN "" ELSE seen[r]]
      /\ verdict' = [r \in Runs |-> IF sup'[r] = "killed" THEN NoRow ELSE verdict[r]]
      /\ claimed' = {} /\ cur' = [j \in Jobs |-> 0] /\ owed' = [j \in Jobs |-> 0]
      /\ first' = [j \in Jobs |-> FALSE] /\ daemon' = "down"
      /\ UNCHANGED <<now, jobsTable, info, row, file, agentVars, pass>>
  BY DEF Crash
<1>2. /\ sup \in [Runs -> Places] /\ verdict \in [Runs -> RowType]
      /\ seen \in [Runs -> {"", "idle", "blocked", "timeout", "lost"}] /\ downs \in 0..MaxDowns
  BY DEF JobInv, JobsTypeOK
<1>3. NoRow \in RowType /\ NoRow.outcome = "none"
  BY DEF NoRow, RowType, Outcomes, Whys
<1>4. JobsTypeOK'
  <2>1. downs' \in 0..MaxDowns
    <3>1. downs < MaxDowns /\ downs' = downs + 1
      BY DEF Crash
    <3>2. downs \in 0..MaxDowns
      BY <1>2
    <3>3. QED
      BY <3>1, <3>2, NumbersAssumption
  <2>2. /\ sup' \in [Runs -> Places] /\ verdict' \in [Runs -> RowType]
        /\ seen' \in [Runs -> {"", "idle", "blocked", "timeout", "lost"}]
    BY <1>1, <1>2, <1>3 DEF Places
  <2>3. owed' \in [Jobs -> Nat] /\ cur' \in [Jobs -> 0..MaxRuns]
    <3>1. 0 \in Nat /\ 0 \in 0..MaxRuns
      BY NumbersAssumption
    <3>2. QED
      BY <1>1, <3>1
  <2>4. claimed' \subseteq Jobs /\ first' \in [Jobs -> BOOLEAN] /\ daemon' \in {"up", "stopping", "down"}
    BY <1>1
  <2>5. QED
    BY <1>1, <2>1, <2>2, <2>3, <2>4 DEF JobInv, JobsTypeOK, jobsTable, agentVars
<1>5. ASSUME NEW r \in Runs PROVE ~Launched(r)'
  BY <1>1 DEF Launched, Live
<1>6. ClaimsInv'
  BY <1>1, <1>5 DEF ClaimsInv
<1>7. TimeInv'
  BY <1>1, SameRow, TimeFrame DEF JobInv
<1>8. OnceInv'
  BY <1>1, SameRow DEF JobInv, OnceInv, Fired, SameMaking
<1>9. RowsInv'
  <2>1. ASSUME NEW q \in Runs
        PROVE  Proven(q, verdict'[q]) /\ (sup'[q] = "persist" => verdict'[q].outcome # "none")
               /\ (sup'[q] # "none" => Making(q))
    <3>1. Proven(q, NoRow)
      BY <1>3 DEF Proven
    <3>2. CASE sup'[q] = "killed"
      BY <3>1, <3>2, <1>1 DEF JobInv, RowsInv, Live
    <3>3. CASE sup'[q] # "killed"
      BY <3>3, <1>1 DEF JobInv, RowsInv
    <3>4. QED
      BY <3>2, <3>3
  <2>2. QED
    BY <1>1, <2>1 DEF JobInv, RowsInv, Proven, Readable, Verdict, Making
<1>10. QED
  BY <1>4, <1>6, <1>7, <1>8, <1>9 DEF JobInv

-----------------------------------------------------------------------------
(* The reconciler. *)

LEMMA PassInv ==
    ASSUME JobInv, ReconcileRuns \/ ReconcileParked \/ DaemonStart PROVE JobInv'
<1>1. /\ daemon' \in {"up", "stopping", "down"}
      /\ UNCHANGED <<now, jobsTable, info, row, file, agentVars, supVars, downs, claimed, owed, first, cur>>
  BY DEF ReconcileRuns, ReconcileParked, DaemonStart, daemonVars, JobInv, JobsTypeOK
<1>2. \A x \in pass' : \E r \in Runs : x = [run |-> r, read |-> row[r]]
                          /\ row[r].outcome \in {"running", "parked"}
  BY DEF ReconcileRuns, ReconcileParked, DaemonStart, Read, RunningRows, ParkedRows
<1>3. row \in [Runs -> RowType]
  BY DEF JobInv, JobsTypeOK
<1>4. pass' \subseteq [run : Runs, read : RowType]
  BY <1>2, <1>3
<1>5. JobsTypeOK'
  BY <1>1, <1>4 DEF JobInv, JobsTypeOK, jobsTable, agentVars, supVars
<1>6. \A x \in pass' : x.read.outcome \in {"running", "parked"} /\ Making(x.run)
  BY <1>2 DEF Making
<1>7. RowsInv'
  BY <1>1, <1>6 DEF JobInv, RowsInv, Proven, Readable, Verdict, Making, supVars
<1>8. ClaimsInv' /\ TimeInv' /\ OnceInv'
  BY <1>1, ClaimsFrame, TimeFrame, OnceFrame, SameSup, SameRow DEF JobInv, supVars
<1>9. QED
  BY <1>5, <1>7, <1>8 DEF JobInv

LEMMA RowResolved ==
    ASSUME NEW w \in RowType, NEW to \in Outcomes \ {"none"}, NEW why \in Whys
    PROVE  LET v == [w EXCEPT !.outcome = to, !.why = why] IN v \in RowType /\ v.outcome = to
BY DEF RowType

LEMMA ResolveInv == ASSUME JobInv, NEW x \in pass, Resolve(x) PROVE JobInv'
<1>1. x.run \in Runs /\ x.read \in RowType /\ Making(x.run)
  BY DEF JobInv, JobsTypeOK, RowsInv
<1>2. row \in [Runs -> RowType]
  BY DEF JobInv, JobsTypeOK
<1>3. pass' = pass \ {x} /\ UNCHANGED <<now, jobsTable, info, file, agentVars, supVars, daemonVars>>
  BY DEF Resolve
<1>4. UNCHANGED row \/ \E v \in RowType : v.outcome # "none" /\ Proven(x.run, v) /\ row' = [row EXCEPT ![x.run] = v]
  <2>1. CASE Readable(x.run) /\ row' = [row EXCEPT ![x.run] = [x.read EXCEPT !.outcome = Verdict(x.run), !.why = ""]]
    <3> DEFINE v == [x.read EXCEPT !.outcome = Verdict(x.run), !.why = ""]
    <3>1. Verdict(x.run) \in Outcomes \ {"none"} /\ "" \in Whys
      BY DEF Verdict, Outcomes, Whys
    <3>2. v \in RowType /\ v.outcome = Verdict(x.run)
      BY <1>1, <3>1, RowResolved
    <3> HIDE DEF v
    <3>3. v.outcome # "none" /\ Proven(x.run, v)
      BY <2>1, <3>1, <3>2 DEF Proven
    <3>4. row' = [row EXCEPT ![x.run] = v]
      BY <2>1 DEF v
    <3>5. QED
      BY <3>2, <3>3, <3>4
  <2>2. CASE row' = [row EXCEPT ![x.run] = [x.read EXCEPT !.outcome = "parked", !.why = "orphaned"]]
    <3> DEFINE v == [x.read EXCEPT !.outcome = "parked", !.why = "orphaned"]
    <3>1. "parked" \in Outcomes \ {"none"} /\ "orphaned" \in Whys
      BY DEF Outcomes, Whys, NoResultSeen
    <3>2. v \in RowType /\ v.outcome = "parked"
      BY <1>1, <3>1, RowResolved
    <3> HIDE DEF v
    <3>3. row' = [row EXCEPT ![x.run] = v]
      BY <2>2 DEF v
    <3>4. QED
      BY <3>2, <3>3 DEF Proven
  <2>3. QED
    BY <2>1, <2>2 DEF Resolve
<1>5. row' \in [Runs -> RowType]
  BY <1>1, <1>2, <1>4
<1>6. JobsTypeOK'
  BY <1>3, <1>5 DEF JobInv, JobsTypeOK, jobsTable, agentVars, supVars, daemonVars
<1>7. SameMaking
  BY <1>1, <1>2, <1>4 DEF SameMaking, Making
<1>8. \A r \in Runs : Proven(r, row'[r])
  BY <1>1, <1>2, <1>4 DEF JobInv, RowsInv
<1>9. RowsInv'
  <2>1. ASSUME NEW y \in pass' PROVE y.read.outcome \in {"running", "parked"} /\ Making(y.run)'
    <3>1. y \in pass /\ y.run \in Runs
      BY <1>3 DEF JobInv, JobsTypeOK
    <3>2. QED
      BY <3>1, <1>7 DEF JobInv, RowsInv, SameMaking
  <2>2. \A r \in Runs : sup'[r] # "none" => Making(r)'
    BY <1>3, <1>7 DEF JobInv, RowsInv, SameMaking, supVars
  <2>3. QED
    BY <1>3, <1>8, <2>1, <2>2 DEF JobInv, RowsInv, Proven, Readable, Verdict, supVars
<1>10. ClaimsInv' /\ TimeInv' /\ OnceInv'
  BY <1>3, <1>7, ClaimsFrame, TimeFrame, OnceFrame, SameSup DEF JobInv, supVars, daemonVars
<1>11. QED
  BY <1>6, <1>9, <1>10 DEF JobInv

-----------------------------------------------------------------------------
(* What a job owes. *)

\* A set of numbers below a bound has a latest.
LEMMA BoundedHasLatest ==
    ASSUME NEW n \in Nat, NEW S \in SUBSET (0..n), S # {}
    PROVE  \E t \in S : \A u \in S : u <= t
<1> DEFINE T == {n - u : u \in S}
<1>1. T \subseteq Nat /\ T # {}
  <2>1. \A u \in S : n - u \in Nat
    OBVIOUS
  <2>2. QED
    BY <2>1
<1>2. PICK x \in T : \A y \in T : ~(<<y, x>> \in OpToRel(<, Nat))
  BY <1>1, WFMin, NatLessThanWellFounded
<1>3. \A y \in T : ~(y < x)
  BY <1>1, <1>2 DEF OpToRel
<1>4. PICK t \in S : x = n - t
  BY <1>2
<1>5. ASSUME NEW u \in S PROVE u <= t
  <2>1. ~(n - u < n - t)
    BY <1>3, <1>4
  <2>2. QED
    BY <2>1
<1>6. QED
  BY <1>4, <1>5

\* The anchor of a job that ran is the start of its newest run.
LEMMA AnchorIsNewest ==
    ASSUME JobInv, NumbersAssumption, NEW j \in Jobs
    PROVE  /\ Anchor(j) \in Int
           /\ RunsOf(j) # {} => \E m \in RunsOf(j) : Anchor(j) = info[m].at /\ \A q \in RunsOf(j) : q <= m
<1>1. CASE RunsOf(j) = {}
  BY <1>1 DEF Anchor, Never
<1>2. CASE RunsOf(j) # {}
  <2>1. RunsOf(j) \in SUBSET (0..MaxRuns) /\ RunsOf(j) \subseteq Runs
    BY NumbersAssumption DEF RunsOf, Made, Runs
  <2>2. \E t \in RunsOf(j) : \A u \in RunsOf(j) : u <= t
    BY <1>2, <2>1, BoundedHasLatest, NumbersAssumption
  <2> DEFINE m == CHOOSE r \in RunsOf(j) : \A q \in RunsOf(j) : q <= r
  <2>3. m \in RunsOf(j) /\ \A q \in RunsOf(j) : q <= m
    BY <2>2
  <2>4. Anchor(j) = info[m].at
    BY <1>2 DEF Anchor
  <2> HIDE DEF m
  <2>5. info[m].at \in 0..MaxTime
    BY <2>1, <2>3, InfoFields DEF JobInv
  <2>6. info[m].at \in Int
    BY <2>5, NumbersAssumption
  <2>7. QED
    BY <2>3, <2>4, <2>6
<1>3. QED
  BY <1>1, <1>2

LEMMA DueIsFinite ==
    ASSUME NEW job, job.created \in Int, NEW anchor \in Int, NEW at \in Int
    PROVE  IsFiniteSet(Due(job, anchor, at))
<1> DEFINE from == StartFrom(job.created, anchor, at)
           all == FiresAfter(job, from, at)
           fires == Owed(job, from, at)
<1>1. from \in Int
  BY DEF StartFrom
<1> HIDE DEF from
<1>2. IsFiniteSet((from + 1)..at)
  BY <1>1, FS_Interval
<1>3. all \subseteq (from + 1)..at /\ fires \subseteq all
  BY DEF FiresAfter, Owed, Earliest
<1>4. IsFiniteSet(fires)
  BY <1>2, <1>3, FS_Subset
<1> HIDE DEF fires
<1>5. ApplyCatchup(job.catchup, fires, at) \subseteq fires
  BY DEF ApplyCatchup, Newest
<1>6. FirstRunFilter(anchor = Never, ApplyCatchup(job.catchup, fires, at), at) \subseteq fires
  BY <1>5 DEF FirstRunFilter
<1>7. \/ Due(job, anchor, at) = {} \/ Due(job, anchor, at) \subseteq {job.runAt}
      \/ Due(job, anchor, at) = FirstRunFilter(anchor = Never, ApplyCatchup(job.catchup, fires, at), at)
  <2>1. CASE job.schedule = "manual"
    BY <2>1 DEF Due
  <2>2. CASE job.schedule = "once"
    BY <2>2 DEF Due
  <2>3. CASE job.schedule # "manual" /\ job.schedule # "once"
    BY <2>3 DEF Due, fires, from
  <2>4. QED
    BY <2>1, <2>2, <2>3
<1>8. IsFiniteSet({job.runAt}) /\ IsFiniteSet({})
  BY FS_Singleton, FS_EmptySet
<1>9. QED
  BY <1>4, <1>6, <1>7, <1>8, FS_Subset

\* A one-shot owes one fire, that has come, and only while no run of it began since.
LEMMA OnceOwesOne ==
    ASSUME JobInv, NumbersAssumption, NEW j \in Jobs, Job[j].schedule = "once",
           Due(Job[j], Anchor(j), now) # {}
    PROVE  /\ Cardinality(Due(Job[j], Anchor(j), now)) = 1
           /\ Job[j].runAt <= now
           /\ \A r \in Runs : ~Fired(r, j)
<1> DEFINE at == Job[j].runAt
<1>1. Due(Job[j], Anchor(j), now) = {t \in {at} : t <= now /\ ~(Anchor(j) # Never /\ Anchor(j) >= t)}
  BY DEF Due
<1>2. Due(Job[j], Anchor(j), now) = {at} /\ at <= now /\ ~(Anchor(j) # Never /\ Anchor(j) >= at)
  BY <1>1
<1>3. ASSUME NEW r \in Runs, Fired(r, j) PROVE FALSE
  <2>1. r \in RunsOf(j)
    BY <1>3 DEF Fired, Making, RunsOf, Made
  <2>2. PICK m \in RunsOf(j) : Anchor(j) = info[m].at /\ \A q \in RunsOf(j) : q <= m
    BY <2>1, AnchorIsNewest
  <2>3. m \in Runs /\ Making(m) /\ r <= m
    BY <2>1, <2>2 DEF RunsOf, Made, Making
  <2>4. info[r].at <= info[m].at
    BY <2>3 DEF JobInv, TimeInv
  <2>5. info[r].at >= at
    BY <1>3 DEF JobInv, OnceInv
  <2>6. info[m].at \in 0..MaxTime /\ info[r].at \in 0..MaxTime
    BY <2>3, InfoFields DEF JobInv
  <2>7. at \in Int
    BY JobsAssumption
  <2> HIDE DEF at
  <2>8. Anchor(j) # Never /\ Anchor(j) >= at
    BY <2>2, <2>4, <2>5, <2>6, <2>7, NumbersAssumption DEF Never
  <2>9. QED
    BY <1>2, <2>8
<1>4. QED
  BY <1>2, <1>3, FS_Singleton

-----------------------------------------------------------------------------
(* The sweep, and the launches. *)

LEMMA SweepInv == ASSUME JobInv, NumbersAssumption, NEW j \in Jobs, Sweep(j) PROVE JobInv'
<1> DEFINE fires == Due(Job[j], Anchor(j), now)
           n == Cardinality(fires)
<1>1. /\ j \notin claimed /\ fires # {} /\ owed' = [owed EXCEPT ![j] = n]
      /\ claimed' = claimed \cup {j} /\ first' = [first EXCEPT ![j] = TRUE]
      /\ UNCHANGED <<now, jobsTable, info, row, file, agentVars, supVars, daemon, downs, cur, pass>>
  BY DEF Sweep
<1>2. now \in Int
  <2>1. now \in 0..MaxTime
    BY DEF JobInv, JobsTypeOK
  <2>2. QED
    BY <2>1, NumbersAssumption
<1>3. IsFiniteSet(fires)
  BY <1>2, AnchorIsNewest, DueIsFinite, JobsAssumption
<1>4. n \in Nat /\ n # 0
  BY <1>1, <1>3, FS_CardinalityType, FS_EmptySet
<1>5. Job[j].schedule = "once" => n = 1 /\ Job[j].runAt <= now /\ \A r \in Runs : ~Fired(r, j)
  BY <1>1, OnceOwesOne
<1> HIDE DEF n, fires
<1>6. owed \in [Jobs -> Nat] /\ claimed \subseteq Jobs /\ first \in [Jobs -> BOOLEAN]
  BY DEF JobInv, JobsTypeOK
<1>7. owed' \in [Jobs -> Nat] /\ claimed' \subseteq Jobs /\ owed'[j] = n
      /\ \A k \in Jobs : k # j => owed'[k] = owed[k]
  BY <1>1, <1>4, <1>6
<1>8. first' \in [Jobs -> BOOLEAN]
  BY <1>1, <1>6
<1>9. JobsTypeOK'
  BY <1>1, <1>7, <1>8 DEF JobInv, JobsTypeOK, jobsTable, agentVars, supVars
<1>10. ClaimsInv'
  <2>1. \A r \in Runs : Launched(r)' <=> Launched(r)
    BY <1>1 DEF Launched, Live, supVars
  <2>2. \A k \in claimed' : owed'[k] # 0
    BY <1>1, <1>4, <1>6, <1>7 DEF JobInv, ClaimsInv
  <2>3. \A r \in Runs : Launched(r)' => info[r].job \in Jobs /\ cur[info[r].job] = r
    BY <2>1 DEF JobInv, ClaimsInv
  <2>4. \A k \in Jobs : cur[k] # 0 => cur[k] \in Runs /\ k \in claimed' /\ Launched(cur[k]) /\ info[cur[k]].job = k
    BY <1>1 DEF JobInv, ClaimsInv
  <2>5. QED
    BY <1>1, <2>2, <2>3, <2>4 DEF ClaimsInv, Launched, Live, supVars
<1>11. TimeInv'
  BY <1>1, SameRow, TimeFrame DEF JobInv
<1>12. RowsInv'
  BY <1>1 DEF JobInv, RowsInv, Proven, Readable, Verdict, Making, supVars
<1>13. OnceInv'
  <2> SUFFICES ASSUME NEW k \in Jobs, Job[k].schedule = "once"
      PROVE  /\ \A q \in Runs : Fired(q, k)' => info'[q].at >= Job[k].runAt
             /\ \A p, q \in Runs : (Fired(p, k)' /\ Fired(q, k)') => p = q
             /\ k \in claimed' => owed'[k] = 1 /\ Job[k].runAt <= now'
             /\ (k \in claimed' /\ cur'[k] = 0) => \A q \in Runs : ~Fired(q, k)'
    BY DEF OnceInv
  <2>1. \A q \in Runs : Fired(q, k)' <=> Fired(q, k)
    BY <1>1 DEF Fired, Making
  <2>2. CASE k = j
    BY <2>1, <2>2, <1>1, <1>5, <1>7 DEF JobInv, OnceInv
  <2>3. CASE k # j
    BY <2>1, <2>3, <1>1, <1>7 DEF JobInv, OnceInv
  <2>4. QED
    BY <2>2, <2>3
<1>14. QED
  BY <1>9, <1>10, <1>11, <1>12, <1>13 DEF JobInv

LEMMA LaunchStopsInv == ASSUME JobInv, NEW j \in Jobs, LaunchStops(j) PROVE JobInv'
<1>1. /\ j \in claimed /\ cur[j] = 0 /\ claimed' = claimed \ {j} /\ owed' = [owed EXCEPT ![j] = 0]
      /\ UNCHANGED <<now, jobsTable, info, row, file, agentVars, supVars, daemon, downs, first, cur, pass>>
  BY DEF LaunchStops
<1>2. owed \in [Jobs -> Nat] /\ claimed \subseteq Jobs
  BY DEF JobInv, JobsTypeOK
<1>3. owed' \in [Jobs -> Nat] /\ claimed' \subseteq Jobs /\ \A k \in Jobs : k # j => owed'[k] = owed[k]
  BY <1>1, <1>2
<1>4. JobsTypeOK'
  BY <1>1, <1>3 DEF JobInv, JobsTypeOK, jobsTable, agentVars, supVars
<1>5. ClaimsInv'
  <2>1. \A k \in claimed' : owed'[k] # 0
    BY <1>1, <1>2, <1>3 DEF JobInv, ClaimsInv
  <2>2. \A k \in Jobs : cur[k] # 0 => cur[k] \in Runs /\ k \in claimed' /\ Launched(cur[k]) /\ info[cur[k]].job = k
    BY <1>1 DEF JobInv, ClaimsInv
  <2>3. \A r \in Runs : Launched(r) => info[r].job \in Jobs /\ cur[info[r].job] = r
    BY DEF JobInv, ClaimsInv
  <2>4. QED
    BY <1>1, <2>1, <2>2, <2>3 DEF ClaimsInv, Launched, Live, supVars
<1>6. TimeInv'
  BY <1>1, SameRow, TimeFrame DEF JobInv
<1>7. RowsInv'
  BY <1>1 DEF JobInv, RowsInv, Proven, Readable, Verdict, Making, supVars
<1>8. OnceInv'
  BY <1>1, <1>3 DEF JobInv, OnceInv, Fired, Making
<1>9. QED
  BY <1>4, <1>5, <1>6, <1>7, <1>8 DEF JobInv

\* What a run that is recorded leaves: its row, its start and its supervisor, and nothing of others.
LEMMA RecordTypes ==
    ASSUME JobInv, NumbersAssumption, NEW r \in Runs, NEW j \in Jobs, NEW who \in {"daemon", "hand"}, Record(r, j, who)
    PROVE  /\ ~Making(r) /\ ~Live(r) /\ \A q \in Runs : q < r => Making(q)
           /\ info' \in [Runs -> InfoType] /\ row' \in [Runs -> RowType] /\ sup' \in [Runs -> Places]
           /\ info'[r] = [job |-> j, at |-> now, by |-> who] /\ row'[r].outcome = "running" /\ sup'[r] = "begin"
           /\ \A q \in Runs : q # r => info'[q] = info[q] /\ row'[q] = row[q] /\ sup'[q] = sup[q]
           /\ UNCHANGED <<now, jobsTable, file, agentVars, seen, verdict, downs, pass>>
<1>1. /\ info \in [Runs -> InfoType] /\ row \in [Runs -> RowType] /\ sup \in [Runs -> Places]
      /\ now \in 0..MaxTime
  BY DEF JobInv, JobsTypeOK
<1>2. /\ info' = [info EXCEPT ![r] = [job |-> j, at |-> now, by |-> who]]
      /\ row' = [row EXCEPT ![r] = [outcome |-> "running", why |-> "", named |-> FALSE]]
      /\ sup' = [sup EXCEPT ![r] = "begin"]
  BY DEF Record
<1>3. [job |-> j, at |-> now, by |-> who] \in InfoType
  BY <1>1 DEF InfoType
<1>4. [outcome |-> "running", why |-> "", named |-> FALSE] \in RowType
  BY DEF RowType, Outcomes, Whys
<1>5. "begin" \in Places
  BY DEF Places
<1>6. ~Making(r) /\ ~Live(r) /\ \A q \in Runs : q < r => Making(q)
  BY DEF Record, Making, Live, JobInv, RowsInv
<1>7. info' \in [Runs -> InfoType] /\ row' \in [Runs -> RowType] /\ sup' \in [Runs -> Places]
  BY <1>1, <1>2, <1>3, <1>4, <1>5
<1>8. info'[r] = [job |-> j, at |-> now, by |-> who] /\ row'[r].outcome = "running" /\ sup'[r] = "begin"
  BY <1>1, <1>2
<1>9. \A q \in Runs : q # r => info'[q] = info[q] /\ row'[q] = row[q] /\ sup'[q] = sup[q]
  BY <1>1, <1>2
<1>10. UNCHANGED <<now, jobsTable, file, agentVars, seen, verdict, downs, pass>>
  BY DEF Record
<1>11. QED
  BY <1>6, <1>7, <1>8, <1>9, <1>10

LEMMA RecordTime ==
    ASSUME JobInv, NumbersAssumption, NEW r \in Runs, NEW j \in Jobs, NEW who \in {"daemon", "hand"}, Record(r, j, who)
    PROVE  TimeInv'
<1>1. /\ ~Making(r) /\ \A q \in Runs : q < r => Making(q)
      /\ info'[r] = [job |-> j, at |-> now, by |-> who] /\ row'[r].outcome = "running"
      /\ \A q \in Runs : q # r => info'[q] = info[q] /\ row'[q] = row[q]
      /\ UNCHANGED now
  BY RecordTypes
<1> SUFFICES ASSUME NEW p \in Runs, NEW q \in Runs, Making(q)', p <= q
             PROVE  Making(p)' /\ info'[p].at <= info'[q].at /\ info'[q].at <= now
  BY <1>1 DEF TimeInv
<1>2. now \in Nat
  <2>1. now \in 0..MaxTime
    BY DEF JobInv, JobsTypeOK
  <2>2. QED
    BY <2>1, NumbersAssumption
<1>3. CASE q = r /\ p = r
  BY <1>1, <1>2, <1>3 DEF Making
<1>4. CASE q = r /\ p # r
  <2>1. p < r
    BY <1>4, NumbersAssumption DEF Runs
  <2>2. Making(p) /\ info[p].at <= now
    <3>1. Making(p)
      BY <1>1, <2>1
    <3>2. p <= p
      BY NumbersAssumption DEF Runs
    <3>3. QED
      BY <3>1, <3>2 DEF JobInv, TimeInv
  <2>3. info'[p] = info[p] /\ row'[p] = row[p] /\ info'[q].at = now
    BY <1>1, <1>4
  <2>4. QED
    BY <1>2, <2>2, <2>3 DEF Making
<1>5. CASE q # r
  <2>1. Making(q)
    BY <1>1, <1>5 DEF Making
  <2>2. Making(p) /\ info[p].at <= info[q].at /\ info[q].at <= now
    BY <2>1 DEF JobInv, TimeInv
  <2>3. p # r
    BY <1>1, <2>2
  <2>4. QED
    BY <1>1, <1>5, <2>2, <2>3 DEF Making
<1>6. QED
  BY <1>3, <1>4, <1>5

LEMMA RecordRows ==
    ASSUME JobInv, NumbersAssumption, NEW r \in Runs, NEW j \in Jobs, NEW who \in {"daemon", "hand"}, Record(r, j, who)
    PROVE  RowsInv'
<1>1. /\ row'[r].outcome = "running" /\ sup'[r] = "begin"
      /\ \A q \in Runs : q # r => row'[q] = row[q] /\ sup'[q] = sup[q]
      /\ UNCHANGED <<file, verdict, pass>>
  BY RecordTypes
<1>2. \A q \in Runs : Proven(q, row'[q])
  BY <1>1 DEF JobInv, RowsInv, Proven
<1>3. \A q \in Runs : sup'[q] = "persist" => verdict'[q].outcome # "none"
  BY <1>1 DEF JobInv, RowsInv
<1>4. \A q \in Runs : (Making(q) => Making(q)') /\ (sup'[q] # "none" => Making(q)')
  BY <1>1 DEF JobInv, RowsInv, Making
<1>5. ASSUME NEW x \in pass PROVE x.read.outcome \in {"running", "parked"} /\ Making(x.run)'
  <2>1. x.run \in Runs
    BY DEF JobInv, JobsTypeOK
  <2>2. QED
    BY <1>4, <2>1 DEF JobInv, RowsInv
<1>6. QED
  BY <1>1, <1>2, <1>3, <1>4, <1>5 DEF JobInv, RowsInv, Proven, Readable, Verdict

LEMMA LaunchInv ==
    ASSUME JobInv, NumbersAssumption, NEW r \in Runs, NEW j \in Jobs, Launch(r, j) PROVE JobInv'
<1>1. /\ j \in claimed /\ cur[j] = 0 /\ Record(r, j, "daemon") /\ cur' = [cur EXCEPT ![j] = r]
      /\ first' = [first EXCEPT ![j] = FALSE] /\ UNCHANGED <<daemon, claimed, owed>>
  BY DEF Launch
<1>2. /\ ~Making(r) /\ ~Live(r)
      /\ info' \in [Runs -> InfoType] /\ row' \in [Runs -> RowType] /\ sup' \in [Runs -> Places]
      /\ info'[r] = [job |-> j, at |-> now, by |-> "daemon"] /\ row'[r].outcome = "running" /\ sup'[r] = "begin"
      /\ \A q \in Runs : q # r => info'[q] = info[q] /\ row'[q] = row[q] /\ sup'[q] = sup[q]
      /\ UNCHANGED <<now, jobsTable, file, agentVars, seen, verdict, downs, pass>>
  BY <1>1, RecordTypes
<1>3. cur \in [Jobs -> 0..MaxRuns] /\ first \in [Jobs -> BOOLEAN] /\ r \in 0..MaxRuns /\ r # 0
  <2>1. r \in 0..MaxRuns /\ r # 0
    BY NumbersAssumption DEF Runs
  <2>2. QED
    BY <2>1 DEF JobInv, JobsTypeOK
<1>4. cur' \in [Jobs -> 0..MaxRuns] /\ first' \in [Jobs -> BOOLEAN] /\ cur'[j] = r
      /\ \A k \in Jobs : k # j => cur'[k] = cur[k]
  BY <1>1, <1>3
<1>5. JobsTypeOK'
  BY <1>1, <1>2, <1>4 DEF JobInv, JobsTypeOK, jobsTable, agentVars
<1>6. \A q \in Runs : (Launched(q)' <=> q = r \/ Launched(q)) /\ (Launched(q) => q # r)
  BY <1>2 DEF Launched, Live
<1>7. ClaimsInv'
  <2>1. ASSUME NEW q \in Runs, Launched(q)' PROVE info'[q].job \in Jobs /\ cur'[info'[q].job] = q
    <3>1. CASE q = r
      BY <3>1, <1>2, <1>4
    <3>2. CASE q # r
      <4>1. info[q].job \in Jobs /\ cur[info[q].job] = q /\ q # 0
        BY <3>2, <2>1, <1>6, NumbersAssumption DEF JobInv, ClaimsInv, Runs
      <4>2. info[q].job # j
        BY <4>1, <1>1
      <4>3. QED
        BY <3>2, <4>1, <4>2, <1>2, <1>4
    <3>3. QED
      BY <3>1, <3>2
  <2>2. ASSUME NEW k \in Jobs, cur'[k] # 0
        PROVE  cur'[k] \in Runs /\ k \in claimed' /\ Launched(cur[k])' /\ info'[cur'[k]].job = k
    <3>1. CASE k = j
      BY <3>1, <1>1, <1>2, <1>4 DEF Launched, Live
    <3>2. CASE k # j
      <4>1. cur'[k] = cur[k] /\ cur[k] \in Runs /\ k \in claimed /\ Launched(cur[k]) /\ info[cur[k]].job = k
        BY <3>2, <2>2, <1>4 DEF JobInv, ClaimsInv
      <4>2. cur[k] # r
        BY <4>1, <1>6
      <4>3. QED
        BY <4>1, <4>2, <1>1, <1>2 DEF Launched, Live
    <3>3. QED
      BY <3>1, <3>2
  <2>3. QED
    BY <2>1, <2>2, <1>1 DEF JobInv, ClaimsInv
<1>8. OnceInv'
  <2> SUFFICES ASSUME NEW k \in Jobs, Job[k].schedule = "once"
      PROVE  /\ \A q \in Runs : Fired(q, k)' => info'[q].at >= Job[k].runAt
             /\ \A p, q \in Runs : (Fired(p, k)' /\ Fired(q, k)') => p = q
             /\ k \in claimed' => owed'[k] = 1 /\ Job[k].runAt <= now'
             /\ (k \in claimed' /\ cur'[k] = 0) => \A q \in Runs : ~Fired(q, k)'
    BY DEF OnceInv
  <2>1. /\ \A q \in Runs : Fired(q, k) => info[q].at >= Job[k].runAt
        /\ \A p, q \in Runs : (Fired(p, k) /\ Fired(q, k)) => p = q
        /\ k \in claimed => owed[k] = 1 /\ Job[k].runAt <= now
        /\ (k \in claimed /\ cur[k] = 0) => \A q \in Runs : ~Fired(q, k)
    BY DEF JobInv, OnceInv
  <2>2. \A q \in Runs : q # r => (Fired(q, k)' <=> Fired(q, k))
    BY <1>2 DEF Fired, Making
  <2>3. Fired(r, k)' => k = j
    BY <1>2 DEF Fired
  <2>4. info'[r].at = now
    BY <1>2
  <2>5. CASE k # j
    BY <2>1, <2>2, <2>3, <2>5, <1>1, <1>2, <1>4
  <2>6. CASE k = j
    <3>1. Job[k].runAt <= now /\ \A q \in Runs : ~Fired(q, k)
      BY <2>1, <2>6, <1>1
    <3>2. now >= Job[k].runAt
      <4>1. now \in 0..MaxTime /\ Job[k].runAt \in Int
        BY JobsAssumption DEF JobInv, JobsTypeOK
      <4>2. QED
        BY <3>1, <4>1, NumbersAssumption
    <3>3. \A q \in Runs : Fired(q, k)' => q = r
      BY <2>2, <3>1
    <3>4. cur'[k] # 0
      BY <2>6, <1>3, <1>4
    <3>5. QED
      BY <2>1, <2>4, <3>1, <3>2, <3>3, <3>4, <1>1, <1>2
  <2>7. QED
    BY <2>5, <2>6
<1>9. QED
  BY <1>1, <1>5, <1>7, <1>8, RecordTime, RecordRows DEF JobInv

LEMMA JobRunInv ==
    ASSUME JobInv, NumbersAssumption, NEW r \in Runs, NEW j \in Jobs, JobRun(r, j) PROVE JobInv'
<1>1. Record(r, j, "hand") /\ UNCHANGED <<daemon, claimed, owed, first, cur>>
  BY DEF JobRun
<1>2. /\ ~Making(r) /\ ~Live(r)
      /\ info' \in [Runs -> InfoType] /\ row' \in [Runs -> RowType] /\ sup' \in [Runs -> Places]
      /\ info'[r] = [job |-> j, at |-> now, by |-> "hand"] /\ row'[r].outcome = "running" /\ sup'[r] = "begin"
      /\ \A q \in Runs : q # r => info'[q] = info[q] /\ row'[q] = row[q] /\ sup'[q] = sup[q]
      /\ UNCHANGED <<now, jobsTable, file, agentVars, seen, verdict, downs, pass>>
  BY <1>1, RecordTypes
<1>3. JobsTypeOK'
  BY <1>1, <1>2 DEF JobInv, JobsTypeOK, jobsTable, agentVars
<1>4. \A q \in Runs : (Launched(q)' <=> Launched(q)) /\ (Launched(q) => q # r)
  BY <1>2 DEF Launched, Live
<1>5. ClaimsInv'
  <2>1. ASSUME NEW q \in Runs, Launched(q)' PROVE info'[q].job \in Jobs /\ cur'[info'[q].job] = q
    BY <2>1, <1>1, <1>2, <1>4 DEF JobInv, ClaimsInv
  <2>2. ASSUME NEW k \in Jobs, cur[k] # 0
        PROVE  cur[k] \in Runs /\ k \in claimed /\ Launched(cur[k])' /\ info'[cur[k]].job = k
    <3>1. cur[k] \in Runs /\ k \in claimed /\ Launched(cur[k]) /\ info[cur[k]].job = k
      BY <2>2 DEF JobInv, ClaimsInv
    <3>2. cur[k] # r
      BY <3>1, <1>4
    <3>3. QED
      BY <3>1, <3>2, <1>1, <1>2 DEF Launched, Live
  <2>3. QED
    BY <2>1, <2>2, <1>1 DEF JobInv, ClaimsInv
<1>6. \A q \in Runs, k \in Jobs : (Fired(q, k)' <=> Fired(q, k)) /\ (Fired(q, k) => info'[q] = info[q])
  BY <1>2 DEF Fired, Making
<1>7. OnceInv'
  BY <1>1, <1>2, <1>6 DEF JobInv, OnceInv
<1>8. QED
  BY <1>1, <1>3, <1>5, <1>7, RecordTime, RecordRows DEF JobInv

-----------------------------------------------------------------------------
(* The invariant holds, and with it the properties. *)

LEMMA JobsInitInv == ASSUME JobsInit, NumbersAssumption PROVE JobInv
<1>1. PICK S \in Stored : enabled = [j \in Jobs |-> IF j \in S THEN "on" ELSE "deleted"]
  BY DEF JobsInit
<1>2. \A r \in Runs : row[r] = NoRow /\ verdict[r] = NoRow /\ sup[r] = "none"
  BY DEF JobsInit
<1>3. NoRow \in RowType /\ NoRow.outcome = "none"
  BY DEF NoRow, RowType, Outcomes, Whys
<1>4. JobsTypeOK
  <2>1. now \in 0..MaxTime /\ downs \in 0..MaxDowns
    <3>1. now = 0 /\ downs = 0
      BY DEF JobsInit
    <3>2. QED
      BY <3>1, NumbersAssumption
  <2>2. enabled \in [Jobs -> {"on", "off", "deleted"}] /\ edit \in [job : Jobs \cup {""}, state : {"on", "off"}]
    BY <1>1 DEF JobsInit, NoEdit
  <2>3. NoInfo \in InfoType
    <3>1. 0 \in 0..MaxTime
      BY NumbersAssumption
    <3>2. QED
      BY <3>1 DEF NoInfo, InfoType
  <2>4. info \in [Runs -> InfoType] /\ row \in [Runs -> RowType] /\ verdict \in [Runs -> RowType]
    BY <1>3, <2>3 DEF JobsInit
  <2>5. file \in [Runs -> {"none", "bad", "ok", "failed"}] /\ status \in [Agents -> {"none", "working", "blocked", "idle"}]
        /\ tasks \in [Agents -> SUBSET Runs] /\ sup \in [Runs -> Places]
        /\ seen \in [Runs -> {"", "idle", "blocked", "timeout", "lost"}]
    BY DEF JobsInit, Places
  <2>6. daemon \in {"up", "stopping", "down"} /\ claimed \subseteq Jobs /\ first \in [Jobs -> BOOLEAN] /\ pass = {}
    BY DEF JobsInit
  <2>7. owed \in [Jobs -> Nat] /\ cur \in [Jobs -> 0..MaxRuns]
    <3>1. 0 \in Nat /\ 0 \in 0..MaxRuns
      BY NumbersAssumption
    <3>2. QED
      BY <3>1 DEF JobsInit
  <2>8. QED
    BY <2>1, <2>2, <2>4, <2>5, <2>6, <2>7 DEF JobsTypeOK
<1>5. ClaimsInv
  BY <1>2 DEF JobsInit, ClaimsInv, Launched, Live
<1>6. RowsInv
  BY <1>2, <1>3 DEF JobsInit, RowsInv, Proven, Making
<1>7. TimeInv /\ OnceInv
  BY <1>2, <1>3 DEF JobsInit, TimeInv, OnceInv, Fired, Making
<1>8. QED
  BY <1>4, <1>5, <1>6, <1>7 DEF JobInv

LEMMA JobsNextInv == ASSUME JobInv, NumbersAssumption, [JobsNext]_jobVars PROVE JobInv'
<1>1. CASE Tick \/ PutJob \/ PruneJobs \/ \E j \in Jobs : Commands(j)
  BY <1>1, TickInv, CommandsInv
<1>2. ASSUME NEW j \in Jobs, Scheduling(j) PROVE JobInv'
  BY <1>2, SweepInv, LaunchStopsInv, LaunchInv, JobRunInv DEF Scheduling
<1>3. ASSUME NEW r \in Runs, Supervise(r) PROVE JobInv'
  BY <1>3, ParkEarlyInv, WaitInv, ClassifyInv, PersistInv DEF Supervise
<1>4. CASE \E r \in Runs : Interrupted(r)
  BY <1>4, InterruptedInv
<1>5. ASSUME NEW a \in Agents, AgentActs(a) PROVE JobInv'
  BY <1>5, AgentInv, WritesInv DEF AgentActs
<1>6. CASE Shutdown \/ Stopped \/ Crash \/ DaemonStart \/ ReconcileRuns \/ ReconcileParked
  BY <1>6, DaemonEndsInv, CrashInv, PassInv
<1>7. CASE \E x \in pass : Resolve(x)
  BY <1>7, ResolveInv
<1>8. CASE UNCHANGED jobVars
  <2>1. UNCHANGED <<now, jobsTable, info, row, file, agentVars, supVars, daemonVars, pass>>
    BY <1>8 DEF jobVars
  <2>2. JobsTypeOK'
    BY <2>1 DEF JobInv, JobsTypeOK, jobsTable, agentVars, supVars, daemonVars
  <2>3. QED
    BY <2>1, <2>2, QuietInv DEF supVars, daemonVars
<1>9. QED
  BY <1>1, <1>2, <1>3, <1>4, <1>5, <1>6, <1>7, <1>8 DEF JobsNext

LEMMA JobInvHolds == JobsSpec => []JobInv
BY NumbersAssumption, JobsInitInv, JobsNextInv, PTL DEF JobsSpec

LEMMA InvRows == ASSUME JobInv PROVE RowsAreSound
BY DEF JobInv, RowsInv, Proven, RowsAreSound, OutcomeIsProven

LEMMA InvNoOverlap == ASSUME JobInv PROVE NoOverlap
BY DEF JobInv, ClaimsInv, Launched, NoOverlap

LEMMA InvOnce == ASSUME JobInv, NumbersAssumption PROVE OnceFiresOnce
<1> SUFFICES ASSUME NEW j \in Jobs, Job[j].schedule = "once"
    PROVE  Cardinality({r \in RunsOf(j) : info[r].by = "daemon"}) <= 1
  BY DEF OnceFiresOnce
<1> DEFINE S == {r \in RunsOf(j) : info[r].by = "daemon"}
<1>1. \A q, r \in S : q = r
  BY DEF JobInv, OnceInv, Fired, RunsOf, Made, Making
<1> HIDE DEF S
<1>2. CASE S = {}
  <2>1. Cardinality(S) = 0
    BY <1>2, FS_EmptySet
  <2>2. QED
    BY <2>1 DEF S
<1>3. CASE S # {}
  <2>1. PICK r \in S : S = {r}
    BY <1>1, <1>3
  <2>2. Cardinality(S) = 1
    BY <2>1, FS_Singleton
  <2>3. QED
    BY <2>2 DEF S
<1>4. QED
  BY <1>2, <1>3

\* The rows and what is about to be written to them are well formed, and done or failed only on
\* the word of result.json, for every crash, race and failure of the model (classify,
\* resolveRun, reconcileOneParked).
THEOREM RowsStaySound == JobsSpec => []RowsAreSound
BY JobInvHolds, InvRows, PTL

\* Two runs of one job are never supervised by the daemon at once (daemon.claim).
THEOREM JobsNeverOverlap == JobsSpec => []NoOverlap
BY JobInvHolds, InvNoOverlap, PTL

\* A one-shot is launched once by the daemon, whatever edits, crashes and runs by hand come
\* between (sched.Due, disableOneShot).
THEOREM OneShotsFireOnce == JobsSpec => []OnceFiresOnce
BY NumbersAssumption, JobInvHolds, InvOnce, PTL

-----------------------------------------------------------------------------
(* No second launch.  What stillRunning reads is enough: a run of a daemon  *)
(* that died, whose row could still be true, is followed by runs by hand    *)
(* only, and stillRunning looks further back than there are of those.       *)

Young(q) == now - info[q].at < Timeout
Orphan(q) == sup[q] = "killed" /\ row[q].outcome = "running" /\ Young(q)
Standing(q) == Making(q) /\ info[q].by = "daemon" /\ (Live(q) \/ Orphan(q))
HandRuns == {q \in Made : info[q].by = "hand"}
LooksFar == MaxByHand < Lookback

LookInv ==
    /\ \A q \in Runs : Standing(q) /\ ~Live(q) => info[q].job \notin claimed
    /\ \A q, r \in Runs :
           Standing(q) /\ Making(r) /\ q < r /\ info[q].job = info[r].job => info[r].by = "hand"
    /\ Cardinality(HandRuns) <= MaxByHand

LEMMA HandRunsFinite == IsFiniteSet(Made) /\ IsFiniteSet(HandRuns) /\ Cardinality(HandRuns) \in Nat
<1>1. IsFiniteSet(Runs)
  BY NumbersAssumption, FS_Interval DEF Runs
<1>2. Made \subseteq Runs /\ HandRuns \subseteq Runs
  BY DEF Made, HandRuns
<1>3. IsFiniteSet(Made) /\ IsFiniteSet(HandRuns)
  BY <1>1, <1>2, FS_Subset
<1>4. QED
  BY <1>3, FS_CardinalityType

LEMMA LookFrame ==
    ASSUME LookInv, SameMaking, UNCHANGED info, claimed' \subseteq claimed,
           \A q \in Runs : Standing(q)' => Standing(q),
           \A q \in Runs : Standing(q)' /\ ~Live(q)' => ~Live(q) \/ claimed' = {}
    PROVE  LookInv'
<1>1. HandRuns' = HandRuns
  <2>1. Made' = Made
    BY DEF Made, SameMaking, Making
  <2>2. QED
    BY <2>1 DEF HandRuns
<1>2. Cardinality(HandRuns') <= MaxByHand
  BY <1>1 DEF LookInv
<1>3. ASSUME NEW q \in Runs, Standing(q)', ~Live(q)' PROVE info'[q].job \notin claimed'
  BY <1>3 DEF LookInv
<1>4. ASSUME NEW q \in Runs, NEW r \in Runs, Standing(q)', Making(r)', q < r, info'[q].job = info'[r].job
      PROVE  info'[r].by = "hand"
  BY <1>4 DEF LookInv, SameMaking
<1>5. QED
  BY <1>2, <1>3, <1>4 DEF LookInv

\* A step that leaves the rows and the claims, and kills nobody.
LEMMA LookStill ==
    ASSUME LookInv, SameLives, UNCHANGED now, UNCHANGED info, UNCHANGED row, claimed' \subseteq claimed,
           \A q \in Runs : sup'[q] = "killed" => sup[q] = "killed"
    PROVE  LookInv'
<1>1. SameMaking
  BY SameRow
<1>2. \A q \in Runs : Standing(q)' => Standing(q)
  BY DEF Standing, Orphan, Young, Making, SameLives
<1>3. \A q \in Runs : Standing(q)' /\ ~Live(q)' => ~Live(q)
  BY DEF SameLives
<1>4. QED
  BY <1>1, <1>2, <1>3, LookFrame

LEMMA LookTick == ASSUME JobInv, NumbersAssumption, LookInv, Tick PROVE LookInv'
<1>1. now \in Nat /\ now' = now + 1
  <2>1. now \in 0..MaxTime /\ now' = now + 1
    BY DEF JobInv, JobsTypeOK, Tick
  <2>2. QED
    BY <2>1, NumbersAssumption
<1>2. UNCHANGED <<info, row, sup, claimed>>
  BY DEF Tick, supVars, daemonVars
<1>3. SameMaking /\ SameLives
  BY <1>2, SameRow, SameSup
<1>4. ASSUME NEW q \in Runs, Young(q)' PROVE Young(q)
  <2>1. info[q].at \in Nat
    <3>1. info[q].at \in 0..MaxTime
      BY InfoFields DEF JobInv
    <3>2. QED
      BY <3>1, NumbersAssumption
  <2>2. QED
    BY <1>1, <1>2, <1>4, <2>1, NumbersAssumption DEF Young
<1>5. \A q \in Runs : Standing(q)' => Standing(q)
  BY <1>2, <1>3, <1>4 DEF Standing, Orphan, SameMaking, SameLives
<1>6. QED
  BY <1>2, <1>3, <1>5, LookFrame DEF SameLives

\* What the reconciler writes is never "running".
LEMMA LookResolve == ASSUME JobInv, LookInv, NEW x \in pass, Resolve(x) PROVE LookInv'
<1>1. x.run \in Runs /\ x.read \in RowType /\ Making(x.run)
  BY DEF JobInv, JobsTypeOK, RowsInv
<1>2. row \in [Runs -> RowType]
  BY DEF JobInv, JobsTypeOK
<1>3. UNCHANGED <<now, info, sup, claimed>>
  BY DEF Resolve, supVars, daemonVars
<1>4. UNCHANGED row \/ \E v \in RowType : v.outcome \notin {"none", "running"} /\ row' = [row EXCEPT ![x.run] = v]
  <2>1. CASE row' = [row EXCEPT ![x.run] = [x.read EXCEPT !.outcome = Verdict(x.run), !.why = ""]]
    <3> DEFINE v == [x.read EXCEPT !.outcome = Verdict(x.run), !.why = ""]
    <3>1. Verdict(x.run) \in Outcomes \ {"none"} /\ "" \in Whys /\ Verdict(x.run) # "running"
      BY DEF Verdict, Outcomes, Whys
    <3>2. v \in RowType /\ v.outcome = Verdict(x.run)
      BY <1>1, <3>1, RowResolved
    <3> HIDE DEF v
    <3>3. v.outcome \notin {"none", "running"}
      BY <3>1, <3>2
    <3>4. row' = [row EXCEPT ![x.run] = v]
      BY <2>1 DEF v
    <3>5. QED
      BY <3>2, <3>3, <3>4
  <2>2. CASE row' = [row EXCEPT ![x.run] = [x.read EXCEPT !.outcome = "parked", !.why = "orphaned"]]
    <3> DEFINE v == [x.read EXCEPT !.outcome = "parked", !.why = "orphaned"]
    <3>1. "parked" \in Outcomes \ {"none"} /\ "orphaned" \in Whys
      BY DEF Outcomes, Whys, NoResultSeen
    <3>2. v \in RowType /\ v.outcome = "parked"
      BY <1>1, <3>1, RowResolved
    <3> HIDE DEF v
    <3>3. row' = [row EXCEPT ![x.run] = v]
      BY <2>2 DEF v
    <3>4. QED
      BY <3>2, <3>3
  <2>3. QED
    BY <2>1, <2>2 DEF Resolve
<1>5. SameMaking /\ \A q \in Runs : row'[q].outcome = "running" => row[q].outcome = "running"
  BY <1>1, <1>2, <1>4 DEF SameMaking, Making
<1>6. SameLives
  BY <1>3, SameSup
<1>7. \A q \in Runs : Standing(q)' => Standing(q)
  BY <1>3, <1>5, <1>6 DEF Standing, Orphan, Young, SameMaking, SameLives
<1>8. QED
  BY <1>3, <1>5, <1>6, <1>7, LookFrame DEF SameLives

\* A run that is over, or was by hand, stands no more; a crash empties the claims.
LEMMA LookPersist == ASSUME JobInv, LookInv, NEW r \in Runs, Persist(r) PROVE LookInv'
<1>1. /\ sup[r] = "persist" /\ sup' = [sup EXCEPT ![r] = "over"] /\ UNCHANGED <<now, info>>
      /\ row' = [row EXCEPT ![r] = verdict[r]] \/ UNCHANGED row
      /\ Executed(r)
  BY DEF Persist
<1>2. sup \in [Runs -> Places] /\ row \in [Runs -> RowType]
  BY DEF JobInv, JobsTypeOK
<1>3. Making(r) /\ verdict[r].outcome # "none"
  BY <1>1 DEF JobInv, RowsInv
<1>4. claimed' \subseteq claimed
  BY <1>1 DEF Executed
<1>5. SameMaking
  BY <1>1, <1>2, <1>3 DEF SameMaking, Making
<1>6. \A q \in Runs : q # r => sup'[q] = sup[q] /\ row'[q] = row[q]
  BY <1>1, <1>2
<1>7. sup'[r] = "over"
  BY <1>1, <1>2
<1>8. ~Standing(r)'
  BY <1>7 DEF Standing, Live, Orphan
<1>9. \A q \in Runs : Standing(q)' => Standing(q) /\ (Live(q)' <=> Live(q))
  BY <1>1, <1>5, <1>6, <1>8 DEF Standing, Orphan, Young, Live, SameMaking
<1>10. QED
  BY <1>1, <1>4, <1>5, <1>9, LookFrame

LEMMA LookInterrupted == ASSUME JobInv, LookInv, NEW r \in Runs, Interrupted(r) PROVE LookInv'
<1>1. /\ info[r].by = "hand" /\ sup' = [sup EXCEPT ![r] = "killed"] /\ UNCHANGED <<now, info, row, claimed>>
  BY DEF Interrupted
<1>2. sup \in [Runs -> Places]
  BY DEF JobInv, JobsTypeOK
<1>3. SameMaking
  BY <1>1, SameRow
<1>4. \A q \in Runs : q # r => sup'[q] = sup[q]
  BY <1>1, <1>2
<1>5. ~Standing(r)'
  BY <1>1 DEF Standing
<1>6. \A q \in Runs : Standing(q)' => Standing(q) /\ (Live(q)' <=> Live(q))
  BY <1>1, <1>3, <1>4, <1>5 DEF Standing, Orphan, Young, Live, SameMaking
<1>7. QED
  BY <1>1, <1>3, <1>6, LookFrame

LEMMA LookCrash == ASSUME JobInv, LookInv, Crash PROVE LookInv'
<1>1. /\ sup' = [q \in Runs |-> IF Live(q) /\ info[q].by = "daemon" THEN "killed" ELSE sup[q]]
      /\ claimed' = {} /\ UNCHANGED <<now, info, row>>
  BY DEF Crash
<1>2. SameMaking
  BY <1>1, SameRow
<1>3. ASSUME NEW q \in Runs, Standing(q)' PROVE Standing(q)
  <2>1. Making(q) /\ info[q].by = "daemon"
    BY <1>1, <1>2, <1>3 DEF Standing, SameMaking
  <2>2. CASE Live(q)
    BY <2>1, <2>2 DEF Standing
  <2>3. CASE ~Live(q)
    <3>1. sup'[q] = sup[q]
      BY <1>1, <2>3
    <3>2. QED
      BY <1>1, <1>3, <2>1, <2>3, <3>1 DEF Standing, Orphan, Young, Live
  <2>4. QED
    BY <2>2, <2>3
<1>4. QED
  BY <1>1, <1>2, <1>3, LookFrame


\* With the look-back long enough, a job that does not look as if it ran has no such run.
LEMMA LookSweep ==
    ASSUME JobInv, NumbersAssumption, LooksFar, LookInv, NEW j \in Jobs, Sweep(j) PROVE LookInv'
<1>1. ~StillRunning(j) /\ claimed' = claimed \cup {j} /\ UNCHANGED <<now, info, row, sup>>
  BY DEF Sweep, supVars
<1>2. SameMaking /\ SameLives
  BY <1>1, SameRow, SameSup
<1>3. ASSUME NEW q \in Runs, Standing(q), ~Live(q), info[q].job = j PROVE FALSE
  <2> DEFINE after == {r \in RunsOf(j) : r > q}
  <2>1. after \subseteq HandRuns
    <3>1. ASSUME NEW r \in after PROVE r \in HandRuns
      <4>1. r \in Runs /\ Making(r) /\ info[r].job = j /\ r > q
        BY DEF RunsOf, Made, Making
      <4>2. q < r
        BY <4>1, NumbersAssumption DEF Runs
      <4>3. info[r].by = "hand"
        BY <1>3, <4>1, <4>2 DEF LookInv
      <4>4. QED
        BY <4>1, <4>3 DEF HandRuns, Made, Making
    <3>2. QED
      BY <3>1
  <2> HIDE DEF after
  <2>2. Cardinality(after) \in Nat /\ Cardinality(after) <= Cardinality(HandRuns)
    <3>1. IsFiniteSet(after)
      BY <2>1, HandRunsFinite, FS_Subset
    <3>2. QED
      BY <2>1, <3>1, HandRunsFinite, FS_Subset, FS_CardinalityType
  <2>3. Cardinality(after) < Lookback
    <3> DEFINE a == Cardinality(after)
               b == Cardinality(HandRuns)
    <3>1. a \in Nat /\ b \in Nat /\ a <= b /\ b <= MaxByHand
      BY <2>2, HandRunsFinite DEF LookInv
    <3>2. MaxByHand < Lookback /\ MaxByHand \in Nat /\ Lookback \in Nat
      BY NumbersAssumption DEF LooksFar
    <3> HIDE DEF a, b
    <3>3. a < Lookback
      BY <3>1, <3>2
    <3>4. QED
      BY <3>3 DEF a
  <2>4. q \in RunsOf(j) /\ row[q].outcome = "running" /\ Young(q)
    BY <1>3 DEF Standing, Orphan, RunsOf, Made, Making
  <2>5. now - info[q].at < Timeout + Grace
    <3>1. now \in 0..MaxTime /\ info[q].at \in 0..MaxTime
      BY InfoFields DEF JobInv, JobsTypeOK
    <3>2. QED
      BY <2>4, <3>1, NumbersAssumption DEF Young
  <2>6. QED
    BY <1>1, <2>3, <2>4, <2>5 DEF StillRunning, after
<1>4. \A q \in Runs : Standing(q)' <=> Standing(q)
  BY <1>1, <1>2 DEF Standing, Orphan, Young, SameMaking, SameLives
<1>5. HandRuns' = HandRuns
  BY <1>1 DEF HandRuns, Made
<1>6. Cardinality(HandRuns') <= MaxByHand
  BY <1>5 DEF LookInv
<1>7. ASSUME NEW q \in Runs, Standing(q)', ~Live(q)' PROVE info'[q].job \notin claimed'
  BY <1>1, <1>2, <1>3, <1>4, <1>7 DEF LookInv, SameLives
<1>8. ASSUME NEW q \in Runs, NEW r \in Runs, Standing(q)', Making(r)', q < r, info'[q].job = info'[r].job
      PROVE  info'[r].by = "hand"
  BY <1>1, <1>2, <1>4, <1>8 DEF LookInv, SameMaking
<1>9. QED
  BY <1>6, <1>7, <1>8 DEF LookInv

\* A job the daemon launches has no run that stands.
LEMMA NothingStands ==
    ASSUME JobInv, LookInv, NEW j \in Jobs, j \in claimed, cur[j] = 0, NEW q \in Runs, info[q].job = j
    PROVE  ~Standing(q)
<1> SUFFICES ASSUME Standing(q) PROVE FALSE
  OBVIOUS
<1>1. CASE Live(q)
  <2>1. cur[j] = q
    BY <1>1 DEF Standing, Launched, JobInv, ClaimsInv
  <2>2. QED
    BY <2>1, NumbersAssumption DEF Runs
<1>2. CASE ~Live(q)
  BY <1>2 DEF LookInv
<1>3. QED
  BY <1>1, <1>2

LEMMA RecordFields ==
    ASSUME JobInv, NumbersAssumption, NEW r \in Runs, NEW j \in Jobs, NEW who \in {"daemon", "hand"}, Record(r, j, who)
    PROVE  /\ ~Making(r) /\ info'[r].job = j /\ info'[r].by = who /\ row'[r].outcome = "running"
           /\ \A q \in Runs : q # r => info'[q] = info[q] /\ row'[q] = row[q]
<1>1. /\ ~Making(r) /\ info'[r] = [job |-> j, at |-> now, by |-> who] /\ row'[r].outcome = "running"
      /\ \A q \in Runs : q # r => info'[q] = info[q] /\ row'[q] = row[q]
  BY RecordTypes
<1>2. QED
  BY <1>1

\* The new run is the last there is.
LEMMA RecordLook ==
    ASSUME JobInv, NumbersAssumption, LookInv, NEW r \in Runs, NEW j \in Jobs, NEW who \in {"daemon", "hand"},
           Record(r, j, who), UNCHANGED claimed,
           who = "daemon" => \A q \in Runs : info[q].job = j => ~Standing(q)
    PROVE  /\ \A q \in Runs : Standing(q)' /\ ~Live(q)' => info'[q].job \notin claimed'
           /\ \A q, p \in Runs :
                  Standing(q)' /\ Making(p)' /\ q < p /\ info'[q].job = info'[p].job => info'[p].by = "hand"
<1>1. /\ ~Making(r) /\ ~Live(r)
      /\ info'[r] = [job |-> j, at |-> now, by |-> who] /\ row'[r].outcome = "running" /\ sup'[r] = "begin"
      /\ \A q \in Runs : q # r => info'[q] = info[q] /\ row'[q] = row[q] /\ sup'[q] = sup[q]
      /\ UNCHANGED now
  BY RecordTypes
<1>2. ASSUME NEW q \in Runs, q # r PROVE (Standing(q)' <=> Standing(q)) /\ (Live(q)' <=> Live(q)) /\ (Making(q)' <=> Making(q))
  BY <1>1, <1>2 DEF Standing, Orphan, Young, Live, Making
<1>3. Live(r)' /\ Making(r)'
  BY <1>1 DEF Live, Making
<1>4. ASSUME NEW q \in Runs, Standing(q)', ~Live(q)' PROVE info'[q].job \notin claimed'
  BY <1>1, <1>2, <1>3, <1>4 DEF LookInv
<1>5. ASSUME NEW q \in Runs, NEW p \in Runs, Standing(q)', Making(p)', q < p, info'[q].job = info'[p].job
      PROVE  info'[p].by = "hand"
  <2>1. CASE q = r
    <3>1. p # r
      BY <1>5, <2>1, NumbersAssumption DEF Runs
    <3>2. Making(p)
      BY <1>2, <1>5, <3>1
    <3>3. r <= p
      BY <1>5, <2>1, NumbersAssumption DEF Runs
    <3>4. QED
      BY <1>1, <3>2, <3>3 DEF JobInv, TimeInv
  <2>2. CASE q # r /\ p # r
    BY <1>1, <1>2, <1>5, <2>2 DEF LookInv
  <2>3. CASE q # r /\ p = r
    <3>1. Standing(q) /\ info[q].job = j
      BY <1>1, <1>2, <1>5, <2>3
    <3>2. who = "hand"
      BY <3>1
    <3>3. QED
      BY <1>1, <2>3, <3>2
  <2>4. QED
    BY <2>1, <2>2, <2>3
<1>6. QED
  BY <1>4, <1>5

LEMMA LookLaunch ==
    ASSUME JobInv, NumbersAssumption, LookInv, NEW r \in Runs, NEW j \in Jobs, Launch(r, j) PROVE LookInv'
<1>1. j \in claimed /\ cur[j] = 0 /\ Record(r, j, "daemon") /\ UNCHANGED claimed
  BY DEF Launch
<1>2. \A q \in Runs : info[q].job = j => ~Standing(q)
  BY <1>1, NothingStands
<1>3. /\ \A q \in Runs : Standing(q)' /\ ~Live(q)' => info'[q].job \notin claimed'
      /\ \A q, p \in Runs :
             Standing(q)' /\ Making(p)' /\ q < p /\ info'[q].job = info'[p].job => info'[p].by = "hand"
  BY <1>1, <1>2, RecordLook
<1>4. /\ ~Making(r) /\ info'[r].by = "daemon"
      /\ \A q \in Runs : q # r => info'[q] = info[q] /\ row'[q] = row[q]
  BY <1>1, RecordFields
<1>5. HandRuns' = HandRuns
  BY <1>4 DEF HandRuns, Made, Making
<1>6. Cardinality(HandRuns') <= MaxByHand
  BY <1>5 DEF LookInv
<1>7. QED
  BY <1>3, <1>6 DEF LookInv

LEMMA LookJobRun ==
    ASSUME JobInv, NumbersAssumption, LookInv, NEW r \in Runs, NEW j \in Jobs, JobRun(r, j) PROVE LookInv'
<1>1. Record(r, j, "hand") /\ UNCHANGED claimed /\ Cardinality(HandRuns) < MaxByHand
  BY DEF JobRun, HandRuns
<1>2. /\ \A q \in Runs : Standing(q)' /\ ~Live(q)' => info'[q].job \notin claimed'
      /\ \A q, p \in Runs :
             Standing(q)' /\ Making(p)' /\ q < p /\ info'[q].job = info'[p].job => info'[p].by = "hand"
  BY <1>1, RecordLook
<1>3. /\ ~Making(r) /\ info'[r].by = "hand" /\ row'[r].outcome = "running"
      /\ \A q \in Runs : q # r => info'[q] = info[q] /\ row'[q] = row[q]
  BY <1>1, RecordFields
<1>4. HandRuns' = HandRuns \cup {r} /\ r \notin HandRuns
  BY <1>3 DEF HandRuns, Made, Making
<1>5. Cardinality(HandRuns') <= MaxByHand
  <2>1. Cardinality(HandRuns') = Cardinality(HandRuns) + 1
    BY <1>4, HandRunsFinite, FS_AddElement
  <2>2. QED
    BY <1>1, <2>1, HandRunsFinite, NumbersAssumption
<1>6. QED
  BY <1>2, <1>5 DEF LookInv

\* The supervisor's other steps move a run from one place of its life to the next.
LEMMA LookSupervise ==
    ASSUME JobInv, LookInv, NEW r \in Runs,
           StartFails(r) \/ AgentIsBlocked(r) \/ Prompt(r) \/ WaitEnds(r) \/ LoseSight(r) \/ AwaitEnds(r) \/ Classify(r)
    PROVE  LookInv'
<1>1. /\ sup[r] \in Working /\ UNCHANGED now /\ UNCHANGED info /\ UNCHANGED row /\ UNCHANGED claimed
      /\ \E to \in Working : sup' = [sup EXCEPT ![r] = to]
  <2>1. CASE StartFails(r) \/ AgentIsBlocked(r)
    BY <2>1 DEF StartFails, AgentIsBlocked, ParkEarly, daemonVars, Working
  <2>2. CASE Prompt(r) \/ LoseSight(r)
    BY <2>2 DEF Prompt, LoseSight, daemonVars, Working
  <2>3. CASE WaitEnds(r) \/ AwaitEnds(r)
    BY <2>3 DEF WaitEnds, AwaitEnds, Settle, daemonVars, Working
  <2>4. CASE Classify(r)
    BY <2>4 DEF Classify, daemonVars, Working
  <2>5. QED
    BY <2>1, <2>2, <2>3, <2>4
<1>2. sup \in [Runs -> Places]
  BY DEF JobInv, JobsTypeOK
<1>3. SameLives /\ \A q \in Runs : sup'[q] = "killed" => sup[q] = "killed"
  BY <1>1, <1>2 DEF SameLives, Live, Working
<1>4. claimed' \subseteq claimed
  BY <1>1
<1>5. QED
  BY <1>1, <1>3, <1>4, LookStill

LEMMA LookElse ==
    ASSUME LookInv, UNCHANGED now, UNCHANGED info, UNCHANGED row, UNCHANGED sup, claimed' \subseteq claimed
    PROVE  LookInv'
BY SameSup, LookStill

LEMMA LookStep == ASSUME JobInv, NumbersAssumption, LooksFar, LookInv, [JobsNext]_jobVars PROVE LookInv'
<1>1. CASE Tick
  BY <1>1, LookTick
<1>2. CASE PutJob \/ PruneJobs \/ \E j \in Jobs : Commands(j)
  BY <1>2, LookElse DEF PutJob, PruneJobs, Commands, JobEditReads, SetEnabled, supVars, daemonVars
<1>3. ASSUME NEW j \in Jobs, Scheduling(j) PROVE LookInv'
  <2>1. CASE LaunchStops(j)
    BY <2>1, LookElse DEF LaunchStops, supVars
  <2>2. QED
    BY <1>3, <2>1, LookSweep, LookLaunch, LookJobRun DEF Scheduling
<1>4. ASSUME NEW r \in Runs, Supervise(r) PROVE LookInv'
  BY <1>4, LookSupervise, LookPersist DEF Supervise
<1>5. CASE \E r \in Runs : Interrupted(r)
  BY <1>5, LookInterrupted
<1>6. ASSUME NEW a \in Agents, AgentActs(a) PROVE LookInv'
  <2>1. CASE AgentSettles(a) \/ AgentAsks(a) \/ HumanAnswers(a) \/ AgentIsGone(a)
    BY <2>1, LookElse DEF AgentSettles, AgentAsks, HumanAnswers, AgentIsGone, supVars, daemonVars
  <2>2. CASE \E r \in Runs, what \in Results : Writes(a, r, what)
    BY <2>2, LookElse DEF Writes, supVars, daemonVars
  <2>3. QED
    BY <1>6, <2>1, <2>2 DEF AgentActs
<1>7. CASE Shutdown \/ Stopped \/ DaemonStart \/ ReconcileRuns \/ ReconcileParked
  BY <1>7, LookElse DEF Shutdown, Stopped, DaemonStart, ReconcileRuns, ReconcileParked, supVars, daemonVars
<1>8. CASE Crash
  BY <1>8, LookCrash
<1>9. CASE \E x \in pass : Resolve(x)
  BY <1>9, LookResolve
<1>10. CASE UNCHANGED jobVars
  BY <1>10, LookElse DEF jobVars, supVars, daemonVars
<1>11. QED
  BY <1>1, <1>2, <1>3, <1>4, <1>5, <1>6, <1>7, <1>8, <1>9, <1>10 DEF JobsNext

LEMMA LookInit == ASSUME JobsInit, NumbersAssumption PROVE LookInv
<1>1. \A r \in Runs : ~Making(r)
  BY DEF JobsInit, NoRow, Making
<1>2. HandRuns = {}
  BY <1>1 DEF HandRuns, Made, Making
<1>3. Cardinality(HandRuns) <= MaxByHand
  <2>1. Cardinality(HandRuns) = 0
    BY <1>2, FS_EmptySet
  <2>2. QED
    BY <2>1, NumbersAssumption
<1>4. QED
  BY <1>1, <1>3 DEF LookInv, Standing

\* The step that records a run of the daemon is a launch, and the job it launches has none that
\* stands.
NoSecond ==
    \A r \in Runs :
        row[r].outcome = "none" /\ row'[r].outcome = "running" /\ info'[r].by = "daemon" =>
            ~\E q \in RunsOf(info'[r].job) :
                /\ info[q].by = "daemon" /\ row[q].outcome = "running" /\ sup[q] = "killed"
                /\ now - info[q].at < Timeout

LEMMA OnlyLaunchesRecord ==
    ASSUME JobInv, NumbersAssumption, [JobsNext]_jobVars, NEW r \in Runs,
           row[r].outcome = "none", row'[r].outcome = "running", info'[r].by = "daemon"
    PROVE  \E j \in Jobs : Launch(r, j)
<1>1. row' # row
  OBVIOUS
<1>2. ~(Tick \/ PutJob \/ PruneJobs \/ Shutdown \/ Stopped \/ Crash \/ DaemonStart \/ ReconcileRuns \/ ReconcileParked)
  BY <1>1 DEF Tick, PutJob, PruneJobs, Shutdown, Stopped, Crash, DaemonStart, ReconcileRuns, ReconcileParked
<1>3. \A j \in Jobs : ~(Commands(j) \/ Sweep(j) \/ LaunchStops(j))
  BY <1>1 DEF Commands, JobEditReads, SetEnabled, Sweep, LaunchStops
<1>4. \A q \in Runs : ~Interrupted(q)
  BY <1>1 DEF Interrupted
<1>5. \A a \in Agents : ~AgentActs(a)
  BY <1>1 DEF AgentActs, AgentSettles, AgentAsks, HumanAnswers, AgentIsGone, Writes
<1>6. ~Making(r) /\ row \in [Runs -> RowType]
  BY DEF Making, JobInv, JobsTypeOK
<1>7. ASSUME NEW q \in Runs, Supervise(q) PROVE FALSE
  <2>1. Persist(q)
    BY <1>1, <1>7 DEF Supervise, StartFails, AgentIsBlocked, Prompt, WaitEnds, LoseSight, AwaitEnds, Classify
  <2>2. row' = [row EXCEPT ![q] = verdict[q]] /\ sup[q] = "persist"
    BY <1>1, <2>1 DEF Persist
  <2>3. q = r
    BY <1>6, <2>2
  <2>4. Making(q)
    BY <2>2 DEF JobInv, RowsInv
  <2>5. QED
    BY <1>6, <2>3, <2>4
<1>8. ASSUME NEW x \in pass, Resolve(x) PROVE FALSE
  <2>1. x.run \in Runs /\ Making(x.run)
    BY DEF JobInv, JobsTypeOK, RowsInv
  <2>2. x.run # r
    BY <1>6, <2>1
  <2>3. row'[r] = row[r]
    BY <1>6, <1>8, <2>1, <2>2 DEF Resolve
  <2>4. QED
    BY <2>3
<1>9. ASSUME NEW q \in Runs, NEW j \in Jobs, JobRun(q, j) PROVE FALSE
  <2>1. Record(q, j, "hand")
    BY <1>9 DEF JobRun
  <2>2. info'[q].by = "hand" /\ \A p \in Runs : p # q => row'[p] = row[p]
    BY <2>1, RecordFields
  <2>3. QED
    BY <2>2
<1>10. PICK q \in Runs, j \in Jobs : Launch(q, j)
  BY <1>1, <1>2, <1>3, <1>4, <1>5, <1>7, <1>8, <1>9 DEF JobsNext, Scheduling, jobVars
<1>11. q = r
  <2>1. Record(q, j, "daemon")
    BY <1>10 DEF Launch
  <2>2. \A p \in Runs : p # q => row'[p] = row[p]
    BY <2>1, RecordFields
  <2>3. QED
    BY <2>2
<1>12. QED
  BY <1>10, <1>11

LEMMA LookSound == ASSUME JobInv, NumbersAssumption, LookInv, [JobsNext]_jobVars PROVE NoSecond
<1> SUFFICES ASSUME NEW r \in Runs, row[r].outcome = "none", row'[r].outcome = "running", info'[r].by = "daemon",
                    NEW q \in RunsOf(info'[r].job), info[q].by = "daemon", row[q].outcome = "running",
                    sup[q] = "killed", now - info[q].at < Timeout
             PROVE  FALSE
  BY DEF NoSecond
<1>1. PICK j \in Jobs : Launch(r, j)
  BY OnlyLaunchesRecord
<1>2. j \in claimed /\ cur[j] = 0 /\ Record(r, j, "daemon")
  BY <1>1 DEF Launch
<1>3. info'[r].job = j
  BY <1>2, RecordFields
<1>4. q \in Runs /\ info[q].job = j /\ Making(q)
  BY <1>3 DEF RunsOf, Made, Making
<1>5. Standing(q)
  BY <1>4 DEF Standing, Orphan, Young
<1>6. QED
  BY <1>2, <1>4, <1>5, NothingStands

\* daemon.stillRunning: a daemon that forgot its claims launches no run of a job while one that
\* it launched before has a row that says running and could still be true, as long as a job is
\* not run by hand as often as stillRunning looks back.
THEOREM NoSecondAgent == ASSUME LooksFar PROVE JobsSpec => NoSecondLaunch
<1>1. JobsInit => LookInv
  BY NumbersAssumption, LookInit
<1>2. JobInv /\ LookInv /\ [JobsNext]_jobVars => LookInv'
  BY NumbersAssumption, LookStep
<1>3. JobInv /\ LookInv /\ [JobsNext]_jobVars => NoSecond
  BY NumbersAssumption, LookSound
<1>4. JobsSpec => []LookInv
  BY <1>1, <1>2, JobInvHolds, PTL DEF JobsSpec
<1>5. JobsSpec => [][NoSecond]_jobVars
  BY <1>3, <1>4, JobInvHolds, PTL DEF JobsSpec
<1>6. QED
  BY <1>5 DEF NoSecond, NoSecondLaunch

=============================================================================
