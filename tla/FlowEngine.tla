----------------------------- MODULE FlowEngine -----------------------------
(***************************************************************************)
(* Flow.Execute of internal/runner: one run of a flow, from its first      *)
(* process through the processes that resume it.  The steps run in series; *)
(* a step that reported failure may send the run back along its on_fail    *)
(* edge; where the run would park, or after every step if the flow says    *)
(* so, an overwatch agent is asked what to do.                             *)
(*                                                                         *)
(* What survives a process is in the run directory: the result.json of     *)
(* each step, the ones a send-back set aside, loops.json, overwatch.json   *)
(* and the decision.json of each consult.  What herdr keeps are the tabs   *)
(* of agents that did not finish cleanly.                                  *)
(*                                                                         *)
(* Notes, prompts and park reasons are left out, except for the verdict of *)
(* a failed step, which on_fail compares.                                  *)
(*                                                                         *)
(* The definitions named ...Variant are not part of the model: each is the *)
(* definition after it with one plausible slip, and shows that some        *)
(* property would notice.                                                  *)
(***************************************************************************)
EXTENDS Integers, FiniteSets

CONSTANTS
    N,              \* the declared steps are 1..N
    Goto,           \* per step the target of its on_fail edge, 0 where it has none
    MaxLoops,       \* per step OnFail.Loops()
    AgentSteps,     \* the steps that run an agent; the others run a command
    Overseen,       \* Flow.Applies()
    EveryStep,      \* Watch is every_step rather than on_trouble
    Allow,          \* the decisions the flow honours
    Budget,         \* the decisions one run gets
    Verdicts,       \* what a step that reported failure may say
    OffBrief,       \* what an overwatch agent may answer beyond what its brief offers
    LateAt,         \* where the process is when an agent that was given up writes its file after all
    Torn,           \* a crash or an error may land inside the writing of loops.json
    CrashAt,        \* where the process may die
    FaultAt,        \* where a file operation may fail
    MaxProcs        \* bound: processes that execute this run

Steps == 1..N
Watcher == 0        \* OverwatchStepID: never a declared step

\* Where a process that executes the run is, or "idle" when none does.
Places == {"idle", "loop", "running", "settled", "clearing", "charging", "jumping",
           "consult", "consulting", "deciding"}

ASSUME StepsAssumption == N \in Nat \ {0} /\ AgentSteps \subseteq Steps
ASSUME EdgesAssumption ==
    /\ Goto \in [Steps -> 0..N] /\ \A s \in Steps : Goto[s] < s
    /\ MaxLoops \in [Steps -> 1..8]
ASSUME OverwatchAssumption ==
    /\ Overseen \in BOOLEAN /\ EveryStep \in BOOLEAN
    /\ Budget \in 1..12
    /\ Allow \subseteq {"retry", "goto", "park", "abort", "skip"}
    /\ OffBrief \subseteq {"continue", "retry", "skip", "forward"}
ASSUME FailuresAssumption ==
    /\ LateAt \subseteq Places /\ CrashAt \subseteq Places \ {"idle"} /\ Torn \in BOOLEAN
    /\ FaultAt \subseteq {"clearing", "charging"}
ASSUME BoundsAssumption == MaxProcs \in Nat

VARIABLES
    (* the run directory *)
    result,     \* per step its result.json, and the attempt that wrote it
    kept,       \* the result.attempt-<no>.json files
    loops,      \* loops.json
    consults,   \* overwatch.json
    decision,   \* per consult its decision.json
    (* herdr *)
    tabs,       \* the agents whose tab is open
    working,    \* those of them that have not written their file
    (* the process that executes the run *)
    proc, pc, at,
    sr,         \* the outcome of the step it settled last
    verdict,    \* and what that step said, if it reported failure
    wr,         \* FlowRun.Outcome
    stoppedAt,  \* FlowRun.StoppedAt; of a process that died, the step that was running
    ran,        \* the steps in FlowRun.Steps
    asked,      \* the length of FlowRun.Decisions
    attempts,
    ledger,     \* the loop ledger in memory
    span,       \* the send-back in progress
    answer,     \* the decision being acted on
    (* kept for the properties only *)
    waved,      \* the steps this process carried on past by a permitted skip
    stale,      \* the steps whose result is older than a later run of an earlier step
    sentBack,   \* per step the times its edge was taken since its budget was last reset
    calls       \* the overwatch agents started for this run

dir == <<result, kept, loops, consults, decision>>
herdr == <<tabs, working>>
record == <<wr, stoppedAt, ran, asked>>
memory == <<attempts, ledger, span, answer>>
ghosts == <<waved, stale, sentBack, calls>>
vars == <<dir, herdr, proc, pc, at, sr, verdict, record, memory, ghosts>>

NoResult == [status |-> "none", proc |-> 0, attempt |-> 0]
EmptyLedger == [spent |-> [s \in Steps |-> 0], verdict |-> [s \in Steps |-> ""]]
NoDecision == [verb |-> "none", step |-> 0, proc |-> 0]
NoSpan == [next |-> 0, to |-> 0, no |-> 0, edge |-> FALSE]

Passed(s) == result[s].status = "ok"

\* The agent an attempt would start, and whether herdr still has one of its name:
\* stepRunID names the step and the attempt, and nothing of the process.
Agent(s, attempt) == [step |-> s, attempt |-> attempt, proc |-> proc]
NameTaken(a) == \E b \in tabs : b.step = a.step /\ b.attempt = a.attempt

Me == Agent(at, attempts[at])
Consultant == Agent(Watcher, consults + 1)

-----------------------------------------------------------------------------

Init ==
    /\ result = [s \in Steps |-> NoResult]
    /\ kept = {}
    /\ loops = EmptyLedger
    /\ consults = 0
    /\ decision = [c \in 1..Budget |-> NoDecision]
    /\ tabs = {} /\ working = {}
    /\ proc = 0 /\ pc = "idle" /\ at = 1 /\ sr = "none" /\ verdict = ""
    /\ wr = "none" /\ stoppedAt = 0 /\ ran = {} /\ asked = 0
    /\ attempts = [s \in Steps |-> 0]
    /\ ledger = EmptyLedger /\ span = NoSpan /\ answer = NoDecision
    /\ waved = {} /\ stale = {}
    /\ sentBack = [s \in Steps |-> 0]
    /\ calls = 0

\* One process takes up the run, with this loop ledger in memory.
TakeUp(reset, budget) ==
    /\ pc = "idle" /\ proc < MaxProcs
    /\ proc = 0 => ~reset
    /\ proc' = proc + 1 /\ pc' = "loop" /\ at' = 1 /\ sr' = "none" /\ verdict' = ""
    /\ wr' = "done" /\ stoppedAt' = 0 /\ ran' = {} /\ asked' = 0
    /\ attempts' = [s \in Steps |-> 0]
    /\ ledger' = budget
    /\ span' = NoSpan /\ answer' = NoDecision
    /\ waved' = {}
    /\ sentBack' = IF reset THEN [s \in Steps |-> 0] ELSE sentBack
    /\ UNCHANGED <<dir, herdr, stale, calls>>

\* The loop counters live in the process.
StartVariant(reset) == TakeUp(reset, EmptyLedger)

\* A first run, or a resume with or without --reset-loops: the same call.
Start(reset) == TakeUp(reset, IF reset THEN EmptyLedger ELSE loops)

\* A step an earlier attempt finished is not run again.
Reuse ==
    /\ pc = "loop" /\ at \in Steps /\ Passed(at)
    /\ ran' = ran \cup {at}
    /\ at' = at + 1
    /\ UNCHANGED <<dir, herdr, proc, pc, sr, verdict, wr, stoppedAt, asked, memory, ghosts>>

\* The step starts with this in its result.json.
BeginWith(file) ==
    /\ pc = "loop" /\ at \in Steps /\ ~Passed(at)
    /\ attempts' = [attempts EXCEPT ![at] = @ + 1]
    /\ result' = [result EXCEPT ![at] = file]
    /\ stale' = (stale \ {at}) \cup {s \in Steps : s > at /\ Passed(s)}
    /\ UNCHANGED <<kept, loops, consults, decision, proc, at, wr, stoppedAt, asked,
                   ledger, span, answer, waved, sentBack, calls>>

\* An earlier attempt's verdict is left where it is.
BeginVariant == BeginWith(result[at])

\* prepare: whatever an earlier attempt left as its verdict is removed.
Begin == BeginWith(NoResult)

BeginAgent ==
    /\ Begin
    /\ at \in AgentSteps /\ ~NameTaken(Me')
    /\ tabs' = tabs \cup {Me'} /\ working' = working \cup {Me'}
    /\ pc' = "running"
    /\ UNCHANGED <<sr, verdict, ran>>

\* herdr will not start a second agent of one name: the step parks without having run.
RefuseAgent ==
    /\ Begin
    /\ at \in AgentSteps /\ NameTaken(Me')
    /\ sr' = "parked" /\ verdict' = "" /\ ran' = ran \cup {at}
    /\ pc' = "settled"
    /\ UNCHANGED herdr

BeginCommand ==
    /\ Begin
    /\ at \notin AgentSteps
    /\ pc' = "running"
    /\ UNCHANGED <<herdr, sr, verdict, ran>>

\* An agent writes the result.json of the directory it was given: while its process
\* waits for it, or when the run has stopped at its step.
AgentWrites(a, status) ==
    /\ a.step # Watcher
    /\ \/ pc = "running" /\ a = Me
       \/ pc = "idle" /\ stoppedAt = at /\ a = Me
       \/ pc \in LateAt
    /\ result' = [result EXCEPT ![a.step] =
                     [status |-> status, proc |-> a.proc, attempt |-> a.attempt]]
    /\ working' = working \ {a}
    /\ UNCHANGED <<kept, loops, consults, decision, tabs, proc, pc, at, sr, verdict,
                   record, memory, ghosts>>

(***************************************************************************)
(* classify: result.json is the authority, and a step without a readable   *)
(* one parks: its agent died, timed out, is blocked or was lost sight of.  *)
(* Only a step that is done gives its tab back.                            *)
(***************************************************************************)
OutcomeOf(status) ==
    CASE status = "ok" -> "done" [] status = "error" -> "failed" [] OTHER -> "parked"

Settle(outcome) ==
    /\ sr' = outcome
    /\ verdict' \in IF outcome = "failed" THEN Verdicts ELSE {""}
    /\ ran' = ran \cup {at}
    /\ pc' = "settled"
    /\ UNCHANGED <<kept, loops, consults, decision, proc, at, wr, stoppedAt, asked, memory, ghosts>>

SettleAgent ==
    /\ pc = "running" /\ at \in AgentSteps
    /\ Settle(OutcomeOf(result[at].status))
    /\ tabs' = IF Passed(at) THEN tabs \ {Me} ELSE tabs
    /\ working' = IF Passed(at) THEN working \ {Me} ELSE working
    /\ UNCHANGED result

\* The harness writes the result of a command itself, from its exit status.
SettleCommand(status) ==
    /\ pc = "running" /\ at \notin AgentSteps
    /\ Settle(OutcomeOf(status))
    /\ result' = [result EXCEPT ![at] =
                     [status |-> status, proc |-> proc, attempt |-> attempts[at]]]
    /\ UNCHANGED herdr

-----------------------------------------------------------------------------
(***************************************************************************)
(* What a settled step leads to.                                           *)
(***************************************************************************)

CarryOn ==
    /\ pc = "settled" /\ sr = "done" /\ ~(Overseen /\ EveryStep)
    /\ at' = at + 1 /\ pc' = "loop"
    /\ UNCHANGED <<dir, herdr, proc, sr, verdict, record, memory, ghosts>>

Watch ==
    /\ pc = "settled" /\ sr = "done" /\ Overseen /\ EveryStep
    /\ pc' = "consult"
    /\ UNCHANGED <<dir, herdr, proc, at, sr, verdict, record, memory, ghosts>>

\* loopBack: the edge has loops left, and the verdict is not the last one again.
EdgeOpen ==
    /\ Goto[at] # 0
    /\ ledger.spent[at] < MaxLoops[at]
    /\ verdict = "" \/ verdict # ledger.verdict[at]

TakeEdge ==
    /\ pc = "settled" /\ sr = "failed" /\ EdgeOpen
    /\ span' = [next |-> Goto[at], to |-> Goto[at], no |-> ledger.spent[at] + 1, edge |-> TRUE]
    /\ pc' = "clearing"
    /\ UNCHANGED <<dir, herdr, proc, at, sr, verdict, record, attempts, ledger, answer, ghosts>>

\* Where the flow would park: this much is recorded before anybody is asked.
Park(outcome, stop) ==
    /\ pc = "settled"
    /\ sr = "parked" \/ (sr = "failed" /\ ~EdgeOpen)
    /\ wr' = outcome /\ stoppedAt' = stop
    /\ pc' = IF Overseen THEN "consult" ELSE "idle"
    /\ UNCHANGED <<dir, herdr, proc, at, sr, verdict, ran, asked, memory, ghosts>>

\* The park is recorded first, and a decision can only move the run off it.
ParkHere == Park("parked", at)

\* One rename of clearSpan, up to the last step of the span.
ClearUpTo(last, files) ==
    /\ pc = "clearing"
    /\ kept' = files
    /\ result' = [result EXCEPT ![span.next] = NoResult]
    /\ stale' = stale \ {span.next}
    /\ span' = [span EXCEPT !.next = @ + 1]
    /\ pc' = IF span.next < last THEN "clearing" ELSE IF span.edge THEN "charging" ELSE "jumping"
    /\ UNCHANGED <<loops, consults, decision, herdr, proc, at, sr, verdict, record,
                   attempts, ledger, answer, waved, sentBack, calls>>

\* The file goes over whatever has that number already.
SetAside(s) ==
    IF result[s] = NoResult THEN kept
    ELSE {k \in kept : ~(k.step = s /\ k.no = span.no)}
         \cup {[step |-> s, no |-> span.no, file |-> result[s]]}

\* Only the target is cleared.
ClearTargetVariant == ClearUpTo(span.to, SetAside(span.next))

\* The files are deleted.
ClearDeletingVariant == ClearUpTo(at, kept)

ClearOne == ClearUpTo(at, SetAside(span.next))

ChargeAndJump(target) ==
    /\ pc = "charging"
    /\ ledger' = [spent |-> [ledger.spent EXCEPT ![at] = @ + 1],
                  verdict |-> [ledger.verdict EXCEPT ![at] = verdict]]
    /\ loops' = ledger'
    /\ sentBack' = [sentBack EXCEPT ![at] = @ + 1]
    /\ at' = target /\ pc' = "loop"
    /\ UNCHANGED <<result, kept, consults, decision, herdr, proc, sr, verdict, record,
                   attempts, span, answer, waved, stale, calls>>

\* The loop is charged to the step, on disk, before the retry runs.
Charge == ChargeAndJump(span.to)

-----------------------------------------------------------------------------
(***************************************************************************)
(* The overwatch.                                                          *)
(***************************************************************************)

StopUnasked(outcome, stop) ==
    /\ pc = "consult" /\ consults >= Budget
    /\ asked' = asked + 1
    /\ wr' = outcome /\ stoppedAt' = stop /\ pc' = "idle"
    /\ UNCHANGED <<dir, herdr, proc, at, sr, verdict, ran, memory, ghosts>>

\* The run stops as what it is recorded as.
ConsultSpentVariant == StopUnasked(wr, stoppedAt)

\* A run whose budget is gone parks without asking anybody.
ConsultSpent == StopUnasked("parked", at)

\* prepare clears the consult's result.json, not a decision.json that is there.
ConsultBegin ==
    /\ pc = "consult" /\ consults < Budget
    /\ LET started == IF NameTaken(Consultant) THEN {} ELSE {Consultant} IN
         /\ tabs' = tabs \cup started
         /\ working' = working \cup started
         /\ calls' = calls + Cardinality(started)
    /\ pc' = "consulting"
    /\ UNCHANGED <<dir, proc, at, sr, verdict, record, memory, waved, stale, sentBack>>

\* describeDecisions: what the brief offers, with the steps a goto may sensibly name.
Offered ==
    {[verb |-> v, step |-> 0] :
        v \in {"park"} \cup (Allow \cap {"abort", "skip"})
              \cup (IF sr = "done" THEN {"continue"} ELSE Allow \cap {"retry"})}
    \cup {[verb |-> "goto", step |-> s] :
            s \in IF "goto" \in Allow THEN {r \in ran : r <= at} ELSE {}}

Strays ==
    {[verb |-> v, step |-> 0] : v \in OffBrief \ {"forward"}}
    \cup {[verb |-> "goto", step |-> s] : s \in IF "forward" \in OffBrief THEN Steps ELSE {}}

OverwatchWrites(a, d) ==
    /\ a.step = Watcher
    /\ (pc = "consulting" /\ a = Consultant) \/ pc = "idle" \/ pc \in LateAt
    /\ decision' = [decision EXCEPT ![a.attempt] =
                       [verb |-> d.verb, step |-> d.step, proc |-> a.proc]]
    /\ working' = working \ {a}
    /\ UNCHANGED <<result, kept, loops, consults, tabs, proc, pc, at, sr, verdict,
                   record, memory, ghosts>>

\* Permits and sanitise: what the run may not act on is a park.
Permits(verb) == verb \in Allow \cup {"park", "continue"}

Sanitise(d) ==
    IF Permits(d.verb) /\ (d.verb = "goto" => d.step \in ran)
    THEN d ELSE [verb |-> "park", step |-> 0, proc |-> d.proc]

(***************************************************************************)
(* The consult is charged, then its decision is read.  Its agent's name    *)
(* carries the number of a consult that is charged now, so its tab matters *)
(* to nothing any more.                                                    *)
(***************************************************************************)
ConsultOver(charge) ==
    /\ pc = "consulting"
    /\ consults' = consults + charge
    /\ asked' = asked + 1
    /\ answer' = Sanitise(decision[consults + 1])
    /\ tabs' = {a \in tabs : ~(a.step = Watcher /\ a.attempt = consults + 1)}
    /\ working' = working \cap tabs'
    /\ pc' = "deciding"
    /\ UNCHANGED <<result, kept, loops, decision, proc, at, sr, verdict, wr, stoppedAt, ran,
                   attempts, ledger, span, ghosts>>

\* The consult is never charged.
ConsultUnchargedVariant == ConsultOver(0)

\* The consult has no deadline of its own.
ConsultUnboundedVariant == ConsultOver(1) /\ decision[consults + 1] # NoDecision

\* The consult is over by an answer, or by its deadline.
ConsultEnds == ConsultOver(1)

Unpark == wr' = "done" /\ stoppedAt' = 0

ActContinue ==
    /\ pc = "deciding" /\ answer.verb = "continue"
    /\ at' = at + 1 /\ pc' = "loop"
    /\ UNCHANGED <<dir, herdr, proc, sr, verdict, record, memory, ghosts>>

ActSkip ==
    /\ pc = "deciding" /\ answer.verb = "skip"
    /\ Unpark
    /\ waved' = waved \cup {at}
    /\ at' = at + 1 /\ pc' = "loop"
    /\ UNCHANGED <<dir, herdr, proc, sr, verdict, ran, asked, memory, stale, sentBack, calls>>

ActRetry ==
    /\ pc = "deciding" /\ answer.verb = "retry"
    /\ Unpark
    /\ pc' = "loop"
    /\ UNCHANGED <<dir, herdr, proc, at, sr, verdict, ran, asked, memory, ghosts>>

\* The span is numbered by the decisions taken so far.
ActGoto ==
    /\ pc = "deciding" /\ answer.verb = "goto" /\ answer.step <= at
    /\ span' = [next |-> answer.step, to |-> answer.step, no |-> asked, edge |-> FALSE]
    /\ pc' = "clearing"
    /\ UNCHANGED <<dir, herdr, proc, at, sr, verdict, record, attempts, ledger, answer, ghosts>>

JumpTo(target) ==
    /\ pc = "jumping"
    /\ Unpark
    /\ at' = target /\ pc' = "loop"
    /\ UNCHANGED <<dir, herdr, proc, sr, verdict, ran, asked, memory, ghosts>>

\* The loop's increment lands one step past the target.
GoBackVariant == JumpTo(span.to + 1)

GoBack == JumpTo(span.to)

\* A step after this one, which did run before the run was sent back: the run stops as it is.
ActGotoForward ==
    /\ pc = "deciding" /\ answer.verb = "goto" /\ answer.step > at
    /\ pc' = "idle"
    /\ UNCHANGED <<dir, herdr, proc, at, sr, verdict, record, memory, ghosts>>

ActStop ==
    /\ pc = "deciding" /\ answer.verb \in {"park", "abort"}
    /\ wr' = "parked" /\ stoppedAt' = at /\ pc' = "idle"
    /\ UNCHANGED <<dir, herdr, proc, at, sr, verdict, ran, asked, memory, ghosts>>

Finish ==
    /\ pc = "loop" /\ at = N + 1
    /\ pc' = "idle"
    /\ UNCHANGED <<dir, herdr, proc, at, sr, verdict, record, memory, ghosts>>

-----------------------------------------------------------------------------
(***************************************************************************)
(* What happens to the run.                                                *)
(***************************************************************************)

\* A write of loops.json that is cut short leaves a file that reads as empty.
LoopsCutShort ==
    loops' \in {loops} \cup (IF Torn /\ pc = "charging" THEN {EmptyLedger} ELSE {})

Crash ==
    /\ pc \in CrashAt
    /\ LoopsCutShort
    /\ pc' = "idle" /\ wr' = "crashed"
    /\ stoppedAt' = IF pc = "running" THEN at ELSE 0
    /\ UNCHANGED <<result, kept, consults, decision, herdr, proc, at, sr, verdict,
                   ran, asked, memory, ghosts>>

\* A rename or the write of loops.json fails: the run parks there, asking nobody.
Fault ==
    /\ pc \in FaultAt
    /\ LoopsCutShort
    /\ pc' = "idle" /\ wr' = "parked" /\ stoppedAt' = at
    /\ UNCHANGED <<result, kept, consults, decision, herdr, proc, at, sr, verdict,
                   ran, asked, memory, ghosts>>

\* A human closes the tab of an agent, or the agent's pane goes away.
CloseTab(a) ==
    /\ tabs' = tabs \ {a} /\ working' = working \ {a}
    /\ UNCHANGED <<dir, proc, pc, at, sr, verdict, record, memory, ghosts>>

\* The steps the process takes by itself.
Engine ==
    \/ Reuse \/ BeginAgent \/ RefuseAgent \/ BeginCommand
    \/ SettleAgent \/ \E status \in {"ok", "error"} : SettleCommand(status)
    \/ CarryOn \/ Watch \/ TakeEdge \/ ParkHere \/ ClearOne \/ Charge
    \/ ConsultSpent \/ ConsultBegin \/ ConsultEnds
    \/ ActContinue \/ ActSkip \/ ActRetry \/ ActGoto \/ GoBack \/ ActGotoForward \/ ActStop
    \/ Finish

World ==
    \/ \E reset \in BOOLEAN : Start(reset)
    \/ \E a \in working, status \in {"ok", "error", "unreadable"} : AgentWrites(a, status)
    \/ \E a \in working, d \in Offered \cup Strays : OverwatchWrites(a, d)
    \/ Crash \/ Fault
    \/ \E a \in tabs : CloseTab(a)

Next == Engine \/ World

Spec == Init /\ [][Next]_vars

(***************************************************************************)
(* The process keeps going.  A step comes to an end because the job has a  *)
(* timeout, a consult because it has a deadline of its own.                *)
(***************************************************************************)
FairSpec == Spec /\ WF_vars(Engine)

-----------------------------------------------------------------------------
(***************************************************************************)
(* Properties.                                                             *)
(***************************************************************************)

Outcomes == {"none", "ok", "error", "unreadable"}
File == [status : Outcomes, proc : Nat, attempt : Nat]
Ledger == [spent : [Steps -> Nat], verdict : [Steps -> Verdicts \cup {""}]]
Decision == [verb : {"none", "continue", "skip", "retry", "goto", "park", "abort"},
             step : 0..N, proc : Nat]
AgentId == [step : 0..N, attempt : Nat, proc : Nat]

DirOK ==
    /\ result \in [Steps -> File]
    /\ kept \subseteq [step : Steps, no : Nat, file : File]
    /\ loops \in Ledger
    /\ consults \in 0..Budget /\ decision \in [1..Budget -> Decision]

HerdrOK == tabs \subseteq AgentId /\ working \subseteq tabs

ProcessOK ==
    /\ proc \in 0..MaxProcs /\ at \in 1..(N + 1)
    /\ pc \in Places
    /\ sr \in {"none", "done", "failed", "parked"} /\ verdict \in Verdicts \cup {""}
    /\ wr \in {"none", "done", "parked", "crashed"} /\ stoppedAt \in 0..N
    /\ ran \subseteq Steps /\ asked \in Nat

MemoryOK ==
    /\ attempts \in [Steps -> Nat]
    /\ ledger \in Ledger
    /\ span \in [next : 0..(N + 1), to : 0..N, no : Nat, edge : BOOLEAN]
    /\ answer \in Decision

GhostsOK ==
    /\ waved \subseteq Steps /\ stale \subseteq Steps
    /\ sentBack \in [Steps -> Nat] /\ calls \in Nat

\* Every variable holds values of the engine's types.
TypeOK == DirOK /\ HerdrOK /\ ProcessOK /\ MemoryOK /\ GhostsOK

\* B does not run on A's unverified claim: while a step runs, every step before it
\* has a result that says ok, or was accepted by a skip the flow permits.
RunsInOrder ==
    pc = "running" => \A s \in Steps : s < at => Passed(s) \/ s \in waved

\* A result is reused only if no earlier step has run again since it was written:
\* the checker is never handed a verdict on an attempt that was since replaced.
ReusesFreshWork == pc = "loop" /\ at \in Steps /\ Passed(at) => at \notin stale

\* However often the run is resumed, a step sends it back at most max_loops times,
\* until somebody asks for the allowance back.
EdgesAreBounded == \A s \in Steps : sentBack[s] <= MaxLoops[s]

\* However often the run is resumed, it starts at most Budget overwatch agents.
ConsultsAreBounded == calls <= Budget

\* A run that ends as done has, at that moment, an ok result for every declared step,
\* but for the ones a permitted skip accepted.
DoneMeansDone ==
    [][pc # "idle" /\ pc' = "idle" /\ wr' = "done" =>
           \A s \in Steps : Passed(s) \/ s \in waved]_vars

\* A verdict, done or failed, was written by the attempt it is taken as the verdict of.
VerdictIsOwn ==
    pc = "settled" /\ sr \in {"done", "failed"} =>
        result[at].proc = proc /\ result[at].attempt = attempts[at]

\* The overwatch decision a run acts on is one its own process asked for; a consult
\* that left none parks.
DecisionIsOwn == pc = "deciding" /\ answer.verb # "park" => answer.proc = proc

\* The engine loses no finished work: an ok result goes only into a kept file of its
\* step, whatever is sent back, crashes or fails while it is moved.
FinishedWorkIsKept ==
    [][\A s \in Steps : pc # "idle" /\ Passed(s) /\ result'[s] # result[s] =>
           \E k \in kept' : k.step = s /\ k.file = result[s]]_vars

\* Every process that executes the run comes to an end.
RunEnds == pc # "idle" ~> pc = "idle"

=============================================================================
