-------------------------- MODULE FlowEngineProofs --------------------------
(***************************************************************************)
(* Theorems about FlowEngine, for every flow, every budget and every       *)
(* number of processes.                                                    *)
(***************************************************************************)
EXTENDS FlowEngine, FiniteSetTheorems, TLAPS

(***************************************************************************)
(* Where the process can be, and what it holds there.                      *)
(***************************************************************************)
ControlInv ==
    /\ pc \notin {"idle", "loop"} => at \in Steps
    /\ pc = "consulting" => consults < Budget
    /\ pc \in {"clearing", "charging", "jumping"} => span.to \in Steps /\ span.to <= at
    /\ pc = "clearing" => span.next \in Steps /\ span.to <= span.next /\ span.next <= at
    /\ pc = "charging" => span.edge
    /\ answer.verb = "goto" => answer.step \in Steps

TypeInv == TypeOK /\ ControlInv

\* An empty ledger is a ledger.
LEMMA EmptyLedgerType == EmptyLedger \in Ledger
BY DEF EmptyLedger, Ledger

LEMMA NoResultType == NoResult \in File
BY DEF NoResult, File, Outcomes

LEMMA NoDecisionType == NoDecision \in Decision
BY StepsAssumption DEF NoDecision, Decision

\* Where a step is, the values next to it are too.
LEMMA Positions ==
    /\ 0 \in 0..N /\ 1 \in 1..(N + 1) /\ 0 \in 0..(N + 1)
    /\ \A s \in Steps : /\ s \in Nat
                        /\ s \in 0..N /\ s \in 1..(N + 1) /\ s \in 0..(N + 1)
                        /\ s + 1 \in 1..(N + 1) /\ s + 1 \in 0..(N + 1)
BY StepsAssumption DEF Steps

LEMMA Successors == \A n \in Nat : n + 1 \in Nat
OBVIOUS

LEMMA Counted ==
    ASSUME NEW f \in [Steps -> Nat], NEW s \in Steps
    PROVE  f[s] + 1 \in Nat /\ [f EXCEPT ![s] = @ + 1] \in [Steps -> Nat]
<1>1. f[s] + 1 \in Nat
  BY Successors
<1>2. QED
  BY <1>1

\* The processes and the consults are counted.
LEMMA Counts ==
    /\ \A p \in 0..MaxProcs : p \in Nat /\ (p < MaxProcs => p + 1 \in 0..MaxProcs)
    /\ \A c \in 0..Budget : c \in Nat /\ c + 1 \in Nat /\ (c < Budget => c + 1 \in 1..Budget)
    /\ 0 \in 0..Budget
<1>1. MaxProcs \in Nat /\ Budget \in Nat
  BY BoundsAssumption, OverwatchAssumption
<1>2. QED
  BY <1>1

LEMMA Zeroes == [s \in Steps |-> 0] \in [Steps -> Nat]
OBVIOUS

\* An edge leads to an earlier step.
LEMMA EdgeTargets == \A s \in Steps : Goto[s] # 0 => Goto[s] \in Steps /\ Goto[s] <= s
<1> TAKE s \in Steps
<1>1. Goto[s] \in 0..N /\ Goto[s] < s /\ s \in Nat
  BY EdgesAssumption, Positions
<1>2. QED
  BY <1>1, StepsAssumption DEF Steps

\* The number of agents started is zero or one.
LEMMA StartedCount ==
    ASSUME NEW C, NEW c \in Nat
    PROVE  c + Cardinality(IF C THEN {} ELSE {Consultant}) \in Nat
<1>1. Cardinality({}) = 0 /\ Cardinality({Consultant}) = 1
  BY FS_EmptySet, FS_Singleton
<1>2. c + 0 \in Nat /\ c + 1 \in Nat
  OBVIOUS
<1>3. CASE C
  BY <1>1, <1>2, <1>3
<1>4. CASE ~C
  BY <1>1, <1>2, <1>4
<1>5. QED
  BY <1>3, <1>4

\* What a step does not touch stays of its type.
LEMMA DirKept == DirOK /\ UNCHANGED dir => DirOK'
BY DEF DirOK, dir

LEMMA HerdrKept == HerdrOK /\ UNCHANGED herdr => HerdrOK'
BY DEF HerdrOK, herdr

LEMMA MemoryKept == MemoryOK /\ UNCHANGED memory => MemoryOK'
BY DEF MemoryOK, memory

LEMMA GhostsKept == GhostsOK /\ UNCHANGED ghosts => GhostsOK'
BY DEF GhostsOK, ghosts

\* The types hold in every initial state.
LEMMA TypeInit == Init => TypeInv
<1> SUFFICES ASSUME Init PROVE TypeInv
  OBVIOUS
<1>1. DirOK
  BY EmptyLedgerType, NoResultType, NoDecisionType, Counts DEF Init, DirOK
<1>2. HerdrOK
  BY DEF Init, HerdrOK
<1>3. ProcessOK
  <2>1. 0 \in 0..MaxProcs
    BY BoundsAssumption
  <2>2. QED
    BY <2>1, Positions DEF Init, ProcessOK, Places
<1>4. MemoryOK
  BY EmptyLedgerType, NoDecisionType, Positions, Zeroes DEF Init, MemoryOK, NoSpan
<1>5. GhostsOK
  BY Zeroes DEF Init, GhostsOK
<1>6. ControlInv
  BY DEF Init, ControlInv, NoDecision
<1>7. QED
  BY <1>1, <1>2, <1>3, <1>4, <1>5, <1>6 DEF TypeInv, TypeOK

\* Every step keeps the types.
LEMMA TypeStep == TypeInv /\ [Next]_vars => TypeInv'
<1> SUFFICES ASSUME DirOK, HerdrOK, ProcessOK, MemoryOK, GhostsOK, ControlInv, [Next]_vars
             PROVE  TypeInv'
  BY DEF TypeInv, TypeOK
<1>1. CASE Reuse
  BY <1>1, Positions, DirKept, HerdrKept, MemoryKept, GhostsKept
     DEF Reuse, ProcessOK, Places, ControlInv, record, memory, dir, TypeInv, TypeOK
<1>2. CASE BeginAgent
  <2>1. DirOK'
    BY <1>2, NoResultType DEF BeginAgent, Begin, BeginWith, DirOK
  <2>0. attempts' \in [Steps -> Nat] /\ at \in Steps
    BY <1>2, Counted DEF BeginAgent, Begin, BeginWith, MemoryOK
  <2>2. HerdrOK'
    <3>1. at' = at /\ proc' = proc
      BY <1>2 DEF BeginAgent, Begin, BeginWith
    <3>2. at' \in 0..N /\ attempts'[at'] \in Nat /\ proc' \in Nat
      BY <2>0, <3>1, Positions, Counts DEF ProcessOK, Places
    <3>3. Me' \in AgentId
      BY <3>2 DEF Me, Agent, AgentId
    <3>4. QED
      BY <1>2, <3>3 DEF BeginAgent, HerdrOK
  <2>3. ProcessOK'
    BY <1>2 DEF BeginAgent, Begin, BeginWith, ProcessOK, Places
  <2>4. MemoryOK'
    BY <1>2, <2>0 DEF BeginAgent, Begin, BeginWith, MemoryOK
  <2>5. GhostsOK'
    BY <1>2 DEF BeginAgent, Begin, BeginWith, GhostsOK
  <2>6. ControlInv'
    BY <1>2 DEF BeginAgent, Begin, BeginWith, ControlInv, MemoryOK
  <2>7. QED
    BY <2>1, <2>2, <2>3, <2>4, <2>5, <2>6 DEF TypeInv, TypeOK
<1>3. CASE RefuseAgent
  <2>1. DirOK'
    BY <1>3, NoResultType DEF RefuseAgent, Begin, BeginWith, DirOK
  <2>2. HerdrOK'
    BY <1>3, HerdrKept DEF RefuseAgent, HerdrOK
  <2>3. ProcessOK'
    BY <1>3 DEF RefuseAgent, Begin, BeginWith, ProcessOK, Places
  <2>4. MemoryOK'
    <3>1. attempts' \in [Steps -> Nat]
      BY <1>3, Counted DEF RefuseAgent, Begin, BeginWith, MemoryOK
    <3>2. QED
      BY <1>3, <3>1 DEF RefuseAgent, Begin, BeginWith, MemoryOK
  <2>5. GhostsOK'
    BY <1>3 DEF RefuseAgent, Begin, BeginWith, GhostsOK
  <2>6. ControlInv'
    BY <1>3 DEF RefuseAgent, Begin, BeginWith, ControlInv, MemoryOK
  <2>7. QED
    BY <2>1, <2>2, <2>3, <2>4, <2>5, <2>6 DEF TypeInv, TypeOK
<1>4. CASE BeginCommand
  <2>1. DirOK'
    BY <1>4, NoResultType DEF BeginCommand, Begin, BeginWith, DirOK
  <2>2. HerdrOK'
    BY <1>4, HerdrKept DEF BeginCommand, HerdrOK
  <2>3. ProcessOK'
    BY <1>4 DEF BeginCommand, Begin, BeginWith, ProcessOK, Places
  <2>4. MemoryOK'
    <3>1. attempts' \in [Steps -> Nat]
      BY <1>4, Counted DEF BeginCommand, Begin, BeginWith, MemoryOK
    <3>2. QED
      BY <1>4, <3>1 DEF BeginCommand, Begin, BeginWith, MemoryOK
  <2>5. GhostsOK'
    BY <1>4 DEF BeginCommand, Begin, BeginWith, GhostsOK
  <2>6. ControlInv'
    BY <1>4 DEF BeginCommand, Begin, BeginWith, ControlInv, MemoryOK
  <2>7. QED
    BY <2>1, <2>2, <2>3, <2>4, <2>5, <2>6 DEF TypeInv, TypeOK
<1>5. CASE SettleAgent
  BY <1>5, Positions, DirKept, MemoryKept, GhostsKept
     DEF SettleAgent, Settle, OutcomeOf, ProcessOK, Places, ControlInv, record, memory, HerdrOK, dir, TypeInv, TypeOK
<1>6. CASE CarryOn
  BY <1>6, Positions, DirKept, HerdrKept, MemoryKept, GhostsKept
     DEF CarryOn, ProcessOK, Places, ControlInv, record, memory, dir, TypeInv, TypeOK
<1>7. CASE Watch
  BY <1>7, DirKept, HerdrKept, MemoryKept, GhostsKept
     DEF Watch, ProcessOK, Places, ControlInv, record, memory, dir, TypeInv, TypeOK
<1>8. CASE TakeEdge
  <2>1. DirOK' /\ HerdrOK' /\ GhostsOK'
    BY <1>8, DirKept, HerdrKept, GhostsKept DEF TakeEdge
  <2>2. ProcessOK'
    BY <1>8 DEF TakeEdge, ProcessOK, Places, record
  <2>3. Goto[at] \in Steps /\ Goto[at] <= at
    BY <1>8, EdgeTargets DEF TakeEdge, EdgeOpen, ControlInv
  <2>4. ledger.spent[at] + 1 \in Nat
    <3>1. ledger.spent \in [Steps -> Nat] /\ at \in Steps
      BY <1>8 DEF TakeEdge, ControlInv, MemoryOK, Ledger
    <3>2. QED
      BY <3>1, Counted
  <2>5. MemoryOK'
    BY <1>8, <2>3, <2>4, Positions DEF TakeEdge, MemoryOK
  <2>6. ControlInv'
    BY <1>8, <2>3, Positions DEF TakeEdge, ControlInv
  <2>7. QED
    BY <2>1, <2>2, <2>3, <2>4, <2>5, <2>6 DEF TypeInv, TypeOK
<1>9. CASE ParkHere
  BY <1>9, Positions, DirKept, HerdrKept, MemoryKept, GhostsKept
     DEF ParkHere, Park, ProcessOK, Places, ControlInv, record, memory, dir, TypeInv, TypeOK
<1>10. CASE ClearOne
  <2>1. span.next \in Steps
    BY <1>10 DEF ClearOne, ClearUpTo, ControlInv
  <2>2. DirOK'
    BY <1>10, <2>1, NoResultType DEF ClearOne, ClearUpTo, SetAside, DirOK, MemoryOK
  <2>3. HerdrOK'
    BY <1>10, HerdrKept DEF ClearOne, ClearUpTo, SetAside
  <2>4. ProcessOK'
    BY <1>10 DEF ClearOne, ClearUpTo, SetAside, ProcessOK, Places, record
  <2>5. MemoryOK'
    BY <1>10, <2>1, Positions DEF ClearOne, ClearUpTo, SetAside, MemoryOK
  <2>6. GhostsOK'
    BY <1>10 DEF ClearOne, ClearUpTo, SetAside, GhostsOK
  <2>7. ControlInv'
    <3>1. /\ pc' = IF span.next < at THEN "clearing" ELSE IF span.edge THEN "charging" ELSE "jumping"
          /\ at' = at /\ answer' = answer /\ at \in Steps
          /\ span'.to = span.to /\ span'.edge = span.edge /\ span'.next = span.next + 1
          /\ span.to \in Steps /\ span.to <= at /\ span.to <= span.next
      BY <1>10 DEF ClearOne, ClearUpTo, ControlInv, MemoryOK
    <3>2. span.next < at => span.next + 1 \in Steps /\ span.to <= span.next + 1 /\ span.next + 1 <= at
      BY <2>1, <3>1, StepsAssumption DEF Steps
    <3>3. QED
      BY <3>1, <3>2 DEF ControlInv
  <2>8. QED
    BY <2>1, <2>2, <2>3, <2>4, <2>5, <2>6, <2>7 DEF TypeInv, TypeOK
<1>11. CASE Charge
  <2>1. ledger' \in Ledger
    <3>1. [ledger.spent EXCEPT ![at] = @ + 1] \in [Steps -> Nat]
      <4>1. ledger.spent \in [Steps -> Nat] /\ at \in Steps
        BY <1>11 DEF Charge, ChargeAndJump, ControlInv, MemoryOK, Ledger
      <4>2. QED
        BY <4>1, Counted
    <3>2. [ledger.verdict EXCEPT ![at] = verdict] \in [Steps -> Verdicts \cup {""}]
      BY <1>11 DEF MemoryOK, ProcessOK, Places, Ledger
    <3>3. QED
      BY <1>11, <3>1, <3>2 DEF Charge, ChargeAndJump, Ledger
  <2>2. DirOK'
    BY <1>11, <2>1 DEF Charge, ChargeAndJump, DirOK
  <2>3. HerdrOK'
    BY <1>11, HerdrKept DEF Charge, ChargeAndJump
  <2>4. ProcessOK'
    BY <1>11, Positions DEF Charge, ChargeAndJump, ControlInv, ProcessOK, Places, record
  <2>5. MemoryOK'
    BY <1>11, <2>1 DEF Charge, ChargeAndJump, MemoryOK
  <2>6. GhostsOK'
    <3>1. sentBack' \in [Steps -> Nat]
      BY <1>11, Counted DEF Charge, ChargeAndJump, ControlInv, GhostsOK
    <3>2. QED
      BY <1>11, <3>1 DEF Charge, ChargeAndJump, GhostsOK
  <2>7. ControlInv'
    BY <1>11 DEF Charge, ChargeAndJump, ControlInv
  <2>8. QED
    BY <2>1, <2>2, <2>3, <2>4, <2>5, <2>6, <2>7 DEF TypeInv, TypeOK
<1>12. CASE ConsultSpent
  <2>1. DirOK' /\ HerdrOK' /\ MemoryOK' /\ GhostsOK'
    BY <1>12, DirKept, HerdrKept, MemoryKept, GhostsKept DEF ConsultSpent, StopUnasked
  <2>2. asked' \in Nat /\ at \in 0..N
    BY <1>12, Positions, Successors DEF ConsultSpent, StopUnasked, ProcessOK, Places, ControlInv
  <2>3. ProcessOK'
    BY <1>12, <2>2 DEF ConsultSpent, StopUnasked, ProcessOK, Places
  <2>4. ControlInv'
    BY <1>12 DEF ConsultSpent, StopUnasked, ControlInv, memory
  <2>5. QED
    BY <2>1, <2>2, <2>3, <2>4 DEF TypeInv, TypeOK
<1>13. CASE ConsultBegin
  <2>1. DirOK' /\ MemoryOK'
    BY <1>13, DirKept, MemoryKept DEF ConsultBegin
  <2>2. Consultant \in AgentId
    <3>1. consults + 1 \in Nat /\ proc \in Nat
      BY Counts DEF DirOK, ProcessOK, Places
    <3>2. QED
      BY <3>1, Positions DEF Consultant, Agent, AgentId, Watcher
  <2>3. HerdrOK'
    BY <1>13, <2>2 DEF ConsultBegin, HerdrOK
  <2>4. ProcessOK'
    BY <1>13 DEF ConsultBegin, ProcessOK, Places, record
  <2>5. calls' \in Nat
    BY <1>13, StartedCount DEF ConsultBegin, GhostsOK
  <2>6. GhostsOK'
    BY <1>13, <2>5 DEF ConsultBegin, GhostsOK
  <2>7. ControlInv'
    BY <1>13 DEF ConsultBegin, ControlInv, memory, dir
  <2>8. QED
    BY <2>1, <2>2, <2>3, <2>4, <2>5, <2>6, <2>7 DEF TypeInv, TypeOK
<1>14. CASE ConsultEnds
  <2>1. consults + 1 \in 1..Budget
    BY <1>14, OverwatchAssumption DEF ConsultEnds, ConsultOver, ControlInv, DirOK
  <2>2. DirOK'
    BY <1>14, <2>1, OverwatchAssumption DEF ConsultEnds, ConsultOver, DirOK
  <2>3. HerdrOK'
    BY <1>14 DEF ConsultEnds, ConsultOver, HerdrOK
  <2>4. ProcessOK'
    <3>1. asked' \in Nat
      BY <1>14, Successors DEF ConsultEnds, ConsultOver, ProcessOK, Places
    <3>2. QED
      BY <1>14, <3>1 DEF ConsultEnds, ConsultOver, ProcessOK, Places
  <2>5. decision[consults + 1] \in Decision
    BY <1>14, <2>1 DEF DirOK
  <2>6. answer' \in Decision /\ (answer'.verb = "goto" => answer'.step \in Steps)
    BY <1>14, <2>5, Positions DEF ConsultEnds, ConsultOver, Sanitise, Decision, ProcessOK, Places
  <2>7. MemoryOK'
    BY <1>14, <2>6 DEF ConsultEnds, ConsultOver, MemoryOK
  <2>8. GhostsOK'
    BY <1>14, GhostsKept DEF ConsultEnds, ConsultOver
  <2>9. ControlInv'
    BY <1>14, <2>6 DEF ConsultEnds, ConsultOver, ControlInv
  <2>10. QED
    BY <2>1, <2>2, <2>3, <2>4, <2>5, <2>6, <2>7, <2>8, <2>9 DEF TypeInv, TypeOK
<1>15. CASE ActContinue
  BY <1>15, Positions, DirKept, HerdrKept, MemoryKept, GhostsKept
     DEF ActContinue, ProcessOK, Places, ControlInv, record, memory, dir, TypeInv, TypeOK
<1>16. CASE ActSkip
  BY <1>16, Positions, DirKept, HerdrKept, MemoryKept
     DEF ActSkip, Unpark, ProcessOK, Places, ControlInv, record, memory, GhostsOK, dir, TypeInv, TypeOK
<1>17. CASE ActRetry
  BY <1>17, Positions, DirKept, HerdrKept, MemoryKept, GhostsKept
     DEF ActRetry, Unpark, ProcessOK, Places, ControlInv, record, memory, dir, TypeInv, TypeOK
<1>18. CASE ActGoto
  <2>1. DirOK' /\ HerdrOK' /\ GhostsOK'
    BY <1>18, DirKept, HerdrKept, GhostsKept DEF ActGoto
  <2>2. ProcessOK'
    BY <1>18 DEF ActGoto, ProcessOK, Places, record
  <2>3. MemoryOK'
    BY <1>18, Positions DEF ActGoto, MemoryOK, ControlInv, ProcessOK, Places
  <2>4. ControlInv'
    BY <1>18, Positions DEF ActGoto, ControlInv
  <2>5. QED
    BY <2>1, <2>2, <2>3, <2>4 DEF TypeInv, TypeOK
<1>19. CASE GoBack
  BY <1>19, Positions, DirKept, HerdrKept, MemoryKept, GhostsKept
     DEF GoBack, JumpTo, Unpark, ProcessOK, Places, ControlInv, record, memory, dir, TypeInv, TypeOK
<1>20. CASE ActGotoForward
  BY <1>20, DirKept, HerdrKept, MemoryKept, GhostsKept
     DEF ActGotoForward, ProcessOK, Places, ControlInv, record, memory, dir, TypeInv, TypeOK
<1>21. CASE ActStop
  BY <1>21, Positions, DirKept, HerdrKept, MemoryKept, GhostsKept
     DEF ActStop, ProcessOK, Places, ControlInv, record, memory, dir, TypeInv, TypeOK
<1>22. CASE Finish
  BY <1>22, DirKept, HerdrKept, MemoryKept, GhostsKept
     DEF Finish, ProcessOK, Places, ControlInv, record, memory, dir, TypeInv, TypeOK
<1>23. CASE Crash
  <2>1. DirOK' /\ HerdrOK' /\ MemoryOK' /\ GhostsOK'
    BY <1>23, EmptyLedgerType, HerdrKept, MemoryKept, GhostsKept DEF Crash, LoopsCutShort, DirOK
  <2>2. stoppedAt' \in 0..N
    BY <1>23, Positions DEF Crash, ControlInv
  <2>3. ProcessOK'
    BY <1>23, <2>2 DEF Crash, ProcessOK, Places
  <2>4. ControlInv'
    BY <1>23 DEF Crash, ControlInv, memory
  <2>5. QED
    BY <2>1, <2>3, <2>4 DEF TypeInv, TypeOK
<1>24. CASE Fault
  BY <1>24, Positions, EmptyLedgerType, FailuresAssumption, HerdrKept, MemoryKept, GhostsKept
     DEF Fault, LoopsCutShort, ProcessOK, Places, ControlInv, record, memory, DirOK, TypeInv, TypeOK
<1>25. ASSUME NEW reset \in BOOLEAN, Start(reset)
      PROVE  TypeInv'
  <2>1. DirOK' /\ HerdrOK'
    BY <1>25, DirKept, HerdrKept DEF Start, TakeUp
  <2>2. ProcessOK'
    <3>1. proc + 1 \in 0..MaxProcs
      BY <1>25, Counts DEF Start, TakeUp, ProcessOK, Places
    <3>2. QED
      BY <1>25, <3>1, Positions DEF Start, TakeUp, ProcessOK, Places
  <2>3. MemoryOK'
    BY <1>25, Positions, EmptyLedgerType, NoDecisionType DEF Start, TakeUp, MemoryOK, NoSpan, DirOK
  <2>4. GhostsOK'
    BY <1>25 DEF Start, TakeUp, GhostsOK
  <2>5. ControlInv'
    BY <1>25 DEF Start, TakeUp, ControlInv, NoDecision
  <2>6. QED
    BY <2>1, <2>2, <2>3, <2>4, <2>5 DEF TypeInv, TypeOK
<1>26. ASSUME NEW status \in {"ok", "error"}, SettleCommand(status)
      PROVE  TypeInv'
  <2>1. [status |-> status, proc |-> proc, attempt |-> attempts[at]] \in File
    <3>1. proc \in Nat /\ attempts[at] \in Nat
      BY <1>26, Counts DEF SettleCommand, ProcessOK, Places, MemoryOK, ControlInv
    <3>2. QED
      BY <3>1 DEF File, Outcomes
  <2>2. DirOK'
    BY <1>26, <2>1 DEF SettleCommand, Settle, DirOK
  <2>3. HerdrOK'
    BY <1>26, HerdrKept DEF SettleCommand, Settle
  <2>4. ProcessOK'
    BY <1>26, Positions DEF SettleCommand, Settle, OutcomeOf, ProcessOK, Places, ControlInv
  <2>5. MemoryOK' /\ GhostsOK'
    BY <1>26, MemoryKept, GhostsKept DEF SettleCommand, Settle
  <2>6. ControlInv'
    BY <1>26 DEF SettleCommand, Settle, ControlInv, memory
  <2>7. QED
    BY <2>1, <2>2, <2>3, <2>4, <2>5, <2>6 DEF TypeInv, TypeOK
<1>27. ASSUME NEW a \in working, NEW status \in {"ok", "error", "unreadable"}, AgentWrites(a, status)
      PROVE  TypeInv'
  <2>1. [status |-> status, proc |-> a.proc, attempt |-> a.attempt] \in File
    BY <1>27 DEF HerdrOK, AgentId, File, Outcomes
  <2>2. DirOK'
    BY <1>27, <2>1 DEF AgentWrites, DirOK
  <2>3. HerdrOK'
    BY <1>27 DEF AgentWrites, HerdrOK
  <2>4. ProcessOK'
    BY <1>27 DEF AgentWrites, ProcessOK, Places, record
  <2>5. MemoryOK' /\ GhostsOK'
    BY <1>27, MemoryKept, GhostsKept DEF AgentWrites
  <2>6. ControlInv'
    BY <1>27 DEF AgentWrites, ControlInv, memory
  <2>7. QED
    BY <2>1, <2>2, <2>3, <2>4, <2>5, <2>6 DEF TypeInv, TypeOK
<1>28. ASSUME NEW a \in working, NEW d \in Offered \cup Strays, OverwatchWrites(a, d)
      PROVE  TypeInv'
  <2>1. [verb |-> d.verb, step |-> d.step, proc |-> a.proc] \in Decision
    <3>1. a.proc \in Nat
      BY DEF HerdrOK, AgentId
    <3>2. d.verb \in {"continue", "skip", "retry", "goto", "park", "abort"} /\ d.step \in 0..N
      <4>1. ran \subseteq 0..N /\ Steps \subseteq 0..N /\ 0 \in 0..N
        BY Positions DEF ProcessOK, Places
      <4>2. CASE d \in Offered
        BY <4>1, <4>2, OverwatchAssumption DEF Offered
      <4>3. CASE d \in Strays
        BY <4>1, <4>3, OverwatchAssumption DEF Strays
      <4>4. QED
        BY <4>2, <4>3
    <3>3. QED
      BY <3>1, <3>2 DEF Decision
  <2>2. DirOK'
    BY <1>28, <2>1 DEF OverwatchWrites, DirOK
  <2>3. HerdrOK'
    BY <1>28 DEF OverwatchWrites, HerdrOK
  <2>4. ProcessOK'
    BY <1>28 DEF OverwatchWrites, ProcessOK, Places, record
  <2>5. MemoryOK' /\ GhostsOK'
    BY <1>28, MemoryKept, GhostsKept DEF OverwatchWrites
  <2>6. ControlInv'
    BY <1>28 DEF OverwatchWrites, ControlInv, memory
  <2>7. QED
    BY <2>1, <2>2, <2>3, <2>4, <2>5, <2>6 DEF TypeInv, TypeOK
<1>29. ASSUME NEW a \in tabs, CloseTab(a)
      PROVE  TypeInv'
  <2>1. DirOK' /\ MemoryOK' /\ GhostsOK'
    BY <1>29, DirKept, MemoryKept, GhostsKept DEF CloseTab
  <2>2. HerdrOK'
    BY <1>29 DEF CloseTab, HerdrOK
  <2>3. ProcessOK'
    BY <1>29 DEF CloseTab, ProcessOK, Places, record
  <2>4. ControlInv'
    BY <1>29 DEF CloseTab, ControlInv, memory, dir
  <2>5. QED
    BY <2>1, <2>2, <2>3, <2>4 DEF TypeInv, TypeOK
<1>30. CASE UNCHANGED vars
  <2>1. DirOK' /\ HerdrOK' /\ MemoryOK' /\ GhostsOK'
    BY <1>30, DirKept, HerdrKept, MemoryKept, GhostsKept DEF vars
  <2>2. ProcessOK'
    BY <1>30 DEF vars, ProcessOK, Places, record
  <2>3. ControlInv'
    BY <1>30 DEF vars, ControlInv, memory, dir
  <2>4. QED
    BY <2>1, <2>2, <2>3 DEF TypeInv, TypeOK
<1>31. QED
  BY <1>1, <1>2, <1>3, <1>4, <1>5, <1>6, <1>7, <1>8, <1>9, <1>10,
     <1>11, <1>12, <1>13, <1>14, <1>15, <1>16, <1>17, <1>18, <1>19, <1>20,
     <1>21, <1>22, <1>23, <1>24, <1>25, <1>26, <1>27, <1>28, <1>29, <1>30
     DEF Next, Engine, World

\* The engine's variables keep their types in every behaviour.
THEOREM TypeCorrect == Spec => []TypeOK
<1>1. TypeInv => TypeOK
  BY DEF TypeInv
<1>2. QED
  BY <1>1, TypeInit, TypeStep, PTL DEF Spec

(***************************************************************************)
(* The loop budget.  The counter on disk is at least the times the edge    *)
(* was taken, the counter in memory too while a process runs, and an edge  *)
(* that is being taken has a loop left until it is charged.                *)
(***************************************************************************)
Within(spent) == \A s \in Steps : sentBack[s] <= spent[s] /\ spent[s] <= MaxLoops[s]

LoopInv ==
    /\ Within(loops.spent)
    /\ pc # "idle" => Within(ledger.spent)
    /\ (pc = "clearing" /\ span.edge) \/ pc = "charging" => ledger.spent[at] < MaxLoops[at]

LEMMA Allowances == MaxLoops \in [Steps -> Nat]
<1>1. MaxLoops \in [Steps -> 1..8]
  BY EdgesAssumption
<1>2. 1..8 \subseteq Nat
  OBVIOUS
<1>3. QED
  BY <1>1, <1>2

LEMMA LoopInit == Init => LoopInv
<1> SUFFICES ASSUME Init PROVE LoopInv
  OBVIOUS
<1>1. \A s \in Steps : sentBack[s] = 0 /\ loops.spent[s] = 0
  BY DEF Init, EmptyLedger
<1>2. \A s \in Steps : 0 <= MaxLoops[s]
  BY Allowances
<1>3. Within(loops.spent)
  BY <1>1, <1>2 DEF Within
<1>4. QED
  BY <1>3 DEF Init, LoopInv

\* What neither charges an edge nor starts a process leaves the budget alone.
LEMMA LoopKept ==
    ASSUME LoopInv, UNCHANGED <<loops, ledger, sentBack>>,
           pc' # "idle" => pc # "idle",
           (pc' = "clearing" /\ span'.edge) \/ pc' = "charging" => ledger.spent[at'] < MaxLoops[at']
    PROVE  LoopInv'
BY DEF LoopInv, Within

LEMMA LoopStep ==
    ASSUME ~Torn, TypeInv, LoopInv, [Next]_vars
    PROVE  LoopInv'
<1>1. CASE TakeEdge
  <2>1. ledger.spent[at] < MaxLoops[at]
    BY <1>1 DEF TakeEdge, EdgeOpen
  <2>2. QED
    BY <1>1, <2>1, LoopKept DEF TakeEdge, dir, ghosts
<1>2. CASE ClearOne
  <2>1. UNCHANGED <<loops, ledger, sentBack, at>> /\ pc = "clearing" /\ span'.edge = span.edge
    BY <1>2 DEF ClearOne, ClearUpTo, TypeInv, TypeOK, MemoryOK
  <2>2. pc' = "charging" => span.edge
    BY <1>2 DEF ClearOne, ClearUpTo
  <2>3. pc' = "charging" \/ (pc' = "clearing" /\ span.edge) => ledger.spent[at] < MaxLoops[at]
    BY <2>1, <2>2 DEF LoopInv
  <2>4. QED
    BY <2>1, <2>3, LoopKept
<1>3. CASE Charge
  <2>1. /\ at \in Steps /\ ledger.spent \in [Steps -> Nat] /\ sentBack \in [Steps -> Nat]
        /\ pc = "charging" /\ MaxLoops \in [Steps -> Nat]
    BY <1>3, Allowances
       DEF Charge, ChargeAndJump, TypeInv, TypeOK, ControlInv, MemoryOK, GhostsOK, Ledger
  <2>2. Within(ledger.spent) /\ ledger.spent[at] < MaxLoops[at]
    BY <2>1 DEF LoopInv
  <2>3. /\ ledger'.spent = [ledger.spent EXCEPT ![at] = @ + 1]
        /\ sentBack' = [sentBack EXCEPT ![at] = @ + 1]
        /\ loops' = ledger' /\ pc' = "loop"
    BY <1>3 DEF Charge, ChargeAndJump
  <2>4. ASSUME NEW s \in Steps
        PROVE  sentBack'[s] <= ledger'.spent[s] /\ ledger'.spent[s] <= MaxLoops[s]
    BY <2>1, <2>2, <2>3 DEF Within
  <2>5. QED
    BY <2>3, <2>4 DEF LoopInv, Within
<1>4. ASSUME NEW reset \in BOOLEAN, Start(reset)
      PROVE  LoopInv'
  <2>1. /\ ledger' = IF reset THEN EmptyLedger ELSE loops
        /\ sentBack' = IF reset THEN [s \in Steps |-> 0] ELSE sentBack
        /\ loops' = loops /\ pc' = "loop"
    BY <1>4 DEF Start, TakeUp, dir
  <2>2. CASE reset
    <3>1. \A s \in Steps : loops.spent[s] \in Nat /\ MaxLoops[s] \in Nat
      BY Allowances DEF TypeInv, TypeOK, DirOK, Ledger
    <3>2. \A s \in Steps : sentBack'[s] = 0 /\ ledger'.spent[s] = 0
      BY <2>1, <2>2 DEF EmptyLedger
    <3>3. \A s \in Steps : 0 <= loops.spent[s] /\ loops.spent[s] <= MaxLoops[s] /\ 0 <= MaxLoops[s]
      BY <3>1 DEF LoopInv, Within
    <3>4. QED
      BY <2>1, <3>2, <3>3 DEF LoopInv, Within
  <2>3. CASE ~reset
    BY <2>1, <2>3 DEF LoopInv, Within
  <2>4. QED
    BY <2>2, <2>3
<1>5. CASE Crash \/ Fault
  <2>1. loops' = loops /\ pc' = "idle" /\ UNCHANGED <<ledger, sentBack>>
    BY <1>5 DEF Crash, Fault, LoopsCutShort, memory, ghosts
  <2>2. QED
    BY <2>1, LoopKept
<1>6. CASE Reuse \/ BeginAgent \/ RefuseAgent \/ BeginCommand \/ SettleAgent
           \/ \E status \in {"ok", "error"} : SettleCommand(status)
  BY <1>6, LoopKept
     DEF Reuse, BeginAgent, RefuseAgent, BeginCommand, Begin, BeginWith, SettleAgent, SettleCommand,
         Settle, dir, memory, ghosts
<1>7. CASE CarryOn \/ Watch \/ ParkHere \/ ConsultSpent \/ ConsultBegin \/ ConsultEnds
  BY <1>7, LoopKept
     DEF CarryOn, Watch, ParkHere, Park, ConsultSpent, StopUnasked, ConsultBegin, ConsultEnds,
         ConsultOver, dir, memory, ghosts
<1>8. CASE ActContinue \/ ActSkip \/ ActRetry \/ GoBack \/ ActGotoForward \/ ActStop \/ Finish
  BY <1>8, LoopKept
     DEF ActContinue, ActSkip, ActRetry, GoBack, JumpTo, ActGotoForward, ActStop, Finish,
         dir, memory, ghosts
<1>9. CASE ActGoto
  <2>1. span'.edge = FALSE /\ pc' = "clearing" /\ pc # "idle" /\ UNCHANGED <<loops, ledger, sentBack>>
    BY <1>9 DEF ActGoto, dir, ghosts
  <2>2. QED
    BY <2>1, LoopKept
<1>10. ASSUME UNCHANGED <<loops, memory, at, pc, ghosts>>
       PROVE  LoopInv'
  <2>1. UNCHANGED <<loops, ledger, span, sentBack>>
    BY <1>10 DEF memory, ghosts
  <2>2. QED
    BY <1>10, <2>1 DEF LoopInv, Within
<1>11. CASE \E a \in working, status \in {"ok", "error", "unreadable"} : AgentWrites(a, status)
  BY <1>10, <1>11 DEF AgentWrites
<1>12. CASE \E a \in working, d \in Offered \cup Strays : OverwatchWrites(a, d)
  BY <1>10, <1>12 DEF OverwatchWrites
<1>13. CASE \E a \in tabs : CloseTab(a)
  BY <1>10, <1>13 DEF CloseTab, dir
<1>14. CASE UNCHANGED vars
  BY <1>10, <1>14 DEF vars, dir
<1>15. QED
  BY <1>1, <1>2, <1>3, <1>4, <1>5, <1>6, <1>7, <1>8, <1>9, <1>11, <1>12, <1>13, <1>14
     DEF Next, Engine, World

\* However often a run is crashed, parked and resumed, a step sends it back at most
\* max_loops times until somebody resets its loops; only a loops.json that was torn
\* by a crash can hand the allowance back.
THEOREM LoopsAreBounded == ASSUME ~Torn PROVE Spec => []EdgesAreBounded
<1>1. TypeInv /\ LoopInv => EdgesAreBounded
  <2> SUFFICES ASSUME TypeInv, LoopInv, NEW s \in Steps PROVE sentBack[s] <= MaxLoops[s]
    BY DEF EdgesAreBounded
  <2>1. sentBack[s] \in Nat /\ loops.spent[s] \in Nat /\ MaxLoops[s] \in Nat
    BY Allowances DEF TypeInv, TypeOK, GhostsOK, DirOK, Ledger
  <2>2. QED
    BY <2>1 DEF LoopInv, Within
<1>2. Init => TypeInv /\ LoopInv
  BY TypeInit, LoopInit
<1>3. TypeInv /\ LoopInv /\ [Next]_vars => (TypeInv /\ LoopInv)'
  BY TypeStep, LoopStep
<1>4. QED
  BY <1>1, <1>2, <1>3, PTL DEF Spec

(***************************************************************************)
(* The overwatch budget.  An agent is started before its consult is        *)
(* charged, so while one is consulted the count on disk is one behind.     *)
(***************************************************************************)
ConsultInv == calls <= consults \/ (pc = "consulting" /\ calls <= consults + 1)

\* What starts no consult and ends none leaves the count alone.
LEMMA ConsultKept ==
    ASSUME ConsultInv, UNCHANGED <<calls, consults>>, pc = "consulting" => pc' = "consulting"
    PROVE  ConsultInv'
BY DEF ConsultInv

LEMMA ConsultStep ==
    ASSUME "consulting" \notin CrashAt, TypeInv, ConsultInv, [Next]_vars
    PROVE  ConsultInv'
<1>0. calls \in Nat /\ consults \in Nat
  BY Counts DEF TypeInv, TypeOK, GhostsOK, DirOK
<1>1. CASE ConsultBegin
  <2>1. Cardinality(IF NameTaken(Consultant) THEN {} ELSE {Consultant}) \in {0, 1}
    BY FS_EmptySet, FS_Singleton
  <2>2. PICK n \in {0, 1} : calls' = calls + n
    BY <1>1, <2>1 DEF ConsultBegin
  <2>3. calls <= consults /\ pc' = "consulting" /\ consults' = consults
    BY <1>1 DEF ConsultBegin, ConsultInv, dir
  <2>4. calls' <= consults + 1
    BY <1>0, <2>2, <2>3
  <2>5. QED
    BY <2>3, <2>4 DEF ConsultInv
<1>2. CASE ConsultEnds
  <2>1. consults' = consults + 1 /\ calls' = calls
    BY <1>2 DEF ConsultEnds, ConsultOver, ghosts
  <2>2. calls <= consults + 1
    BY <1>0 DEF ConsultInv
  <2>3. QED
    BY <2>1, <2>2 DEF ConsultInv
<1>3. ASSUME NEW reset \in BOOLEAN, Start(reset)
      PROVE  ConsultInv'
  BY <1>3, ConsultKept DEF Start, TakeUp, dir
<1>4. CASE Crash
  BY <1>4, ConsultKept DEF Crash, ghosts
<1>5. CASE Fault
  BY <1>5, FailuresAssumption, ConsultKept DEF Fault, Places, ghosts
<1>6. CASE Reuse \/ BeginAgent \/ RefuseAgent \/ BeginCommand \/ SettleAgent
           \/ \E status \in {"ok", "error"} : SettleCommand(status)
  BY <1>6, ConsultKept
     DEF Reuse, BeginAgent, RefuseAgent, BeginCommand, Begin, BeginWith, SettleAgent, SettleCommand,
         Settle, dir, ghosts
<1>7. CASE CarryOn \/ Watch \/ TakeEdge \/ ParkHere \/ ClearOne \/ Charge \/ ConsultSpent
  BY <1>7, ConsultKept
     DEF CarryOn, Watch, TakeEdge, ParkHere, Park, ClearOne, ClearUpTo, Charge, ChargeAndJump,
         ConsultSpent, StopUnasked, dir, ghosts
<1>8. CASE ActContinue \/ ActSkip \/ ActRetry \/ ActGoto \/ GoBack \/ ActGotoForward \/ ActStop \/ Finish
  BY <1>8, ConsultKept
     DEF ActContinue, ActSkip, ActRetry, ActGoto, GoBack, JumpTo, ActGotoForward, ActStop, Finish,
         dir, ghosts
<1>9. CASE \E a \in working, status \in {"ok", "error", "unreadable"} : AgentWrites(a, status)
  BY <1>9, ConsultKept DEF AgentWrites, ghosts
<1>10. CASE \E a \in working, d \in Offered \cup Strays : OverwatchWrites(a, d)
  BY <1>10, ConsultKept DEF OverwatchWrites, ghosts
<1>11. CASE \E a \in tabs : CloseTab(a)
  BY <1>11, ConsultKept DEF CloseTab, dir, ghosts
<1>12. CASE UNCHANGED vars
  BY <1>12, ConsultKept DEF vars, dir, ghosts
<1>13. QED
  BY <1>1, <1>2, <1>3, <1>4, <1>5, <1>6, <1>7, <1>8, <1>9, <1>10, <1>11, <1>12
     DEF Next, Engine, World

\* However often a run is resumed, it starts at most Budget overwatch agents, unless a
\* process dies while it waits for one.
THEOREM OverwatchIsBounded ==
    ASSUME "consulting" \notin CrashAt PROVE Spec => []ConsultsAreBounded
<1>1. TypeInv /\ ConsultInv => ConsultsAreBounded
  <2> SUFFICES ASSUME TypeInv, ConsultInv PROVE calls <= Budget
    BY DEF ConsultsAreBounded
  <2>1. calls \in Nat /\ consults \in Nat /\ Budget \in Nat /\ consults <= Budget
    BY Counts, OverwatchAssumption DEF TypeInv, TypeOK, GhostsOK, DirOK
  <2>2. pc = "consulting" => consults < Budget
    BY DEF TypeInv, ControlInv
  <2>3. QED
    BY <2>1, <2>2 DEF ConsultInv
<1>2. Init => TypeInv /\ ConsultInv
  <2> SUFFICES ASSUME Init PROVE ConsultInv
    BY TypeInit
  <2>1. calls = 0 /\ consults = 0
    BY DEF Init
  <2>2. QED
    BY <2>1 DEF ConsultInv
<1>3. TypeInv /\ ConsultInv /\ [Next]_vars => (TypeInv /\ ConsultInv)'
  BY TypeStep, ConsultStep
<1>4. QED
  BY <1>1, <1>2, <1>3, PTL DEF Spec

(***************************************************************************)
(* The result files.  Without an agent that outlives its attempt, the file *)
(* of a running step is absent or that attempt's, and an attempt that has  *)
(* written ok has nothing left to write.                                   *)
(***************************************************************************)
Own == result[at].proc = proc /\ result[at].attempt = attempts[at]

FileInv ==
    /\ pc = "running" => result[at] = NoResult \/ Own
    /\ pc = "running" /\ Passed(at) => at \in AgentSteps /\ Me \notin working
    /\ VerdictIsOwn

\* A step that leaves the running or settled state, or leaves the files and the
\* process alone, keeps the invariant.
LEMMA FileLeft ==
    ASSUME FileInv, pc' \notin {"running", "settled"}
    PROVE  FileInv'
BY DEF FileInv, VerdictIsOwn

LEMMA FileKept ==
    ASSUME FileInv, UNCHANGED <<result, proc, pc, at, sr, attempts>>, working' \subseteq working
    PROVE  FileInv'
BY DEF FileInv, VerdictIsOwn, Own, Passed, Me, Agent

LEMMA FileBegins ==
    ASSUME TypeInv, FileInv, Begin, pc' = "running" \/ sr' = "parked"
    PROVE  FileInv'
<1>1. result'[at'] = NoResult
  BY DEF Begin, BeginWith, TypeInv, TypeOK, DirOK
<1>2. QED
  BY <1>1 DEF FileInv, VerdictIsOwn, Passed, NoResult, Own, Begin, BeginWith

\* No agent that was given up writes while a step runs, or before it is judged.
NotLate == LateAt \cap {"running", "settled"} = {}

\* The tabs are those of the overwatch and of steps that run an agent.
AgentsInv == \A a \in tabs : a.step = Watcher \/ a.step \in AgentSteps

LEMMA AgentsStep == AgentsInv /\ [Next]_vars => AgentsInv'
<1> SUFFICES ASSUME AgentsInv, [Next]_vars PROVE AgentsInv'
  OBVIOUS
<1>1. CASE BeginAgent
  <2>1. Me'.step \in AgentSteps /\ tabs' = tabs \cup {Me'}
    BY <1>1 DEF BeginAgent, Begin, BeginWith, Me, Agent
  <2>2. QED
    BY <2>1 DEF AgentsInv
<1>2. CASE ConsultBegin
  <2>1. Consultant.step = Watcher /\ tabs' \subseteq tabs \cup {Consultant}
    BY <1>2 DEF ConsultBegin, Consultant, Agent
  <2>2. QED
    BY <2>1 DEF AgentsInv
<1>3. ASSUME tabs' \subseteq tabs
      PROVE  AgentsInv'
  BY <1>3 DEF AgentsInv
<1>4. CASE Reuse \/ RefuseAgent \/ BeginCommand \/ SettleAgent
           \/ \E status \in {"ok", "error"} : SettleCommand(status)
  BY <1>3, <1>4 DEF Reuse, RefuseAgent, BeginCommand, SettleAgent, SettleCommand, herdr
<1>5. CASE CarryOn \/ Watch \/ TakeEdge \/ ParkHere \/ ClearOne \/ Charge \/ ConsultSpent \/ ConsultEnds
  BY <1>3, <1>5
     DEF CarryOn, Watch, TakeEdge, ParkHere, Park, ClearOne, ClearUpTo, Charge, ChargeAndJump,
         ConsultSpent, StopUnasked, ConsultEnds, ConsultOver, herdr
<1>6. CASE ActContinue \/ ActSkip \/ ActRetry \/ ActGoto \/ GoBack \/ ActGotoForward \/ ActStop \/ Finish
  BY <1>3, <1>6
     DEF ActContinue, ActSkip, ActRetry, ActGoto, GoBack, JumpTo, ActGotoForward, ActStop, Finish, herdr
<1>7. CASE World
  BY <1>3, <1>7 DEF World, Start, TakeUp, AgentWrites, OverwatchWrites, Crash, Fault, CloseTab, herdr
<1>8. CASE UNCHANGED vars
  BY <1>3, <1>8 DEF vars, herdr
<1>9. QED
  BY <1>1, <1>2, <1>4, <1>5, <1>6, <1>7, <1>8 DEF Next, Engine

LEMMA FileStep ==
    ASSUME NotLate, TypeInv, AgentsInv, FileInv, [Next]_vars
    PROVE  FileInv'
<1>1. CASE BeginAgent \/ BeginCommand
  <2>1. Begin /\ pc' = "running"
    BY <1>1 DEF BeginAgent, BeginCommand
  <2>2. QED
    BY <2>1, FileBegins
<1>2. CASE RefuseAgent
  <2>1. Begin /\ sr' = "parked" /\ pc' = "settled"
    BY <1>2 DEF RefuseAgent
  <2>2. result'[at'] = NoResult
    BY <2>1 DEF Begin, BeginWith, TypeInv, TypeOK, DirOK
  <2>3. QED
    BY <2>1, <2>2 DEF FileInv, VerdictIsOwn
<1>3. CASE SettleAgent
  <2>1. /\ pc = "running" /\ pc' = "settled" /\ sr' = OutcomeOf(result[at].status)
        /\ UNCHANGED <<result, proc, at, attempts>>
    BY <1>3 DEF SettleAgent, Settle, memory
  <2>2. sr' \in {"done", "failed"} => result[at] # NoResult
    BY <2>1 DEF OutcomeOf, NoResult
  <2>3. sr' \in {"done", "failed"} => Own
    BY <2>1, <2>2 DEF FileInv
  <2>4. QED
    BY <2>1, <2>3 DEF FileInv, VerdictIsOwn, Own
<1>4. ASSUME NEW status \in {"ok", "error"}, SettleCommand(status)
      PROVE  FileInv'
  <2>1. /\ pc = "running" /\ pc' = "settled" /\ at \in Steps
        /\ result' = [result EXCEPT ![at] =
                         [status |-> status, proc |-> proc, attempt |-> attempts[at]]]
        /\ UNCHANGED <<proc, at, attempts>>
    BY <1>4 DEF SettleCommand, Settle, memory, TypeInv, ControlInv
  <2>2. result'[at] = [status |-> status, proc |-> proc, attempt |-> attempts[at]]
    BY <2>1 DEF TypeInv, TypeOK, DirOK
  <2>3. QED
    BY <2>1, <2>2 DEF FileInv, VerdictIsOwn
<1>5. ASSUME NEW a \in working, NEW status \in {"ok", "error", "unreadable"}, AgentWrites(a, status)
      PROVE  FileInv'
  <2>1. CASE pc = "running"
    <3>1. /\ a = Me /\ a.step = at /\ a.proc = proc /\ a.attempt = attempts[at]
          /\ UNCHANGED <<proc, pc, at, attempts, sr>> /\ at \in Steps
      BY <1>5, <2>1 DEF NotLate, AgentWrites, Me, Agent, memory, TypeInv, ControlInv
    <3>2. result'[at] = [status |-> status, proc |-> proc, attempt |-> attempts[at]]
      BY <1>5, <3>1 DEF AgentWrites, TypeInv, TypeOK, DirOK
    <3>3. Me' = a /\ a \notin working'
      BY <1>5, <3>1 DEF AgentWrites, Me, Agent
    <3>4. Own'
      BY <3>1, <3>2 DEF Own
    <3>5. at \in AgentSteps
      BY <1>5, <3>1 DEF AgentWrites, AgentsInv, TypeInv, TypeOK, HerdrOK
    <3>6. QED
      BY <2>1, <3>1, <3>3, <3>4, <3>5 DEF FileInv, VerdictIsOwn
  <2>2. CASE pc # "running"
    BY <1>5, <2>2, FileLeft DEF NotLate, AgentWrites
  <2>3. QED
    BY <2>1, <2>2
<1>6. CASE Reuse \/ CarryOn \/ Watch \/ TakeEdge \/ ParkHere \/ ClearOne \/ Charge
  BY <1>6, FileLeft
     DEF Reuse, CarryOn, Watch, TakeEdge, ParkHere, Park, ClearOne, ClearUpTo, Charge, ChargeAndJump
<1>7. CASE ConsultSpent \/ ConsultBegin \/ ConsultEnds \/ Finish \/ Crash \/ Fault
           \/ \E reset \in BOOLEAN : Start(reset)
  BY <1>7, FileLeft
     DEF ConsultSpent, StopUnasked, ConsultBegin, ConsultEnds, ConsultOver, Finish, Crash, Fault,
         Start, TakeUp
<1>8. CASE ActContinue \/ ActSkip \/ ActRetry \/ ActGoto \/ GoBack \/ ActGotoForward \/ ActStop
  BY <1>8, FileLeft
     DEF ActContinue, ActSkip, ActRetry, ActGoto, GoBack, JumpTo, ActGotoForward, ActStop
<1>9. CASE \E a \in working, d \in Offered \cup Strays : OverwatchWrites(a, d)
  BY <1>9, FileKept DEF OverwatchWrites, memory
<1>10. CASE \E a \in tabs : CloseTab(a)
  BY <1>10, FileKept DEF CloseTab, dir, memory
<1>11. CASE UNCHANGED vars
  BY <1>11, FileKept DEF vars, dir, herdr, memory
<1>12. QED
  BY <1>1, <1>2, <1>3, <1>4, <1>5, <1>6, <1>7, <1>8, <1>9, <1>10, <1>11
     DEF Next, Engine, World

LEMMA FileInductive == ASSUME NotLate PROVE Spec => [](TypeInv /\ AgentsInv /\ FileInv)
<1>1. Init => TypeInv /\ AgentsInv /\ FileInv
  BY TypeInit DEF Init, AgentsInv, FileInv, VerdictIsOwn
<1>2. TypeInv /\ AgentsInv /\ FileInv /\ [Next]_vars => (TypeInv /\ AgentsInv /\ FileInv)'
  BY TypeStep, AgentsStep, FileStep
<1>3. QED
  BY <1>1, <1>2, PTL DEF Spec

\* A step is done or failed only on the word of the attempt that ran last, unless an
\* agent whose run was given up can still write its file.
THEOREM VerdictsAreOwn == ASSUME NotLate PROVE Spec => []VerdictIsOwn
<1>1. FileInv => VerdictIsOwn
  BY DEF FileInv
<1>2. QED
  BY <1>1, FileInductive, PTL

\* While a process runs, nothing loses an ok result, no send-back and no crash in it:
\* the result is there, or in a kept file of its step.
THEOREM FinishedWorkStays == ASSUME LateAt \subseteq {"idle"} PROVE Spec => FinishedWorkIsKept
<1> DEFINE Keeps == \A s \in Steps : pc # "idle" /\ Passed(s) /\ result'[s] # result[s] =>
                       \E k \in kept' : k.step = s /\ k.file = result[s]
<1>1. ASSUME TypeInv, FileInv, Next
      PROVE  Keeps
  <2> SUFFICES ASSUME NEW s \in Steps, pc # "idle", Passed(s), result'[s] # result[s]
               PROVE  \E k \in kept' : k.step = s /\ k.file = result[s]
    OBVIOUS
  <2>1. CASE BeginAgent \/ RefuseAgent \/ BeginCommand
    BY <1>1, <2>1 DEF BeginAgent, RefuseAgent, BeginCommand, Begin, BeginWith, TypeInv, TypeOK, DirOK
  <2>2. CASE \E status \in {"ok", "error"} : SettleCommand(status)
    BY <1>1, <2>2 DEF SettleCommand, FileInv, TypeInv, TypeOK, DirOK
  <2>3. CASE \E a \in working, status \in {"ok", "error", "unreadable"} : AgentWrites(a, status)
    <3> PICK a \in working, status \in {"ok", "error", "unreadable"} : AgentWrites(a, status)
      BY <2>3
    <3>1. pc = "running" /\ a = Me
      BY DEF AgentWrites
    <3>2. result' = [result EXCEPT ![at] = [status |-> status, proc |-> a.proc, attempt |-> a.attempt]]
      BY <3>1 DEF AgentWrites, Me, Agent
    <3>3. s = at
      BY <3>2, <1>1 DEF TypeInv, TypeOK, DirOK
    <3>4. QED
      BY <1>1, <3>1, <3>3 DEF FileInv
  <2>4. CASE ClearOne
    <3>1. s = span.next /\ result[s] # NoResult /\ kept' = SetAside(s)
      BY <2>4 DEF ClearOne, ClearUpTo, TypeInv, TypeOK, DirOK, Passed, NoResult
    <3>2. [step |-> s, no |-> span.no, file |-> result[s]] \in kept'
      BY <3>1 DEF SetAside
    <3>3. QED
      BY <3>2
  <2>5. CASE UNCHANGED result
    BY <2>5
  <2>6. CASE Reuse \/ SettleAgent \/ CarryOn \/ Watch \/ TakeEdge \/ ParkHere \/ Charge
             \/ ConsultSpent \/ ConsultBegin \/ ConsultEnds
    BY <2>5, <2>6
       DEF Reuse, SettleAgent, CarryOn, Watch, TakeEdge, ParkHere, Park, Charge, ChargeAndJump,
           ConsultSpent, StopUnasked, ConsultBegin, ConsultEnds, ConsultOver, dir
  <2>7. CASE ActContinue \/ ActSkip \/ ActRetry \/ ActGoto \/ GoBack \/ ActGotoForward \/ ActStop \/ Finish
    BY <2>5, <2>7
       DEF ActContinue, ActSkip, ActRetry, ActGoto, GoBack, JumpTo, ActGotoForward, ActStop, Finish, dir
  <2>8. CASE \/ \E reset \in BOOLEAN : Start(reset)
             \/ \E a \in working, d \in Offered \cup Strays : OverwatchWrites(a, d)
             \/ Crash \/ Fault
             \/ \E a \in tabs : CloseTab(a)
    BY <2>5, <2>8 DEF Start, TakeUp, OverwatchWrites, Crash, Fault, CloseTab, dir
  <2>9. QED
    BY <1>1, <2>1, <2>2, <2>3, <2>4, <2>6, <2>7, <2>8 DEF Next, Engine, World
<1>2. ASSUME TypeInv, FileInv, [Next]_vars
      PROVE  [Keeps]_vars
  BY <1>1, <1>2
<1>3. TypeInv /\ AgentsInv /\ FileInv /\ [Next]_vars => [Keeps]_vars
  BY <1>2
<1>4. Spec => [][Keeps]_vars
  <2>1. NotLate
    BY DEF NotLate
  <2>2. QED
    BY <1>3, <2>1, FileInductive, PTL DEF Spec
<1>5. QED
  BY <1>4 DEF FinishedWorkIsKept

(***************************************************************************)
(* The overwatch's word.  If no process dies inside a consult, the only    *)
(* tab of the overwatch is the one of the consult that is going on, every  *)
(* later decision.json is absent, and what this one says was said to this  *)
(* process, where it is, by an agent that read its brief.                  *)
(***************************************************************************)
Heeds(d) ==
    /\ d.proc = proc
    /\ d.verb = "continue" /\ "continue" \notin OffBrief => sr = "done"
    /\ d.verb = "goto" /\ "forward" \notin OffBrief => d.step <= at

BriefInv ==
    /\ \A a \in tabs : a.step = Watcher => pc = "consulting" /\ a = Consultant
    /\ \A c \in 1..Budget :
          c > consults /\ ~(pc = "consulting" /\ c = consults + 1) => decision[c] = NoDecision
    /\ pc = "consulting" => decision[consults + 1] = NoDecision \/ Heeds(decision[consults + 1])
    /\ pc = "deciding" => answer.verb = "park" \/ Heeds(answer)

\* A process in no consult that goes into none, and opens no tab of the overwatch.
LEMMA BriefLeft ==
    ASSUME BriefInv, pc # "consulting", pc' \notin {"consulting", "deciding"},
           UNCHANGED <<consults, decision>>, \A a \in tabs' : a.step = Watcher => a \in tabs
    PROVE  BriefInv'
BY DEF BriefInv

\* A step of the world that leaves the process where it is.
LEMMA BriefKept ==
    ASSUME BriefInv, tabs' \subseteq tabs,
           UNCHANGED <<consults, decision, proc, pc, at, sr, answer>>
    PROVE  BriefInv'
<1>1. Consultant' = Consultant
  BY DEF Consultant, Agent
<1>2. \A d : Heeds(d)' = Heeds(d)
  BY DEF Heeds
<1>3. QED
  BY <1>1, <1>2 DEF BriefInv

LEMMA BriefBegins ==
    ASSUME TypeInv, BriefInv, ConsultBegin
    PROVE  BriefInv'
<1>1. /\ pc = "consult" /\ pc' = "consulting" /\ consults < Budget
      /\ UNCHANGED <<consults, decision, proc, at, sr>> /\ tabs' \subseteq tabs \cup {Consultant}
  BY DEF ConsultBegin, dir
<1>2. Consultant' = Consultant
  BY <1>1 DEF Consultant, Agent
<1>3. \A a \in tabs' : a.step = Watcher => pc' = "consulting" /\ a = Consultant'
  BY <1>1, <1>2 DEF BriefInv
<1>4. consults + 1 \in 1..Budget /\ consults + 1 > consults
  BY <1>1, OverwatchAssumption DEF TypeInv, TypeOK, DirOK
<1>5. decision'[consults' + 1] = NoDecision
  BY <1>1, <1>4 DEF BriefInv
<1>6. QED
  BY <1>1, <1>3, <1>5 DEF BriefInv

\* An answer within the brief is one that the process may act on.
LEMMA BriefAnswered ==
    ASSUME TypeInv, BriefInv, NEW a \in working, NEW d \in Offered \cup Strays, OverwatchWrites(a, d)
    PROVE  BriefInv'
<1>1. a.step = Watcher /\ a \in tabs
  BY DEF OverwatchWrites, TypeInv, TypeOK, HerdrOK
<1>2. pc = "consulting" /\ a = Consultant
  BY <1>1 DEF BriefInv
<1>3. a.attempt = consults + 1 /\ a.proc = proc
  BY <1>2 DEF Consultant, Agent
<1> DEFINE said == [verb |-> d.verb, step |-> d.step, proc |-> a.proc]
<1>4. /\ UNCHANGED <<consults, proc, pc, at, sr, answer, tabs>>
      /\ decision' = [decision EXCEPT ![consults + 1] = said]
  BY <1>3 DEF OverwatchWrites, memory
<1>5. consults + 1 \in 1..Budget /\ consults \in Nat
  BY <1>2, Counts DEF TypeInv, TypeOK, ControlInv, DirOK
<1>6. decision'[consults + 1] = said
  BY <1>4, <1>5 DEF TypeInv, TypeOK, DirOK
<1>7. \A c \in 1..Budget : c # consults + 1 => decision'[c] = decision[c]
  BY <1>4 DEF TypeInv, TypeOK, DirOK
<1>8. d.verb = "continue" /\ "continue" \notin OffBrief => sr = "done"
  BY OverwatchAssumption DEF Offered, Strays
<1>9. d.verb = "goto" /\ "forward" \notin OffBrief => d.step <= at
  BY OverwatchAssumption DEF Offered, Strays
<1>10. Heeds(said)'
  BY <1>3, <1>4, <1>8, <1>9 DEF Heeds
<1>11. Consultant' = Consultant
  BY <1>4 DEF Consultant, Agent
<1>12. \A b \in tabs' : b.step = Watcher => pc' = "consulting" /\ b = Consultant'
  BY <1>2, <1>4, <1>11 DEF BriefInv
<1>13. \A c \in 1..Budget :
          c > consults' /\ ~(pc' = "consulting" /\ c = consults' + 1) => decision'[c] = NoDecision
  <2> SUFFICES ASSUME NEW c \in 1..Budget, c > consults, c # consults + 1
               PROVE  decision'[c] = NoDecision
    BY <1>2, <1>4
  <2>1. decision[c] = NoDecision
    BY DEF BriefInv
  <2>2. QED
    BY <1>7, <2>1
<1>14. pc' = "consulting" /\ decision'[consults' + 1] = said
  BY <1>2, <1>4, <1>6
<1>15. Heeds(decision[consults + 1])'
  BY <1>10, <1>14 DEF Heeds
<1>16. QED
  BY <1>12, <1>13, <1>14, <1>15 DEF BriefInv

\* What the run acts on is what was said, or a park.
LEMMA BriefEnds ==
    ASSUME TypeInv, BriefInv, ConsultEnds
    PROVE  BriefInv'
<1>1. /\ pc = "consulting" /\ pc' = "deciding" /\ consults' = consults + 1
      /\ UNCHANGED <<decision, proc, at, sr>> /\ answer' = Sanitise(decision[consults + 1])
      /\ tabs' = {a \in tabs : ~(a.step = Watcher /\ a.attempt = consults + 1)}
  BY DEF ConsultEnds, ConsultOver
<1>2. \A a \in tabs' : a.step # Watcher
  BY <1>1 DEF BriefInv, Consultant, Agent
<1>3. consults \in Nat
  BY Counts DEF TypeInv, TypeOK, DirOK
<1>4. \A c \in 1..Budget : c > consults' => c > consults /\ c # consults + 1
  BY <1>1, <1>3
<1>5. \A c \in 1..Budget : c > consults' => decision'[c] = NoDecision
  BY <1>1, <1>4 DEF BriefInv
<1>6. ~Permits("none")
  BY OverwatchAssumption DEF Permits
<1>7. decision[consults + 1] = NoDecision => answer'.verb = "park"
  BY <1>1, <1>6 DEF Sanitise, NoDecision
<1>8. answer' = decision[consults + 1] \/ answer'.verb = "park"
  BY <1>1 DEF Sanitise
<1>9. Heeds(decision[consults + 1]) => answer'.verb = "park" \/ Heeds(answer)'
  BY <1>1, <1>8 DEF Heeds
<1>10. QED
  BY <1>1, <1>2, <1>5, <1>7, <1>9 DEF BriefInv

LEMMA BriefStep ==
    ASSUME "consulting" \notin CrashAt, TypeInv, BriefInv, [Next]_vars
    PROVE  BriefInv'
<1>1. CASE BeginAgent
  <2>1. at \in Steps /\ at' = at /\ tabs' = tabs \cup {Me'} /\ Me'.step = at'
        /\ UNCHANGED <<consults, decision>> /\ pc = "loop" /\ pc' = "running"
    BY <1>1 DEF BeginAgent, Begin, BeginWith, Me, Agent
  <2>2. at # Watcher
    BY <2>1, Positions DEF Watcher, Steps
  <2>3. QED
    BY <2>1, <2>2, BriefLeft
<1>2. CASE Reuse \/ RefuseAgent \/ BeginCommand \/ SettleAgent
           \/ \E status \in {"ok", "error"} : SettleCommand(status)
  BY <1>2, BriefLeft
     DEF Reuse, RefuseAgent, BeginCommand, Begin, BeginWith, SettleAgent, SettleCommand, Settle, dir, herdr
<1>3. CASE CarryOn \/ Watch \/ TakeEdge \/ ParkHere \/ ClearOne \/ Charge \/ ConsultSpent
  BY <1>3, BriefLeft
     DEF CarryOn, Watch, TakeEdge, ParkHere, Park, ClearOne, ClearUpTo, Charge, ChargeAndJump,
         ConsultSpent, StopUnasked, dir, herdr
<1>4. CASE ActContinue \/ ActSkip \/ ActRetry \/ ActGoto \/ GoBack \/ ActGotoForward \/ ActStop \/ Finish
  BY <1>4, BriefLeft
     DEF ActContinue, ActSkip, ActRetry, ActGoto, GoBack, JumpTo, ActGotoForward, ActStop, Finish, dir, herdr
<1>5. CASE Crash \/ Fault \/ \E reset \in BOOLEAN : Start(reset)
  BY <1>5, FailuresAssumption, BriefLeft DEF Crash, Fault, Start, TakeUp, dir, herdr
<1>6. CASE \E a \in working, status \in {"ok", "error", "unreadable"} : AgentWrites(a, status)
  BY <1>6, BriefKept DEF AgentWrites, memory
<1>7. CASE \E a \in tabs : CloseTab(a)
  BY <1>7, BriefKept DEF CloseTab, dir, memory
<1>8. CASE UNCHANGED vars
  BY <1>8, BriefKept DEF vars, dir, herdr, memory
<1>9. QED
  BY <1>1, <1>2, <1>3, <1>4, <1>5, <1>6, <1>7, <1>8, BriefBegins, BriefAnswered, BriefEnds
     DEF Next, Engine, World

LEMMA BriefInductive == ASSUME "consulting" \notin CrashAt PROVE Spec => [](TypeInv /\ BriefInv)
<1>1. Init => TypeInv /\ BriefInv
  BY TypeInit DEF Init, BriefInv
<1>2. TypeInv /\ BriefInv /\ [Next]_vars => (TypeInv /\ BriefInv)'
  BY TypeStep, BriefStep
<1>3. QED
  BY <1>1, <1>2, PTL DEF Spec

\* A run acts on no decision that another process asked for, however often it is crashed
\* and resumed, unless a process dies while it waits for one (overwatch.go consult).
THEOREM DecisionsAreOwn == ASSUME "consulting" \notin CrashAt PROVE Spec => []DecisionIsOwn
<1>1. BriefInv => DecisionIsOwn
  BY DEF BriefInv, DecisionIsOwn, Heeds
<1>2. QED
  BY <1>1, BriefInductive, PTL


(***************************************************************************)
(* The order of the steps.  Where the process stands, every earlier step   *)
(* is accounted for; while it sends the run back, every step before the    *)
(* target is.                                                              *)
(***************************************************************************)
Before(k) == \A s \in Steps : s < k => Passed(s) \/ s \in waved

Stays == {"settled", "consult", "consulting", "deciding"}
Sends == {"clearing", "charging", "jumping"}

OrderInv ==
    /\ pc \in Stays \cup {"loop", "running"} => Before(at)
    /\ pc \in Sends => Before(span.to)
    /\ pc \in Stays /\ sr = "done" => Passed(at)

\* The steps before an earlier place, with the results of those steps as they were.
LEMMA BeforeEarlier ==
    ASSUME NEW k \in 1..(N + 1), NEW j \in 1..(N + 1), j <= k, Before(k),
           \A s \in Steps : s < j => result'[s] = result[s], waved \subseteq waved'
    PROVE  \A s \in Steps : s < j => Passed(s)' \/ s \in waved'
<1> TAKE s \in Steps
<1> HAVE s < j
<1>1. s < k
  BY StepsAssumption DEF Steps
<1>2. Passed(s) \/ s \in waved
  BY <1>1 DEF Before
<1>3. QED
  BY <1>2 DEF Passed

\* The steps before the next place, once this one is accounted for.
LEMMA BeforeNext ==
    ASSUME NEW k \in Steps, Before(k), Passed(k) \/ k \in waved', UNCHANGED result, waved \subseteq waved'
    PROVE  \A s \in Steps : s < k + 1 => Passed(s)' \/ s \in waved'
<1> TAKE s \in Steps
<1> HAVE s < k + 1
<1>1. s < k \/ s = k
  BY StepsAssumption DEF Steps
<1>2. Passed(s) \/ s \in waved'
  BY <1>1 DEF Before
<1>3. QED
  BY <1>2 DEF Passed

\* A process that stays at its step, with the same results.
LEMMA OrderKept ==
    ASSUME OrderInv, UNCHANGED <<result, at, sr, span, waved>>,
           \/ pc' = pc
           \/ pc \in Stays /\ pc' \in Stays \cup {"loop", "running"}
           \/ pc' = "idle"
           \/ pc \in Sends /\ pc' \in Sends
    PROVE  OrderInv'
BY DEF OrderInv, Before, Passed, Stays, Sends

\* A process that goes on to the next step.
LEMMA OrderGoesOn ==
    ASSUME OrderInv, at \in Steps, pc \in Stays \cup {"loop"}, Passed(at) \/ at \in waved',
           UNCHANGED result, waved \subseteq waved', at' = at + 1, pc' = "loop"
    PROVE  OrderInv'
<1>1. Before(at)
  BY DEF OrderInv
<1>2. \A s \in Steps : s < at + 1 => Passed(s)' \/ s \in waved'
  BY <1>1, BeforeNext
<1>3. QED
  BY <1>2 DEF OrderInv, Before, Stays, Sends

\* A process that sends the run back, or has.
LEMMA OrderGoesBack ==
    ASSUME TypeInv, OrderInv, pc \in Stays, UNCHANGED <<result, waved>>,
           span'.to \in Steps, span'.to <= at, pc' = "clearing"
    PROVE  OrderInv'
<1>1. Before(at) /\ at \in Steps /\ at \in 1..(N + 1) /\ span'.to \in 1..(N + 1)
  BY Positions DEF OrderInv, Stays, TypeInv, ControlInv
<1>2. \A s \in Steps : s < span'.to => Passed(s)' \/ s \in waved'
  BY <1>1, BeforeEarlier
<1>3. QED
  BY <1>2 DEF OrderInv, Before, Stays, Sends

\* A process that works on its step.
LEMMA OrderAtWork ==
    ASSUME TypeInv, OrderInv, pc \in {"loop", "running"}, pc' \in {"running", "settled"},
           \A s \in Steps : s < at => result'[s] = result[s], UNCHANGED <<at, waved>>,
           pc' = "settled" /\ sr' = "done" => result'[at].status = "ok"
    PROVE  OrderInv'
<1>1. Before(at) /\ at \in 1..(N + 1)
  BY DEF OrderInv, TypeInv, TypeOK, ProcessOK
<1>2. at <= at
  BY <1>1, StepsAssumption
<1>3. \A s \in Steps : s < at => Passed(s)' \/ s \in waved'
  BY <1>1, <1>2, BeforeEarlier
<1>4. QED
  BY <1>3 DEF OrderInv, Before, Passed, Stays, Sends

LEMMA OrderStep ==
    ASSUME LateAt \subseteq {"idle"}, "continue" \notin OffBrief,
           TypeInv, BriefInv, OrderInv, [Next]_vars
    PROVE  OrderInv'
<1>0. \A s \in Steps : s < at => s # at
  BY StepsAssumption DEF Steps
<1>1. CASE Reuse
  BY <1>1, OrderGoesOn DEF Reuse, dir, ghosts
<1>2. CASE BeginAgent \/ BeginCommand \/ RefuseAgent
  BY <1>2, <1>0, OrderAtWork
     DEF BeginAgent, BeginCommand, RefuseAgent, Begin, BeginWith, TypeInv, TypeOK, DirOK
<1>3. CASE SettleAgent
  BY <1>3, OrderAtWork DEF SettleAgent, Settle, OutcomeOf, ghosts
<1>4. ASSUME NEW status \in {"ok", "error"}, SettleCommand(status)
      PROVE  OrderInv'
  <2>1. /\ result' = [result EXCEPT ![at] = [status |-> status, proc |-> proc, attempt |-> attempts[at]]]
        /\ at \in Steps /\ pc = "running" /\ pc' = "settled" /\ UNCHANGED <<at, waved>>
        /\ sr' = OutcomeOf(status)
    BY <1>4 DEF SettleCommand, Settle, ghosts, TypeInv, ControlInv
  <2>2. result'[at].status = status /\ \A s \in Steps : s < at => result'[s] = result[s]
    BY <2>1, <1>0 DEF TypeInv, TypeOK, DirOK
  <2>3. QED
    BY <2>1, <2>2, OrderAtWork DEF OutcomeOf
<1>5. CASE CarryOn
  <2>1. Passed(at) /\ at \in Steps
    BY <1>5 DEF CarryOn, OrderInv, Stays, TypeInv, ControlInv
  <2>2. QED
    BY <1>5, <2>1, OrderGoesOn DEF CarryOn, Stays, dir, ghosts
<1>6. CASE Watch \/ ParkHere \/ ConsultSpent \/ ConsultBegin \/ ConsultEnds \/ ActRetry
           \/ ActGotoForward \/ ActStop \/ Finish \/ Crash \/ Fault
  BY <1>6, OrderKept
     DEF Watch, ParkHere, Park, ConsultSpent, StopUnasked, ConsultBegin, ConsultEnds, ConsultOver,
         ActRetry, ActGotoForward, ActStop, Finish, Crash, Fault, Stays, dir, memory, ghosts
<1>7. CASE TakeEdge
  <2>1. Goto[at] \in Steps /\ Goto[at] <= at
    BY <1>7, EdgeTargets DEF TakeEdge, EdgeOpen, TypeInv, ControlInv
  <2>2. QED
    BY <1>7, <2>1, OrderGoesBack DEF TakeEdge, Stays, dir, ghosts
<1>8. CASE ActGoto
  <2>1. answer.step \in Steps /\ answer.step <= at
    BY <1>8 DEF ActGoto, TypeInv, ControlInv
  <2>2. QED
    BY <1>8, <2>1, OrderGoesBack DEF ActGoto, Stays, dir, ghosts
<1>9. CASE ClearOne
  <2>1. /\ pc = "clearing" /\ pc' \in Sends /\ UNCHANGED waved
        /\ span.to \in Steps /\ span.next \in Steps /\ span.to <= span.next /\ span'.to = span.to
        /\ result' = [result EXCEPT ![span.next] = NoResult]
    BY <1>9 DEF ClearOne, ClearUpTo, Sends, TypeInv, TypeOK, MemoryOK, ControlInv
  <2>2. \A s \in Steps : s < span.to => result'[s] = result[s]
    <3> TAKE s \in Steps
    <3> HAVE s < span.to
    <3>1. s # span.next
      BY <2>1, StepsAssumption DEF Steps
    <3>2. QED
      BY <2>1, <3>1 DEF TypeInv, TypeOK, DirOK
  <2>3. Before(span.to) /\ span.to \in 1..(N + 1) /\ span.to <= span.to
    BY <2>1, StepsAssumption DEF OrderInv, Sends, Steps
  <2>4. \A s \in Steps : s < span.to => Passed(s)' \/ s \in waved'
    BY <2>1, <2>2, <2>3, BeforeEarlier
  <2>5. QED
    BY <2>1, <2>4 DEF OrderInv, Before, Stays, Sends
<1>10. CASE Charge \/ GoBack
  <2>1. pc \in Sends /\ pc' = "loop" /\ at' = span.to /\ UNCHANGED <<result, waved>>
    BY <1>10 DEF Charge, ChargeAndJump, GoBack, JumpTo, Sends, dir, ghosts
  <2>2. QED
    BY <2>1 DEF OrderInv, Before, Passed, Stays, Sends
<1>11. CASE ActContinue
  <2>1. pc = "deciding" /\ answer.verb = "continue"
    BY <1>11 DEF ActContinue
  <2>2. sr = "done"
    BY <2>1 DEF BriefInv, Heeds
  <2>3. Passed(at) /\ at \in Steps
    BY <2>1, <2>2 DEF OrderInv, Stays, TypeInv, ControlInv
  <2>4. QED
    BY <1>11, <2>3, OrderGoesOn DEF ActContinue, Stays, dir, ghosts
<1>12. CASE ActSkip
  <2>1. at \in Steps /\ at \in waved' /\ waved \subseteq waved'
    BY <1>12 DEF ActSkip, TypeInv, ControlInv
  <2>2. QED
    BY <1>12, <2>1, OrderGoesOn DEF ActSkip, Stays, dir
<1>13. ASSUME NEW reset \in BOOLEAN, Start(reset)
       PROVE  OrderInv'
  <2>1. at' = 1 /\ pc' = "loop"
    BY <1>13 DEF Start, TakeUp
  <2>2. \A s \in Steps : ~(s < 1)
    BY StepsAssumption DEF Steps
  <2>3. QED
    BY <2>1, <2>2 DEF OrderInv, Before, Stays, Sends
<1>14. ASSUME NEW a \in working, NEW status \in {"ok", "error", "unreadable"}, AgentWrites(a, status)
       PROVE  OrderInv'
  <2>1. pc \in {"running", "idle"} /\ UNCHANGED <<pc, at, sr, span, waved>>
    BY <1>14 DEF AgentWrites, memory, ghosts
  <2>2. CASE pc = "running"
    <3>1. a.step = at
      BY <1>14, <2>2 DEF AgentWrites, Me, Agent
    <3>2. \A s \in Steps : s < at => result'[s] = result[s]
      BY <1>14, <3>1, <1>0 DEF AgentWrites, TypeInv, TypeOK, DirOK
    <3>3. QED
      BY <2>1, <2>2, <3>2, OrderAtWork
  <2>3. CASE pc = "idle"
    BY <2>1, <2>3 DEF OrderInv, Stays, Sends
  <2>4. QED
    BY <2>1, <2>2, <2>3
<1>15. CASE \E a \in working, d \in Offered \cup Strays : OverwatchWrites(a, d)
  BY <1>15, OrderKept DEF OverwatchWrites, memory, ghosts
<1>16. CASE \E a \in tabs : CloseTab(a)
  BY <1>16, OrderKept DEF CloseTab, dir, memory, ghosts
<1>17. CASE UNCHANGED vars
  BY <1>17, OrderKept DEF vars, dir, memory, ghosts
<1>18. QED
  BY <1>1, <1>2, <1>3, <1>4, <1>5, <1>6, <1>7, <1>8, <1>9, <1>10, <1>11, <1>12, <1>13, <1>14,
     <1>15, <1>16, <1>17 DEF Next, Engine, World

\* What the order of the steps rests on: no process dies while it waits for a decision,
\* no agent that was given up writes while a process runs, and no overwatch agent
\* continues past a step that did not finish.
Orderly == LateAt \subseteq {"idle"} /\ "consulting" \notin CrashAt /\ "continue" \notin OffBrief

LEMMA OrderInductive == ASSUME Orderly PROVE Spec => [](TypeInv /\ BriefInv /\ OrderInv)
<1>1. Init => OrderInv
  BY DEF Init, OrderInv, Stays, Sends
<1>2. TypeInv /\ BriefInv /\ OrderInv /\ [Next]_vars => OrderInv'
  BY OrderStep DEF Orderly
<1>3. Spec => [](TypeInv /\ BriefInv)
  BY BriefInductive DEF Orderly
<1>4. QED
  BY <1>1, <1>2, <1>3, PTL DEF Spec

\* A step runs only when every step before it has a result that says ok, or was accepted
\* by a permitted skip.
THEOREM StepsRunInOrder == ASSUME Orderly PROVE Spec => []RunsInOrder
<1>1. OrderInv => RunsInOrder
  BY DEF OrderInv, RunsInOrder, Before
<1>2. QED
  BY <1>1, OrderInductive, PTL

\* A run that ends as done has then an ok result for every step, but for the ones that
\* were skipped, if no decision sends it forward.
THEOREM DoneIsDone == ASSUME Orderly, "forward" \notin OffBrief PROVE Spec => DoneMeansDone
<1> DEFINE Ends == pc # "idle" /\ pc' = "idle" /\ wr' = "done" => \A s \in Steps : Passed(s) \/ s \in waved
<1>1. ASSUME TypeInv, BriefInv, OrderInv, [Next]_vars
      PROVE  [Ends]_vars
  <2> SUFFICES ASSUME Next, pc # "idle", pc' = "idle", wr' = "done" PROVE \A s \in Steps : Passed(s) \/ s \in waved
    BY <1>1
  <2>1. CASE Finish
    <3>1. Before(N + 1) /\ \A s \in Steps : s < N + 1
      BY <1>1, <2>1, StepsAssumption DEF Finish, OrderInv, Steps
    <3>2. QED
      BY <3>1 DEF Before
  <2>2. CASE ActGotoForward
    <3>1. pc = "deciding" /\ answer.verb = "goto" /\ answer.step > at
      BY <2>2 DEF ActGotoForward
    <3>2. answer.step <= at
      BY <1>1, <3>1 DEF BriefInv, Heeds
    <3>3. answer.step \in Nat /\ at \in Nat
      BY <1>1, <3>1, Positions DEF TypeInv, ControlInv
    <3>4. QED
      BY <3>1, <3>2, <3>3
  <2>3. CASE Reuse \/ BeginAgent \/ RefuseAgent \/ BeginCommand \/ SettleAgent
             \/ \E status \in {"ok", "error"} : SettleCommand(status)
    BY <2>3 DEF Reuse, BeginAgent, RefuseAgent, BeginCommand, Begin, BeginWith, SettleAgent, SettleCommand, Settle
  <2>4. CASE CarryOn \/ Watch \/ TakeEdge \/ ParkHere \/ ClearOne \/ Charge \/ ConsultSpent
             \/ ConsultBegin \/ ConsultEnds
    BY <2>4
       DEF CarryOn, Watch, TakeEdge, ParkHere, Park, ClearOne, ClearUpTo, Charge, ChargeAndJump,
           ConsultSpent, StopUnasked, ConsultBegin, ConsultEnds, ConsultOver
  <2>5. CASE ActContinue \/ ActSkip \/ ActRetry \/ ActGoto \/ GoBack \/ ActStop
    BY <2>5 DEF ActContinue, ActSkip, ActRetry, ActGoto, GoBack, JumpTo, ActStop
  <2>6. CASE World
    BY <2>6 DEF World, Start, TakeUp, AgentWrites, OverwatchWrites, Crash, Fault, CloseTab
  <2>7. QED
    BY <2>1, <2>2, <2>3, <2>4, <2>5, <2>6 DEF Next, Engine
<1>2. Spec => [][Ends]_vars
  BY <1>1, OrderInductive, PTL DEF Spec
<1>3. QED
  BY <1>2 DEF DoneMeansDone


(***************************************************************************)
(* Fresh work.  Between the clearings, the steps that passed are the first *)
(* ones, so no step runs again under a later one that is still reused.     *)
(* The agent of the step at hand can still write its file only where that  *)
(* leaves them so.                                                         *)
(***************************************************************************)
InARow == \A t \in Steps : Passed(t) => \A s \in Steps : s < t => Passed(s)
NoneAbove == \A t \in Steps : Passed(t) => t <= at
Cleared(s) == span.to <= s /\ s < span.next
RowButCleared ==
    \A t \in Steps : Passed(t) => ~Cleared(t) /\ \A s \in Steps : s < t => Passed(s) \/ Cleared(s)

Silent == Me \notin working
Unfinished == ~Passed(at) /\ Before(at) /\ NoneAbove

FreshInv ==
    /\ waved = {} /\ stale = {}
    /\ pc # "clearing" => InARow
    /\ pc \in Stays \cup {"running", "clearing"} => NoneAbove
    /\ pc = "clearing" => RowButCleared
    /\ pc = "idle" /\ stoppedAt = at => Silent \/ Unfinished
    /\ pc = "running" => result[at] = NoResult \/ Silent
    /\ pc \in Stays => Silent \/ (sr = "parked" /\ ~Passed(at))
    /\ pc = "charging" \/ (pc = "clearing" /\ span.edge) => Silent
    /\ pc = "deciding" => answer.verb # "skip"

\* When every step before this one passed and none after it, they passed in a row.
LEMMA RowUpTo ==
    ASSUME NEW k \in Int, NEW P \in SUBSET Steps,
           \A s \in Steps : s < k => s \in P, \A t \in P : t <= k
    PROVE  \A t \in P : \A s \in Steps : s < t => s \in P
<1> TAKE t \in P
<1> TAKE s \in Steps
<1> HAVE s < t
<1>1. s \in Int /\ t \in Int /\ t <= k
  BY StepsAssumption DEF Steps
<1>2. s < k
  BY <1>1
<1>3. QED
  BY <1>2

\* A step that leaves the files alone and the agent of the step no freer, and the
\* process in a place that asks no more.
LEMMA FreshKept ==
    ASSUME FreshInv, UNCHANGED <<result, proc, at, sr, attempts, span, waved, stale>>,
           Me \in working' => Me \in working,
           \/ pc' = pc /\ UNCHANGED <<stoppedAt, answer>>
           \/ pc \in Stays /\ pc' \in Stays \ {"deciding"}
           \/ pc' = "loop" /\ pc # "clearing"
    PROVE  FreshInv'
<1>1. Me' = Me /\ (Silent => Silent')
  BY DEF Me, Agent, Silent
<1>2. InARow' = InARow /\ NoneAbove' = NoneAbove /\ RowButCleared' = RowButCleared /\ Unfinished' = Unfinished
  BY DEF InARow, NoneAbove, RowButCleared, Cleared, Passed, Unfinished, Before
<1>3. CASE pc' = pc /\ UNCHANGED <<stoppedAt, answer>>
  BY <1>1, <1>2, <1>3 DEF FreshInv, Passed
<1>4. CASE pc \in Stays /\ pc' \in Stays \ {"deciding"}
  BY <1>1, <1>2, <1>4 DEF FreshInv, Stays, Passed
<1>5. CASE pc' = "loop" /\ pc # "clearing"
  BY <1>1, <1>2, <1>5 DEF FreshInv, Stays
<1>6. QED
  BY <1>3, <1>4, <1>5

\* A process that goes on, back or up from the start.
LEMMA FreshMoves ==
    ASSUME FreshInv, pc # "clearing", pc' = "loop", UNCHANGED <<result, stale>>, waved' = {}
    PROVE  FreshInv'
BY DEF FreshInv, InARow, Passed, Stays

\* A process that stops where it works on a step, or while it decides what comes after it.
LEMMA FreshStops ==
    ASSUME TypeInv, OrderInv, FreshInv, pc \in Stays \cup {"running", "charging"}, pc' = "idle",
           UNCHANGED <<result, proc, at, attempts, working, waved, stale>>
    PROVE  FreshInv'
<1>1. Me' = Me /\ (Silent => Silent')
  BY DEF Me, Agent, Silent
<1>2. Unfinished' = Unfinished /\ InARow' = InARow
  BY DEF InARow, NoneAbove, Passed, Unfinished, Before
<1>3. Silent \/ Unfinished
  BY DEF FreshInv, OrderInv, Unfinished, Stays, Passed, NoResult
<1>4. QED
  BY <1>1, <1>2, <1>3 DEF FreshInv, Stays

\* A process that begins to clear a span.
LEMMA FreshTurns ==
    ASSUME TypeInv, FreshInv, pc \in Stays, pc' = "clearing", span'.next = span'.to, span'.to \in Int,
           span'.edge => Silent, UNCHANGED <<result, proc, at, attempts, working, waved, stale>>
    PROVE  FreshInv'
<1>1. Me' = Me /\ (Silent => Silent')
  BY DEF Me, Agent, Silent
<1>2. \A s \in Steps : ~(span'.to <= s /\ s < span'.next)
  BY StepsAssumption DEF Steps
<1>3. InARow /\ NoneAbove
  BY DEF FreshInv, Stays
<1>4. RowButCleared'
  BY <1>2, <1>3 DEF InARow, RowButCleared, Cleared, Passed
<1>5. NoneAbove'
  BY <1>3 DEF NoneAbove, Passed
<1>6. QED
  BY <1>1, <1>4, <1>5 DEF FreshInv, Stays

\* A step that begins has nothing after it to be reused.
LEMMA FreshBegins ==
    ASSUME TypeInv, FreshInv, Begin, pc' = "running" \/ (pc' = "settled" /\ sr' = "parked")
    PROVE  FreshInv'
<1>1. /\ pc = "loop" /\ at \in Steps /\ ~Passed(at) /\ at' = at /\ waved' = waved
      /\ result' = [result EXCEPT ![at] = NoResult]
      /\ stale' = (stale \ {at}) \cup {s \in Steps : s > at /\ Passed(s)}
  BY DEF Begin, BeginWith
<1>2. InARow /\ stale = {} /\ waved = {}
  BY <1>1 DEF FreshInv
<1>3. \A t \in Steps : Passed(t) => ~(at < t)
  BY <1>1, <1>2 DEF InARow
<1>4. \A t \in Steps : Passed(t) => t <= at
  BY <1>1, <1>3, StepsAssumption DEF Steps
<1>5. stale' = {}
  <2>1. \A s \in Steps : ~(s > at /\ Passed(s))
    BY <1>1, <1>3, StepsAssumption DEF Steps
  <2>2. QED
    BY <1>1, <1>2, <2>1
<1>6. ~(result'[at].status = "ok") /\ \A s \in Steps : Passed(s)' <=> Passed(s)
  <2>1. ~(result'[at].status = "ok") /\ result'[at] = NoResult
    BY <1>1 DEF TypeInv, TypeOK, DirOK, NoResult
  <2>2. \A s \in Steps : s # at => result'[s] = result[s]
    BY <1>1 DEF TypeInv, TypeOK, DirOK
  <2>3. QED
    BY <1>1, <2>1, <2>2 DEF Passed
<1>7. InARow' /\ NoneAbove'
  BY <1>1, <1>2, <1>4, <1>6 DEF InARow, NoneAbove
<1>8. result'[at'] = NoResult /\ ~Passed(at)'
  BY <1>1, <1>6 DEF TypeInv, TypeOK, DirOK, Passed
<1>9. QED
  BY <1>1, <1>2, <1>5, <1>7, <1>8 DEF FreshInv, Stays

\* The result of the step at hand, in one that stays where it is.
LEMMA FreshWritten ==
    ASSUME TypeInv, FreshInv, at \in Steps, Before(at), NoneAbove, UNCHANGED <<at, waved, stale>>,
           \A s \in Steps : s # at => result'[s] = result[s]
    PROVE  InARow' /\ NoneAbove'
<1> DEFINE P == {s \in Steps : Passed(s)'}
<1>1. \A s \in Steps : s < at => s \in P
  <2> TAKE s \in Steps
  <2> HAVE s < at
  <2>1. s # at /\ Passed(s)
    BY StepsAssumption DEF Steps, Before, FreshInv
  <2>2. QED
    BY <2>1 DEF Passed
<1>2. \A t \in P : t <= at
  <2> TAKE t \in P
  <2>1. CASE t = at
    BY <2>1, StepsAssumption DEF Steps
  <2>2. CASE t # at
    BY <2>2 DEF Passed, NoneAbove
  <2>3. QED
    BY <2>1, <2>2
<1>3. at \in Int /\ P \in SUBSET Steps
  BY StepsAssumption DEF Steps
<1> HIDE DEF P
<1>4. \A t \in P : \A s \in Steps : s < t => s \in P
  BY <1>1, <1>2, <1>3, RowUpTo
<1> USE DEF P
<1>5. InARow'
  BY <1>4 DEF InARow
<1>6. NoneAbove'
  BY <1>2 DEF NoneAbove
<1>7. QED
  BY <1>5, <1>6


\* One result less, in the middle of a span.
LEMMA FreshClears ==
    ASSUME TypeInv, FreshInv, ClearOne
    PROVE  FreshInv'
<1>1. /\ pc = "clearing" /\ at \in Steps /\ span.to \in Steps /\ span.next \in Steps
      /\ span.to <= span.next /\ span.next <= at
      /\ result' = [result EXCEPT ![span.next] = NoResult]
      /\ span'.to = span.to /\ span'.next = span.next + 1 /\ span'.edge = span.edge
      /\ pc' = IF span.next < at THEN "clearing" ELSE IF span.edge THEN "charging" ELSE "jumping"
      /\ stale' = stale \ {span.next} /\ waved' = waved
      /\ UNCHANGED <<at, proc, attempts, working>>
  BY DEF ClearOne, ClearUpTo, TypeInv, TypeOK, MemoryOK, ControlInv, herdr
<1>2. waved' = {} /\ stale' = {}
  BY <1>1 DEF FreshInv
<1>3. NoneAbove /\ RowButCleared
  BY <1>1 DEF FreshInv
<1>4. \A s \in Steps : Passed(s)' <=> Passed(s) /\ s # span.next
  BY <1>1 DEF TypeInv, TypeOK, DirOK, Passed, NoResult
<1>5. NoneAbove'
  BY <1>1, <1>3, <1>4 DEF NoneAbove
<1>6. \A s \in Steps : Cleared(s)' <=> Cleared(s) \/ s = span.next
  <2> TAKE s \in Steps
  <2>1. s \in Int /\ span.next \in Int /\ span.to \in Int
    BY <1>1, StepsAssumption DEF Steps
  <2>2. span.to <= s /\ s < span.next + 1 <=> (span.to <= s /\ s < span.next) \/ s = span.next
    BY <1>1, <2>1
  <2>3. QED
    BY <1>1, <2>2 DEF Cleared
<1>7. RowButCleared'
  BY <1>3, <1>4, <1>6 DEF RowButCleared
<1>8. pc' # "clearing" => InARow'
  <2> SUFFICES ASSUME pc' # "clearing", NEW t \in Steps, Passed(t)', NEW s \in Steps, s < t
               PROVE  Passed(s)'
    BY DEF InARow
  <2>1. span.next = at
    BY <1>1, StepsAssumption DEF Steps
  <2>2. Passed(t) /\ t # at /\ t <= at /\ ~Cleared(t)
    BY <1>3, <1>4, <2>1 DEF NoneAbove, RowButCleared
  <2>3. s \in Int /\ t \in Int /\ at \in Int /\ span.to \in Int
    BY <1>1, StepsAssumption DEF Steps
  <2>4. t < span.to
    BY <2>1, <2>2, <2>3 DEF Cleared
  <2>5. s < span.to /\ s # span.next
    BY <1>1, <2>1, <2>2, <2>3, <2>4
  <2>6. ~Cleared(s)
    BY <2>3, <2>5 DEF Cleared
  <2>7. Passed(s)
    BY <1>3, <2>2, <2>6 DEF RowButCleared
  <2>8. QED
    BY <1>4, <2>5, <2>7
<1>9. pc' = "charging" => span.edge
  BY <1>1
<1>10. Me' = Me
  BY <1>1 DEF Me, Agent
<1>11. span.edge => Silent'
  BY <1>1, <1>10 DEF FreshInv, Silent
<1>12. pc' = "clearing" /\ span'.edge => Silent'
  BY <1>1, <1>11
<1>13. pc' \in Sends
  BY <1>1 DEF Sends
<1>14. QED
  BY <1>2, <1>5, <1>7, <1>8, <1>9, <1>11, <1>12, <1>13 DEF FreshInv, Stays, Sends

\* The flows, and the failures, for which a reused result is fresh: no agent that was given
\* up writes later, no process dies inside a consult, none dies or fails inside the clearing
\* of a span, and no step is skipped.
Freshly ==
    /\ LateAt = {} /\ "consulting" \notin CrashAt /\ "continue" \notin OffBrief
    /\ "clearing" \notin CrashAt \cup FaultAt
    /\ "skip" \notin Allow

LEMMA FreshStep ==
    ASSUME Freshly, TypeInv, AgentsInv, BriefInv, OrderInv, FreshInv, [Next]_vars
    PROVE  FreshInv'
<1>1. CASE BeginAgent \/ BeginCommand \/ RefuseAgent
  BY <1>1, FreshBegins DEF BeginAgent, BeginCommand, RefuseAgent
<1>2. CASE SettleAgent
  <2>1. /\ pc = "running" /\ pc' = "settled" /\ sr' = OutcomeOf(result[at].status)
        /\ UNCHANGED <<result, proc, at, attempts, waved, stale>>
        /\ working' = IF Passed(at) THEN working \ {Me} ELSE working
    BY <1>2 DEF SettleAgent, Settle, memory, ghosts
  <2>2. Me' = Me /\ InARow' = InARow /\ NoneAbove' = NoneAbove /\ Passed(at)' = Passed(at)
    BY <2>1 DEF Me, Agent, InARow, NoneAbove, Passed
  <2>3. InARow /\ NoneAbove /\ (result[at] = NoResult \/ Silent)
    BY <2>1 DEF FreshInv
  <2>4. result[at] = NoResult => sr' = "parked" /\ ~Passed(at)
    BY <2>1 DEF OutcomeOf, NoResult, Passed
  <2>5. Silent' \/ (sr' = "parked" /\ ~Passed(at)')
    BY <2>1, <2>2, <2>3, <2>4 DEF Silent
  <2>6. waved' = {} /\ stale' = {}
    BY <2>1 DEF FreshInv
  <2>7. QED
    BY <2>1, <2>2, <2>3, <2>5, <2>6 DEF FreshInv
<1>3. ASSUME NEW status \in {"ok", "error"}, SettleCommand(status)
      PROVE  FreshInv'
  <2>1. /\ pc = "running" /\ pc' = "settled" /\ at \in Steps /\ at \notin AgentSteps
        /\ UNCHANGED <<proc, at, attempts, waved, stale, working>>
        /\ result' = [result EXCEPT ![at] = [status |-> status, proc |-> proc, attempt |-> attempts[at]]]
    BY <1>3 DEF SettleCommand, Settle, memory, ghosts, herdr, TypeInv, ControlInv
  <2>2. \A s \in Steps : s # at => result'[s] = result[s]
    BY <2>1 DEF TypeInv, TypeOK, DirOK
  <2>3. Before(at) /\ NoneAbove
    BY <2>1 DEF OrderInv, FreshInv
  <2>4. InARow' /\ NoneAbove'
    BY <2>1, <2>2, <2>3, FreshWritten
  <2>5. Me.step = at /\ at # Watcher /\ Me' = Me
    BY <2>1, Positions DEF Me, Agent, Watcher, Steps
  <2>6. Silent'
    BY <2>1, <2>5 DEF Silent, AgentsInv, TypeInv, TypeOK, HerdrOK
  <2>7. waved' = {} /\ stale' = {}
    BY <2>1 DEF FreshInv
  <2>8. QED
    BY <2>1, <2>4, <2>6, <2>7 DEF FreshInv
<1>4. ASSUME NEW a \in working, NEW status \in {"ok", "error", "unreadable"}, AgentWrites(a, status)
      PROVE  FreshInv'
  <2>1. /\ a = Me /\ a.step # Watcher
        /\ pc = "running" \/ (pc = "idle" /\ stoppedAt = at)
        /\ result' = [result EXCEPT ![a.step] = [status |-> status, proc |-> a.proc, attempt |-> a.attempt]]
        /\ working' = working \ {a}
        /\ UNCHANGED <<proc, pc, at, sr, attempts, waved, stale>>
    BY <1>4 DEF AgentWrites, Freshly, memory, ghosts
  <2>2. a.step = at /\ at \in Steps
    <3>1. a.step = at
      BY <2>1 DEF Me, Agent
    <3>2. a.step \in 0..N
      BY DEF TypeInv, TypeOK, HerdrOK, AgentId
    <3>3. QED
      BY <2>1, <3>1, <3>2, StepsAssumption DEF Steps, Watcher
  <2>3. \A s \in Steps : s # at => result'[s] = result[s]
    BY <2>1, <2>2 DEF TypeInv, TypeOK, DirOK
  <2>4. Before(at) /\ NoneAbove
    BY <2>1 DEF OrderInv, FreshInv, Silent, Unfinished
  <2>5. InARow' /\ NoneAbove'
    BY <2>1, <2>2, <2>3, <2>4, FreshWritten
  <2>6. Silent'
    BY <2>1 DEF Silent, Me, Agent
  <2>7. waved' = {} /\ stale' = {}
    BY <2>1 DEF FreshInv
  <2>8. QED
    BY <2>1, <2>5, <2>6, <2>7 DEF FreshInv, Stays
<1>5. CASE Reuse \/ CarryOn \/ Charge \/ GoBack \/ ActContinue \/ ActRetry \/ \E reset \in BOOLEAN : Start(reset)
  <2>1. /\ pc # "clearing" /\ pc' = "loop" /\ UNCHANGED <<result, stale>>
        /\ waved' = waved \/ waved' = {}
    BY <1>5
       DEF Reuse, CarryOn, Charge, ChargeAndJump, GoBack, JumpTo, ActContinue, ActRetry, Start, TakeUp,
           dir, ghosts
  <2>2. waved' = {}
    BY <2>1 DEF FreshInv
  <2>3. QED
    BY <2>1, <2>2, FreshMoves
<1>6. CASE Watch
  BY <1>6, FreshKept DEF Watch, Stays, dir, herdr, memory, ghosts
<1>7. CASE TakeEdge
  <2>1. Goto[at] \in Steps /\ pc \in Stays /\ sr = "failed"
    BY <1>7, EdgeTargets DEF TakeEdge, EdgeOpen, TypeInv, ControlInv, Stays
  <2>2. Silent
    BY <2>1 DEF FreshInv
  <2>3. Goto[at] \in Int
    BY <2>1, StepsAssumption DEF Steps
  <2>4. QED
    BY <1>7, <2>1, <2>2, <2>3, FreshTurns DEF TakeEdge, dir, herdr, ghosts
<1>8. CASE ActGoto
  <2>1. answer.step \in Steps
    BY <1>8 DEF ActGoto, TypeInv, ControlInv
  <2>2. answer.step \in Int
    BY <2>1, StepsAssumption DEF Steps
  <2>3. QED
    BY <1>8, <2>2, FreshTurns DEF ActGoto, Stays, dir, herdr, ghosts
<1>9. CASE ParkHere
  <2>1. /\ pc = "settled" /\ pc' \in {"consult", "idle"}
        /\ UNCHANGED <<result, proc, at, sr, attempts, span, waved, stale, working>>
    BY <1>9 DEF ParkHere, Park, dir, herdr, memory, ghosts
  <2>2. QED
    BY <2>1, FreshKept, FreshStops DEF Stays
<1>10. CASE ConsultBegin
  <2>1. /\ pc = "consult" /\ pc' = "consulting" /\ working' \subseteq working \cup {Consultant}
        /\ UNCHANGED <<result, proc, at, sr, attempts, span, waved, stale>>
    BY <1>10 DEF ConsultBegin, dir, memory
  <2>2. Me # Consultant /\ Me' = Me
    <3>1. Me.step = at /\ Consultant.step = Watcher /\ at # Watcher
      BY <2>1, Positions DEF Me, Consultant, Agent, Watcher, Steps, TypeInv, ControlInv
    <3>2. QED
      BY <2>1, <3>1 DEF Me, Agent
  <2>3. QED
    BY <2>1, <2>2, FreshKept DEF Stays
<1>11. CASE ConsultEnds
  <2>1. /\ pc = "consulting" /\ pc' = "deciding" /\ working' \subseteq working
        /\ answer' = Sanitise(decision[consults + 1])
        /\ UNCHANGED <<result, proc, at, sr, attempts, span, waved, stale>>
    BY <1>11 DEF ConsultEnds, ConsultOver, ghosts
  <2>2. Me' = Me /\ (Silent => Silent')
    BY <2>1 DEF Me, Agent, Silent
  <2>3. InARow' = InARow /\ NoneAbove' = NoneAbove
    BY <2>1 DEF InARow, NoneAbove, Passed
  <2>4. answer'.verb # "skip"
    BY <2>1 DEF Sanitise, Permits, Freshly
  <2>5. QED
    BY <2>1, <2>2, <2>3, <2>4 DEF FreshInv, Stays, Passed
<1>12. CASE ConsultSpent \/ ActGotoForward \/ ActStop
  BY <1>12, FreshStops
     DEF ConsultSpent, StopUnasked, ActGotoForward, ActStop, Stays, dir, herdr, memory, ghosts
<1>13. CASE ActSkip
  BY <1>13 DEF ActSkip, FreshInv
<1>14. CASE ClearOne
  BY <1>14, FreshClears
<1>15. CASE Finish \/ (Crash /\ pc # "running")
  <2>1. /\ pc # "clearing" /\ pc' = "idle" /\ stoppedAt' # at'
        /\ UNCHANGED <<result, waved, stale>>
    <3>0. N \in Nat /\ at \in 1..(N + 1) /\ stoppedAt \in 0..N
      BY StepsAssumption DEF TypeInv, TypeOK, ProcessOK
    <3>1. CASE Finish
      <4>1. at = N + 1
        BY <3>1 DEF Finish
      <4>2. stoppedAt # at
        BY <3>0, <4>1
      <4>3. QED
        BY <3>1, <4>2 DEF Finish, dir, record, ghosts
    <3>2. CASE Crash /\ pc # "running"
      <4>1. 0 # at
        BY <3>0
      <4>2. QED
        BY <3>2, <4>1 DEF Crash, Freshly, ghosts
    <3>3. QED
      BY <1>15, <3>1, <3>2
  <2>2. InARow' = InARow
    BY <2>1 DEF InARow, Passed
  <2>3. QED
    BY <2>1, <2>2 DEF FreshInv, Stays
<1>16. CASE Fault \/ (Crash /\ pc = "running")
  <2>1. pc \in {"running", "charging"}
    BY <1>16, FailuresAssumption DEF Fault, Freshly
  <2>2. QED
    BY <1>16, <2>1, FreshStops DEF Fault, Crash, herdr, memory, ghosts
<1>17. CASE \/ \E a \in working, d \in Offered \cup Strays : OverwatchWrites(a, d)
            \/ \E a \in tabs : CloseTab(a)
            \/ UNCHANGED vars
  <2>1. /\ working' \subseteq working
        /\ UNCHANGED <<result, proc, pc, at, sr, attempts, span, waved, stale, stoppedAt, answer>>
    BY <1>17 DEF OverwatchWrites, CloseTab, vars, dir, herdr, record, memory, ghosts
  <2>2. Me' = Me
    BY <2>1 DEF Me, Agent
  <2>3. QED
    BY <2>1, <2>2, FreshKept
<1>18. QED
  BY <1>1, <1>2, <1>3, <1>4, <1>5, <1>6, <1>7, <1>8, <1>9, <1>10, <1>11, <1>12, <1>13, <1>14,
     <1>15, <1>16, <1>17 DEF Next, Engine, World

LEMMA FreshInductive ==
    ASSUME Freshly PROVE Spec => [](TypeInv /\ AgentsInv /\ BriefInv /\ OrderInv /\ FreshInv)
<1>1. Init => AgentsInv /\ FreshInv
  BY StepsAssumption DEF Init, AgentsInv, FreshInv, InARow, Passed, NoResult, Silent, Stays
<1>2. TypeInv /\ AgentsInv /\ BriefInv /\ OrderInv /\ FreshInv /\ [Next]_vars => (AgentsInv /\ FreshInv)'
  BY AgentsStep, FreshStep
<1>3. Spec => [](TypeInv /\ BriefInv /\ OrderInv)
  BY OrderInductive DEF Freshly, Orderly
<1>4. QED
  BY <1>1, <1>2, <1>3, PTL DEF Spec

\* Under those conditions, a result is reused only if no earlier step has run again since
\* it was written, however the run was sent back, crashed and resumed.
THEOREM WorkIsFresh == ASSUME Freshly PROVE Spec => []ReusesFreshWork
<1>1. FreshInv => ReusesFreshWork
  BY DEF FreshInv, ReusesFreshWork
<1>2. QED
  BY <1>1, FreshInductive, PTL

=============================================================================
