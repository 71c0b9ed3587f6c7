---------------------------- MODULE SpacesProofs ----------------------------
(***************************************************************************)
(* Theorems about Spaces, for any number of ids, makers and askers, and    *)
(* whatever herdr and everybody else who uses it do.                       *)
(***************************************************************************)
EXTENDS Spaces, FiniteSetTheorems, TLAPS

(***************************************************************************)
(* Types.                                                                  *)
(***************************************************************************)
Kinds == {"gone", "bermuda", "room", "other"}
Tabs == {"root", "work", "run"}
Space == [kind : Kinds, tabs : SUBSET Tabs, verdict : BOOLEAN]
Ids == SpaceIds \cup {NoSpace}
Label == Kinds \X Ids \X Nat
Thread == [of : Ids, label : Label, bare : BOOLEAN, open : BOOLEAN, lease : {"none", "held", "over"}]
Asked == [at : {"rest", "missed", "named"}, of : Ids, label : Label, bare : BOOLEAN]
Maker == [at : {"idle", "waiting", "locked", "creating", "created", "got"}, got : Ids, fresh : BOOLEAN]
Sweep == [at : {"idle", "opening", "closing"}, live : SUBSET SpaceIds, todo : SUBSET SpaceIds, open : SUBSET Nat]
Room == [at : {"idle", "asking", "put", "running", "closing", "renaming", "showing", "reaping"},
         outcome : {"new", "running", "done", "parked"}, rowSpace : Ids, rowThread : Nat,
         space : Ids, thread : Nat, root : BOOLEAN, rough : BOOLEAN]

HerdrOK ==
    /\ space \in [SpaceIds -> Space]
    /\ \A s \in SpaceIds : space[s].kind # "gone" => space[s].tabs # {} /\ s \in handed
    /\ handed \subseteq SpaceIds /\ restarts \in 0..MaxRestarts

MakersOK ==
    /\ record \in Ids /\ guard \subseteq Makers /\ lost \in 0..MaxLost
    /\ maker \in [Makers -> Maker]

ThreadsOK ==
    /\ threads \in Seq(Thread) /\ Len(threads) <= MaxThreads
    /\ asking \in [Askers \cup {"sweep", "flow"} -> Asked]

SweepOK == sweep \in Sweep /\ sweep.todo \subseteq sweep.live

RoomOK ==
    /\ room \in Room
    /\ room.rowThread <= Len(threads) /\ room.thread <= Len(threads)
    /\ room.at = "asking" => room.space \in SpaceIds

TypesInv == HerdrOK /\ MakersOK /\ ThreadsOK /\ SweepOK /\ RoomOK

LEMMA TypesAreOK == TypesInv => SpacesTypeOK
BY DEF TypesInv, SpacesTypeOK, HerdrOK, MakersOK, ThreadsOK, SweepOK, RoomOK, Space, Kinds, Tabs, Ids,
       Sweep, IsOpen

LEMMA NoThreadYet == 0 \in Nat /\ <<>> \in Seq(Thread) /\ Len(<<>>) = 0 /\ 0 <= 0
OBVIOUS

LEMMA RestingType == Resting \in Asked
<1>1. <<"gone", NoSpace, 0>> \in Label
  BY DEF Label, Kinds, Ids
<1>2. QED
  BY <1>1 DEF Resting, Asked, Ids

LEMMA LabelType == ASSUME HerdrOK, NEW s \in SpaceIds PROVE LabelOf(s) \in Label
<1>1. space[s].kind \in Kinds /\ "room" \in Kinds
  BY DEF HerdrOK, Space, Kinds
<1>2. restarts \in Nat /\ 0 \in Nat /\ s \in Ids /\ NoSpace \in Ids
  BY SpacesAssumption DEF HerdrOK, Ids
<1>3. <<"room", s, restarts>> \in Label /\ <<space[s].kind, NoSpace, 0>> \in Label
  BY <1>1, <1>2 DEF Label
<1>4. QED
  BY <1>3 DEF LabelOf

LEMMA TypesInit == SpacesInit => TypesInv
<1> SUFFICES ASSUME SpacesInit PROVE TypesInv
  OBVIOUS
<1>1. 0 \in 0..MaxRestarts /\ 0 \in 0..MaxLost /\ 0 <= MaxThreads
  BY SpacesAssumption
<1>2. HerdrOK
  BY <1>1 DEF SpacesInit, HerdrOK, Closed, Space, Kinds
<1>3. MakersOK
  BY <1>1 DEF SpacesInit, MakersOK, Maker, Ids
<1>4. ThreadsOK
  BY <1>1, NoThreadYet, RestingType DEF SpacesInit, ThreadsOK
<1>5. SweepOK
  BY DEF SpacesInit, SweepOK, NoSweep, Sweep
<1>6. RoomOK
  BY NoThreadYet DEF SpacesInit, RoomOK, NoRoom, Room, Ids
<1>7. QED
  BY <1>2, <1>3, <1>4, <1>5, <1>6 DEF TypesInv

(***************************************************************************)
(* What a step may do to the spaces, whoever takes it.                     *)
(***************************************************************************)
Own == {s \in SpaceIds : space[s].kind = "bermuda"}

\* No space becomes bermuda's, and an id that was handed out is nobody else's.
OwnUntouched ==
    /\ \A s \in SpaceIds : space'[s].kind = "bermuda" => space[s].kind = "bermuda"
    /\ \A s \in handed : s \in handed' /\ space'[s].kind \in {space[s].kind, "gone"}

\* No space becomes a room or gets a verdict, and a room loses no tab and no verdict.
RoomsUntouched ==
    \A s \in SpaceIds :
        /\ space'[s].verdict => space[s].verdict
        /\ space'[s].kind = "room" =>
              /\ space[s].kind = "room" /\ space'[s].verdict = space[s].verdict
              /\ space[s].tabs \subseteq space'[s].tabs

LEMMA HerdrKept ==
    ASSUME HerdrOK, UNCHANGED herdrVars
    PROVE  HerdrOK' /\ OwnUntouched /\ RoomsUntouched
BY DEF HerdrOK, OwnUntouched, RoomsUntouched, herdrVars

\* A space opens.
LEMMA SpaceOpens ==
    ASSUME HerdrOK, NEW s \in Unhanded, NEW kind \in Kinds \ {"gone"}, restarts' = restarts,
           space' = [space EXCEPT ![s] = Opened(kind)], handed' = handed \cup {s}
    PROVE  /\ HerdrOK'
           /\ \A t \in SpaceIds : space'[t] = IF t = s THEN Opened(kind) ELSE space[t]
           /\ kind # "bermuda" => OwnUntouched
           /\ kind # "room" => RoomsUntouched
<1>1. s \in SpaceIds /\ s \notin handed /\ Opened(kind) \in Space
  BY DEF Unhanded, Opened, Space, Tabs
<1>2. \A t \in SpaceIds : space'[t] = IF t = s THEN Opened(kind) ELSE space[t]
  BY <1>1 DEF HerdrOK
<1>3. Opened(kind).kind = kind /\ Opened(kind).tabs # {} /\ ~Opened(kind).verdict
  BY DEF Opened
<1>4. HerdrOK'
  BY <1>1, <1>2, <1>3 DEF HerdrOK
<1>5. kind # "bermuda" => OwnUntouched
  BY <1>1, <1>2, <1>3 DEF OwnUntouched, HerdrOK
<1>6. kind # "room" => RoomsUntouched
  BY <1>1, <1>2, <1>3 DEF RoomsUntouched
<1>7. QED
  BY <1>2, <1>4, <1>5, <1>6

\* A space changes its tabs or its name, or is closed.
LEMMA SpaceChanges ==
    ASSUME HerdrOK, NEW s \in SpaceIds, NEW x \in Space, UNCHANGED <<handed, restarts>>,
           space' = [space EXCEPT ![s] = x],
           x = Closed \/ (x.kind = space[s].kind /\ x.tabs # {} /\ IsOpen(s))
    PROVE  /\ HerdrOK' /\ OwnUntouched
           /\ \A t \in SpaceIds : space'[t] = IF t = s THEN x ELSE space[t]
<1>1. \A t \in SpaceIds : space'[t] = IF t = s THEN x ELSE space[t]
  BY DEF HerdrOK
<1>2. HerdrOK'
  BY <1>1 DEF HerdrOK, IsOpen, Closed
<1>3. OwnUntouched
  BY <1>1 DEF OwnUntouched, HerdrOK, Closed
<1>4. QED
  BY <1>1, <1>2, <1>3

\* What other people, and herdr itself, do.
LEMMA HandStep ==
    ASSUME HerdrOK, NEW s \in SpaceIds, OpenByHand(s) \/ CloseByHand(s)
    PROVE  HerdrOK' /\ OwnUntouched /\ RoomsUntouched
<1>1. CASE OpenByHand(s)
  <2>1. "other" \in Kinds \ {"gone"}
    BY DEF Kinds
  <2>2. QED
    BY <1>1, <2>1, SpaceOpens DEF OpenByHand
<1>2. CASE CloseByHand(s)
  <2>1. Closed \in Space /\ Closed.kind # "room" /\ ~Closed.verdict
    BY DEF Closed, Space, Kinds
  <2>2. HerdrOK' /\ OwnUntouched /\ \A t \in SpaceIds : space'[t] = IF t = s THEN Closed ELSE space[t]
    BY <1>2, <2>1, SpaceChanges DEF CloseByHand
  <2>3. QED
    BY <2>1, <2>2 DEF RoomsUntouched
<1>3. QED
  BY <1>1, <1>2

LEMMA RestartStep ==
    ASSUME HerdrOK, HerdrRestarts
    PROVE  /\ HerdrOK' /\ RoomsUntouched
           /\ \A s \in SpaceIds : space'[s] = Closed
<1>1. \A s \in SpaceIds : space'[s] = Closed
  BY DEF HerdrRestarts
<1>2. restarts' \in 0..MaxRestarts
  BY SpacesAssumption DEF HerdrRestarts, HerdrOK
<1>3. QED
  BY <1>1, <1>2 DEF HerdrRestarts, HerdrOK, RoomsUntouched, Closed, Space, Kinds

\* A tab more.
LEMMA TabOpens ==
    ASSUME HerdrOK, NEW s, IsOpen(s), NEW t \in Tabs, UNCHANGED <<handed, restarts>>,
           space' = [space EXCEPT ![s].tabs = @ \cup {t}]
    PROVE  /\ HerdrOK' /\ OwnUntouched /\ RoomsUntouched
           /\ space'[s] = [space[s] EXCEPT !.tabs = @ \cup {t}]
<1> DEFINE x == [space[s] EXCEPT !.tabs = @ \cup {t}]
<1>1. s \in SpaceIds /\ space[s] \in Space
  BY DEF IsOpen, HerdrOK
<1>2. /\ x \in Space /\ x.kind = space[s].kind /\ x.tabs = space[s].tabs \cup {t}
      /\ x.verdict = space[s].verdict
  BY <1>1 DEF Space
<1>3. space' = [space EXCEPT ![s] = x]
  BY <1>1
<1> HIDE DEF x
<1>4. HerdrOK' /\ OwnUntouched /\ \A u \in SpaceIds : space'[u] = IF u = s THEN x ELSE space[u]
  BY <1>1, <1>2, <1>3, SpaceChanges
<1>5. RoomsUntouched
  BY <1>2, <1>4 DEF RoomsUntouched
<1>6. space'[s] = x
  BY <1>1, <1>4
<1>7. QED
  BY <1>4, <1>5, <1>6 DEF x

LEMMA UseStep ==
    ASSUME HerdrOK, NEW m \in Makers, UseOwn(m)
    PROVE  HerdrOK' /\ OwnUntouched /\ RoomsUntouched
<1>1. CASE IsOpen(maker[m].got)
  BY <1>1, TabOpens DEF UseOwn, Tabs
<1>2. CASE ~IsOpen(maker[m].got)
  BY <1>2, HerdrKept DEF UseOwn, herdrVars
<1>3. QED
  BY <1>1, <1>2

\* What the flow run does to its room.
LEMMA RoomHerdr ==
    ASSUME HerdrOK, RoomOK, RoomStep
    PROVE  HerdrOK' /\ OwnUntouched
<1>1. CASE OpenRoomAgain
  <2>1. /\ UNCHANGED <<handed, restarts>> /\ IsOpen(room.rowSpace)
        /\ \E renamed \in {TRUE, FALSE} : space' = [space EXCEPT ![room.rowSpace].verdict = @ /\ ~renamed]
    BY <1>1 DEF OpenRoomAgain, RoomKeeps
  <2> PICK renamed \in {TRUE, FALSE} : space' = [space EXCEPT ![room.rowSpace].verdict = @ /\ ~renamed]
    BY <2>1
  <2> DEFINE s == room.rowSpace
             x == [space[s] EXCEPT !.verdict = @ /\ ~renamed]
  <2>2. s \in SpaceIds /\ space[s] \in Space /\ space[s].tabs # {} /\ IsOpen(s)
    BY <2>1 DEF IsOpen, HerdrOK
  <2>3. x \in Space /\ x.kind = space[s].kind /\ x.tabs = space[s].tabs
    BY <2>2 DEF Space
  <2>4. space' = [space EXCEPT ![s] = x]
    BY <2>1, <2>2
  <2> HIDE DEF x, s
  <2>5. QED
    BY <2>1, <2>2, <2>3, <2>4, SpaceChanges
<1>2. CASE OpenRoom
  <2>1. "room" \in Kinds \ {"gone"} /\ "room" # "bermuda"
    BY DEF Kinds
  <2>2. CASE \E s \in Unhanded : space' = [space EXCEPT ![s] = Opened("room")] /\ handed' = handed \cup {s}
    BY <1>2, <2>1, <2>2, SpaceOpens DEF OpenRoom, RoomKeeps
  <2>3. CASE UNCHANGED <<space, handed>>
    BY <1>2, <2>3, HerdrKept DEF OpenRoom, RoomKeeps, herdrVars
  <2>4. QED
    BY <1>2, <2>2, <2>3 DEF OpenRoom
<1>3. CASE StepOpensTab
  BY <1>3, TabOpens DEF StepOpensTab, RoomKeeps, Tabs
<1>4. CASE CloseRoom
  <2>1. CASE IsOpen(room.space)
    <3>1. room.space \in SpaceIds /\ Closed \in Space
      BY <2>1 DEF IsOpen, Closed, Space, Kinds
    <3>2. QED
      BY <1>4, <2>1, <3>1, SpaceChanges DEF CloseRoom, RoomKeeps
  <2>2. CASE ~IsOpen(room.space)
    BY <1>4, <2>2, HerdrKept DEF CloseRoom, RoomKeeps, herdrVars
  <2>3. QED
    BY <2>1, <2>2
<1>5. CASE ParkNames
  <2>1. CASE IsOpen(room.space) /\ space' = [space EXCEPT ![room.space].verdict = TRUE]
    <3> DEFINE s == room.space
               x == [space[s] EXCEPT !.verdict = TRUE]
    <3>1. s \in SpaceIds /\ space[s] \in Space /\ space[s].tabs # {} /\ IsOpen(s)
      BY <2>1 DEF IsOpen, HerdrOK
    <3>2. x \in Space /\ x.kind = space[s].kind /\ x.tabs = space[s].tabs
      BY <3>1 DEF Space
    <3>3. space' = [space EXCEPT ![s] = x] /\ UNCHANGED <<handed, restarts>>
      BY <1>5, <2>1, <3>1 DEF ParkNames, RoomKeeps
    <3> HIDE DEF x, s
    <3>4. QED
      BY <3>1, <3>2, <3>3, SpaceChanges
  <2>2. CASE UNCHANGED space
    BY <1>5, <2>2, HerdrKept DEF ParkNames, RoomKeeps, herdrVars
  <2>3. QED
    BY <1>5, <2>1, <2>2 DEF ParkNames
<1>6. CASE ParkShows
  <2>1. CASE IsOpen(room.space) /\ space' = [space EXCEPT ![room.space].tabs = @ \cup {"run"}]
    BY <1>6, <2>1, TabOpens DEF ParkShows, RoomKeeps, Tabs
  <2>2. CASE UNCHANGED space
    BY <1>6, <2>2, HerdrKept DEF ParkShows, RoomKeeps, herdrVars
  <2>3. QED
    BY <1>6, <2>1, <2>2 DEF ParkShows
<1>7. CASE ParkReaps
  <2>1. CASE /\ IsOpen(room.space) /\ space[room.space].tabs \ {"root"} # {}
             /\ space' = [space EXCEPT ![room.space].tabs = @ \ {"root"}]
    <3> DEFINE s == room.space
               x == [space[s] EXCEPT !.tabs = @ \ {"root"}]
    <3>1. s \in SpaceIds /\ space[s] \in Space /\ IsOpen(s)
      BY <2>1 DEF IsOpen, HerdrOK
    <3>2. x \in Space /\ x.kind = space[s].kind /\ x.tabs # {}
      BY <2>1, <3>1 DEF Space
    <3>3. space' = [space EXCEPT ![s] = x] /\ UNCHANGED <<handed, restarts>>
      BY <1>7, <2>1, <3>1 DEF ParkReaps, RoomKeeps
    <3> HIDE DEF x, s
    <3>4. QED
      BY <3>1, <3>2, <3>3, SpaceChanges
  <2>2. CASE UNCHANGED space
    BY <1>7, <2>2, HerdrKept DEF ParkReaps, RoomKeeps, herdrVars
  <2>3. QED
    BY <1>7, <2>1, <2>2 DEF ParkReaps
<1>8. CASE RoomAsks \/ RoomInserts \/ RoomRecorded \/ RunOver \/ FlowDies
  BY <1>8, HerdrKept DEF RoomAsks, RoomInserts, RoomRecorded, RunOver, FlowDies, RoomKeeps, herdrVars
<1>9. QED
  BY <1>1, <1>2, <1>3, <1>4, <1>5, <1>6, <1>7, <1>8 DEF RoomStep

-----------------------------------------------------------------------------
(***************************************************************************)
(* Every step keeps the types.                                             *)
(***************************************************************************)

\* A thread that somebody asks for, finds, or makes.
Inserts(x) ==
    \/ /\ UNCHANGED threads
       /\ \/ asking' = [asking EXCEPT ![x] = Resting]
          \/ asking' = [asking EXCEPT ![x].bare = FALSE]
    \/ /\ Len(threads) < MaxThreads
       /\ asking' = [asking EXCEPT ![x] = Resting]
       /\ threads' = Append(threads, [of |-> asking[x].of, label |-> asking[x].label,
                                      bare |-> asking[x].bare, open |-> TRUE, lease |-> "none"])

LEMMA ThreadsKept == ASSUME ThreadsOK, UNCHANGED <<threads, asking>> PROVE ThreadsOK'
BY DEF ThreadsOK

LEMMA ThreadAsked ==
    ASSUME ThreadsOK, NEW x \in Askers \cup {"sweep", "flow"}, NEW s \in Ids, NEW label \in Label,
           UNCHANGED threads,
           \/ UNCHANGED asking
           \/ asking' = [asking EXCEPT ![x] = [at |-> "missed", of |-> s, label |-> label, bare |-> FALSE]]
    PROVE  ThreadsOK'
<1>1. [at |-> "missed", of |-> s, label |-> label, bare |-> FALSE] \in Asked
  BY DEF Asked
<1>2. QED
  BY <1>1 DEF ThreadsOK

LEMMA ThreadInserted ==
    ASSUME ThreadsOK, NEW x \in Askers \cup {"sweep", "flow"}, Inserts(x)
    PROVE  ThreadsOK' /\ Len(threads) <= Len(threads')
<1>1. asking[x] \in Asked /\ Len(threads) \in Nat /\ MaxThreads \in Nat
  BY SpacesAssumption DEF ThreadsOK
<1>2. [asking[x] EXCEPT !.bare = FALSE] \in Asked
  BY <1>1 DEF Asked
<1>3. asking' \in [Askers \cup {"sweep", "flow"} -> Asked]
  BY <1>1, <1>2, RestingType DEF Inserts, ThreadsOK
<1> DEFINE t == [of |-> asking[x].of, label |-> asking[x].label,
                 bare |-> asking[x].bare, open |-> TRUE, lease |-> "none"]
<1>4. t \in Thread
  BY <1>1 DEF Asked, Thread
<1> HIDE DEF t
<1>5. CASE UNCHANGED threads
  BY <1>1, <1>3, <1>5 DEF ThreadsOK
<1>6. CASE Len(threads) < MaxThreads /\ threads' = Append(threads, t)
  <2>1. threads' \in Seq(Thread) /\ Len(threads') = Len(threads) + 1
    BY <1>4, <1>6 DEF ThreadsOK
  <2>2. Len(threads') <= MaxThreads /\ Len(threads) <= Len(threads')
    BY <1>1, <1>6, <2>1
  <2>3. QED
    BY <1>3, <2>1, <2>2 DEF ThreadsOK
<1>7. QED
  BY <1>5, <1>6 DEF Inserts, t

\* A thread whose lease or state changes.
LEMMA ThreadChanges ==
    ASSUME ThreadsOK, UNCHANGED asking, NEW t \in DOMAIN threads,
           \/ threads' = [threads EXCEPT ![t].open = FALSE]
           \/ \E l \in {"held", "over"} : threads' = [threads EXCEPT ![t].lease = l]
           \/ UNCHANGED threads
    PROVE  ThreadsOK' /\ Len(threads') = Len(threads)
<1>1. threads[t] \in Thread /\ threads \in Seq(Thread) /\ t \in 1..Len(threads)
  BY DEF ThreadsOK
<1>2. ASSUME NEW x \in Thread, threads' = [threads EXCEPT ![t] = x]
      PROVE  threads' \in Seq(Thread) /\ Len(threads') = Len(threads)
  BY <1>1, <1>2
<1>3. [threads[t] EXCEPT !.open = FALSE] \in Thread
  BY <1>1 DEF Thread
<1>4. \A l \in {"held", "over"} : [threads[t] EXCEPT !.lease = l] \in Thread
  BY <1>1 DEF Thread
<1>5. threads' \in Seq(Thread) /\ Len(threads') = Len(threads)
  BY <1>1, <1>2, <1>3, <1>4
<1>6. QED
  BY <1>5 DEF ThreadsOK

\* The room, when its row and its threads are left alone.
LEMMA RoomTypeKept ==
    ASSUME ThreadsOK, ThreadsOK', RoomOK, UNCHANGED room, Len(threads) <= Len(threads')
    PROVE  RoomOK'
<1>1. Len(threads) \in Nat /\ Len(threads') \in Nat /\ room.rowThread \in Nat /\ room.thread \in Nat
  BY DEF ThreadsOK, RoomOK, Room
<1>2. room.rowThread <= Len(threads') /\ room.thread <= Len(threads')
  BY <1>1 DEF RoomOK
<1>3. QED
  BY <1>2 DEF RoomOK

\* Whoever makes bermuda's own space.
LEMMA MakerTypes ==
    ASSUME HerdrOK, MakersOK, NEW m \in Makers, MakerStep(m)
    PROVE  /\ HerdrOK' /\ MakersOK' /\ RoomsUntouched /\ UNCHANGED <<threads, asking, sweep, room>>
           /\ ~CreateOwn(m) => OwnUntouched
<1>0. ASSUME NEW at \in {"idle", "waiting", "locked", "creating", "created", "got"}, NEW got \in Ids
      PROVE  [at |-> at, got |-> got, fresh |-> TRUE] \in Maker
  BY <1>0 DEF Maker
<1>1. maker[m] \in Maker /\ maker[m].got \in Ids /\ NoSpace \in Ids /\ record \in Ids
  BY DEF MakersOK, Maker, Ids
<1>2. lost < MaxLost => lost + 1 \in 0..MaxLost
  BY SpacesAssumption DEF MakersOK
<1>3. guard \ {m} \subseteq Makers
  BY DEF MakersOK
<1>4. CASE LookForOwn(m)
  BY <1>0, <1>1, <1>4, HerdrKept DEF LookForOwn, Goes, MakersOK
<1>5. CASE LockOwn(m)
  BY <1>0, <1>1, <1>5, HerdrKept DEF LockOwn, Goes, MakersOK
<1>6. CASE LockTimesOut(m)
  BY <1>0, <1>1, <1>6, HerdrKept DEF LockTimesOut, Goes, MakersOK
<1>7. CASE LookAgain(m)
  BY <1>0, <1>1, <1>2, <1>3, <1>7, HerdrKept DEF LookAgain, Goes, MakersOK
<1>8. CASE CreateOwn(m)
  <2>1. ASSUME NEW s \in Unhanded, space' = [space EXCEPT ![s] = Opened("bermuda")], handed' = handed \cup {s},
               maker' = [maker EXCEPT ![m].at = "created", ![m].got = s, ![m].fresh = TRUE], UNCHANGED guard
        PROVE  HerdrOK' /\ MakersOK' /\ RoomsUntouched
    <3>1. "bermuda" \in Kinds \ {"gone"}
      BY DEF Kinds
    <3>2. HerdrOK' /\ RoomsUntouched
      BY <1>8, <2>1, <3>1, SpaceOpens DEF CreateOwn
    <3>3. s \in Ids /\ [at |-> "created", got |-> s, fresh |-> TRUE] \in Maker
      BY <1>0 DEF Unhanded, Ids
    <3>4. maker' \in [Makers -> Maker]
      BY <2>1, <3>3 DEF MakersOK, Maker
    <3>5. QED
      BY <1>8, <2>1, <3>2, <3>4 DEF CreateOwn, MakersOK
  <2>2. CASE Goes(m, "idle", NoSpace) /\ guard' = guard \ {m} /\ UNCHANGED <<space, handed>>
    BY <1>0, <1>1, <1>3, <1>8, <2>2, HerdrKept DEF CreateOwn, Goes, MakersOK, herdrVars
  <2>3. QED
    BY <1>8, <2>1, <2>2 DEF CreateOwn
<1>9. CASE RecordOwn(m)
  <2>1. [maker[m] EXCEPT !.at = "got"] \in Maker
    BY <1>1 DEF Maker
  <2>2. QED
    BY <1>1, <1>2, <1>3, <1>9, <2>1, HerdrKept DEF RecordOwn, MakersOK
<1>10. CASE UseOwn(m)
  BY <1>0, <1>1, <1>10, UseStep DEF UseOwn, Goes, MakersOK
<1>11. CASE MakerDies(m)
  BY <1>0, <1>1, <1>2, <1>3, <1>11, HerdrKept DEF MakerDies, Goes, MakersOK
<1>12. QED
  BY <1>4, <1>5, <1>6, <1>7, <1>8, <1>9, <1>10, <1>11 DEF MakerStep

\* What the two ways to end an asking have in common.
LEMMA AnyInsert == ASSUME NEW x, AskInsert(x, LAMBDA t : TRUE) PROVE Inserts(x)
BY DEF AskInsert, Inserts

LEMMA RoomInsert ==
    ASSUME AskInsert("flow", RoomHas)
    PROVE  Inserts("flow") /\ \E t \in {0} \cup DOMAIN threads \cup {Len(threads')} : RoomHas(t)
<1>1. CASE asking["flow"].bare /\ Taken(asking["flow"].label)
  <2>1. \A t \in ThreadsOf(asking["flow"].of) : t \in DOMAIN threads
    BY DEF ThreadsOf
  <2>2. QED
    BY <1>1, <2>1 DEF AskInsert, Inserts
<1>2. CASE ~(asking["flow"].bare /\ Taken(asking["flow"].label))
  BY <1>2 DEF AskInsert, Inserts
<1>3. QED
  BY <1>1, <1>2

\* The agents of a space, and their leases.
LEMMA AskerTypes ==
    ASSUME TypesInv, NEW x \in Askers \cup {"sweep", "flow"},
           AskName(x) \/ AskFails(x) \/ AgentInserts(x) \/ \E s \in SpaceIds : AskerAsks(x, s)
    PROVE  ThreadsOK' /\ RoomOK' /\ UNCHANGED <<herdrVars, makerVars, sweep>>
<1> USE DEF TypesInv
<1>1. asking[x] \in Asked
  BY DEF ThreadsOK
<1>2. CASE AskName(x)
  <2>1. \A b \in BOOLEAN : [asking[x] EXCEPT !.at = "named", !.bare = b] \in Asked
    BY <1>1 DEF Asked
  <2>2. ThreadsOK'
    BY <1>2, <2>1 DEF AskName, ThreadsOK
  <2>3. QED
    BY <1>2, <2>2 DEF AskName, RoomOK
<1>3. CASE AskFails(x)
  <2>1. ThreadsOK' /\ UNCHANGED threads
    BY <1>3, RestingType DEF AskFails, ThreadsOK
  <2>2. room' = room \/ room' = [room EXCEPT !.thread = 0, !.at = "put"]
    BY <1>3 DEF AskFails
  <2>0. room \in Room /\ Len(threads) \in Nat /\ 0 <= Len(threads)
    BY DEF RoomOK, ThreadsOK
  <2>7. room' \in Room /\ room'.rowThread = room.rowThread /\ room'.thread \in {room.thread, 0}
    <3>1. CASE room' = room
      BY <2>0, <3>1
    <3>2. CASE room' = [room EXCEPT !.thread = 0, !.at = "put"]
      BY <2>0, <3>2 DEF Room
    <3>3. QED
      BY <2>2, <3>1, <3>2
  <2>3. room' \in Room /\ room'.rowThread <= Len(threads) /\ room'.thread <= Len(threads)
    BY <2>0, <2>7 DEF RoomOK
  <2>4. room'.at = "asking" => room'.space \in SpaceIds
    BY <2>2 DEF RoomOK, Room
  <2>5. RoomOK'
    BY <2>1, <2>3, <2>4 DEF RoomOK
  <2>6. QED
    BY <1>3, <2>1, <2>5 DEF AskFails
<1>4. CASE AgentInserts(x)
  <2>1. Inserts(x)
    BY <1>4, AnyInsert DEF AgentInserts
  <2>2. QED
    BY <1>4, <2>1, ThreadInserted, RoomTypeKept DEF AgentInserts
<1>5. ASSUME NEW s \in SpaceIds, AskerAsks(x, s) PROVE ThreadsOK' /\ RoomOK' /\ UNCHANGED <<herdrVars, makerVars, sweep>>
  <2>1. LabelOf(s) \in Label /\ s \in Ids
    BY LabelType DEF Ids
  <2>2. /\ UNCHANGED threads
        /\ \/ UNCHANGED asking
           \/ asking' = [asking EXCEPT ![x] = [at |-> "missed", of |-> s, label |-> LabelOf(s), bare |-> FALSE]]
    BY <1>5 DEF AskerAsks, AskLook
  <2>3. ThreadsOK'
    BY <2>1, <2>2, ThreadAsked
  <2>4. QED
    BY <1>5, <2>2, <2>3 DEF AskerAsks, RoomOK
<1>6. QED
  BY <1>2, <1>3, <1>4, <1>5

LEMMA LeaseTypes ==
    ASSUME TypesInv, NEW t \in DOMAIN threads, AgentTakesLease(t) \/ LeaseEnds(t)
    PROVE  ThreadsOK' /\ RoomOK' /\ UNCHANGED <<herdrVars, makerVars, sweep>>
<1>1. /\ UNCHANGED <<asking, room>> /\ UNCHANGED <<herdrVars, makerVars, sweep>>
      /\ \E l \in {"held", "over"} : threads' = [threads EXCEPT ![t].lease = l]
  BY DEF AgentTakesLease, LeaseEnds
<1>2. ThreadsOK' /\ Len(threads') = Len(threads)
  BY <1>1, ThreadChanges DEF TypesInv
<1>3. Len(threads) \in Nat
  BY DEF TypesInv, ThreadsOK
<1>4. QED
  BY <1>1, <1>2, <1>3, RoomTypeKept DEF TypesInv

\* CloseThread.
LEMMA CloseTypes ==
    ASSUME ThreadsOK, UNCHANGED asking, NEW t \in Nat, threads' = CloseThreadOf(t)
    PROVE  ThreadsOK' /\ Len(threads') = Len(threads)
<1>1. CASE t \in DOMAIN threads /\ threads[t].lease # "held"
  BY <1>1, ThreadChanges DEF CloseThreadOf
<1>2. CASE ~(t \in DOMAIN threads /\ threads[t].lease # "held")
  BY <1>2, ThreadsKept DEF CloseThreadOf
<1>3. QED
  BY <1>1, <1>2

\* The daemon's sweep.
LEMMA SweepTypes ==
    ASSUME TypesInv, SweepStep
    PROVE  ThreadsOK' /\ SweepOK' /\ RoomOK' /\ UNCHANGED <<herdrVars, makerVars>>
<1> USE DEF TypesInv
<1>0. Len(threads) \in Nat /\ "sweep" \in Askers \cup {"sweep", "flow"} /\ sweep \in Sweep
  BY DEF ThreadsOK, SweepOK
<1>1. CASE SweepLists
  <2>1. Listed \subseteq SpaceIds
    BY DEF Listed
  <2>2. SweepOK'
    BY <1>1, <2>1 DEF SweepLists, SweepOK, Sweep
  <2>3. QED
    BY <1>1, <2>2, ThreadsKept, RoomTypeKept, <1>0 DEF SweepLists, RoomOK
<1>2. CASE SweepInserts
  <2>1. Inserts("sweep")
    BY <1>2, AnyInsert DEF SweepInserts
  <2>2. ThreadsOK' /\ Len(threads) <= Len(threads')
    BY <1>0, <2>1, ThreadInserted
  <2>3. QED
    BY <1>2, <2>2, RoomTypeKept DEF SweepInserts, SweepOK
<1>3. CASE SweepReads
  <2>1. \A t \in DOMAIN threads : t \in Nat
    BY DEF ThreadsOK
  <2>2. SweepOK'
    BY <1>0, <1>3, <2>1 DEF SweepReads, SweepOK, Sweep
  <2>3. QED
    BY <1>3, <2>2, ThreadsKept DEF SweepReads, RoomOK
<1>4. CASE SweepEnds
  <2>1. SweepOK'
    BY <1>4 DEF SweepEnds, SweepOK, NoSweep, Sweep
  <2>2. ThreadsOK'
    BY <1>4, <1>0, RestingType DEF SweepEnds, ThreadsOK
  <2>3. QED
    BY <1>4, <2>1, <2>2 DEF SweepEnds, RoomOK
<1>5. ASSUME NEW s \in SpaceIds, SweepOpens(s) PROVE ThreadsOK' /\ SweepOK' /\ RoomOK' /\ UNCHANGED <<herdrVars, makerVars>>
  <2>1. LabelOf(s) \in Label /\ s \in Ids
    BY LabelType DEF Ids
  <2>2. /\ UNCHANGED threads
        /\ \/ UNCHANGED asking
           \/ asking' = [asking EXCEPT !["sweep"] = [at |-> "missed", of |-> s, label |-> LabelOf(s), bare |-> FALSE]]
    BY <1>5 DEF SweepOpens, AskLook
  <2>3. ThreadsOK'
    BY <1>0, <2>1, <2>2, ThreadAsked
  <2>4. SweepOK'
    BY <1>0, <1>5 DEF SweepOpens, SweepOK, Sweep
  <2>5. QED
    BY <1>5, <2>2, <2>3, <2>4 DEF SweepOpens, RoomOK
<1>6. ASSUME NEW t \in DOMAIN threads, SweepCloses(t) PROVE ThreadsOK' /\ SweepOK' /\ RoomOK' /\ UNCHANGED <<herdrVars, makerVars>>
  <2>1. t \in Nat
    BY DEF ThreadsOK
  <2>2. ThreadsOK' /\ Len(threads') = Len(threads)
    BY <1>6, <2>1, CloseTypes DEF SweepCloses
  <2>3. SweepOK'
    BY <1>0, <1>6 DEF SweepCloses, SweepOK, Sweep
  <2>4. QED
    BY <1>0, <1>6, <2>2, <2>3, RoomTypeKept DEF SweepCloses
<1>7. QED
  BY <1>1, <1>2, <1>3, <1>4, <1>5, <1>6 DEF SweepStep

\* The flow run's room: its threads are among those there are.
LEMMA RoomTyped ==
    ASSUME ThreadsOK, ThreadsOK', RoomOK, Len(threads) <= Len(threads'), room' \in Room,
           room'.rowThread \in {room.rowThread, room.thread},
           room'.thread \in {room.rowThread, room.thread, 0} \cup DOMAIN threads',
           room'.at = "asking" => room'.space \in SpaceIds
    PROVE  RoomOK'
<1>1. /\ Len(threads) \in Nat /\ Len(threads') \in Nat /\ room.rowThread \in Nat /\ room.thread \in Nat
      /\ room'.rowThread \in Nat /\ room'.thread \in Nat
  BY DEF ThreadsOK, RoomOK, Room
<1>2. DOMAIN threads' = 1..Len(threads')
  BY DEF ThreadsOK
<1>3. room.rowThread <= Len(threads') /\ room.thread <= Len(threads') /\ 0 <= Len(threads')
  BY <1>1 DEF RoomOK
<1>4. room'.rowThread <= Len(threads') /\ room'.thread <= Len(threads')
  BY <1>1, <1>2, <1>3
<1>5. QED
  BY <1>4 DEF RoomOK

LEMMA RoomTypes ==
    ASSUME TypesInv, RoomStep
    PROVE  ThreadsOK' /\ RoomOK' /\ UNCHANGED <<restarts, makerVars, sweep>>
<1> USE DEF TypesInv
<1>0. /\ room \in Room /\ Len(threads) \in Nat /\ Len(threads) <= Len(threads)
      /\ "flow" \in Askers \cup {"sweep", "flow"} /\ NoSpace \in Ids /\ SpaceIds \subseteq Ids
  BY DEF RoomOK, ThreadsOK, Ids
<1>1. UNCHANGED <<restarts, makerVars, sweep>>
  BY DEF RoomStep, RoomKeeps, OpenRoomAgain, OpenRoom, RoomAsks, RoomInserts, RoomRecorded, StepOpensTab,
         RunOver, CloseRoom, ParkNames, ParkShows, ParkReaps, FlowDies
<1>2. CASE OpenRoomAgain
  <2>1. room.rowSpace \in SpaceIds /\ UNCHANGED <<threads, asking>>
    BY <1>2 DEF OpenRoomAgain, IsOpen
  <2>2. \E renamed \in {TRUE, FALSE} :
            room' = [room EXCEPT !.at = IF room.rowThread = 0 THEN "asking" ELSE "put",
                                 !.space = room.rowSpace, !.thread = room.rowThread, !.root = FALSE,
                                 !.rough = ~renamed]
    BY <1>2 DEF OpenRoomAgain
  <2>3. /\ room' \in Room /\ room'.rowThread = room.rowThread /\ room'.thread = room.rowThread
        /\ room'.space \in SpaceIds
    BY <1>0, <2>1, <2>2 DEF Room
  <2>4. QED
    BY <1>0, <1>1, <2>1, <2>3, ThreadsKept, RoomTyped
<1>3. CASE OpenRoom
  <2>1. UNCHANGED <<threads, asking>>
    BY <1>3 DEF OpenRoom
  <2>2. CASE \E s \in Unhanded : room' = [room EXCEPT !.at = "asking", !.space = s, !.thread = 0, !.root = TRUE, !.rough = FALSE]
    <3>0. PICK s \in Unhanded : room' = [room EXCEPT !.at = "asking", !.space = s, !.thread = 0, !.root = TRUE, !.rough = FALSE]
      BY <2>2
    <3>3. s \in SpaceIds /\ s \in Ids /\ 0 \in Nat
      BY DEF Unhanded, Ids
    <3>1. /\ room' \in Room /\ room'.rowThread = room.rowThread /\ room'.thread = 0
          /\ room'.space \in SpaceIds
      BY <1>0, <3>0, <3>3 DEF Room
    <3>2. QED
      BY <1>0, <1>1, <2>1, <3>1, ThreadsKept, RoomTyped
  <2>3. CASE room' = [room EXCEPT !.at = "put", !.space = NoSpace, !.thread = 0, !.root = FALSE, !.rough = FALSE]
    <3>1. /\ room' \in Room /\ room'.rowThread = room.rowThread /\ room'.thread = 0
          /\ room'.at = "put"
      BY <1>0, <2>3 DEF Room
    <3>2. QED
      BY <1>0, <1>1, <2>1, <3>1, ThreadsKept, RoomTyped
  <2>4. QED
    BY <1>3, <2>2, <2>3 DEF OpenRoom
<1>4. ASSUME NEW t, t \in Nat, RoomHas(t)
      PROVE  /\ room' \in Room /\ room'.rowThread = room.rowThread
             /\ room'.thread \in {room.thread, t} /\ room'.space = room.space
             /\ room'.at \in {room.at, "put"}
  BY <1>0, <1>4 DEF RoomHas, Room
<1>5. CASE RoomAsks
  <2>1. room.space \in SpaceIds /\ room.space \in Ids /\ LabelOf(room.space) \in Label
    BY <1>0, <1>5, LabelType DEF RoomAsks, RoomOK
  <2>2. /\ UNCHANGED threads
        /\ \/ UNCHANGED asking
           \/ asking' = [asking EXCEPT !["flow"] = [at |-> "missed", of |-> room.space, label |-> LabelOf(room.space), bare |-> FALSE]]
    BY <1>5 DEF RoomAsks, AskLook
  <2>3. ThreadsOK'
    BY <1>0, <2>1, <2>2, ThreadAsked
  <2>4. \E t \in {0} \cup DOMAIN threads : RoomHas(t)
    BY <1>5 DEF RoomAsks, AskLook, ThreadsOf
  <2>5. PICK t \in {0} \cup DOMAIN threads : RoomHas(t)
    BY <2>4
  <2>6. t \in Nat
    BY DEF ThreadsOK
  <2>7. /\ room' \in Room /\ room'.rowThread = room.rowThread /\ room'.thread \in {room.thread, t}
        /\ room'.space \in SpaceIds
    BY <1>4, <2>1, <2>5, <2>6
  <2>8. QED
    BY <1>0, <1>1, <2>2, <2>3, <2>7, RoomTyped
<1>6. CASE RoomInserts
  <2>1. Inserts("flow") /\ \E t \in {0} \cup DOMAIN threads \cup {Len(threads')} : RoomHas(t)
    BY <1>6, RoomInsert DEF RoomInserts
  <2>2. ThreadsOK' /\ Len(threads) <= Len(threads')
    BY <1>0, <2>1, ThreadInserted
  <2>3. PICK t \in {0} \cup DOMAIN threads \cup {Len(threads')} : RoomHas(t)
    BY <2>1
  <2>4. DOMAIN threads = 1..Len(threads) /\ DOMAIN threads' = 1..Len(threads') /\ Len(threads') \in Nat
    BY <2>2 DEF ThreadsOK
  <2>5. t \in Nat /\ (t = 0 \/ t \in 1..Len(threads'))
    <3>1. t = 0 \/ t \in 1..Len(threads) \/ t = Len(threads')
      BY <2>3, <2>4
    <3>2. ASSUME NEW m \in Nat, NEW n \in Nat, m <= n, t = 0 \/ t \in 1..m \/ t = n
          PROVE  t \in Nat /\ (t = 0 \/ t \in 1..n)
      BY <3>2
    <3>3. Len(threads) \in Nat /\ Len(threads') \in Nat /\ Len(threads) <= Len(threads')
      BY <1>0, <2>2, <2>4
    <3>4. QED
      BY <3>1, <3>2, <3>3
  <2>6. /\ room' \in Room /\ room'.rowThread = room.rowThread /\ room'.thread \in {room.thread, t}
        /\ room'.space = room.space
    BY <1>4, <2>3, <2>5
  <2>7. room.space \in SpaceIds
    BY <1>6 DEF RoomInserts, RoomOK
  <2>8. QED
    BY <1>1, <2>2, <2>4, <2>5, <2>6, <2>7, RoomTyped
<1>7. CASE RoomRecorded
  <2>1. /\ room' \in Room /\ room'.rowThread \in {room.rowThread, room.thread} /\ room'.thread = room.thread
        /\ room'.at = "running"
    BY <1>0, <1>7 DEF RoomRecorded, Room
  <2>2. QED
    BY <1>0, <1>1, <1>7, <2>1, ThreadsKept, RoomTyped DEF RoomRecorded
<1>8. CASE StepOpensTab
  BY <1>0, <1>1, <1>8, ThreadsKept, RoomTypeKept DEF StepOpensTab
<1>9. CASE RunOver
  <2>1. PICK outcome \in {"done", "parked"} :
           /\ room' = [room EXCEPT !.outcome = outcome,
                                   !.at = IF room.space = NoSpace THEN "idle"
                                          ELSE IF outcome = "done" THEN "closing" ELSE "renaming"]
           /\ threads' = IF outcome = "done" THEN CloseThreadOf(room.thread) ELSE threads
    BY <1>9 DEF RunOver
  <2>2. /\ room' \in Room /\ room'.rowThread = room.rowThread /\ room'.thread = room.thread
        /\ room'.at # "asking"
    BY <1>0, <2>1 DEF Room
  <2>3. room.thread \in Nat /\ UNCHANGED asking
    BY <1>0, <1>9 DEF Room, RunOver
  <2>4. ThreadsOK' /\ Len(threads') = Len(threads)
    BY <2>1, <2>3, CloseTypes, ThreadsKept
  <2>5. QED
    BY <1>0, <1>1, <2>2, <2>4, RoomTyped
<1>10. CASE CloseRoom \/ ParkNames \/ ParkShows \/ ParkReaps
  <2>1. /\ room' \in Room /\ room'.rowThread = room.rowThread /\ room'.thread = room.thread
        /\ room'.at # "asking"
    BY <1>0, <1>10 DEF CloseRoom, ParkNames, ParkShows, ParkReaps, Room
  <2>2. UNCHANGED <<threads, asking>>
    BY <1>10 DEF CloseRoom, ParkNames, ParkShows, ParkReaps
  <2>3. QED
    BY <1>0, <1>1, <2>1, <2>2, ThreadsKept, RoomTyped
<1>11. CASE FlowDies
  <2>1. /\ room' \in Room /\ room'.rowThread = room.rowThread /\ room'.thread = room.thread
        /\ room'.at # "asking"
    BY <1>0, <1>11 DEF FlowDies, Room
  <2>2. ThreadsOK' /\ UNCHANGED threads
    BY <1>0, <1>11, RestingType DEF FlowDies, ThreadsOK
  <2>3. QED
    BY <1>0, <1>1, <2>1, <2>2, RoomTyped
<1>12. QED
  BY <1>2, <1>3, <1>5, <1>6, <1>7, <1>8, <1>9, <1>10, <1>11 DEF RoomStep

LEMMA RestartTypes ==
    ASSUME TypesInv, HerdrRestarts
    PROVE  TypesInv'
<1>1. HerdrOK' /\ UNCHANGED <<record, guard, lost, threads, asking, sweep, room>>
  BY RestartStep DEF TypesInv, HerdrRestarts
<1>2. \A m \in Makers : [maker[m] EXCEPT !.fresh = FALSE] \in Maker
  BY DEF TypesInv, MakersOK, Maker
<1>3. maker' \in [Makers -> Maker]
  BY <1>2 DEF HerdrRestarts
<1>4. MakersOK'
  BY <1>1, <1>3 DEF TypesInv, MakersOK
<1>5. QED
  BY <1>1, <1>4 DEF TypesInv, ThreadsOK, SweepOK, RoomOK

\* The kinds of steps, for the proofs that go through them.
AskStep(x) == AskName(x) \/ AskFails(x) \/ AgentInserts(x) \/ \E s \in SpaceIds : AskerAsks(x, s)

LEMMA SpaceSteps ==
    ASSUME ThreadsOK, [SpacesNext]_spaceVars
    PROVE  \/ \E s \in SpaceIds : OpenByHand(s) \/ CloseByHand(s)
           \/ HerdrRestarts
           \/ \E m \in Makers : MakerStep(m)
           \/ RoomStep
           \/ SweepStep
           \/ \E x \in Askers \cup {"sweep", "flow"} : AskStep(x)
           \/ \E t \in DOMAIN threads : AgentTakesLease(t) \/ LeaseEnds(t)
           \/ UNCHANGED spaceVars
<1>0. DOMAIN asking = Askers \cup {"sweep", "flow"}
  BY DEF ThreadsOK
<1>1. CASE OwnNext
  BY <1>1 DEF OwnNext, HerdrStep
<1>2. CASE RoomNext
  BY <1>2 DEF RoomNext, HerdrStep, AskStep
<1>3. CASE ThreadsNext
  BY <1>0, <1>3 DEF ThreadsNext, HerdrStep, AskersStep, AskStep
<1>4. QED
  BY <1>1, <1>2, <1>3 DEF SpacesNext

\* What the steps that do not make bermuda's space leave alone.
LEMMA OthersTypes ==
    ASSUME TypesInv, [SpacesNext]_spaceVars, ~HerdrRestarts, \A m \in Makers : ~MakerStep(m)
    PROVE  /\ TypesInv' /\ OwnUntouched /\ UNCHANGED makerVars
           /\ RoomStep \/ (RoomsUntouched /\ (UNCHANGED room \/ \E x \in Askers \cup {"sweep", "flow"} : AskFails(x)))
<1> USE DEF TypesInv
<1>1. ASSUME NEW s \in SpaceIds, OpenByHand(s) \/ CloseByHand(s)
      PROVE  TypesInv' /\ OwnUntouched /\ RoomsUntouched /\ UNCHANGED makerVars /\ UNCHANGED room
  <2>1. HerdrOK' /\ OwnUntouched /\ RoomsUntouched
    BY <1>1, HandStep
  <2>2. UNCHANGED <<makerVars, threads, asking, sweep, room>>
    BY <1>1 DEF OpenByHand, CloseByHand
  <2>3. QED
    BY <2>1, <2>2 DEF MakersOK, ThreadsOK, SweepOK, RoomOK, makerVars
<1>2. CASE RoomStep
  <2>1. HerdrOK' /\ OwnUntouched
    BY <1>2, RoomHerdr
  <2>2. ThreadsOK' /\ RoomOK' /\ UNCHANGED <<restarts, makerVars, sweep>>
    BY <1>2, RoomTypes
  <2>3. QED
    BY <1>2, <2>1, <2>2 DEF MakersOK, SweepOK, makerVars
<1>3. CASE SweepStep
  <2>1. ThreadsOK' /\ SweepOK' /\ RoomOK' /\ UNCHANGED <<herdrVars, makerVars>>
    BY <1>3, SweepTypes
  <2>2. HerdrOK' /\ OwnUntouched /\ RoomsUntouched
    BY <2>1, HerdrKept
  <2>3. UNCHANGED room
    BY <1>3 DEF SweepStep, SweepLists, SweepInserts, SweepReads, SweepEnds, SweepOpens, SweepCloses
  <2>4. QED
    BY <2>1, <2>2, <2>3 DEF MakersOK, makerVars
<1>4. ASSUME NEW x \in Askers \cup {"sweep", "flow"}, AskStep(x)
      PROVE  /\ TypesInv' /\ OwnUntouched /\ RoomsUntouched /\ UNCHANGED makerVars
             /\ UNCHANGED room \/ AskFails(x)
  <2>1. ThreadsOK' /\ RoomOK' /\ UNCHANGED <<herdrVars, makerVars, sweep>>
    BY <1>4, AskerTypes DEF AskStep
  <2>2. HerdrOK' /\ OwnUntouched /\ RoomsUntouched
    BY <2>1, HerdrKept
  <2>3. UNCHANGED room \/ AskFails(x)
    BY <1>4 DEF AskStep, AskName, AgentInserts, AskerAsks
  <2>4. QED
    BY <2>1, <2>2, <2>3 DEF MakersOK, SweepOK, makerVars
<1>5. ASSUME NEW t \in DOMAIN threads, AgentTakesLease(t) \/ LeaseEnds(t)
      PROVE  TypesInv' /\ OwnUntouched /\ RoomsUntouched /\ UNCHANGED makerVars /\ UNCHANGED room
  <2>1. ThreadsOK' /\ RoomOK' /\ UNCHANGED <<herdrVars, makerVars, sweep>>
    BY <1>5, LeaseTypes
  <2>2. HerdrOK' /\ OwnUntouched /\ RoomsUntouched
    BY <2>1, HerdrKept
  <2>3. UNCHANGED room
    BY <1>5 DEF AgentTakesLease, LeaseEnds
  <2>4. QED
    BY <2>1, <2>2, <2>3 DEF MakersOK, SweepOK, makerVars
<1>6. CASE UNCHANGED spaceVars
  <2>1. UNCHANGED herdrVars /\ UNCHANGED <<makerVars, threads, asking, sweep, room>>
    BY <1>6 DEF spaceVars, herdrVars, makerVars
  <2>2. HerdrOK' /\ OwnUntouched /\ RoomsUntouched
    BY <2>1, HerdrKept
  <2>3. QED
    BY <2>1, <2>2 DEF MakersOK, ThreadsOK, SweepOK, RoomOK, makerVars
<1>7. QED
  BY <1>1, <1>2, <1>3, <1>4, <1>5, <1>6, SpaceSteps

LEMMA TypesStep == TypesInv /\ [SpacesNext]_spaceVars => TypesInv'
<1> SUFFICES ASSUME TypesInv, [SpacesNext]_spaceVars PROVE TypesInv'
  OBVIOUS
<1>1. CASE HerdrRestarts
  BY <1>1, RestartTypes
<1>2. ASSUME NEW m \in Makers, MakerStep(m) PROVE TypesInv'
  <2>1. HerdrOK' /\ MakersOK' /\ UNCHANGED <<threads, asking, sweep, room>>
    BY <1>2, MakerTypes DEF TypesInv
  <2>2. QED
    BY <2>1 DEF TypesInv, ThreadsOK, SweepOK, RoomOK
<1>3. QED
  BY <1>1, <1>2, OthersTypes

\* In every run the variables have their types.
THEOREM SpaceTypes == SpacesSpec => []TypesInv
BY TypesInit, TypesStep, PTL DEF SpacesSpec

-----------------------------------------------------------------------------
(***************************************************************************)
(* Bermuda's own space.  The lock is a maker's from the second look to the *)
(* record.  While nobody is between the two, all of bermuda's spaces but   *)
(* the recorded one are ones it lost sight of; a maker about to create has *)
(* seen that the record names none of them, and one that has created has   *)
(* the new one in hand.                                                    *)
(***************************************************************************)
Making == {"creating", "created"}

GuardInv ==
    /\ \A m \in Makers : m \in guard <=> maker[m].at \in {"locked", "creating", "created"}
    /\ \A m, n \in guard : m = n

CountInv ==
    /\ IsFiniteSet(Own)
    /\ \A m \in Makers : maker[m].at = "creating" => Cardinality(Own) <= lost
    /\ \A m \in Makers : maker[m].at = "created" => Cardinality(Own \ {maker[m].got}) <= lost
    /\ (\A m \in Makers : maker[m].at \notin Making) => Cardinality(Own \ {record}) <= lost

\* What a maker got was bermuda's, and its id stays out until herdr starts again.
GotInv == \A m \in Makers :
    (maker[m].at \in {"created", "got"} /\ maker[m].fresh) =>
        maker[m].got \in handed /\ space[maker[m].got].kind \in {"bermuda", "gone"}

OwnInv == GuardInv /\ CountInv /\ GotInv

\* Counting.
LEMMA FewerAre ==
    ASSUME NEW B, IsFiniteSet(B), NEW A, A \subseteq B
    PROVE  /\ IsFiniteSet(A) /\ Cardinality(A) \in Nat /\ Cardinality(B) \in Nat
           /\ Cardinality(A) <= Cardinality(B)
BY FS_Subset, FS_CardinalityType

LEMMA OneMore ==
    ASSUME NEW B, IsFiniteSet(B), NEW x
    PROVE  /\ Cardinality(B) \in Nat /\ Cardinality(B \ {x}) \in Nat
           /\ Cardinality(B) <= Cardinality(B \ {x}) + 1
<1>1. IsFiniteSet(B \ {x}) /\ Cardinality(B) \in Nat /\ Cardinality(B \ {x}) \in Nat
  BY FewerAre
<1>2. CASE x \in B
  <2>1. Cardinality(B \ {x}) = Cardinality(B) - 1
    BY <1>2, FS_RemoveElement
  <2>2. QED
    BY <1>1, <2>1
<1>3. CASE x \notin B
  <2>1. B \ {x} = B
    BY <1>3
  <2>2. QED
    BY <1>1, <2>1
<1>4. QED
  BY <1>2, <1>3

LEMMA SmallerCount ==
    ASSUME NEW B, IsFiniteSet(B), NEW A, A \subseteq B, NEW n \in Nat, Cardinality(B) <= n
    PROVE  IsFiniteSet(A) /\ Cardinality(A) <= n
BY FewerAre

LEMMA OwnShrinks == ASSUME OwnUntouched PROVE Own' \subseteq Own
BY DEF OwnUntouched, Own

LEMMA GotKept ==
    ASSUME GotInv, OwnUntouched, HerdrOK, NEW m \in Makers, maker'[m] = maker[m],
           maker[m].at \in {"created", "got"}, maker[m].fresh
    PROVE  maker'[m].got \in handed' /\ space'[maker'[m].got].kind \in {"bermuda", "gone"}
BY DEF GotInv, OwnUntouched, HerdrOK

\* A step that leaves the makers alone.
LEMMA OwnKept ==
    ASSUME OwnInv, HerdrOK, MakersOK, OwnUntouched, UNCHANGED makerVars
    PROVE  OwnInv'
<1>1. UNCHANGED <<record, guard, maker, lost>> /\ lost \in Nat
  BY DEF makerVars, MakersOK
<1>2. GuardInv'
  BY <1>1 DEF OwnInv, GuardInv
<1>3. GotInv'
  BY <1>1, GotKept DEF OwnInv, GotInv
<1>4. Own' \subseteq Own /\ IsFiniteSet(Own)
  BY OwnShrinks DEF OwnInv, CountInv
<1>5. \A x : Own' \ {x} \subseteq Own \ {x} /\ IsFiniteSet(Own \ {x})
  BY <1>4, FS_Subset
<1>6. CountInv'
  <2>1. IsFiniteSet(Own')
    BY <1>4, FS_Subset
  <2>2. \A m \in Makers : maker[m].at = "creating" => Cardinality(Own') <= lost
    BY <1>1, <1>4, SmallerCount DEF OwnInv, CountInv
  <2>3. \A m \in Makers : maker[m].at = "created" => Cardinality(Own' \ {maker[m].got}) <= lost
    <3>1. ASSUME NEW m \in Makers, maker[m].at = "created" PROVE Cardinality(Own' \ {maker[m].got}) <= lost
      <4>1. Cardinality(Own \ {maker[m].got}) <= lost
        BY <3>1 DEF OwnInv, CountInv
      <4>2. QED
        BY <1>1, <1>5, <4>1, SmallerCount
    <3>2. QED
      BY <3>1
  <2>4. (\A m \in Makers : maker[m].at \notin Making) => Cardinality(Own' \ {record}) <= lost
    BY <1>1, <1>5, SmallerCount DEF OwnInv, CountInv
  <2>5. QED
    BY <1>1, <2>1, <2>2, <2>3, <2>4 DEF CountInv
<1>7. QED
  BY <1>2, <1>3, <1>6 DEF OwnInv

\* A maker goes a step that is neither into the making nor out of it.
LEMMA CountKept ==
    ASSUME CountInv, HerdrOK, MakersOK, OwnUntouched, UNCHANGED <<record, lost>>,
           NEW m \in Makers, maker[m].at \notin Making, maker'[m].at \notin Making,
           \A n \in Makers : n # m => maker'[n] = maker[n]
    PROVE  CountInv'
<1>1. lost \in Nat /\ Own' \subseteq Own /\ IsFiniteSet(Own)
  BY OwnShrinks DEF MakersOK, CountInv
<1>2. \A x : Own' \ {x} \subseteq Own \ {x} /\ IsFiniteSet(Own \ {x})
  BY <1>1, FS_Subset
<1>3. IsFiniteSet(Own')
  BY <1>1, FS_Subset
<1>4. ASSUME NEW n \in Makers, maker'[n].at = "creating" PROVE Cardinality(Own') <= lost
  <2>1. maker[n].at = "creating"
    BY <1>4 DEF Making
  <2>2. QED
    BY <1>1, <2>1, SmallerCount DEF CountInv
<1>5. ASSUME NEW n \in Makers, maker'[n].at = "created" PROVE Cardinality(Own' \ {maker'[n].got}) <= lost
  <2>1. maker[n].at = "created" /\ maker'[n].got = maker[n].got
    BY <1>5 DEF Making
  <2>2. Cardinality(Own \ {maker[n].got}) <= lost
    BY <2>1 DEF CountInv
  <2>3. QED
    BY <1>1, <1>2, <2>1, <2>2, SmallerCount
<1>6. ASSUME \A n \in Makers : maker'[n].at \notin Making PROVE Cardinality(Own' \ {record}) <= lost
  <2>1. \A n \in Makers : maker[n].at \notin Making
    BY <1>6
  <2>2. Cardinality(Own \ {record}) <= lost
    BY <2>1 DEF CountInv
  <2>3. QED
    BY <1>1, <1>2, <2>2, SmallerCount
<1>7. QED
  BY <1>3, <1>4, <1>5, <1>6 DEF CountInv

LEMMA OwnInit == SpacesInit => OwnInv
<1> SUFFICES ASSUME SpacesInit PROVE OwnInv
  OBVIOUS
<1>1. Own = {} /\ Own \ {record} = {}
  BY DEF SpacesInit, Own, Closed
<1>2. IsFiniteSet({}) /\ Cardinality({}) = 0
  BY FS_EmptySet
<1>3. QED
  BY <1>1, <1>2 DEF SpacesInit, OwnInv, GuardInv, CountInv, GotInv, Making

LEMMA OwnRestart ==
    ASSUME OwnInv, TypesInv, HerdrRestarts
    PROVE  OwnInv'
<1>1. Own' = {}
  BY RestartStep DEF TypesInv, Own, Closed
<1>2. IsFiniteSet({}) /\ Cardinality({}) = 0 /\ lost' \in Nat /\ 0 <= lost'
  BY FS_EmptySet DEF HerdrRestarts, TypesInv, MakersOK
<1>3. \A m \in Makers : maker'[m].at = maker[m].at /\ ~maker'[m].fresh
  <2>1. \A m \in Makers : maker'[m] = [maker[m] EXCEPT !.fresh = FALSE] /\ maker[m] \in Maker
    BY DEF HerdrRestarts, TypesInv, MakersOK
  <2>2. QED
    BY <2>1 DEF Maker
<1>4. GuardInv'
  BY <1>3 DEF OwnInv, GuardInv, HerdrRestarts
<1>5. \A x : Own' \ {x} = {}
  BY <1>1
<1>6. CountInv'
  BY <1>1, <1>2, <1>5 DEF CountInv
<1>7. GotInv'
  BY <1>3 DEF GotInv
<1>8. QED
  BY <1>4, <1>6, <1>7 DEF OwnInv

\* A maker's steps.
LEMMA GuardStep ==
    ASSUME GuardInv, NEW m \in Makers, m \in guard, NEW at, at \in {"idle", "got"},
           guard' = guard \ {m}, maker' \in [Makers -> Maker], maker'[m].at = at,
           \A n \in Makers : n # m => maker'[n] = maker[n]
    PROVE  GuardInv'
BY DEF GuardInv

LEMMA GuardSame ==
    ASSUME GuardInv, NEW m \in Makers, UNCHANGED guard,
           \/ maker[m].at \in {"idle", "waiting", "got"} /\ maker'[m].at \in {"idle", "waiting", "got"}
           \/ maker[m].at \in {"locked", "creating", "created"} /\ maker'[m].at \in {"locked", "creating", "created"},
           \A n \in Makers : n # m => maker'[n] = maker[n]
    PROVE  GuardInv'
BY DEF GuardInv

LEMMA Alone ==
    ASSUME GuardInv, NEW m \in Makers, maker[m].at \in {"locked", "creating", "created"}
    PROVE  m \in guard /\ \A n \in Makers : maker[n].at \in {"locked", "creating", "created"} => n = m
BY DEF GuardInv

LEMMA GotSame ==
    ASSUME GotInv, HerdrOK, OwnUntouched, NEW m \in Makers,
           \A n \in Makers : n # m => maker'[n] = maker[n],
           (maker'[m].at \in {"created", "got"} /\ maker'[m].fresh) =>
               maker'[m].got \in handed' /\ space'[maker'[m].got].kind \in {"bermuda", "gone"}
    PROVE  GotInv'
BY GotKept DEF GotInv

\* What a look finds is bermuda's.
LEMMA OwnedIs ==
    ASSUME HerdrOK, MakersOK, Owned
    PROVE  record \in SpaceIds /\ record \in Own /\ record \in handed /\ space[record].kind = "bermuda"
BY DEF HerdrOK, MakersOK, Owned, Own, Ids

LEMMA GoneIs ==
    ASSUME NEW m \in Makers, maker \in [Makers -> Maker], NEW at, NEW got, Goes(m, at, got)
    PROVE  /\ maker'[m].at = at /\ maker'[m].got = got
           /\ \A n \in Makers : n # m => maker'[n] = maker[n]
BY DEF Goes

LEMMA OwnLook ==
    ASSUME OwnInv, HerdrOK, MakersOK, NEW m \in Makers,
           LookForOwn(m) \/ LockOwn(m) \/ LockTimesOut(m) \/ UseOwn(m)
    PROVE  OwnInv'
<1>0. maker \in [Makers -> Maker]
  BY DEF MakersOK
<1>1. HerdrOK' /\ OwnUntouched /\ UNCHANGED <<record, lost>> /\ (UseOwn(m) \/ UNCHANGED herdrVars)
  BY HerdrKept, UseStep DEF LookForOwn, LockOwn, LockTimesOut, UseOwn
<1>2. /\ maker[m].at \in {"idle", "waiting", "got"}
      /\ \A n \in Makers : n # m => maker'[n] = maker[n]
      /\ \/ maker'[m].at = "got" /\ Owned /\ maker'[m].got = record /\ UNCHANGED herdrVars
         \/ maker'[m].at \in {"idle", "waiting", "locked"}
  BY <1>0, GoneIs DEF LookForOwn, LockOwn, LockTimesOut, UseOwn
<1>3. CountInv'
  BY <1>1, <1>2, CountKept DEF OwnInv, Making
<1>4. GotInv'
  BY <1>1, <1>2, GotSame, OwnedIs DEF OwnInv, herdrVars
<1>5. GuardInv'
  <2>1. CASE LockOwn(m)
    <3>1. guard = {} /\ guard' = {m} /\ maker'[m].at = "locked"
      BY <1>0, <2>1, GoneIs DEF LockOwn
    <3>2. QED
      BY <1>2, <3>1 DEF OwnInv, GuardInv
  <2>2. CASE ~LockOwn(m)
    <3>1. UNCHANGED guard /\ maker'[m].at \in {"idle", "waiting", "got"}
      BY <1>0, <2>2, GoneIs DEF LookForOwn, LockTimesOut, UseOwn
    <3>2. QED
      BY <1>2, <3>1, GuardSame DEF OwnInv
  <2>3. QED
    BY <2>1, <2>2
<1>6. QED
  BY <1>3, <1>4, <1>5 DEF OwnInv

\* All of bermuda's spaces are one more than those but one.
LEMMA AllButOne ==
    ASSUME CountInv, MakersOK, NEW x, Cardinality(Own \ {x}) <= lost
    PROVE  Cardinality(Own) <= lost + 1 /\ Cardinality(Own) \in Nat /\ lost \in Nat
<1>1. Cardinality(Own) \in Nat /\ Cardinality(Own \ {x}) \in Nat /\ Cardinality(Own) <= Cardinality(Own \ {x}) + 1
  BY OneMore DEF CountInv
<1>2. lost \in Nat
  BY DEF MakersOK
<1>3. QED
  BY <1>1, <1>2

LEMMA OwnLookAgain ==
    ASSUME OwnInv, HerdrOK, MakersOK, NEW m \in Makers, LookAgain(m)
    PROVE  OwnInv'
<1>0. maker \in [Makers -> Maker] /\ lost \in Nat /\ IsFiniteSet(Own) /\ maker[m].at = "locked"
  BY DEF MakersOK, OwnInv, CountInv, LookAgain
<1>1. HerdrOK' /\ OwnUntouched /\ UNCHANGED record /\ UNCHANGED herdrVars
  BY HerdrKept DEF LookAgain
<1>2. m \in guard /\ \A n \in Makers : n # m => maker[n].at \notin {"locked", "creating", "created"}
  BY <1>0, Alone DEF OwnInv
<1>3. Cardinality(Own \ {record}) <= lost
  BY <1>0, <1>2 DEF OwnInv, CountInv, Making
<1>4. Own' = Own
  BY <1>1 DEF Own, herdrVars
<1>5. CASE Owned /\ Goes(m, "got", record) /\ guard' = guard \ {m} /\ UNCHANGED lost
  <2>1. /\ maker'[m].at = "got" /\ maker'[m].got = record
        /\ \A n \in Makers : n # m => maker'[n] = maker[n]
    BY <1>0, <1>5, GoneIs
  <2>2. CountInv'
    BY <1>0, <1>1, <1>5, <2>1, CountKept DEF OwnInv, Making
  <2>3. GotInv'
    BY <1>1, <1>5, <2>1, GotSame, OwnedIs DEF OwnInv, herdrVars
  <2>4. GuardInv'
    BY <1>2, <1>5, <2>1 DEF OwnInv, GuardInv
  <2>5. QED
    BY <2>2, <2>3, <2>4 DEF OwnInv
<1>6. CASE /\ Goes(m, "creating", NoSpace) /\ UNCHANGED guard /\ lost' \in Nat
           /\ Cardinality(Own) <= lost'
  <2>1. /\ maker'[m].at = "creating"
        /\ \A n \in Makers : n # m => maker'[n] = maker[n]
    BY <1>0, <1>6, GoneIs
  <2>2. \A n \in Makers : n # m => maker'[n].at \notin Making
    BY <1>2, <2>1 DEF Making
  <2>3. CountInv'
    BY <1>0, <1>4, <1>6, <2>1, <2>2 DEF CountInv, Making
  <2>4. GotInv'
    BY <1>1, <2>1, GotSame DEF OwnInv
  <2>5. GuardInv'
    BY <1>0, <1>6, <2>1, GuardSame DEF OwnInv
  <2>6. QED
    BY <2>3, <2>4, <2>5 DEF OwnInv
<1>7. CASE ~Owned /\ Goes(m, "creating", NoSpace) /\ UNCHANGED <<guard, lost>>
  <2>1. record \notin Own
    BY <1>7, SpacesAssumption DEF Owned, Own
  <2>2. Own \ {record} = Own
    BY <2>1
  <2>3. QED
    BY <1>0, <1>3, <1>6, <1>7, <2>2
<1>8. CASE Goes(m, "creating", NoSpace) /\ lost' = lost + 1 /\ UNCHANGED guard
  <2>1. Cardinality(Own) <= lost + 1
    BY <1>3, AllButOne DEF OwnInv
  <2>2. lost + 1 \in Nat
    BY <1>0
  <2>3. QED
    BY <1>6, <1>8, <2>1, <2>2
<1>9. QED
  BY <1>5, <1>7, <1>8 DEF LookAgain

LEMMA OwnCreate ==
    ASSUME OwnInv, HerdrOK, MakersOK, NEW m \in Makers, CreateOwn(m)
    PROVE  OwnInv'
<1>00. maker[m].at = "creating"
  BY DEF CreateOwn
<1>0. maker \in [Makers -> Maker] /\ lost \in Nat /\ IsFiniteSet(Own) /\ maker[m].at = "creating"
  BY <1>00 DEF MakersOK, OwnInv, CountInv
<1>1. UNCHANGED <<record, lost>>
  BY DEF CreateOwn
<1>2. m \in guard /\ \A n \in Makers : n # m => maker[n].at \notin {"locked", "creating", "created"}
  BY <1>0, Alone DEF OwnInv
<1>3. Cardinality(Own) <= lost
  BY <1>0 DEF OwnInv, CountInv
<1>4. ASSUME NEW s \in Unhanded,
             space' = [space EXCEPT ![s] = Opened("bermuda")], handed' = handed \cup {s},
             maker' = [maker EXCEPT ![m].at = "created", ![m].got = s, ![m].fresh = TRUE], UNCHANGED guard
      PROVE  OwnInv'
  <2>1. s \in SpaceIds /\ s \notin handed /\ UNCHANGED restarts /\ "bermuda" \in Kinds \ {"gone"}
    BY <1>4 DEF Unhanded, CreateOwn, Kinds
  <2>2. \A t \in SpaceIds : space'[t] = IF t = s THEN Opened("bermuda") ELSE space[t]
    BY <1>4, <2>1, SpaceOpens
  <2>3. /\ maker'[m].at = "created" /\ maker'[m].got = s
        /\ \A n \in Makers : n # m => maker'[n] = maker[n]
    BY <1>0, <1>4 DEF Maker
  <2>4. Own' = Own \cup {s}
    BY <2>1, <2>2 DEF Own, Opened
  <2>5. IsFiniteSet(Own') /\ Own' \ {s} \subseteq Own
    BY <1>0, <2>4, FS_AddElement
  <2>6. Cardinality(Own' \ {s}) <= lost
    BY <1>0, <1>3, <2>5, SmallerCount
  <2>7. \A n \in Makers : n # m => maker'[n].at \notin Making
    BY <1>2, <2>3 DEF Making
  <2>8. CountInv'
    BY <1>1, <2>3, <2>5, <2>6, <2>7 DEF CountInv, Making
  <2>9. GotInv'
    <3> SUFFICES ASSUME NEW n \in Makers, maker'[n].at \in {"created", "got"}, maker'[n].fresh
                 PROVE  maker'[n].got \in handed' /\ space'[maker'[n].got].kind \in {"bermuda", "gone"}
      BY DEF GotInv
    <3>1. CASE n = m
      BY <1>4, <2>1, <2>2, <2>3, <3>1 DEF Opened
    <3>2. CASE n # m
      <4>1. maker[n].got \in handed /\ space[maker[n].got].kind \in {"bermuda", "gone"}
        BY <2>3, <3>2 DEF OwnInv, GotInv
      <4>2. maker[n].got \in SpaceIds /\ maker[n].got # s
        BY <2>1, <4>1 DEF HerdrOK
      <4>3. maker'[n].got = maker[n].got /\ space'[maker[n].got] = space[maker[n].got]
        BY <2>2, <2>3, <3>2, <4>2
      <4>4. maker[n].got \in handed'
        BY <1>4, <4>1
      <4>5. QED
        BY <4>1, <4>3, <4>4
    <3>3. QED
      BY <3>1, <3>2
  <2>10. GuardInv'
    BY <1>0, <1>4, <2>3, GuardSame DEF OwnInv
  <2>11. QED
    BY <2>8, <2>9, <2>10 DEF OwnInv
<1>5. CASE Goes(m, "idle", NoSpace) /\ guard' = guard \ {m} /\ UNCHANGED <<space, handed>>
  <2>1. HerdrOK' /\ OwnUntouched
    BY <1>5, HerdrKept DEF CreateOwn, herdrVars
  <2>2. /\ maker'[m].at = "idle"
        /\ \A n \in Makers : n # m => maker'[n] = maker[n]
    BY <1>0, <1>5, GoneIs
  <2>3. \A n \in Makers : maker'[n].at \notin Making
    BY <1>2, <2>2 DEF Making
  <2>4. Own' = Own /\ Own \ {record} \subseteq Own
    BY <1>5 DEF Own
  <2>5. Cardinality(Own \ {record}) <= lost
    BY <1>0, <1>3, <2>4, SmallerCount
  <2>6. CountInv'
    BY <1>0, <1>1, <2>3, <2>4, <2>5 DEF CountInv, Making
  <2>7. GotInv'
    BY <2>1, <2>2, GotSame DEF OwnInv
  <2>8. GuardInv'
    BY <1>2, <1>5, <2>2 DEF OwnInv, GuardInv
  <2>9. QED
    BY <2>6, <2>7, <2>8 DEF OwnInv
<1>6. QED
  BY <1>4, <1>5 DEF CreateOwn

\* A maker drops the lock; nobody is making, and the count fits what is lost by then.
LEMMA OwnLeaves ==
    ASSUME OwnInv, HerdrOK, MakersOK, NEW m \in Makers,
           maker[m].at \in {"creating", "created"}, maker'[m].at \in {"idle", "got"},
           \A n \in Makers : n # m => maker'[n] = maker[n],
           UNCHANGED herdrVars, guard' = guard \ {m},
           Cardinality(Own \ {record'}) <= lost'
    PROVE  GuardInv' /\ CountInv'
<1>1. m \in guard /\ \A n \in Makers : n # m => maker[n].at \notin {"locked", "creating", "created"}
  BY Alone DEF OwnInv
<1>2. Own' = Own /\ IsFiniteSet(Own)
  BY DEF Own, herdrVars, OwnInv, CountInv
<1>3. \A n \in Makers : maker'[n].at \notin Making
  BY <1>1 DEF Making
<1>4. CountInv'
  BY <1>2, <1>3 DEF CountInv, Making
<1>5. GuardInv'
  BY <1>1 DEF OwnInv, GuardInv
<1>6. QED
  BY <1>4, <1>5

LEMMA OwnRecord ==
    ASSUME OwnInv, HerdrOK, MakersOK, NEW m \in Makers, RecordOwn(m)
    PROVE  OwnInv'
<1>00. maker[m].at = "created"
  BY DEF RecordOwn
<1>0. maker \in [Makers -> Maker] /\ lost \in Nat /\ IsFiniteSet(Own) /\ maker[m].at = "created"
  BY <1>00 DEF MakersOK, OwnInv, CountInv
<1>1. HerdrOK' /\ OwnUntouched /\ UNCHANGED herdrVars /\ guard' = guard \ {m}
  BY HerdrKept DEF RecordOwn
<1>2. /\ maker'[m].at = "got" /\ maker'[m].got = maker[m].got /\ maker'[m].fresh = maker[m].fresh
      /\ \A n \in Makers : n # m => maker'[n] = maker[n]
  BY <1>0 DEF RecordOwn, Maker
<1>3. Cardinality(Own \ {maker[m].got}) <= lost
  BY <1>0 DEF OwnInv, CountInv
<1>4. Cardinality(Own \ {record'}) <= lost'
  <2>1. CASE record' = maker[m].got /\ UNCHANGED lost
    BY <1>3, <2>1
  <2>2. CASE lost' = lost + 1
    <3>1. Cardinality(Own) <= lost + 1
      BY <1>3, AllButOne DEF OwnInv
    <3>2. lost + 1 \in Nat /\ Own \ {record'} \subseteq Own
      BY <1>0
    <3>3. QED
      BY <1>0, <2>2, <3>1, <3>2, SmallerCount
  <2>3. QED
    BY <2>1, <2>2 DEF RecordOwn
<1>5. GuardInv' /\ CountInv'
  BY <1>0, <1>1, <1>2, <1>4, OwnLeaves
<1>6. maker[m].fresh => maker[m].got \in handed /\ space[maker[m].got].kind \in {"bermuda", "gone"}
  BY <1>0 DEF OwnInv, GotInv
<1>7. GotInv'
  BY <1>1, <1>2, <1>6, GotSame DEF OwnInv, herdrVars
<1>8. QED
  BY <1>5, <1>7 DEF OwnInv

LEMMA OwnDies ==
    ASSUME OwnInv, HerdrOK, MakersOK, NEW m \in Makers, MakerDies(m)
    PROVE  OwnInv'
<1>0. maker \in [Makers -> Maker] /\ lost \in Nat /\ IsFiniteSet(Own)
  BY DEF MakersOK, OwnInv, CountInv
<1>1. HerdrOK' /\ OwnUntouched /\ UNCHANGED herdrVars /\ UNCHANGED record /\ guard' = guard \ {m}
  BY HerdrKept DEF MakerDies
<1>2. /\ maker'[m].at = "idle"
      /\ \A n \in Makers : n # m => maker'[n] = maker[n]
  BY <1>0, GoneIs DEF MakerDies
<1>3. GotInv'
  BY <1>1, <1>2, GotSame DEF OwnInv
<1>4. CASE maker[m].at = "created"
  <2>1. Cardinality(Own) <= lost + 1
    BY <1>4, AllButOne DEF OwnInv, CountInv
  <2>2. lost + 1 \in Nat /\ Own \ {record} \subseteq Own /\ lost' = lost + 1
    BY <1>0, <1>4 DEF MakerDies
  <2>3. Cardinality(Own \ {record'}) <= lost'
    BY <1>0, <1>1, <2>1, <2>2, SmallerCount
  <2>4. QED
    BY <1>1, <1>2, <1>3, <1>4, <2>3, OwnLeaves DEF OwnInv
<1>5. CASE maker[m].at = "creating"
  <2>1. Cardinality(Own) <= lost /\ Own \ {record} \subseteq Own /\ lost' = lost
    BY <1>5 DEF OwnInv, CountInv, MakerDies
  <2>2. Cardinality(Own \ {record'}) <= lost'
    BY <1>0, <1>1, <2>1, SmallerCount
  <2>3. QED
    BY <1>1, <1>2, <1>3, <1>5, <2>2, OwnLeaves DEF OwnInv
<1>6. CASE maker[m].at \notin Making
  <2>1. CountInv'
    BY <1>1, <1>2, <1>6, CountKept DEF OwnInv, MakerDies, Making
  <2>2. GuardInv'
    BY <1>1, <1>2 DEF OwnInv, GuardInv
  <2>3. QED
    BY <1>3, <2>1, <2>2 DEF OwnInv
<1>7. QED
  BY <1>4, <1>5, <1>6 DEF Making

LEMMA OwnStep == TypesInv /\ OwnInv /\ [SpacesNext]_spaceVars => OwnInv'
<1> SUFFICES ASSUME TypesInv, OwnInv, [SpacesNext]_spaceVars PROVE OwnInv'
  OBVIOUS
<1> USE DEF TypesInv
<1>1. CASE HerdrRestarts
  BY <1>1, OwnRestart
<1>2. ASSUME NEW m \in Makers, MakerStep(m) PROVE OwnInv'
  BY <1>2, OwnLook, OwnLookAgain, OwnCreate, OwnRecord, OwnDies DEF MakerStep
<1>3. CASE ~HerdrRestarts /\ \A m \in Makers : ~MakerStep(m)
  BY <1>3, OthersTypes, OwnKept
<1>4. QED
  BY <1>1, <1>2, <1>3

LEMMA OwnSays == TypesInv /\ OwnInv => OwnSpaceIsOwn
<1> SUFFICES ASSUME TypesInv, OwnInv PROVE OwnSpaceIsOwn
  OBVIOUS
<1>1. lost \in Nat /\ lost <= lost + 1 /\ Cardinality(Own) \in Nat
  BY FS_CardinalityType DEF TypesInv, MakersOK, OwnInv, CountInv
<1>2. Cardinality(Own) <= lost + 1
  <2>1. CASE \E m \in Makers : maker[m].at = "creating"
    <3>1. Cardinality(Own) <= lost
      BY <2>1 DEF OwnInv, CountInv
    <3>2. QED
      BY <1>1, <3>1
  <2>2. CASE \E m \in Makers : maker[m].at = "created"
    BY <2>2, AllButOne DEF OwnInv, CountInv, TypesInv
  <2>3. CASE \A m \in Makers : maker[m].at \notin Making
    BY <2>3, AllButOne DEF OwnInv, CountInv, TypesInv
  <2>4. QED
    BY <2>1, <2>2, <2>3 DEF Making
<1>3. OneBermudaSpace
  BY <1>1, <1>2 DEF OneBermudaSpace, Own
<1>4. NeverAdopts
  BY DEF OwnInv, GotInv, NeverAdopts
<1>5. QED
  BY <1>3, <1>4, TypesAreOK DEF OwnSpaceIsOwn

\* However many processes ask for bermuda's space, whatever herdr and the others who use it do:
\* there is one, and one more for each time bermuda lost sight of it, and nobody is given a
\* space bermuda did not open (EnsureWorkspace).
THEOREM BermudaHasOneSpace == SpacesSpec => []OwnSpaceIsOwn
<1>1. SpacesInit => TypesInv /\ OwnInv
  BY TypesInit, OwnInit
<1>2. TypesInv /\ OwnInv /\ [SpacesNext]_spaceVars => (TypesInv /\ OwnInv)'
  BY TypesStep, OwnStep
<1>3. QED
  BY <1>1, <1>2, OwnSays, PTL DEF SpacesSpec

-----------------------------------------------------------------------------
(***************************************************************************)
(* The room of a flow run.  Rough is a run whose process died or for which *)
(* herdr did not do what it was asked; the others leave the room as they   *)
(* go: unmarked from the moment it is theirs until they park it, marked    *)
(* once it is named, with a tab on the run's directory before the empty    *)
(* one goes.  Only a room the run made is judged by its tabs: after a      *)
(* restart of herdr its id may be somebody else's.                         *)
(***************************************************************************)
InRoom == room.space \in SpaceIds /\ space[room.space].kind = "room"
Marked == space[room.space].verdict
Shown == "run" \in space[room.space].tabs

\* The parts say what holds while the run goes on, between the steps of a park, and after it.
UnmarkedInv ==
    (~room.rough /\ room.at \in {"asking", "put", "running"} /\ room.space \in SpaceIds) => ~Marked
MarkedInv == (~room.rough /\ room.at \in {"showing", "reaping"} /\ InRoom) => Marked
ShownInv == (~room.rough /\ room.at = "reaping" /\ InRoom) => Shown
ParkedInv == (~room.rough /\ room.at = "idle" /\ room.outcome = "parked" /\ InRoom) => Marked /\ Shown

RoomInv ==
    /\ asking["flow"].at # "rest" => room.at = "asking"
    /\ room.at = "closing" => room.outcome = "done"
    /\ UnmarkedInv /\ MarkedInv /\ ShownInv /\ ParkedInv

LEMMA RoomInvInit == SpacesInit => RoomInv
BY DEF SpacesInit, RoomInv, NoRoom, UnmarkedInv, MarkedInv, ShownInv, ParkedInv, Resting

\* Nobody else's step makes a difference to the room.
LEMMA RoomInvKept ==
    ASSUME RoomInv, RoomsUntouched, UNCHANGED room,
           asking'["flow"].at # "rest" => asking["flow"].at # "rest"
    PROVE  RoomInv'
<1>1. room.space \in SpaceIds => (Marked' => Marked)
  BY DEF RoomsUntouched, Marked
<1>2. InRoom' => InRoom /\ (Marked => Marked') /\ (Shown => Shown')
  BY DEF RoomsUntouched, InRoom, Marked, Shown
<1>3. UnmarkedInv' /\ MarkedInv' /\ ShownInv' /\ ParkedInv'
  BY <1>1, <1>2 DEF RoomInv, UnmarkedInv, MarkedInv, ShownInv, ParkedInv
<1>4. QED
  BY <1>3 DEF RoomInv

\* Others who ask for a thread do not ask for the run's.
LEMMA FlowAsksItself ==
    ASSUME ThreadsOK, NEW x \in Askers \cup {"sweep", "flow"}, AskStep(x), ~AskFails(x)
    PROVE  asking'["flow"].at # "rest" => asking["flow"].at # "rest"
<1>1. asking \in [Askers \cup {"sweep", "flow"} -> Asked] /\ "flow" \notin Askers
  BY SpacesAssumption DEF ThreadsOK
<1>2. CASE AskName(x)
  BY <1>1, <1>2 DEF AskName
<1>3. CASE x \in Askers
  <2>1. x # "flow" /\ \E y : asking' = [asking EXCEPT ![x] = y] \/ asking' = asking
    <3>1. CASE AgentInserts(x)
      BY <1>1, <1>3, <3>1, AnyInsert DEF AgentInserts, Inserts
    <3>2. CASE \E s \in SpaceIds : AskerAsks(x, s)
      BY <1>1, <1>3, <3>2 DEF AskerAsks, AskLook
    <3>3. CASE AskName(x)
      BY <1>1, <1>3, <3>3 DEF AskName
    <3>4. QED
      BY <3>1, <3>2, <3>3 DEF AskStep
  <2>2. QED
    BY <1>1, <2>1
<1>4. QED
  BY <1>2, <1>3 DEF AskStep, AgentInserts, AskerAsks

LEMMA SweepAsksItself ==
    ASSUME ThreadsOK, SweepStep
    PROVE  asking'["flow"] = asking["flow"] /\ UNCHANGED room
<1>1. asking \in [Askers \cup {"sweep", "flow"} -> Asked] /\ "flow" # "sweep"
  BY DEF ThreadsOK
<1>2. CASE SweepInserts
  <2>1. Inserts("sweep")
    BY <1>2, AnyInsert DEF SweepInserts
  <2>2. QED
    BY <1>1, <1>2, <2>1 DEF Inserts, SweepInserts
<1>3. CASE SweepEnds
  BY <1>1, <1>3 DEF SweepEnds
<1>4. ASSUME NEW s \in SpaceIds, SweepOpens(s) PROVE asking'["flow"] = asking["flow"] /\ UNCHANGED room
  BY <1>1, <1>4 DEF SweepOpens, AskLook
<1>5. CASE SweepLists \/ SweepReads \/ \E t \in DOMAIN threads : SweepCloses(t)
  BY <1>5 DEF SweepLists, SweepReads, SweepCloses
<1>6. QED
  BY <1>2, <1>3, <1>4, <1>5 DEF SweepStep

\* The run's thread cannot be named: it goes on without one.
LEMMA RoomWithoutThread ==
    ASSUME TypesInv, RoomInv, NEW x \in Askers \cup {"sweep", "flow"}, AskFails(x)
    PROVE  RoomInv'
<1>0. room \in Room /\ asking \in [Askers \cup {"sweep", "flow"} -> Asked]
  BY DEF TypesInv, RoomOK, ThreadsOK
<1>1. UNCHANGED herdrVars
  BY DEF AskFails
<1>2. CASE x = "flow"
  <2>1. room.at = "asking" /\ room' = [room EXCEPT !.thread = 0, !.at = "put"]
    BY <1>2 DEF AskFails, RoomInv
  <2>2. /\ room'.at = "put" /\ room'.space = room.space /\ room'.rough = room.rough
    BY <1>0, <2>1 DEF Room
  <2>3. asking'["flow"].at = "rest"
    BY <1>0, <1>2 DEF AskFails, Resting
  <2>4. UnmarkedInv'
    BY <1>1, <2>1, <2>2 DEF RoomInv, UnmarkedInv, Marked, herdrVars
  <2>5. QED
    BY <2>2, <2>3, <2>4 DEF RoomInv, MarkedInv, ShownInv, ParkedInv
<1>3. CASE x # "flow"
  <2>1. UNCHANGED room /\ asking'["flow"] = asking["flow"]
    BY <1>0, <1>3 DEF AskFails
  <2>2. RoomsUntouched
    BY <1>1, HerdrKept DEF TypesInv
  <2>3. QED
    BY <2>1, <2>2, RoomInvKept
<1>4. QED
  BY <1>2, <1>3

\* The run's own steps.  Where the room is what it was, it says what it said.
LEMMA RoomAgain ==
    ASSUME TypesInv, RoomInv, OpenRoomAgain
    PROVE  RoomInv'
<1>0. room \in Room /\ space \in [SpaceIds -> Space] /\ room.rowSpace \in SpaceIds
  BY DEF TypesInv, RoomOK, HerdrOK, OpenRoomAgain, IsOpen
<1>1. PICK renamed \in {TRUE} \cup (IF "rename" \in Trouble THEN {FALSE} ELSE {}) :
           /\ space' = [space EXCEPT ![room.rowSpace].verdict = @ /\ ~renamed]
           /\ room' = [room EXCEPT !.at = IF room.rowThread = 0 THEN "asking" ELSE "put",
                                   !.space = room.rowSpace, !.thread = room.rowThread, !.root = FALSE,
                                   !.rough = ~renamed]
  BY DEF OpenRoomAgain
<1>2. /\ room'.at \in {"asking", "put"} /\ room'.space = room.rowSpace
      /\ room'.rough = ~renamed /\ room'.outcome = room.outcome
  BY <1>0, <1>1 DEF Room
<1>3. UNCHANGED asking /\ asking["flow"].at = "rest"
  BY DEF OpenRoomAgain, RoomInv
<1>4. renamed => ~space'[room.rowSpace].verdict
  BY <1>0, <1>1 DEF Space
<1>5. UnmarkedInv'
  BY <1>2, <1>4 DEF UnmarkedInv, Marked
<1>6. QED
  BY <1>2, <1>3, <1>5 DEF RoomInv, MarkedInv, ShownInv, ParkedInv

LEMMA RoomNew ==
    ASSUME TypesInv, RoomInv, OpenRoom
    PROVE  RoomInv'
<1>0. room \in Room /\ space \in [SpaceIds -> Space]
  BY DEF TypesInv, RoomOK, HerdrOK
<1>1. UNCHANGED asking /\ asking["flow"].at = "rest"
  BY DEF OpenRoom, RoomInv
<1>2. ASSUME NEW s \in Unhanded, space' = [space EXCEPT ![s] = Opened("room")],
             room' = [room EXCEPT !.at = "asking", !.space = s, !.thread = 0, !.root = TRUE, !.rough = FALSE]
      PROVE  RoomInv'
  <2>1. s \in SpaceIds
    BY DEF Unhanded
  <2>2. room'.at = "asking" /\ room'.space = s
    BY <1>0, <1>2 DEF Room
  <2>3. ~space'[s].verdict
    BY <1>0, <1>2, <2>1 DEF Opened
  <2>4. UnmarkedInv'
    BY <2>2, <2>3 DEF UnmarkedInv, Marked
  <2>5. QED
    BY <1>1, <2>2, <2>4 DEF RoomInv, MarkedInv, ShownInv, ParkedInv
<1>3. CASE room' = [room EXCEPT !.at = "put", !.space = NoSpace, !.thread = 0, !.root = FALSE, !.rough = FALSE]
  <2>1. room'.at = "put" /\ room'.space = NoSpace
    BY <1>0, <1>3 DEF Room
  <2>2. QED
    BY <1>1, <2>1, SpacesAssumption DEF RoomInv, UnmarkedInv, MarkedInv, ShownInv, ParkedInv
<1>4. QED
  BY <1>2, <1>3 DEF OpenRoom

LEMMA RoomGoesOn ==
    ASSUME TypesInv, RoomInv, RoomAsks \/ RoomInserts \/ RoomRecorded \/ StepOpensTab
    PROVE  RoomInv'
<1>0. room \in Room /\ HerdrOK /\ asking \in [Askers \cup {"sweep", "flow"} -> Asked]
  BY DEF TypesInv, RoomOK, ThreadsOK
<1>1. CASE StepOpensTab
  <2>1. RoomsUntouched /\ UNCHANGED <<asking, room>>
    BY <1>0, <1>1, TabOpens DEF StepOpensTab, RoomKeeps, Tabs
  <2>2. QED
    BY <2>1, RoomInvKept
<1>2. CASE RoomAsks \/ RoomInserts \/ RoomRecorded
  <2>1. /\ room.at \in {"asking", "put"} /\ UNCHANGED space
        /\ room'.at \in {"asking", "put", "running"}
        /\ room'.space = room.space /\ room'.rough = room.rough
    <3>1. CASE RoomRecorded
      BY <1>0, <3>1 DEF RoomRecorded, Room
    <3>2. CASE RoomAsks
      <4>1. room.at = "asking" /\ UNCHANGED space /\ \E t : RoomHas(t)
        BY <3>2 DEF RoomAsks, AskLook
      <4>2. QED
        BY <1>0, <4>1 DEF RoomHas, Room
    <3>3. CASE RoomInserts
      <4>1. room.at = "asking" /\ UNCHANGED space /\ \E t : RoomHas(t)
        BY <3>3, RoomInsert DEF RoomInserts
      <4>2. QED
        BY <1>0, <4>1 DEF RoomHas, Room
    <3>4. QED
      BY <1>2, <3>1, <3>2, <3>3
  <2>2. UnmarkedInv'
    BY <2>1 DEF RoomInv, UnmarkedInv, Marked
  <2>3. asking'["flow"].at # "rest" => room'.at = "asking"
    <3>1. CASE RoomRecorded
      BY <3>1 DEF RoomRecorded, RoomInv
    <3>2. CASE RoomAsks
      <4>1. CASE \E t \in ThreadsOf(room.space) : RoomHas(t) /\ UNCHANGED asking
        BY <4>1, <3>2 DEF RoomAsks, AskLook
      <4>2. CASE RoomHas(0)
        BY <3>2, <4>2 DEF RoomAsks, RoomHas
      <4>3. QED
        BY <3>2, <4>1, <4>2 DEF RoomAsks, AskLook
    <3>3. CASE RoomInserts
      <4>1. asking'["flow"] = Resting \/ RoomHas(0)
        BY <1>0, <3>3 DEF RoomInserts, AskInsert
      <4>2. QED
        BY <3>3, <4>1 DEF RoomInserts, RoomHas, Resting
    <3>4. QED
      BY <1>2, <3>1, <3>2, <3>3
  <2>4. QED
    BY <2>1, <2>2, <2>3 DEF RoomInv, MarkedInv, ShownInv, ParkedInv
<1>3. QED
  BY <1>1, <1>2

LEMMA RoomCloses ==
    ASSUME TypesInv, RoomInv, RunOver \/ CloseRoom \/ FlowDies
    PROVE  RoomInv'
<1>0. room \in Room /\ asking \in [Askers \cup {"sweep", "flow"} -> Asked]
  BY DEF TypesInv, RoomOK, ThreadsOK
<1>1. CASE RunOver
  <2>1. UNCHANGED asking /\ asking["flow"].at = "rest"
    BY <1>1 DEF RunOver, RoomInv
  <2>2. /\ room'.space = room.space
        /\ \/ room'.at = "idle" /\ room.space = NoSpace
           \/ room'.at = "closing" /\ room'.outcome = "done"
           \/ room'.at = "renaming"
    <3>1. PICK outcome \in {"done", "parked"} :
              room' = [room EXCEPT !.outcome = outcome,
                                   !.at = IF room.space = NoSpace THEN "idle"
                                          ELSE IF outcome = "done" THEN "closing" ELSE "renaming"]
      BY <1>1 DEF RunOver
    <3>2. QED
      BY <1>0, <3>1 DEF Room
  <2>3. QED
    BY <2>1, <2>2, SpacesAssumption DEF RoomInv, UnmarkedInv, MarkedInv, ShownInv, ParkedInv, InRoom
<1>2. CASE CloseRoom
  <2>1. UNCHANGED asking /\ asking["flow"].at = "rest" /\ room.outcome = "done"
    BY <1>2 DEF CloseRoom, RoomInv
  <2>2. room'.at = "idle" /\ room'.outcome = room.outcome
    BY <1>0, <1>2 DEF CloseRoom, Room
  <2>3. QED
    BY <2>1, <2>2 DEF RoomInv, UnmarkedInv, MarkedInv, ShownInv, ParkedInv
<1>3. CASE FlowDies
  <2>1. asking'["flow"].at = "rest"
    BY <1>0, <1>3 DEF FlowDies, Resting
  <2>2. room'.at = "idle" /\ room'.rough
    BY <1>0, <1>3 DEF FlowDies, Room
  <2>3. QED
    BY <2>1, <2>2 DEF RoomInv, UnmarkedInv, MarkedInv, ShownInv, ParkedInv
<1>4. QED
  BY <1>1, <1>2, <1>3

LEMMA RoomParks ==
    ASSUME TypesInv, RoomInv, ParkNames \/ ParkShows \/ ParkReaps
    PROVE  RoomInv'
<1>0. /\ room \in Room /\ space \in [SpaceIds -> Space] /\ HerdrOK
      /\ UNCHANGED asking /\ asking["flow"].at = "rest"
  BY DEF TypesInv, RoomOK, HerdrOK, RoomInv, ParkNames, ParkShows, ParkReaps
<1>1. CASE ParkNames
  <2>1. CASE IsOpen(room.space) /\ space' = [space EXCEPT ![room.space].verdict = TRUE]
    <3>1. space'[room.space].verdict
      BY <1>0, <2>1 DEF IsOpen, Space
    <3>2. room'.at = "showing" /\ room'.space = room.space
      BY <1>0, <1>1 DEF ParkNames, Room
    <3>3. MarkedInv'
      BY <3>1, <3>2 DEF MarkedInv, Marked
    <3>4. QED
      BY <1>0, <3>2, <3>3 DEF RoomInv, UnmarkedInv, ShownInv, ParkedInv
  <2>2. CASE room' = [room EXCEPT !.at = "showing", !.rough = TRUE]
    <3>1. room'.at = "showing" /\ room'.rough
      BY <1>0, <2>2 DEF Room
    <3>2. QED
      BY <1>0, <3>1 DEF RoomInv, UnmarkedInv, MarkedInv, ShownInv, ParkedInv
  <2>3. QED
    BY <1>1, <2>1, <2>2 DEF ParkNames
<1>2. CASE ParkShows
  <2>1. CASE IsOpen(room.space) /\ space' = [space EXCEPT ![room.space].tabs = @ \cup {"run"}] /\ room' = [room EXCEPT !.at = "reaping"]
    <3>1. room'.at = "reaping" /\ room'.space = room.space /\ room'.rough = room.rough
      BY <1>0, <2>1 DEF Room
    <3>2. UNCHANGED <<handed, restarts>>
      BY <1>2 DEF ParkShows, RoomKeeps
    <3>3. RoomsUntouched /\ space'[room.space] = [space[room.space] EXCEPT !.tabs = @ \cup {"run"}]
      BY <1>0, <2>1, <3>2, TabOpens DEF Tabs
    <3>4. Shown'
      BY <1>0, <2>1, <3>1, <3>3 DEF Shown, IsOpen, Space
    <3>5. InRoom' => InRoom /\ (Marked => Marked')
      BY <3>1, <3>3 DEF RoomsUntouched, InRoom, Marked
    <3>6. MarkedInv'
      BY <1>2, <3>1, <3>5 DEF RoomInv, MarkedInv, ParkShows
    <3>7. QED
      BY <1>0, <3>1, <3>4, <3>6 DEF RoomInv, UnmarkedInv, ShownInv, ParkedInv
  <2>2. CASE room' = [room EXCEPT !.at = "reaping", !.rough = TRUE]
    <3>1. room'.at = "reaping" /\ room'.rough
      BY <1>0, <2>2 DEF Room
    <3>2. QED
      BY <1>0, <3>1 DEF RoomInv, UnmarkedInv, MarkedInv, ShownInv, ParkedInv
  <2>3. QED
    BY <1>2, <2>1, <2>2 DEF ParkShows
<1>3. CASE ParkReaps
  <2>1. room'.at = "idle" /\ room'.space = room.space /\ (~room'.rough => ~room.rough)
    <3>1. CASE room' = [room EXCEPT !.at = "idle"]
      BY <1>0, <3>1 DEF Room
    <3>2. CASE room' = [room EXCEPT !.at = "idle", !.rough = @ \/ "panes" \in Trouble]
      <4>1. room'.at = "idle" /\ room'.space = room.space /\ room'.rough = (room.rough \/ "panes" \in Trouble)
        BY <1>0, <3>2 DEF Room
      <4>2. QED
        BY <4>1
    <3>3. QED
      BY <1>3, <3>1, <3>2 DEF ParkReaps
  <2>2. InRoom' => InRoom /\ (Marked => Marked') /\ (Shown => Shown')
    <3>1. CASE UNCHANGED space
      BY <2>1, <3>1 DEF InRoom, Marked, Shown
    <3>2. CASE IsOpen(room.space) /\ space' = [space EXCEPT ![room.space].tabs = @ \ {"root"}]
      <4>1. room.space \in SpaceIds /\ space[room.space] \in Space
        BY <1>0, <3>2 DEF IsOpen
      <4>2. space'[room.space] = [space[room.space] EXCEPT !.tabs = @ \ {"root"}]
        BY <1>0, <3>2, <4>1
      <4>3. /\ space'[room.space].kind = space[room.space].kind
            /\ space'[room.space].verdict = space[room.space].verdict
            /\ space'[room.space].tabs = space[room.space].tabs \ {"root"}
        BY <4>1, <4>2 DEF Space
      <4>4. QED
        BY <2>1, <4>3 DEF InRoom, Marked, Shown
    <3>3. QED
      BY <1>3, <3>1, <3>2 DEF ParkReaps
  <2>3. room.at = "reaping"
    BY <1>3 DEF ParkReaps
  <2>4. ParkedInv'
    BY <2>1, <2>2, <2>3 DEF RoomInv, MarkedInv, ShownInv, ParkedInv
  <2>5. QED
    BY <1>0, <2>1, <2>4 DEF RoomInv, UnmarkedInv, MarkedInv, ShownInv
<1>4. QED
  BY <1>1, <1>2, <1>3

LEMMA RoomInvStep == TypesInv /\ RoomInv /\ [SpacesNext]_spaceVars => RoomInv'
<1> SUFFICES ASSUME TypesInv, RoomInv, [SpacesNext]_spaceVars PROVE RoomInv'
  OBVIOUS
<1> USE DEF TypesInv
<1>1. CASE HerdrRestarts
  <2>1. RoomsUntouched /\ UNCHANGED <<asking, room>>
    BY <1>1, RestartStep DEF HerdrRestarts
  <2>2. QED
    BY <2>1, RoomInvKept
<1>2. ASSUME NEW m \in Makers, MakerStep(m) PROVE RoomInv'
  <2>1. RoomsUntouched /\ UNCHANGED <<asking, room>>
    BY <1>2, MakerTypes
  <2>2. QED
    BY <2>1, RoomInvKept
<1>3. CASE RoomStep
  BY <1>3, RoomAgain, RoomNew, RoomGoesOn, RoomCloses, RoomParks DEF RoomStep
<1>4. CASE SweepStep
  <2>1. UNCHANGED herdrVars
    BY <1>4, SweepTypes
  <2>2. RoomsUntouched
    BY <2>1, HerdrKept
  <2>3. QED
    BY <1>4, <2>2, SweepAsksItself, RoomInvKept
<1>5. ASSUME NEW x \in Askers \cup {"sweep", "flow"}, AskStep(x) PROVE RoomInv'
  <2>1. UNCHANGED herdrVars
    BY <1>5, AskerTypes DEF AskStep
  <2>2. RoomsUntouched
    BY <2>1, HerdrKept
  <2>3. CASE AskFails(x)
    BY <2>3, RoomWithoutThread
  <2>4. CASE ~AskFails(x)
    <3>1. UNCHANGED room
      BY <1>5, <2>4 DEF AskStep, AskName, AgentInserts, AskerAsks
    <3>2. QED
      BY <1>5, <2>2, <2>4, <3>1, FlowAsksItself, RoomInvKept
  <2>5. QED
    BY <2>3, <2>4
<1>6. ASSUME NEW t \in DOMAIN threads, AgentTakesLease(t) \/ LeaseEnds(t) PROVE RoomInv'
  <2>1. UNCHANGED herdrVars /\ UNCHANGED <<asking, room>>
    BY <1>6 DEF AgentTakesLease, LeaseEnds
  <2>2. RoomsUntouched
    BY <2>1, HerdrKept
  <2>3. QED
    BY <2>1, <2>2, RoomInvKept
<1>7. ASSUME NEW s \in SpaceIds, OpenByHand(s) \/ CloseByHand(s) PROVE RoomInv'
  <2>1. RoomsUntouched /\ UNCHANGED <<asking, room>>
    BY <1>7, HandStep DEF OpenByHand, CloseByHand
  <2>2. QED
    BY <2>1, RoomInvKept
<1>8. CASE UNCHANGED spaceVars
  <2>1. UNCHANGED herdrVars /\ UNCHANGED <<asking, room>>
    BY <1>8 DEF spaceVars, herdrVars
  <2>2. RoomsUntouched
    BY <2>1, HerdrKept
  <2>3. QED
    BY <2>1, <2>2, RoomInvKept
<1>9. QED
  BY <1>1, <1>2, <1>3, <1>4, <1>5, <1>6, <1>7, <1>8, SpaceSteps

LEMMA RoomSays == TypesInv /\ RoomInv => RoomSaysWhatItIs
<1> SUFFICES ASSUME TypesInv, RoomInv PROVE RoomSaysWhatItIs
  OBVIOUS
<1>1. ParkedRoomIsLegible
  BY DEF RoomInv, ParkedInv, ParkedRoomIsLegible, InRoom, Marked, Shown, IsOpen
<1>2. room.space \in SpaceIds \/ room.space = NoSpace
  BY DEF TypesInv, RoomOK, Room, Ids
<1>3. RunningRoomIsUnmarked
  BY <1>2 DEF RoomInv, UnmarkedInv, RunningRoomIsUnmarked, Marked
<1>4. QED
  BY <1>1, <1>3 DEF RoomSaysWhatItIs

\* However often a run is parked and resumed, and whoever opens, closes or restarts what in
\* between: its room has no verdict on it while it runs, and a verdict and a tab on the run's
\* directory once it is parked, unless herdr failed it or its process died (openFlowSpace,
\* parkFlowSpace, reapRootTab).
THEOREM RoomsSayWhatTheyAre == SpacesSpec => []RoomSaysWhatItIs
<1>1. SpacesInit => TypesInv /\ RoomInv
  BY TypesInit, RoomInvInit
<1>2. TypesInv /\ RoomInv /\ [SpacesNext]_spaceVars => (TypesInv /\ RoomInv)'
  BY TypesStep, RoomInvStep
<1>3. QED
  BY <1>1, <1>2, RoomSays, PTL DEF SpacesSpec
=============================================================================
