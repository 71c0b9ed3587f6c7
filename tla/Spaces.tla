------------------------------- MODULE Spaces -------------------------------
(***************************************************************************)
(* The windows ("spaces") of herdr that bermuda uses, and the threads that *)
(* belong to them: the one space bermuda owns (runner.EnsureWorkspace),    *)
(* the room of a flow run (openFlowSpace, closeFlowSpace, parkFlowSpace),  *)
(* the thread of a space (EnsureWorkspaceThread), and the daemon's sweep   *)
(* that opens a thread per space and closes those whose space is gone.     *)
(*                                                                         *)
(* Herdr hands its ids out again after a restart.  Everybody else, people  *)
(* and programs, opens and closes spaces at any time.  The words of posts  *)
(* and labels are left out: a label is what it is compared for.            *)
(***************************************************************************)
EXTENDS Integers, FiniteSets, Sequences

CONSTANTS
    SpaceIds,       \* the ids herdr hands out, in one life each at most once
    Makers,         \* processes that want bermuda's own space: the daemon's runs, the board
    Askers,         \* agents that want the thread of the space they are in
    NoSpace,
    Trouble,        \* what may fail: "record" "get" "create" "rename" "panes" "tab" "die"
    MaxRestarts,    \* bound: restarts of herdr
    MaxLost,        \* bound: times bermuda loses sight of its own space
    MaxThreads      \* bound: threads ever made

ASSUME SpacesAssumption ==
    /\ NoSpace \notin SpaceIds /\ "sweep" \notin Askers /\ "flow" \notin Askers
    /\ MaxRestarts \in Nat /\ MaxLost \in Nat /\ MaxThreads \in Nat

VARIABLES
    space,      \* per id: kind, the tabs that matter, whether the name carries a verdict
    handed,     \* the ids this life of herdr has handed out
    restarts,
    record,     \* workspace.json: the id of the space bermuda owns
    guard,      \* who has workspace.lock
    maker,      \* per maker: where in EnsureWorkspace, what it got, in this life of herdr
    lost,       \* times bermuda's own space went out of its sight
    threads,    \* the threads table, in the order of their making
    asking,     \* per asker: where in EnsureWorkspaceThread
    sweep,      \* the daemon in syncWorkspaceThreads
    room        \* the flow run: its row, and what its process remembers

spaceVars == <<space, handed, restarts, record, guard, maker, lost, threads, asking, sweep, room>>
herdrVars == <<space, handed, restarts>>
makerVars == <<record, guard, maker, lost>>

Closed == [kind |-> "gone", tabs |-> {}, verdict |-> FALSE]
Opened(kind) == [kind |-> kind, tabs |-> {"root"}, verdict |-> FALSE]
IsOpen(s) == s \in SpaceIds /\ space[s].kind # "gone"
Unhanded == SpaceIds \ handed

\* What a thread id is derived from: rooms have random names, others may share one.
LabelOf(s) == IF space[s].kind = "room" THEN <<"room", s, restarts>> ELSE <<space[s].kind, NoSpace, 0>>

Resting == [at |-> "rest", of |-> NoSpace, label |-> <<"gone", NoSpace, 0>>, bare |-> FALSE]
NoRoom == [at |-> "idle", outcome |-> "new", rowSpace |-> NoSpace, rowThread |-> 0,
           space |-> NoSpace, thread |-> 0, root |-> FALSE, rough |-> FALSE]
NoSweep == [at |-> "idle", live |-> {}, todo |-> {}, open |-> {}]

SpacesInit ==
    /\ space = [s \in SpaceIds |-> Closed] /\ handed = {} /\ restarts = 0
    /\ record = NoSpace /\ guard = {} /\ lost = 0
    /\ maker = [m \in Makers |-> [at |-> "idle", got |-> NoSpace, fresh |-> TRUE]]
    /\ threads = <<>> /\ asking = [x \in Askers \cup {"sweep", "flow"} |-> Resting]
    /\ sweep = NoSweep /\ room = NoRoom

-----------------------------------------------------------------------------
(* EnsureWorkspace. *)

\* ownedWorkspace without the look at the label herdr gives the id now.
OwnedVariant == record # NoSpace /\ IsOpen(record)

\* ownedWorkspace: the recorded space is there, under bermuda's name.
Owned == record # NoSpace /\ space[record].kind = "bermuda"

Goes(m, at, got) == maker' = [maker EXCEPT ![m] = [at |-> at, got |-> got, fresh |-> TRUE]]

LookForOwn(m) ==
    /\ maker[m].at = "idle"
    /\ \/ Owned /\ Goes(m, "got", record)
       \/ ~Owned /\ Goes(m, "waiting", NoSpace)
    /\ UNCHANGED <<herdrVars, record, guard, lost, threads, asking, sweep, room>>

LockOwn(m) ==
    /\ maker[m].at = "waiting" /\ guard = {}
    /\ guard' = {m}
    /\ Goes(m, "locked", NoSpace)
    /\ UNCHANGED <<herdrVars, record, lost, threads, asking, sweep, room>>

\* Three seconds are over: the holder's space if it is there by now, or an error.
LockTimesOut(m) ==
    /\ maker[m].at = "waiting" /\ guard # {}
    /\ IF Owned THEN Goes(m, "got", record) ELSE Goes(m, "idle", NoSpace)
    /\ UNCHANGED <<herdrVars, record, guard, lost, threads, asking, sweep, room>>

\* The second look, under the lock; herdr may not answer it.
LookAgain(m) ==
    /\ maker[m].at = "locked"
    /\ \/ Owned /\ Goes(m, "got", record) /\ guard' = guard \ {m} /\ UNCHANGED lost
       \/ ~Owned /\ Goes(m, "creating", NoSpace) /\ UNCHANGED <<guard, lost>>
       \/ /\ Owned /\ "get" \in Trouble /\ lost < MaxLost
          /\ Goes(m, "creating", NoSpace) /\ lost' = lost + 1 /\ UNCHANGED guard
    /\ UNCHANGED <<herdrVars, record, threads, asking, sweep, room>>

CreateOwn(m) ==
    /\ maker[m].at = "creating"
    /\ \/ \E s \in Unhanded :
              /\ space' = [space EXCEPT ![s] = Opened("bermuda")]
              /\ handed' = handed \cup {s}
              /\ maker' = [maker EXCEPT ![m].at = "created", ![m].got = s, ![m].fresh = TRUE]
              /\ UNCHANGED guard
       \/ /\ "create" \in Trouble \/ Unhanded = {}
          /\ Goes(m, "idle", NoSpace)
          /\ guard' = guard \ {m}
          /\ UNCHANGED <<space, handed>>
    /\ UNCHANGED <<restarts, record, lost, threads, asking, sweep, room>>

\* writeWorkspaceRecord; when it fails the space is used all the same.
RecordOwn(m) ==
    /\ maker[m].at = "created"
    /\ \/ record' = maker[m].got /\ UNCHANGED lost
       \/ "record" \in Trouble /\ lost < MaxLost /\ lost' = lost + 1 /\ UNCHANGED record
    /\ maker' = [maker EXCEPT ![m].at = "got"]
    /\ guard' = guard \ {m}
    /\ UNCHANGED <<herdrVars, threads, asking, sweep, room>>

\* The run's tab, or the board's, is opened in the space it got.
UseOwn(m) ==
    /\ maker[m].at = "got"
    /\ space' = IF IsOpen(maker[m].got) THEN [space EXCEPT ![maker[m].got].tabs = @ \cup {"work"}]
                ELSE space
    /\ Goes(m, "idle", NoSpace)
    /\ UNCHANGED <<handed, restarts, record, guard, lost, threads, asking, sweep, room>>

\* The process dies, and the kernel drops its lock.
MakerDies(m) ==
    /\ "die" \in Trouble /\ maker[m].at # "idle"
    /\ maker[m].at = "created" => lost < MaxLost
    /\ lost' = IF maker[m].at = "created" THEN lost + 1 ELSE lost
    /\ guard' = guard \ {m}
    /\ Goes(m, "idle", NoSpace)
    /\ UNCHANGED <<herdrVars, record, threads, asking, sweep, room>>

-----------------------------------------------------------------------------
(* EnsureWorkspaceThread: a lookup, a name, an insert that a taken name refuses. *)

ThreadsOf(s) == {t \in DOMAIN threads : threads[t].of = s /\ threads[t].open}
Taken(label) == \E t \in DOMAIN threads : threads[t].bare /\ threads[t].label = label

\* The first thing each asker does; hit is what it does with a thread it finds.
AskLook(x, s, label, hit(_)) ==
    /\ asking[x].at = "rest"
    /\ \/ \E t \in ThreadsOf(s) : hit(t) /\ UNCHANGED asking
       \/ /\ ThreadsOf(s) = {} /\ hit(0)
          /\ asking' = [asking EXCEPT ![x] = [at |-> "missed", of |-> s, label |-> label, bare |-> FALSE]]
    /\ UNCHANGED threads

\* workspaceThreadID: the bare slug if no thread, open or closed, has it.
AskName(x) ==
    /\ asking[x].at = "missed"
    /\ asking' = [asking EXCEPT ![x].at = "named", ![x].bare = ~Taken(asking[x].label)]
    /\ UNCHANGED <<herdrVars, makerVars, threads, sweep, room>>

\* INSERT OR IGNORE; on a conflict the winner's thread, or another name.
AskInsert(x, hit(_)) ==
    /\ asking[x].at = "named"
    /\ IF asking[x].bare /\ Taken(asking[x].label)
       THEN /\ \/ \E t \in ThreadsOf(asking[x].of) :
                      hit(t) /\ asking' = [asking EXCEPT ![x] = Resting]
               \/ /\ ThreadsOf(asking[x].of) = {} /\ hit(0)
                  /\ asking' = [asking EXCEPT ![x].bare = FALSE]
            /\ UNCHANGED threads
       ELSE /\ Len(threads) < MaxThreads
            /\ threads' = Append(threads, [of |-> asking[x].of, label |-> asking[x].label,
                                           bare |-> asking[x].bare, open |-> TRUE, lease |-> "none"])
            /\ hit(Len(threads'))
            /\ asking' = [asking EXCEPT ![x] = Resting]

\* The thread cannot be named; a full table stands for the store's refusals.  Nobody insists:
\* an agent posts to the global thread, the sweep goes on, and the run has no thread.
AskFails(x) ==
    /\ asking[x].at = "named" /\ Len(threads) = MaxThreads
    /\ asking' = [asking EXCEPT ![x] = Resting]
    /\ room' = IF x = "flow" THEN [room EXCEPT !.thread = 0, !.at = "put"] ELSE room
    /\ UNCHANGED <<herdrVars, makerVars, threads, sweep>>

\* CloseThread: refused while a lease taken from the thread is running.
CloseThreadOf(t) == IF t \in DOMAIN threads /\ threads[t].lease # "held"
                    THEN [threads EXCEPT ![t].open = FALSE] ELSE threads

\* An agent's pane is in space s: its first post asks for the thread.
AskerAsks(x, s) ==
    /\ x \in Askers /\ IsOpen(s)
    /\ ThreadsOf(s) = {}
    /\ AskLook(x, s, LabelOf(s), LAMBDA t : TRUE)
    /\ UNCHANGED <<herdrVars, makerVars, sweep, room>>

AgentInserts(x) ==
    /\ x \in Askers
    /\ AskInsert(x, LAMBDA t : TRUE)
    /\ UNCHANGED <<herdrVars, makerVars, sweep, room>>

\* Bound: one lease per thread.
AgentTakesLease(t) ==
    /\ threads[t].lease = "none" /\ threads[t].open
    /\ threads' = [threads EXCEPT ![t].lease = "held"]
    /\ UNCHANGED <<herdrVars, makerVars, asking, sweep, room>>

LeaseEnds(t) ==
    /\ threads[t].lease = "held"
    /\ threads' = [threads EXCEPT ![t].lease = "over"]
    /\ UNCHANGED <<herdrVars, makerVars, asking, sweep, room>>

-----------------------------------------------------------------------------
(* syncWorkspaceThreads, and CloseVanishedWorkspaces. *)

Listed == {s \in SpaceIds : IsOpen(s)}

SweepLists ==
    /\ sweep.at = "idle" /\ Listed # {}
    /\ sweep' = [at |-> "opening", live |-> Listed, todo |-> Listed, open |-> {}]
    /\ UNCHANGED <<herdrVars, makerVars, threads, asking, room>>

SweepOpens(s) ==
    /\ sweep.at = "opening" /\ s \in sweep.todo
    /\ AskLook("sweep", s, LabelOf(s), LAMBDA t : TRUE)
    /\ sweep' = [sweep EXCEPT !.todo = @ \ {s}]
    /\ UNCHANGED <<herdrVars, makerVars, room>>

SweepInserts ==
    /\ AskInsert("sweep", LAMBDA t : TRUE)
    /\ UNCHANGED <<herdrVars, makerVars, sweep, room>>

\* A thread counts as in use once a lease was ever taken from it.
SweepReadsVariant ==
    /\ sweep.at = "opening" /\ sweep.todo = {} /\ asking["sweep"].at = "rest"
    /\ sweep' = [sweep EXCEPT !.at = "closing", !.open = {t \in DOMAIN threads :
                     threads[t].open /\ threads[t].of \notin sweep.live /\ threads[t].lease = "none"}]
    /\ UNCHANGED <<herdrVars, makerVars, threads, asking, room>>

\* The open threads are read after the spaces were, and after theirs were opened.
SweepReads ==
    /\ sweep.at = "opening" /\ sweep.todo = {} /\ asking["sweep"].at = "rest"
    /\ sweep' = [sweep EXCEPT !.at = "closing", !.open = {t \in DOMAIN threads :
                     threads[t].open /\ threads[t].of \notin sweep.live}]
    /\ UNCHANGED <<herdrVars, makerVars, threads, asking, room>>

SweepCloses(t) ==
    /\ sweep.at = "closing" /\ t \in sweep.open
    /\ threads' = CloseThreadOf(t)
    /\ sweep' = [sweep EXCEPT !.open = @ \ {t}]
    /\ UNCHANGED <<herdrVars, makerVars, asking, room>>

SweepEnds ==
    /\ \/ sweep.at = "closing" /\ sweep.open = {}
       \/ "die" \in Trouble /\ sweep.at # "idle"
    /\ sweep' = NoSweep
    /\ asking' = [asking EXCEPT !["sweep"] = Resting]
    /\ UNCHANGED <<herdrVars, makerVars, threads, room>>

-----------------------------------------------------------------------------
(* The room of a flow run. *)

RoomKeeps == UNCHANGED <<restarts, makerVars, sweep>>

\* The recorded space is reused by its id alone, without taking the verdict off its name.
OpenRoomAgainVariant ==
    /\ room.at = "idle" /\ room.outcome # "done" /\ IsOpen(room.rowSpace)
    /\ room' = [room EXCEPT !.at = IF room.rowThread = 0 THEN "asking" ELSE "put",
                            !.space = room.rowSpace, !.thread = room.rowThread, !.root = FALSE,
                            !.rough = FALSE]
    /\ UNCHANGED <<space, handed, threads, asking>> /\ RoomKeeps

\* openFlowSpace on a resume: the recorded space is there, under whatever name.
OpenRoomAgain ==
    /\ room.at = "idle" /\ room.outcome # "done" /\ IsOpen(room.rowSpace)
    /\ \E renamed \in {TRUE} \cup (IF "rename" \in Trouble THEN {FALSE} ELSE {}) :
           /\ space' = [space EXCEPT ![room.rowSpace].verdict = @ /\ ~renamed]
           /\ room' = [room EXCEPT !.at = IF room.rowThread = 0 THEN "asking" ELSE "put",
                                   !.space = room.rowSpace, !.thread = room.rowThread, !.root = FALSE,
                                   !.rough = ~renamed]
    /\ UNCHANGED <<handed, threads, asking>> /\ RoomKeeps

\* openFlowSpace with no space recorded, or one that is gone.
OpenRoom ==
    /\ room.at = "idle" /\ room.outcome # "done" /\ ~IsOpen(room.rowSpace)
    /\ \/ \E s \in Unhanded :
              /\ space' = [space EXCEPT ![s] = Opened("room")]
              /\ handed' = handed \cup {s}
              /\ room' = [room EXCEPT !.at = "asking", !.space = s, !.thread = 0, !.root = TRUE, !.rough = FALSE]
       \/ /\ "create" \in Trouble \/ Unhanded = {}
          /\ room' = [room EXCEPT !.at = "put", !.space = NoSpace, !.thread = 0, !.root = FALSE, !.rough = FALSE]
          /\ UNCHANGED <<space, handed>>
    /\ UNCHANGED <<threads, asking>> /\ RoomKeeps

RoomHas(t) == room' = IF t = 0 THEN room ELSE [room EXCEPT !.thread = t, !.at = "put"]

RoomAsks ==
    /\ room.at = "asking"
    /\ AskLook("flow", room.space, LabelOf(room.space), RoomHas)
    /\ UNCHANGED <<space, handed>> /\ RoomKeeps

RoomInserts ==
    /\ room.at = "asking"
    /\ AskInsert("flow", RoomHas)
    /\ UNCHANGED <<space, handed>> /\ RoomKeeps

\* PutRun: the row names the space and the thread before the first step runs.
RoomRecorded ==
    /\ room.at = "put"
    /\ room' = [room EXCEPT !.at = "running", !.outcome = "running",
                            !.rowSpace = IF room.space = NoSpace THEN @ ELSE room.space,
                            !.rowThread = IF room.space = NoSpace THEN @ ELSE room.thread]
    /\ UNCHANGED <<space, handed, threads, asking>> /\ RoomKeeps

\* An agent step opens a tab in the room and leaves it there when it fails.
StepOpensTab ==
    /\ room.at = "running" /\ IsOpen(room.space) /\ "work" \notin space[room.space].tabs
    /\ space' = [space EXCEPT ![room.space].tabs = @ \cup {"work"}]
    /\ UNCHANGED <<handed, threads, asking, room>> /\ RoomKeeps

\* Execute returned and the row has the outcome; done closes the thread first.
RunOver ==
    /\ room.at = "running"
    /\ \E outcome \in {"done", "parked"} :
           /\ room' = [room EXCEPT !.outcome = outcome,
                                   !.at = IF room.space = NoSpace THEN "idle"
                                          ELSE IF outcome = "done" THEN "closing" ELSE "renaming"]
           /\ threads' = IF outcome = "done" THEN CloseThreadOf(room.thread) ELSE threads
    /\ UNCHANGED <<space, handed, asking>> /\ RoomKeeps

CloseRoom ==
    /\ room.at = "closing"
    /\ space' = IF IsOpen(room.space) THEN [space EXCEPT ![room.space] = Closed] ELSE space
    /\ room' = [room EXCEPT !.at = "idle"]
    /\ UNCHANGED <<handed, threads, asking>> /\ RoomKeeps

\* parkFlowSpace: the verdict goes into the name ...
ParkNames ==
    /\ room.at = "renaming"
    /\ \/ /\ IsOpen(room.space)
          /\ space' = [space EXCEPT ![room.space].verdict = TRUE]
          /\ room' = [room EXCEPT !.at = "showing"]
       \/ /\ "rename" \in Trouble \/ ~IsOpen(room.space)
          /\ room' = [room EXCEPT !.at = "showing", !.rough = TRUE]
          /\ UNCHANGED space
    /\ UNCHANGED <<handed, threads, asking>> /\ RoomKeeps

\* ... one tab lands on the run's directory, unless one is there already ...
ParkShows ==
    /\ room.at = "showing"
    /\ \/ /\ IsOpen(room.space)
          /\ space' = [space EXCEPT ![room.space].tabs = @ \cup {"run"}]
          /\ room' = [room EXCEPT !.at = "reaping"]
       \/ /\ "tab" \in Trouble \/ ~IsOpen(room.space)
          /\ room' = [room EXCEPT !.at = "reaping", !.rough = TRUE]
          /\ UNCHANGED space
    /\ UNCHANGED <<handed, threads, asking>> /\ RoomKeeps

\* ... and reapRootTab takes the empty tab, if it knows it and the room has another.
ParkReaps ==
    /\ room.at = "reaping"
    /\ \/ /\ room.root /\ IsOpen(room.space) /\ space[room.space].tabs \ {"root"} # {}
          /\ space' = [space EXCEPT ![room.space].tabs = @ \ {"root"}]
          /\ room' = [room EXCEPT !.at = "idle"]
       \/ /\ ~room.root \/ ~IsOpen(room.space) \/ space[room.space].tabs = {"root"} \/ "panes" \in Trouble
          /\ room' = [room EXCEPT !.at = "idle", !.rough = @ \/ "panes" \in Trouble]
          /\ UNCHANGED space
    /\ UNCHANGED <<handed, threads, asking>> /\ RoomKeeps

\* The process dies; the row is found again by a reconcile, which parks it.
FlowDies ==
    /\ "die" \in Trouble /\ room.at # "idle"
    /\ room' = [room EXCEPT !.at = "idle", !.outcome = IF @ = "running" THEN "parked" ELSE @, !.rough = TRUE]
    /\ asking' = [asking EXCEPT !["flow"] = Resting]
    /\ UNCHANGED <<space, handed, threads>> /\ RoomKeeps

-----------------------------------------------------------------------------
(* Herdr, and the others who use it. *)

OpenByHand(s) ==
    /\ s \in Unhanded
    /\ space' = [space EXCEPT ![s] = Opened("other")]
    /\ handed' = handed \cup {s}
    /\ UNCHANGED <<restarts, makerVars, threads, asking, sweep, room>>

CloseByHand(s) ==
    /\ IsOpen(s)
    /\ space' = [space EXCEPT ![s] = Closed]
    /\ UNCHANGED <<handed, restarts, makerVars, threads, asking, sweep, room>>

HerdrRestarts ==
    /\ restarts < MaxRestarts
    /\ restarts' = restarts + 1
    /\ space' = [s \in SpaceIds |-> Closed] /\ handed' = {}
    /\ maker' = [m \in Makers |-> [maker[m] EXCEPT !.fresh = FALSE]]
    /\ UNCHANGED <<record, guard, lost, threads, asking, sweep, room>>

MakerStep(m) ==
    \/ LookForOwn(m) \/ LockOwn(m) \/ LockTimesOut(m) \/ LookAgain(m) \/ CreateOwn(m)
    \/ RecordOwn(m) \/ UseOwn(m) \/ MakerDies(m)
SweepStep ==
    \/ SweepLists \/ SweepInserts \/ SweepReads \/ SweepEnds
    \/ \E s \in SpaceIds : SweepOpens(s)
    \/ \E t \in DOMAIN threads : SweepCloses(t)
RoomStep ==
    \/ OpenRoomAgain \/ OpenRoom \/ RoomAsks \/ RoomInserts \/ RoomRecorded \/ StepOpensTab
    \/ RunOver \/ CloseRoom \/ ParkNames \/ ParkShows \/ ParkReaps \/ FlowDies

AskersStep ==
    \/ \E x \in DOMAIN asking : AskName(x) \/ AskFails(x) \/ AgentInserts(x)
                               \/ \E s \in SpaceIds : AskerAsks(x, s)
    \/ \E t \in DOMAIN threads : AgentTakesLease(t) \/ LeaseEnds(t)
HerdrStep ==
    \/ \E s \in SpaceIds : OpenByHand(s) \/ CloseByHand(s)
    \/ HerdrRestarts

\* The parts that a run may look at by themselves: bermuda's own space, the room of a flow
\* run, and the threads of spaces.
OwnNext == HerdrStep \/ \E m \in Makers : MakerStep(m)
RoomNext == HerdrStep \/ RoomStep \/ AskName("flow") \/ AskFails("flow")
ThreadsNext == HerdrStep \/ SweepStep \/ AskersStep

SpacesNext == OwnNext \/ RoomNext \/ ThreadsNext

SpacesSpec == SpacesInit /\ [][SpacesNext]_spaceVars
SpacesFairSpec ==
    /\ SpacesSpec
    /\ WF_spaceVars(SweepLists) /\ WF_spaceVars(SweepReads) /\ WF_spaceVars(SweepEnds)
    /\ WF_spaceVars(AskName("sweep")) /\ WF_spaceVars(AskFails("sweep")) /\ WF_spaceVars(SweepInserts)
    /\ WF_spaceVars(\E s \in SpaceIds : SweepOpens(s))
    /\ WF_spaceVars(\E t \in DOMAIN threads : SweepCloses(t))
    /\ WF_spaceVars(\E t \in DOMAIN threads : LeaseEnds(t))

-----------------------------------------------------------------------------
(* Properties. *)

\* Every variable has its type, and no space is left open without a tab.
SpacesTypeOK ==
    /\ space \in [SpaceIds -> [kind : {"gone", "bermuda", "room", "other"},
                               tabs : SUBSET {"root", "work", "run"}, verdict : BOOLEAN]]
    /\ \A s \in SpaceIds : IsOpen(s) => space[s].tabs # {}
    /\ handed \subseteq SpaceIds /\ restarts \in 0..MaxRestarts
    /\ record \in SpaceIds \cup {NoSpace} /\ guard \subseteq Makers /\ lost \in 0..MaxLost
    /\ Len(threads) <= MaxThreads
    /\ room.rowThread <= Len(threads) /\ room.thread <= Len(threads)
    /\ sweep.todo \subseteq sweep.live /\ sweep.live \subseteq SpaceIds

\* However many processes want the space at once, bermuda has one space of its own, and one
\* more for each time it lost sight of it: a record that was not written, an unanswered look.
OneBermudaSpace == Cardinality({s \in SpaceIds : space[s].kind = "bermuda"}) <= 1 + lost

\* EnsureWorkspace never returns a space bermuda did not create, also when herdr handed the
\* recorded id out again to somebody else, unless herdr restarts after the look.
NeverAdopts == \A m \in Makers :
    (maker[m].at = "got" /\ maker[m].fresh) => space[maker[m].got].kind \in {"bermuda", "gone"}

\* EnsureWorkspace: the one space bermuda makes for itself is its own and stays the only one.
OwnSpaceIsOwn == SpacesTypeOK /\ OneBermudaSpace /\ NeverAdopts

\* A room that holds a parked run says so and has more than the empty tab it was made with,
\* whatever the run did in it and however often it was resumed, if herdr did what it was asked.
ParkedRoomIsLegible ==
    (room.at = "idle" /\ room.outcome = "parked" /\ ~room.rough /\ IsOpen(room.rowSpace)
        /\ space[room.rowSpace].kind = "room" /\ room.space = room.rowSpace)
    => space[room.rowSpace].verdict /\ "run" \in space[room.rowSpace].tabs

\* While the run goes on, its room does not carry the verdict of an earlier park.
RunningRoomIsUnmarked ==
    (room.at = "running" /\ ~room.rough /\ room.space # NoSpace) => ~space[room.space].verdict

\* parkFlowSpace and openFlowSpace: the name and the tabs of a room tell what became of the
\* run in it, over any number of parks and resumes.
RoomSaysWhatItIs == ParkedRoomIsLegible /\ RunningRoomIsUnmarked

\* A flow run that finishes closes its own room and never a space somebody else opened.
OthersStayOpen ==
    [][(room.at = "closing" /\ room'.at = "idle") =>
           \A s \in SpaceIds : space[s].kind = "other" => space'[s] = space[s]]_spaceVars

\* However the agents of a space race for its thread, they end up in one conversation.
OneThreadPerSpace == \A t, u \in DOMAIN threads :
    (threads[t].open /\ threads[u].open /\ threads[t].of = threads[u].of) => t = u

\* The sweep closes no thread whose space is open.
LiveThreadsStayOpen ==
    [][\A t \in DOMAIN threads :
          (sweep.at = "closing" /\ threads[t].open /\ ~threads'[t].open) => ~IsOpen(threads[t].of)]_spaceVars

\* The thread of a space that is gone is closed in the end, a lease on it or not, as long as
\* herdr reports any space at all.
VanishedThreadsClose == \A t \in 1..MaxThreads :
    (t \in DOMAIN threads /\ threads[t].open /\ ~IsOpen(threads[t].of))
        ~> (Listed = {} \/ (t \in DOMAIN threads /\ (~threads[t].open \/ IsOpen(threads[t].of))))
=============================================================================
