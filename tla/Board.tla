------------------------------- MODULE Board -------------------------------
(***************************************************************************)
(* The terminal board (src/internal/board): one event loop that handles    *)
(* keys and messages, and commands that run beside it on goroutines of     *)
(* their own, read or write the store, and come back as a message at any   *)
(* later time and in any order.                                            *)
(*                                                                         *)
(* JobsNext is the JOBS list with its job detail, editor and prune box;    *)
(* TalkNext is the THREADS view with its chooser and its compose box;      *)
(* MarqueeNext is the tick that scrolls long text.                         *)
(*                                                                         *)
(* A job row is abstracted to four facts: which edit of it this is, whether*)
(* it is enabled, whether it is pinned, and whether it is a one-shot whose *)
(* last run ended in "done".  The other programs that write the same store *)
(* (the scheduler, the CLI) are Others; their writes and the person's keys *)
(* are bounded by MaxOthers and MaxKeys (in a conversation MaxTalkKeys),   *)
(* the refresh timer by MaxTicks.                                          *)
(***************************************************************************)
EXTENDS Integers, Sequences, FiniteSets, SequencesExt

CONSTANTS JobOrder,    \* every job id there may be, in order of creation
          NoJob,       \* no row, no detail, no editor
          MaxKeys, MaxTalkKeys, MaxOthers, MaxTicks,
          ReadsPerTick,\* what RefreshStaysCheap allows between two events
          TalkIds,     \* the conversations
          GlobalTalk,  \* the one that cannot be removed
          NoTalk

ASSUME BoardAssumption ==
    /\ NoJob \notin Range(JobOrder) /\ JobOrder \in Seq(Range(JobOrder))
    /\ GlobalTalk \in TalkIds /\ NoTalk \notin TalkIds
    /\ {MaxKeys, MaxTalkKeys, MaxOthers, MaxTicks, ReadsPerTick} \subseteq Nat

VARIABLES
    rows,      \* the store: job id -> row, or NoJob
    list,      \* m.jobs: the rows as the last read found them
    at,        \* m.cursor, 1-based here
    detail,    \* m.detail: NoJob or the open row
    editor,    \* m.editor: NoJob or [row, new], the copy being edited
    doomed,    \* m.prune: the ids in the open box, {} when closed
    finished,  \* m.showFinished
    running,   \* m.running
    flight,    \* commands under way and messages not yet delivered
    keysLeft, othersLeft, ticksLeft,
    reads,     \* history: store reads since the last key or tick
    left,      \* history: the job whose detail the person closed, else NoJob
    agreed     \* history: the ids the person said yes to

rowVars == <<rows, list, at, detail, editor, doomed, finished, running, flight,
              keysLeft, othersLeft, ticksLeft, reads, left, agreed>>

VARIABLES
    talks,     \* the store: the conversations there are
    reading,       \* m.threadID
    log,       \* m.thread: whose messages are on screen, NoTalk when none
    known,     \* m.threads, in the order threadOrder draws them
    picker,    \* m.picker's cursor, 0 when closed
    box,       \* m.compose: the conversation the person was told it writes to,
               \* by the box and by the status line after it; NoTalk when closed
    talkFlight,\* reads and posts under way
    talkKeys, talkOthers, talkTicks,
    posted     \* history: where each post went and where its box said it would

talkVars == <<talks, reading, log, known, picker, box, talkFlight, talkKeys,
              talkOthers, talkTicks, posted>>

VARIABLES
    scrolling, \* the last frame drew text too long for its column
    marqueeOn,
    marqueeTicks \* ticks on their way

marqueeVars == <<scrolling, marqueeOn, marqueeTicks>>

----------------------------------------------------------------------------
\* The JOBS list.

Present(st) == {j \in Range(JobOrder) : st[j] # NoJob}

\* What a sequence has at some of its places, in order.
Kth(places, k) == CHOOSE i \in places : Cardinality({j \in places : j < i}) = k - 1
InPlaces(seq, places) == [k \in 1..Cardinality(places) |-> seq[Kth(places, k)]]

\* Store.Jobs: favourites first, then by creation.
StoreJobs(st) ==
    LET there(pin) == {i \in DOMAIN JobOrder : JobOrder[i] \in Present(st) /\ st[JobOrder[i]].pin = pin}
        ids == InPlaces(JobOrder, there(TRUE)) \o InPlaces(JobOrder, there(FALSE))
    IN [i \in DOMAIN ids |-> st[ids[i]]]

NewRow(j) == [id |-> j, edit |-> 0, on |-> TRUE, pin |-> FALSE, over |-> FALSE]

visibleJobs(l, all) == InPlaces(l, {i \in DOMAIN l : all \/ ~l[i].over})

clampCursor(n, size) == IF size = 0 THEN 1 ELSE IF n > size THEN size
                                          ELSE IF n < 1 THEN 1 ELSE n

selectedJob ==
    IF detail # NoJob THEN detail
    ELSE IF at <= Len(visibleJobs(list, finished))
         THEN visibleJobs(list, finished)[at] ELSE NoJob

\* A command, and the message it comes back as, share a shape.
Cmd(do, job, row, rest, flag) ==
    [do |-> do, job |-> job, row |-> row, rest |-> rest, flag |-> flag]
Say(do, j) == Cmd(do, j, NoJob, <<>>, FALSE)

loadCmd == {Say("load", NoJob)}
refreshDetail == IF detail = NoJob THEN {} ELSE {Say("refresh", detail.id)}

Spawn(set) == flight' = flight \cup set

RowsInit ==
    /\ rows \in {[j \in Range(JobOrder) |-> NewRow(j)],
                 [j \in Range(JobOrder) |-> IF j = JobOrder[1]
                     THEN [NewRow(j) EXCEPT !.on = FALSE, !.over = TRUE] ELSE NewRow(j)]}
    /\ list = <<>> /\ at = 1 /\ detail = NoJob /\ editor = NoJob
    /\ doomed = {} /\ finished = FALSE /\ running = {}
    /\ flight = loadCmd
    /\ keysLeft = MaxKeys /\ othersLeft = MaxOthers /\ ticksLeft = MaxTicks
    /\ reads = 0 /\ left = NoJob /\ agreed = {}

------------------------------------------------------------------------------
\* Keys.  handleKey gives each to the deepest open view.

AKey == keysLeft > 0 /\ keysLeft' = keysLeft - 1 /\ reads' = 0
Below == UNCHANGED <<rows, othersLeft, ticksLeft>>

InPrune == doomed # {}
InEditor == ~InPrune /\ editor # NoJob
InDetail == ~InPrune /\ editor = NoJob /\ detail # NoJob
InList == ~InPrune /\ editor = NoJob /\ detail = NoJob
OnAJob == (InDetail \/ InList) /\ selectedJob # NoJob

KeyMove ==
    /\ InList /\ AKey /\ Below
    /\ \E d \in {-1, 1} : at' = clampCursor(at + d, Len(visibleJobs(list, finished)))
    /\ UNCHANGED <<list, detail, editor, doomed, finished, running, flight, left, agreed>>

KeyOpen ==
    /\ InList /\ OnAJob /\ AKey /\ Below
    /\ Spawn({Say("open", selectedJob.id)})
    /\ UNCHANGED <<list, at, detail, editor, doomed, finished, running, left, agreed>>

KeyClose ==
    /\ InDetail /\ AKey /\ Below
    /\ detail' = NoJob /\ at' = 1 /\ left' = detail.id
    /\ Spawn(loadCmd)
    /\ UNCHANGED <<list, editor, doomed, finished, running, agreed>>

KeyEdit ==
    /\ OnAJob /\ AKey /\ Below
    /\ editor' = [row |-> selectedJob, new |-> FALSE]
    /\ UNCHANGED <<list, at, detail, doomed, finished, running, flight, left, agreed>>

\* openNewJob; the id is what the typed name slugs to.
KeyNew ==
    /\ InList /\ AKey /\ Below
    /\ \E j \in Range(JobOrder) : editor' = [row |-> NewRow(j), new |-> TRUE]
    /\ UNCHANGED <<list, at, detail, doomed, finished, running, flight, left, agreed>>

\* ctrl+s: the form's copy goes out, with one field changed on the way.
KeySave ==
    /\ InEditor /\ AKey /\ Below
    /\ Spawn({Cmd(IF editor.new THEN "check" ELSE "put", editor.row.id,
                  [editor.row EXCEPT !.edit = 1], <<>>, TRUE)})
    /\ UNCHANGED <<list, at, detail, editor, doomed, finished, running, left, agreed>>

KeyAbandon ==
    /\ InEditor /\ AKey /\ Below
    /\ editor' = NoJob /\ Spawn(loadCmd)
    /\ UNCHANGED <<list, at, detail, doomed, finished, running, left, agreed>>

\* Variant: R does not look at m.running.
MayRunVariant(j) == TRUE
MayRun(j) == j \notin running

KeyRun ==
    /\ OnAJob /\ AKey /\ Below
    /\ LET j == selectedJob.id IN
       IF MayRun(j) THEN /\ running' = running \cup {j}
                         /\ Spawn({Cmd("run", j, [NewRow(j) EXCEPT !.edit = keysLeft], <<>>, FALSE)})
       ELSE Spawn({Say("action", NoJob)}) /\ UNCHANGED running
    /\ UNCHANGED <<list, at, detail, editor, doomed, finished, left, agreed>>

KeyDelete ==
    /\ OnAJob /\ AKey /\ Below
    /\ Spawn({Cmd("delete", selectedJob.id, NoJob, <<>>, detail # NoJob)})
    /\ UNCHANGED <<list, at, detail, editor, doomed, finished, running, left, agreed>>

\* toggleFavorite writes the whole row as the board last read it.
KeyPin ==
    /\ InList /\ OnAJob /\ AKey /\ Below
    /\ Spawn({Cmd("put", selectedJob.id, [selectedJob EXCEPT !.pin = ~@], <<>>, FALSE)})
    /\ UNCHANGED <<list, at, detail, editor, doomed, finished, running, left, agreed>>

KeyPause ==
    /\ OnAJob /\ AKey /\ Below
    /\ Spawn({Cmd("enable", selectedJob.id, NoJob, <<>>, ~selectedJob.on)})
    /\ UNCHANGED <<list, at, detail, editor, doomed, finished, running, left, agreed>>

KeyFinished ==
    /\ InList /\ AKey /\ Below
    /\ finished' = ~finished /\ at' = 1
    /\ UNCHANGED <<list, detail, editor, doomed, running, flight, left, agreed>>

OverIn(l) == {l[i].id : i \in {k \in DOMAIN l : l[k].over}}

KeyPrune ==
    /\ InList /\ AKey /\ Below
    /\ doomed' = OverIn(list)
    /\ UNCHANGED <<list, at, detail, editor, finished, running, flight, left, agreed>>

KeyPruneAnswer ==
    /\ InPrune /\ AKey /\ Below
    /\ doomed' = {}
    /\ \/ /\ agreed' = agreed \cup doomed
          /\ LET named == {i \in DOMAIN JobOrder : JobOrder[i] \in doomed}
             IN Spawn({Cmd("prune", NoJob, NoJob, InPlaces(JobOrder, named), FALSE)})
       \/ UNCHANGED <<agreed, flight>>
    /\ UNCHANGED <<list, at, detail, editor, finished, running, left>>

------------------------------------------------------------------------------
\* Commands: what a goroutine does to the store, and the message it becomes.

Becomes(c, ms) == flight' = (flight \ {c}) \cup ms
OnLoop == UNCHANGED <<list, at, detail, editor, doomed, finished, running,
                      keysLeft, othersLeft, ticksLeft, left, agreed>>

DoRead(c) ==
    /\ c.do \in {"load", "refresh", "open"} /\ OnLoop /\ UNCHANGED rows
    /\ reads' = IF reads > ReadsPerTick THEN reads ELSE reads + 1
    /\ Becomes(c, {CASE c.do = "load" -> Cmd("data", NoJob, NoJob, StoreJobs(rows), FALSE)
                     [] c.do = "refresh" /\ rows[c.job] # NoJob ->
                            Cmd("refreshed", c.job, rows[c.job], <<>>, FALSE)
                     [] c.do = "open" /\ rows[c.job] # NoJob ->
                            Cmd("opened", c.job, rows[c.job], <<>>, FALSE)
                     [] OTHER -> Say("action", NoJob)})

\* PutJob is an upsert: the row is made if it is not there.  A saved form
\* closes the editor, a pin reports itself.
DoPut(c) ==
    /\ c.do = "put" /\ OnLoop /\ UNCHANGED reads
    /\ rows' = [rows EXCEPT ![c.job] = c.row]
    /\ Becomes(c, {IF c.flag THEN Say("saved", c.job) ELSE Say("action", NoJob)})

\* A new job asks Exists first, and puts in a later statement.
DoCheck(c) ==
    /\ c.do = "check" /\ OnLoop /\ UNCHANGED <<rows, reads>>
    /\ Becomes(c, {IF rows[c.job] # NoJob THEN Say("failed", c.job)
                   ELSE [c EXCEPT !.do = "put"]})

DoEnable(c) ==
    /\ c.do = "enable" /\ OnLoop /\ UNCHANGED reads
    /\ rows' = IF rows[c.job] = NoJob THEN rows
               ELSE [rows EXCEPT ![c.job].on = c.flag]
    /\ Becomes(c, {Say("action", NoJob)})

DoDelete(c) ==
    /\ c.do = "delete" /\ OnLoop /\ UNCHANGED reads
    /\ rows' = [rows EXCEPT ![c.job] = NoJob]
    /\ Becomes(c, {IF rows[c.job] = NoJob THEN Say("action", NoJob)
                   ELSE Cmd("deleted", c.job, NoJob, <<>>, c.flag)})

\* confirmPrune deletes one job after another and stops at the first error.
DoPrune(c) ==
    /\ c.do = "prune" /\ OnLoop /\ UNCHANGED reads
    /\ IF c.rest = <<>> \/ rows[Head(c.rest)] = NoJob
       THEN UNCHANGED rows /\ Becomes(c, {Say("pruned", NoJob)})
       ELSE /\ rows' = [rows EXCEPT ![Head(c.rest)] = NoJob]
            /\ Becomes(c, {[c EXCEPT !.rest = Tail(@)]})

DoRun(c) ==
    /\ c.do = "run" /\ OnLoop /\ UNCHANGED <<rows, reads>>
    /\ Becomes(c, {[c EXCEPT !.do = "ran"]})

------------------------------------------------------------------------------
\* Messages: Update.

Heard(c, ms) ==
    /\ flight' = (flight \ {c}) \cup ms
    /\ UNCHANGED <<rows, doomed, finished, keysLeft, othersLeft, ticksLeft, reads, agreed>>

HearData(c) ==
    /\ c.do = "data" /\ Heard(c, {})
    /\ list' = c.rest
    /\ at' = IF detail # NoJob THEN at ELSE clampCursor(at, Len(visibleJobs(c.rest, finished)))
    /\ UNCHANGED <<detail, editor, running, left>>

HearOpened(c) ==
    /\ c.do = "opened" /\ Heard(c, {})
    /\ detail' = c.row /\ at' = 1 /\ left' = NoJob
    /\ UNCHANGED <<list, editor, running>>

\* detailRefreshMsg is applied whatever is open by then.
HearRefreshed(c) ==
    /\ c.do = "refreshed" /\ Heard(c, {})
    /\ detail' = c.row
    /\ UNCHANGED <<list, at, editor, running, left>>

HearAction(c) ==
    /\ c.do = "action" /\ Heard(c, loadCmd \cup refreshDetail)
    /\ UNCHANGED <<list, at, detail, editor, running, left>>

HearSaved(c) ==
    /\ c.do = "saved" /\ Heard(c, loadCmd \cup refreshDetail)
    /\ editor' = NoJob
    /\ UNCHANGED <<list, at, detail, running, left>>

HearFailed(c) ==
    /\ c.do = "failed" /\ Heard(c, {})
    /\ UNCHANGED <<list, at, detail, editor, running, left>>

HearDeleted(c) ==
    /\ c.do = "deleted" /\ Heard(c, loadCmd)
    /\ detail' = IF c.flag THEN NoJob ELSE detail
    /\ at' = IF c.flag THEN 1 ELSE at
    /\ UNCHANGED <<list, editor, running, left>>

HearPruned(c) ==
    /\ c.do = "pruned" /\ Heard(c, loadCmd)
    /\ UNCHANGED <<list, at, detail, editor, running, left>>

HearRan(c) ==
    /\ c.do = "ran" /\ Heard(c, refreshDetail)
    /\ running' = running \ {c.job}
    /\ UNCHANGED <<list, at, detail, editor, left>>

ScreenTick ==
    /\ ticksLeft > 0 /\ ticksLeft' = ticksLeft - 1 /\ reads' = 0
    /\ Spawn(loadCmd \cup refreshDetail)
    /\ UNCHANGED <<rows, list, at, detail, editor, doomed, finished, running,
                   keysLeft, othersLeft, left, agreed>>

\* checkReload saw a new binary: the board quits and execs it, and whatever
\* its goroutines were doing ends with the process.
Reload ==
    /\ ticksLeft > 0 /\ ticksLeft' = ticksLeft - 1
    /\ list' = <<>> /\ at' = 1 /\ detail' = NoJob /\ editor' = NoJob
    /\ doomed' = {} /\ finished' = FALSE /\ running' = {}
    /\ flight' = loadCmd /\ reads' = 0 /\ left' = NoJob
    /\ UNCHANGED <<rows, keysLeft, othersLeft, agreed>>

\* The CLI removes, adds, edits or re-arms a job; the scheduler finishes a
\* one-shot, which disables it.
Others ==
    /\ othersLeft > 0 /\ othersLeft' = othersLeft - 1
    /\ \E j \in Range(JobOrder) :
         IF rows[j] = NoJob THEN rows' = [rows EXCEPT ![j] = NewRow(j)]
         ELSE \/ rows' = [rows EXCEPT ![j] = NoJob]
              \/ rows' = [rows EXCEPT ![j].edit = 2]
              \/ rows' = [rows EXCEPT ![j].on = rows[j].over, ![j].over = ~@]
    /\ UNCHANGED <<list, at, detail, editor, doomed, finished, running, flight,
                   keysLeft, ticksLeft, reads, left, agreed>>

RowsNext ==
    \/ KeyMove \/ KeyOpen \/ KeyClose \/ KeyEdit \/ KeyNew \/ KeySave \/ KeyAbandon
    \/ KeyRun \/ KeyDelete \/ KeyPin \/ KeyPause \/ KeyFinished \/ KeyPrune
    \/ KeyPruneAnswer \/ ScreenTick \/ Reload \/ Others
    \/ \E c \in flight :
         \/ DoRead(c) \/ DoPut(c) \/ DoCheck(c) \/ DoEnable(c) \/ DoDelete(c)
         \/ DoPrune(c) \/ DoRun(c)
         \/ HearData(c) \/ HearOpened(c) \/ HearRefreshed(c) \/ HearAction(c)
         \/ HearSaved(c) \/ HearFailed(c) \/ HearDeleted(c) \/ HearPruned(c) \/ HearRan(c)

JobsBoardSpec == RowsInit /\ [][RowsNext]_rowVars

(***************************************************************************)
(* The properties of the JOBS list.                                        *)
(***************************************************************************)

\* The state the board may be in: every open view is one row, every command
\* is about a job there may be.
BoardTypeOK ==
    /\ Range(list) \subseteq [id : Range(JobOrder), edit : 0..2, on : BOOLEAN,
                              pin : BOOLEAN, over : BOOLEAN]
    /\ detail # NoJob => detail.id \in Range(JobOrder)
    /\ running \subseteq Range(JobOrder)
    /\ \A c \in flight : c.job \in Range(JobOrder) \cup {NoJob}
    /\ reads \in 0..(ReadsPerTick + 1) /\ at >= 1
    /\ doomed \cup agreed \subseteq Range(JobOrder)

\* board.go running: one launch of a job from this board at a time.  A job is
\* marked exactly while its run is out, whatever order the runs come back in.
RunningIsInFlight ==
    /\ \A c, d \in flight : {c.do, d.do} \subseteq {"run", "ran"} /\ c.job = d.job => c = d
    /\ running = {c.job : c \in {d \in flight : d.do \in {"run", "ran"}}}

\* selection.go: the cursor of an open list is on a row of what is drawn, or on
\* the first place of an empty one, however the list shrank under it.
CursorOnARow ==
    detail = NoJob =>
        at \in 1..(IF visibleJobs(list, finished) = <<>> THEN 1
                   ELSE Len(visibleJobs(list, finished)))

\* prune.go jobs: what the box named is what is deleted; a read that lands
\* while the box is open does not enlarge it.
PruneTakesTheNamed ==
    \A c \in flight : c.do = "prune" => Range(c.rest) \subseteq agreed

\* The job list is sound whatever comes back late: its shape, the runs it counts, the row
\* under the cursor and the jobs a prune may take.
JobListIsSound == BoardTypeOK /\ RunningIsInFlight /\ CursorOnARow /\ PruneTakesTheNamed

\* board.go refreshInterval: the board stays cheap to leave open.  Between two
\* ticks with no key pressed it reads the store a few times, not for ever.
\* (A detail whose job was removed elsewhere reads it again and again.)
RefreshStaysCheap == reads <= ReadsPerTick

\* board.go detailRefreshMsg, "only the data changes here": a detail the person
\* closed does not come back by itself.  (A refresh that was out brings it back.)
ClosedStaysClosed == [][\A c \in flight : HearRefreshed(c) => left # c.job]_rowVars

\* actions.go toggleFavorite: pinning a job changes its pin and nothing else,
\* and does not bring back one that was removed.  (The row it writes is the one
\* the last read found.)
PinChangesOnlyThePin ==
    [][\A c \in flight : c.do = "put" /\ ~c.flag /\ DoPut(c) =>
          /\ rows[c.job] # NoJob
          /\ rows'[c.job] = [rows[c.job] EXCEPT !.pin = c.row.pin]]_rowVars

\* edit.go: a form being edited is closed by its own save, its own job's.
\* (An earlier save that comes back late closes whichever form is open.)
SavesCloseTheirForm ==
    [][\A c \in flight : HearSaved(c) /\ editor # NoJob => editor.row.id = c.job]_rowVars

\* edit.go: "a new job must not overwrite an existing one".  (Exists and PutJob
\* are two statements, and another writer may come between them.)
NewJobOverwritesNothing ==
    [][\A c \in flight : DoPut(c) /\ editor # NoJob /\ editor.new /\ c.job = editor.row.id
          /\ c.flag => rows[c.job] = NoJob]_rowVars

(***************************************************************************)
(* The THREADS view.                                                       *)
(***************************************************************************)

TalkInit ==
    /\ talks \in {TalkIds, {GlobalTalk}}
    /\ reading \in TalkIds                \* $BERMUDA_THREAD may name one that is not there
    /\ log = NoTalk /\ known = <<>> /\ picker = 0 /\ box = NoTalk
    /\ talkFlight = {[do |-> "load", talk |-> reading, order |-> <<>>, from |-> NoTalk]}
    /\ talkKeys = MaxTalkKeys /\ talkOthers = MaxOthers /\ talkTicks = MaxTicks
    /\ posted = {}

TalkCmd(do, talk, order, from) == [do |-> do, talk |-> talk, order |-> order, from |-> from]
Reread(talk) == {TalkCmd("load", talk, <<>>, NoTalk)}

TalkKey == talkKeys > 0 /\ talkKeys' = talkKeys - 1
TalkBelow == UNCHANGED <<talks, log, known, talkOthers, talkTicks, posted>>

\* handleThreadKey: the compose box owns the keyboard, then the chooser.
\* Variant: the thread's own keys are looked at first.
ThreadOwnsKeysVariant == TRUE
ThreadOwnsKeys == box = NoTalk /\ picker = 0

switchThread(id) ==
    /\ reading' = id
    /\ talkFlight' = IF id = reading THEN talkFlight ELSE talkFlight \cup Reread(id)

clampPicker(n) == IF n < 1 \/ known = <<>> THEN 1 ELSE IF n > Len(known) THEN Len(known) ELSE n

IndexIn(seq, id) == IF \E i \in DOMAIN seq : seq[i] = id
                    THEN CHOOSE i \in DOMAIN seq : seq[i] = id ELSE 1

StepThread ==
    /\ ThreadOwnsKeys /\ TalkKey /\ TalkBelow
    /\ \E d \in {-1, 1} : /\ IndexIn(known, reading) + d \in DOMAIN known
                          /\ switchThread(known[IndexIn(known, reading) + d])
    /\ UNCHANGED <<picker, box>>

OpenPicker ==
    /\ ThreadOwnsKeys /\ TalkKey /\ TalkBelow
    /\ picker' = IndexIn(known, reading)
    /\ UNCHANGED <<reading, box, talkFlight>>

PickerKey ==
    /\ box = NoTalk /\ picker # 0 /\ TalkKey /\ TalkBelow
    /\ \/ /\ \E d \in {-1, 1} : picker' = clampPicker(picker + d)
          /\ UNCHANGED <<reading, talkFlight>>
       \/ /\ picker' = 0
          /\ \/ UNCHANGED <<reading, talkFlight>>
             \/ known # <<>> /\ switchThread(known[clampPicker(picker)])
    /\ UNCHANGED box

OpenCompose ==
    /\ ThreadOwnsKeys /\ TalkKey /\ TalkBelow
    /\ box' = reading
    /\ UNCHANGED <<reading, picker, talkFlight>>

\* ctrl+s posts to the conversation on screen; esc drops the box.
ComposeKey ==
    /\ box # NoTalk /\ TalkKey /\ TalkBelow
    /\ box' = NoTalk
    /\ \/ UNCHANGED talkFlight
       \/ talkFlight' = talkFlight \cup {TalkCmd("post", reading, <<>>, box)}
    /\ UNCHANGED <<reading, picker>>

TalkLoop == UNCHANGED <<reading, log, known, picker, box, talkKeys, talkOthers, talkTicks>>

\* threadOrder: global first, the rest by how lately they were written in.
Orders(ids) == {<<GlobalTalk>> \o o : o \in {p \in [1..Cardinality(ids \ {GlobalTalk})
                 -> ids \ {GlobalTalk}] : Range(p) = ids \ {GlobalTalk}}}

DoTalkRead(c) ==
    /\ c.do = "load" /\ TalkLoop /\ UNCHANGED <<talks, posted>>
    /\ \E o \in Orders(talks) :
         talkFlight' = (talkFlight \ {c}) \cup {TalkCmd("data", c.talk, o, NoTalk)}

DoPost(c) ==
    /\ c.do = "post" /\ TalkLoop /\ UNCHANGED talks
    /\ posted' = IF c.talk \in talks THEN posted \cup {<<c.talk, c.from>>} ELSE posted
    /\ talkFlight' = (talkFlight \ {c}) \cup {TalkCmd("action", NoTalk, <<>>, NoTalk)}

\* fallBackFromAMissingThread, and whose messages the read may fill in.
\* Variant: a read that was out when the reader switched is drawn all the same.
DrawsVariant(talk) == TRUE
Draws(talk) == talk = reading

HearTalk(c) ==
    /\ c.do = "data" /\ UNCHANGED <<talks, picker, talkKeys, talkOthers, talkTicks, posted>>
    /\ known' = c.order
    /\ IF reading \in Range(c.order)
       THEN /\ log' = IF Draws(c.talk) THEN c.talk ELSE log
            /\ talkFlight' = talkFlight \ {c} /\ UNCHANGED <<reading, box>>
       ELSE /\ reading' = GlobalTalk /\ log' = NoTalk
            /\ box' = IF box = NoTalk THEN NoTalk ELSE GlobalTalk
            /\ talkFlight' = (talkFlight \ {c}) \cup Reread(GlobalTalk)

HearTalkAction(c) ==
    /\ c.do = "action" /\ TalkLoop /\ UNCHANGED <<talks, posted>>
    /\ talkFlight' = (talkFlight \ {c}) \cup Reread(reading)

TalkTick ==
    /\ talkTicks > 0 /\ talkTicks' = talkTicks - 1
    /\ talkFlight' = talkFlight \cup Reread(reading)
    /\ UNCHANGED <<talks, reading, log, known, picker, box, talkKeys, talkOthers, posted>>

\* `bermuda thread rm`, or a conversation made again under its name.
TalkOthers ==
    /\ talkOthers > 0 /\ talkOthers' = talkOthers - 1
    /\ \E t \in TalkIds \ {GlobalTalk} :
         talks' = IF t \in talks THEN talks \ {t} ELSE talks \cup {t}
    /\ UNCHANGED <<reading, log, known, picker, box, talkFlight, talkKeys, talkTicks, posted>>

TalkAnswers == \E c \in talkFlight : DoTalkRead(c) \/ DoPost(c) \/ HearTalk(c) \/ HearTalkAction(c)

TalkNext ==
    \/ StepThread \/ OpenPicker \/ PickerKey \/ OpenCompose \/ ComposeKey
    \/ TalkTick \/ TalkOthers \/ TalkAnswers

TalkSpec == TalkInit /\ [][TalkNext]_talkVars
\* A goroutine's read is bounded by a five-second context and its message is
\* always delivered, so what is out comes back.
TalkFairSpec == TalkSpec /\ WF_talkVars(TalkAnswers)

\* compose.go "the box names its destination": a message goes to the
\* conversation the person was last told, whatever was switched, removed or
\* read between the opening of the box and the post.
PostsWhereTheBoxSays == \A p \in posted : p[1] = p[2]

\* board.go: the reads that cross a switch, a removal or each other do not leave
\* one conversation's messages under another's name: once the answers are in,
\* the screen shows the conversation it names.
ScreenCatchesUp == <>[](log = reading)

\* board.go, of a late read: "applying it would put one conversation's messages
\* under another's name".  (switchThread keeps the old messages until the new
\* read lands.)
NameMatchesMessages == log \in {reading, NoTalk}

(***************************************************************************)
(* The marquee.                                                            *)
(***************************************************************************)

MarqueeInit == scrolling \in BOOLEAN /\ marqueeOn = TRUE /\ marqueeTicks = 1

\* View: the frame says whether it drew scrolling text, then armMarquee.
Armed(sc, on) == sc \/ on

DrawFrame ==
    \E sc \in BOOLEAN :
        /\ scrolling' = sc
        /\ marqueeOn' = Armed(sc, marqueeOn)
        /\ marqueeTicks' = IF sc /\ ~marqueeOn /\ marqueeTicks < 2
                           THEN marqueeTicks + 1 ELSE marqueeTicks

\* onMarqueeTick goes on, or lets the tick lapse.
MarqueeTick ==
    /\ marqueeTicks > 0
    /\ IF scrolling THEN UNCHANGED <<marqueeOn, marqueeTicks>>
       ELSE marqueeOn' = FALSE /\ marqueeTicks' = marqueeTicks - 1
    /\ UNCHANGED scrolling

MarqueeNext == DrawFrame \/ MarqueeTick

\* marquee.go: there is never a second tick beside the first, and the flag says
\* whether there is one, so text that scrolls is never left without a tick.
OneMarqueeTick == marqueeTicks = IF marqueeOn THEN 1 ELSE 0
=============================================================================
