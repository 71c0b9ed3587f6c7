------------------------------- MODULE Index -------------------------------
(***************************************************************************)
(* The searchable index of the notes (internal/index, cmd memoryindex.go)  *)
(* and the worker of the daemon that keeps it in step (cmd daemon.go).     *)
(*                                                                         *)
(* Three stores have to agree and no transaction spans them: the vault,    *)
(* which people and agents edit at any moment; the collection, which only  *)
(* a helper process writes; and the manifest, which records per note the   *)
(* digest it was indexed at and is all that a later sweep compares with.   *)
(*                                                                         *)
(* A text is a number, a digest is its text, and what a note contributes   *)
(* to the collection is its text cut by the chunker of the build that read *)
(* it.  A note that is absent, unreadable or too large is 0.               *)
(***************************************************************************)
EXTENDS Integers, FiniteSets, FiniteSetsExt

CONSTANTS
    Notes,
    FilesPerCall,   \* notes in one call of the helper
    MaxTexts,       \* bound: texts ever written
    MaxDrops,       \* bound: notes taken away
    MaxHands,       \* bound: `memory index` commands
    MaxFails,       \* bound: sweeps that end early
    FailsAt,        \* the steps at which one may
    Overlap,        \* a command may run beside the daemon's sweep
    Restores,       \* a note may get a text it had before
    Upgrades        \* the build's chunker may change

ASSUME IndexAssumption ==
    /\ IsFiniteSet(Notes) /\ Notes # {}
    /\ FilesPerCall \in Nat \ {0}
    /\ {MaxTexts, MaxDrops, MaxHands, MaxFails} \subseteq Nat /\ MaxTexts # 0
    /\ FailsAt \subseteq {"rules", "drop", "reset", "scan", "compare", "call", "record"}
    /\ {Overlap, Restores, Upgrades} \subseteq BOOLEAN

Sweepers == {"daemon", "hand"}
Chunkers == 1..2

VARIABLES
    note,       \* the vault
    lastText, dropped,
    coll,       \* per note what the collection holds of it: texts with the chunker that cut them
    mani,       \* per note the digest in the manifest, 0 without a row
    ruled,      \* the chunker in the manifest, 0 before the first sweep
    build,      \* the chunker of the installed build
    sweeping,      \* per sweeper where it stands
    wake,       \* the daemon's pending bit
    indexOff,   \* its latch
    hands, fails

indexVars == <<note, lastText, dropped, coll, mani, ruled, build, sweeping, wake, indexOff, hands, fails>>
stores == <<coll, mani, ruled>>
vault == <<note, lastText, dropped, build>>
worker == <<wake, indexOff, hands, fails>>

SweepOff == [pc |-> "idle", asked |-> "sweep", files |-> [n \in Notes |-> 0], todo |-> {}, gone |-> {},
            pending |-> {}, batch |-> {}, read |-> [n \in Notes |-> 0]]

\* What the collection should hold of a note.
ChunksOf(text) == IF text = 0 THEN {} ELSE {<<text, build>>}

IndexInit ==
    /\ note = [n \in Notes |-> 1] /\ lastText = 1 /\ dropped = 0
    /\ coll = [n \in Notes |-> {}] /\ mani = [n \in Notes |-> 0] /\ ruled = 0
    /\ build = 1
    /\ sweeping = [s \in Sweepers |-> SweepOff]
    /\ wake = FALSE /\ indexOff = FALSE /\ hands = 0 /\ fails = 0

-----------------------------------------------------------------------------
(* The vault and the build change whenever they like. *)

Edit(n) ==
    /\ \/ /\ lastText < MaxTexts
          /\ lastText' = lastText + 1
          /\ note' = [note EXCEPT ![n] = lastText + 1]
       \/ /\ Restores
          /\ \E t \in 1..lastText : note' = [note EXCEPT ![n] = t]
          /\ UNCHANGED lastText
    /\ UNCHANGED <<dropped, build, stores, sweeping, worker>>

TakeAway(n) ==
    /\ note[n] # 0 /\ dropped < MaxDrops
    /\ note' = [note EXCEPT ![n] = 0] /\ dropped' = dropped + 1
    /\ UNCHANGED <<lastText, build, stores, sweeping, worker>>

\* Another build is installed while nothing sweeps.
NewBuild ==
    /\ Upgrades /\ build = 1 /\ \A s \in Sweepers : sweeping[s].pc = "idle"
    /\ build' = 2
    /\ UNCHANGED <<note, lastText, dropped, stores, sweeping, worker>>

-----------------------------------------------------------------------------
(* One sweep. *)

At(s, pc) == sweeping[s].pc = pc
Moves(s, pc) == sweeping' = [sweeping EXCEPT ![s].pc = pc]
\* A command exits; the daemon's worker leaves its result in the channel.
Ended(s) == IF s = "daemon" THEN [SweepOff EXCEPT !.pc = "done"] ELSE SweepOff
Free(s) == Overlap \/ \A o \in Sweepers \ {s} : sweeping[o].pc \in {"idle", "done"}

\* Manifest.StaleForRules: the rules are stored as they are compared.
StaleForRules(s) ==
    /\ At(s, "rules")
    /\ ruled' = build
    /\ Moves(s, IF sweeping[s].asked = "rebuild" \/ ruled \notin {0, build} THEN "drop" ELSE "scan")
    /\ UNCHANGED <<vault, coll, mani, worker>>

\* The helper deletes the collection.
DropCall(s) ==
    /\ At(s, "drop")
    /\ coll' = [n \in Notes |-> {}]
    /\ Moves(s, "reset")
    /\ UNCHANGED <<vault, mani, ruled, worker>>

\* Manifest.Reset; after `memory index --drop` nothing follows it.
Reset(s) ==
    /\ At(s, "reset")
    /\ mani' = [n \in Notes |-> 0]
    /\ IF sweeping[s].asked = "drop" THEN sweeping' = [sweeping EXCEPT ![s] = Ended(s)] ELSE Moves(s, "scan")
    /\ UNCHANGED <<vault, coll, ruled, worker>>

Scan(s) ==
    /\ At(s, "scan")
    /\ sweeping' = [sweeping EXCEPT ![s].pc = "compare", ![s].files = note]
    /\ UNCHANGED <<vault, stores, worker>>

StaleFilesVariant(files) == {n \in Notes : files[n] # 0 /\ mani[n] = 0}
StaleFiles(files) == {n \in Notes : files[n] # 0 /\ mani[n] # files[n]}
GoneFiles(files) == {n \in Notes : files[n] = 0 /\ mani[n] # 0}

\* Compare, against the manifest as it is now.
Compare(s) ==
    LET files == sweeping[s].files
        todo == StaleFiles(files)
        gone == GoneFiles(files)
    IN  /\ At(s, "compare")
        /\ sweeping' = [sweeping EXCEPT ![s] =
               IF todo = {} /\ gone = {} THEN Ended(s)
               ELSE [@ EXCEPT !.pc = "read", !.todo = todo, !.gone = gone, !.pending = gone]]
        /\ UNCHANGED <<vault, stores, worker>>

\* A batch is read again, after the scan that took its digests; what vanished stays unread.
ReadBatch(s) ==
    \E batch \in kSubset(Min({FilesPerCall, Cardinality(sweeping[s].todo)}), sweeping[s].todo) :
        LET read == [n \in Notes |-> IF n \in batch THEN note[n] ELSE 0]
            calls == sweeping[s].pending # {} \/ \E n \in batch : read[n] # 0
        IN  /\ At(s, "read")
            /\ sweeping' = [sweeping EXCEPT ![s].pc = IF calls THEN "call" ELSE "record",
                                      ![s].todo = @ \ batch, ![s].batch = batch, ![s].read = read]
            /\ UNCHANGED <<vault, stores, worker>>

\* What the collection holds of a note once the helper replaced it, or deleted its path.
Replaced(s, n) == IF sweeping[s].read[n] # 0 THEN ChunksOf(sweeping[s].read[n])
                  ELSE IF n \in sweeping[s].pending THEN {} ELSE coll[n]

\* helper.py upsert.
UpsertCall(s) ==
    /\ At(s, "call")
    /\ coll' = [n \in Notes |-> Replaced(s, n)]
    /\ sweeping' = [sweeping EXCEPT ![s].pc = "record", ![s].pending = {}]
    /\ UNCHANGED <<vault, mani, ruled, worker>>

\* Manifest.Record of one note of the batch, with the digest of the scan.
RecordNote(s, n) ==
    /\ At(s, "record") /\ n \in sweeping[s].batch
    /\ mani' = IF sweeping[s].read[n] # 0 THEN [mani EXCEPT ![n] = sweeping[s].files[n]] ELSE mani
    /\ sweeping' = [sweeping EXCEPT ![s].batch = @ \ {n}, ![s].read[n] = 0]
    /\ UNCHANGED <<vault, coll, ruled, worker>>

\* Manifest.Forget, at the end of every batch; then the next one or the end of the sweep.
Forget(s) ==
    /\ At(s, "record") /\ sweeping[s].batch = {}
    /\ mani' = [n \in Notes |-> IF n \in sweeping[s].gone THEN 0 ELSE mani[n]]
    /\ sweeping' = [sweeping EXCEPT ![s] = IF @.todo = {} THEN Ended(s) ELSE [@ EXCEPT !.pc = "read"]]
    /\ UNCHANGED <<vault, coll, ruled, worker>>

\* A sweep ends early: an error returned, a helper that fails, hangs or is missing, a
\* process that is killed.  A helper stopped in the middle may have done part of its work:
\* it inserts the new chunks of a note before it deletes the old ones.
Missing == {"drop", "call"}
FailIn(s, leaves) ==
    /\ sweeping[s].pc \in FailsAt /\ fails < MaxFails
    /\ fails' = fails + 1
    /\ IF At(s, "drop") THEN coll' \in {coll, [n \in Notes |-> {}]}
       ELSE IF At(s, "call") THEN
           coll' \in {c \in [Notes -> UNION {{coll[n], Replaced(s, n), coll[n] \cup Replaced(s, n)} : n \in Notes}] :
               \A n \in Notes : c[n] \in {coll[n], Replaced(s, n), coll[n] \cup Replaced(s, n)}}
       ELSE UNCHANGED coll
    /\ sweeping' = [sweeping EXCEPT ![s] = leaves]
    /\ UNCHANGED <<vault, mani, ruled, wake, indexOff, hands>>
\* The error is dropped and the notes are recorded.
SweepFailsVariant(s) ==
    FailIn(s, IF At(s, "call") THEN [sweeping[s] EXCEPT !.pc = "record", !.pending = {}] ELSE Ended(s))
SweepFails(s) == FailIn(s, Ended(s))

\* No Python on the machine: the daemon turns its sweep off for good.
HelperMissing(s) ==
    /\ sweeping[s].pc \in Missing \cap FailsAt /\ fails < MaxFails
    /\ fails' = fails + 1
    /\ indexOff' = (indexOff \/ s = "daemon")
    /\ sweeping' = [sweeping EXCEPT ![s] = Ended(s)]
    /\ UNCHANGED <<vault, stores, wake, hands>>

-----------------------------------------------------------------------------
(* Who starts one. *)

Starts(s, asked) == sweeping' = [sweeping EXCEPT ![s] = [SweepOff EXCEPT !.asked = asked,
                                                   !.pc = IF asked = "drop" THEN "drop" ELSE "rules"]]

\* `memory index`, with --rebuild or --drop or neither.
Command(asked) ==
    /\ At("hand", "idle") /\ Free("hand") /\ hands < MaxHands
    /\ hands' = hands + 1
    /\ Starts("hand", asked)
    /\ UNCHANGED <<vault, stores, wake, indexOff, fails>>

\* The index ticker: one worker, one pending bit.
IndexTick ==
    /\ \/ /\ At("daemon", "idle") /\ Free("daemon") /\ ~indexOff
          /\ Starts("daemon", "sweep") /\ UNCHANGED wake
       \/ /\ ~At("daemon", "idle") /\ ~wake
          /\ wake' = TRUE /\ UNCHANGED sweeping
    /\ UNCHANGED <<vault, stores, indexOff, hands, fails>>

\* The loop takes the worker's result, and runs the sweep that was asked for meanwhile.
WorkerDone ==
    /\ At("daemon", "done") /\ Free("daemon")
    /\ wake' = FALSE
    /\ IF wake /\ ~indexOff THEN Starts("daemon", "sweep") ELSE Moves("daemon", "idle")
    /\ UNCHANGED <<vault, stores, indexOff, hands, fails>>

IndexStep(s) ==
    \/ StaleForRules(s) \/ DropCall(s) \/ Reset(s) \/ Scan(s) \/ Compare(s)
    \/ ReadBatch(s) \/ UpsertCall(s) \/ Forget(s)
    \/ \E n \in Notes : RecordNote(s, n)

IndexNext ==
    \/ \E n \in Notes : Edit(n) \/ TakeAway(n)
    \/ NewBuild
    \/ \E s \in Sweepers : IndexStep(s) \/ SweepFails(s) \/ HelperMissing(s)
    \/ \E asked \in {"sweep", "rebuild", "drop"} : Command(asked)
    \/ IndexTick \/ WorkerDone

IndexSpec == IndexInit /\ [][IndexNext]_indexVars

\* The scheduler runs the worker and the command, and the ticker ticks.
IndexFairness ==
    /\ \A s \in Sweepers : WF_indexVars(IndexStep(s))
    /\ WF_indexVars(IndexTick) /\ WF_indexVars(WorkerDone)
IndexFairSpec == IndexSpec /\ IndexFairness

-----------------------------------------------------------------------------
(* Properties. *)

Digests == 0..MaxTexts

\* The shape of the state: what a sweep still has to do, what it has read and what it will
\* forget never overlap (index.go Sweep, vault.go Compare).
IndexTypeOK ==
    /\ note \in [Notes -> Digests] /\ mani \in [Notes -> Digests]
    /\ \A n \in Notes : coll[n] \subseteq ((Digests \ {0}) \X Chunkers)
    /\ ruled \in {0} \cup Chunkers /\ build \in Chunkers
    /\ \A s \in Sweepers : LET w == sweeping[s] IN
        /\ w.files \in [Notes -> Digests] /\ w.read \in [Notes -> Digests]
        /\ w.pending \subseteq w.gone /\ w.gone \cap (w.todo \cup w.batch) = {}
        /\ w.todo \cap w.batch = {}
        /\ \A n \in Notes : w.read[n] # 0 => n \in w.batch

Quiet == \A s \in Sweepers : sweeping[s].pc \in {"idle", "done"}
\* What `memory index --status` counts as neither stale nor gone.
Healthy(n) == mani[n] = note[n] /\ ruled \in {0, build}

\* A note that looks indexed is indexed: while no sweep runs, a row of the manifest that
\* agrees with the vault means that the collection holds just this text, cut by this build's
\* rules.  Otherwise no later sweep would ever look at the note again (index.go Sweep:
\* "Re-running the sweep is then always the fix").
HealthyIsTrue == Quiet => \A n \in Notes : Healthy(n) /\ note[n] # 0 => coll[n] = ChunksOf(note[n])

\* The index has its shape, and what looks indexed is.
IndexIsSound == IndexTypeOK /\ HealthyIsTrue

\* A search finds no note that is gone and that no sweep will look for (vault.go Compare).
\* A helper stopped between its insert and the row, and a note deleted after it, break it.
NothingLingers == Quiet => \A n \in Notes : Healthy(n) /\ note[n] = 0 => coll[n] = {}

\* A note that was changed, added or taken away reaches the collection, however sweeps,
\* commands and failures fall, unless the helper turned out to be missing (daemon.go run).
IndexCatchesUp ==
    <>[](indexOff \/ \A n \in Notes : Healthy(n) /\ (note[n] # 0 => coll[n] = ChunksOf(note[n])))
=============================================================================
