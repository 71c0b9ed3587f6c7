----------------------------- MODULE Checklists -----------------------------
(***************************************************************************)
(* One checklist page (src/internal/checklist) and everybody who works on  *)
(* it: command-line processes that tick, add and ensure items, or make the *)
(* branch's page, under one flock that is refused at once when it is held; *)
(* a person's editor, which takes no lock; and the board, which reads the  *)
(* page through a file cache (src/internal/filecache), keeps the selected  *)
(* item across refreshes and toggles it on a goroutine (board/checklists). *)
(*                                                                         *)
(* A page is the sequence of its checkbox lines, an item its text and its  *)
(* box.  `gen` stands for what a stat says of the file: every write changes*)
(* it.  With `slip' the editor may save, and a command may die, in the      *)
(* middle of a command's write.                                            *)
(***************************************************************************)
EXTENDS Integers, Sequences, FiniteSets, SequencesExt

CONSTANTS Texts, NoText,
          StartsWith,   \* StartsWith[s]: the texts that begin with s, itself among them
          Firsts,       \* the pages there may be at the start
          Writers, Flow, \* command processes; Flow is a flow run's
          Toggles, NoOne,\* the toggles the board may have out at once
          Readers,      \* the board's reads that may be out at once
          MaxItems, MaxSaves, MaxOps, MaxChecks, MaxLoads, \* bounds
          Titles,
          Slips        \* whether the editor and a death may come into a write

ASSUME ChecklistAssumption ==
    /\ NoText \notin Texts /\ Slips \subseteq BOOLEAN
    /\ \A s \in Texts : s \in StartsWith[s] /\ StartsWith[s] \subseteq Texts
    /\ Flow \in Writers /\ Writers \cap Toggles = {} /\ NoOne \notin Writers \cup Toggles
    /\ MaxItems \in Nat
    /\ \A p \in Firsts : p \in Seq([text : Texts, done : BOOLEAN]) /\ Len(p) <= MaxItems

VARIABLES
    page, gen,   \* the file
    slip,        \* whether this behaviour has such trouble; never changes
    branched,    \* whether the page is owned by a branch, or a legacy page
    held,        \* the directory's .lock
    pc,          \* what each process is in the middle of
    opsLeft, savesLeft,
    made,        \* titles of the pages that carry the branch's identity
    ledger,      \* history: the page as the commands that succeeded and the editor left it
    missed,      \* history: items whose step is done and whose tick was refused
    cache,       \* checkCache: [key, val], or key 0 when there is none
    readers,     \* [at, key, val] per read in flight
    loadsLeft,
    shown,       \* m.checklists
    sel,         \* checkPosition: index, cursor, identity, snapshot, identityCount, invalid
    inItems,     \* m.checkItemsFocus
    chosen,      \* history: the item the person moved to, and the page it was on
    checksLeft

fileVars == <<page, gen>>
deskVars == <<shown, sel, inItems, chosen, checksLeft>>
readVars == <<cache, readers, loadsLeft>>
listVars == <<page, gen, slip, branched, held, pc, opsLeft, savesLeft, made, ledger, missed,
              cache, readers, loadsLeft, shown, sel, inItems, chosen, checksLeft>>

Items == [text : Texts, done : BOOLEAN]
TextsOf(p) == [i \in DOMAIN p |-> p[i].text]
With(t) == [text |-> t, done |-> FALSE]
Having(p, t) == {i \in DOMAIN p : p[i].text = t}

\* Find: the only item that begins with the selector, or a refusal (0).
Find(p, s) ==
    LET at == {i \in DOMAIN p : p[i].text \in StartsWith[s]}
    IN IF Cardinality(at) = 1 THEN CHOOSE i \in at : TRUE ELSE 0

Idle == [do |-> "idle", text |-> NoText, done |-> FALSE, at |-> 0, from |-> <<>>,
         meant |-> NoText]
Doing(do, t, d, i, p) == [do |-> do, text |-> t, done |-> d, at |-> i, from |-> p,
                          meant |-> NoText]

ChecksInit ==
    /\ page \in Firsts /\ gen = 1 /\ branched \in BOOLEAN /\ slip \in Slips
    /\ held = NoOne
    /\ pc = [w \in Writers \cup Toggles |-> Idle]
    /\ opsLeft = MaxOps /\ savesLeft = MaxSaves
    /\ made = {} /\ ledger = page /\ missed = {}
    /\ cache = [key |-> 0, val |-> <<>>]
    /\ readers = [r \in Readers |-> [at |-> "none", key |-> 0, val |-> <<>>]]
    /\ loadsLeft = MaxLoads
    /\ shown = <<>>
    /\ sel = [idx |-> 0, cursor |-> 1, text |-> NoText, snap |-> <<>>, count |-> 0, invalid |-> FALSE]
    /\ inItems = FALSE /\ chosen = [text |-> NoText, idx |-> 0, on |-> <<>>]
    /\ checksLeft = MaxChecks

----------------------------------------------------------------------------
\* Commands.

\* pageLock: lockfile.Acquire.  Variant: the lock is not looked at.
AcquireVariant(w) == TRUE
Acquire(w) == held = NoOne

Begin(w) == pc[w] = Idle /\ w \in Writers /\ opsLeft > 0 /\ opsLeft' = opsLeft - 1
Goes(w, step) == pc' = [pc EXCEPT ![w] = step]
Rest == UNCHANGED <<slip, branched, savesLeft, readVars, deskVars>>

\* A tick a flow wanted and did not get is only printed (tickStep).
Refused(w, t) ==
    /\ missed' = IF w = Flow /\ t \in {page[i].text : i \in DOMAIN page} THEN missed \cup {t} ELSE missed
    /\ UNCHANGED <<page, gen, held, pc, made, ledger>>

\* Set: lock, load, find; nothing to do when the box is already so.
Set(w) ==
    /\ Begin(w) /\ Rest
    /\ \E t \in Texts, d \in BOOLEAN :
         /\ w = Flow => d /\ t \in {page[i].text : i \in DOMAIN page}
         /\ LET i == Find(page, t) IN
            IF ~Acquire(w) \/ i = 0 THEN Refused(w, t)
            ELSE IF page[i].done = d
                 THEN UNCHANGED <<page, gen, held, pc, made, ledger, missed>>
                 ELSE /\ held' = w /\ Goes(w, Doing("set", t, d, i, page))
                      /\ UNCHANGED <<page, gen, made, ledger, missed>>

\* Add: lock, read, insert after the last item.
AddNow(w, t) ==
    IF Acquire(w) /\ Len(page) < MaxItems
    THEN /\ held' = w /\ Goes(w, Doing("add", t, FALSE, 0, page))
         /\ UNCHANGED <<page, gen, made, ledger, missed>>
    ELSE /\ Goes(w, Idle) /\ UNCHANGED <<page, gen, held, made, ledger, missed>>

Add(w) == Begin(w) /\ Rest /\ \E t \in Texts : AddNow(w, t)

\* Ensure reads outside the lock, and adds if the item was not there.
Ensure(w) ==
    /\ Begin(w) /\ Rest
    /\ \E t \in Texts : Having(page, t) = {} /\ Goes(w, Doing("ensure", t, FALSE, 0, page))
    /\ UNCHANGED <<page, gen, held, made, ledger, missed>>
EnsureAdds(w) ==
    /\ pc[w].do = "ensure" /\ Rest /\ UNCHANGED opsLeft
    /\ AddNow(w, pc[w].text)

\* NewBranch: under the lock, the page the branch has is returned, or one is
\* made under the title's own name.
NewBranch(w) ==
    /\ Begin(w) /\ Rest /\ Acquire(w) /\ made = {}
    /\ \E t \in Titles : held' = w /\ Goes(w, Doing("new", t, FALSE, 0, <<>>))
    /\ UNCHANGED <<page, gen, made, ledger, missed>>
NewBranchWrites(w) ==
    /\ pc[w].do = "new" /\ Rest
    /\ made' = made \cup {pc[w].text}
    /\ held' = NoOne /\ Goes(w, Idle)
    /\ UNCHANGED <<page, gen, opsLeft, ledger, missed>>

Ticked(p, i, d) == [p EXCEPT ![i].done = d]

\* What the command leaves behind of the page it loaded.
Result(c) == IF c.do \in {"set", "toggle"} THEN Ticked(c.from, c.at, c.done)
             ELSE Append(c.from, With(c.text))
\* The same change made to the page everybody agrees on.
Entered(c) == IF c.do \in {"set", "toggle"} /\ c.at \in DOMAIN ledger
              THEN Ticked(ledger, c.at, c.done) ELSE Append(ledger, With(c.text))

\* setBranchItem reads the page again and refuses one that moved; a legacy
\* page has one byte written at the offset the item was loaded at.
Finish(w, p) ==
    /\ page' = p /\ gen' = gen + 1
    /\ held' = NoOne /\ Goes(w, Idle)
    /\ ledger' = Entered(pc[w])
    /\ UNCHANGED <<opsLeft, made, missed>> /\ Rest

Writing(w) == pc[w].do \in {"set", "toggle", "add"}

WriteByte(w) ==
    /\ Writing(w) /\ pc[w].do # "add" /\ ~branched
    /\ IF page = pc[w].from THEN Finish(w, Result(pc[w]))
       ELSE \E i \in DOMAIN page : \* somewhere in a page that moved
              Finish(w, [page EXCEPT ![i].done = pc[w].done]) \/ Finish(w, RemoveAt(page, i))

\* WriteFile cuts the file short before it fills it.
Cut(w) ==
    /\ Writing(w) /\ (pc[w].do = "add" \/ branched)
    /\ IF pc[w].do # "add" /\ page # pc[w].from
       THEN /\ held' = NoOne /\ Goes(w, Idle) /\ UNCHANGED fileVars
       ELSE /\ page' = <<>> /\ gen' = gen + 1
            /\ Goes(w, [pc[w] EXCEPT !.do = IF @ = "add" THEN "fill" ELSE "refill"])
            /\ UNCHANGED held
    /\ UNCHANGED <<opsLeft, made, ledger, missed>> /\ Rest
Fill(w) ==
    /\ pc[w].do \in {"fill", "refill"}
    /\ LET c == [pc[w] EXCEPT !.do = IF @ = "fill" THEN "add" ELSE "set"]
       IN /\ page' = Result(c) /\ gen' = gen + 1 /\ ledger' = Entered(c)
    /\ held' = NoOne /\ Goes(w, Idle)
    /\ UNCHANGED <<opsLeft, made, missed>> /\ Rest

\* A command killed in the middle: the kernel frees its lock.
Die(w) ==
    /\ slip /\ pc[w] # Idle
    /\ Goes(w, Idle) /\ held' = IF held = w THEN NoOne ELSE held
    /\ UNCHANGED <<page, gen, opsLeft, made, ledger, missed>> /\ Rest

\* The person's editor saves the page with one change to it.
EditorSaves ==
    /\ savesLeft > 0 /\ savesLeft' = savesLeft - 1
    /\ held = NoOne \/ slip
    /\ \E p \in { [page EXCEPT ![i].done = ~@] : i \in DOMAIN page }
            \cup { RemoveAt(page, i) : i \in DOMAIN page }
            \cup { InsertAt(page, i, With(t)) : i \in IF Len(page) < MaxItems THEN 1..(Len(page) + 1)
                                                       ELSE {}, t \in Texts } :
         page' = p /\ ledger' = p
    /\ gen' = gen + 1
    /\ UNCHANGED <<slip, branched, held, pc, opsLeft, made, missed, readVars, deskVars>>

----------------------------------------------------------------------------
\* The board reads: stat, then the cache, then the file, then the cache again.

ReadGoes(r, st) == readers' = [readers EXCEPT ![r] = st]
OffDesk == UNCHANGED <<page, gen, slip, branched, held, pc, opsLeft, savesLeft, made, ledger, missed>>

StartLoad(r) ==
    /\ readers[r].at = "none" /\ loadsLeft > 0 /\ loadsLeft' = loadsLeft - 1
    /\ ReadGoes(r, [at |-> "stat", key |-> gen, val |-> <<>>])
    /\ OffDesk /\ UNCHANGED <<cache, deskVars>>

\* Cache.Get: the lock is dropped between the look and the parse.
LookUp(r) ==
    /\ readers[r].at = "stat"
    /\ ReadGoes(r, IF cache.key = readers[r].key
                   THEN [readers[r] EXCEPT !.at = "ready", !.val = cache.val]
                   ELSE [readers[r] EXCEPT !.at = "parse"])
    /\ OffDesk /\ UNCHANGED <<cache, loadsLeft, deskVars>>

Parse(r) ==
    /\ readers[r].at = "parse"
    /\ ReadGoes(r, [readers[r] EXCEPT !.at = "keep", !.val = page])
    /\ OffDesk /\ UNCHANGED <<cache, loadsLeft, deskVars>>

Keep(r) ==
    /\ readers[r].at = "keep"
    /\ cache' = [key |-> readers[r].key, val |-> readers[r].val]
    /\ ReadGoes(r, [readers[r] EXCEPT !.at = "ready"])
    /\ OffDesk /\ UNCHANGED <<loadsLeft, deskVars>>

----------------------------------------------------------------------------
\* The board's selection.

CountIn(p, t) == Cardinality(Having(p, t))
FitRow(n, size) == IF size = 0 THEN 1 ELSE IF n > size THEN size ELSE n

\* identityCount: a selected item whose text the page has twice is not told
\* apart once the page changes.  Variant: one match is taken for the item.
AmbiguousVariant(s, changed) == FALSE
Ambiguous(s, changed) == s.text # NoText /\ changed /\ s.count > 1

\* syncChecks
Synced(s, p) ==
    LET texts   == TextsOf(p)
        changed == texts # s.snap
        lost    == s.invalid \/ Ambiguous(s, changed)
        found   == IF changed THEN Having(p, s.text) ELSE {s.idx} \cap DOMAIN p
        invalid == lost \/ (s.text # NoText /\ Cardinality(found) # 1)
        cursor  == FitRow(IF s.text # NoText /\ ~invalid THEN CHOOSE i \in found : TRUE
                          ELSE s.cursor, Len(p))
        settled == p # <<>> /\ ~invalid
    IN [idx     |-> IF settled THEN cursor ELSE s.idx,
        cursor  |-> cursor,
        text    |-> IF settled THEN p[cursor].text ELSE s.text,
        count   |-> IF settled THEN CountIn(p, p[cursor].text) ELSE s.count,
        snap    |-> texts,
        invalid |-> invalid]

Deliver(r) ==
    /\ readers[r].at = "ready"
    /\ shown' = readers[r].val /\ sel' = Synced(sel, readers[r].val)
    /\ ReadGoes(r, [at |-> "none", key |-> 0, val |-> <<>>])
    /\ OffDesk /\ UNCHANGED <<cache, loadsLeft, inItems, chosen, checksLeft>>

DeskKey == checksLeft > 0 /\ checksLeft' = checksLeft - 1 /\ UNCHANGED readVars

\* selectCheckTreeRow, from enterCheckItems or from a move that changes rows.
ChooseItem ==
    /\ DeskKey /\ shown # <<>> /\ OffDesk /\ UNCHANGED shown
    /\ \E i \in IF inItems THEN DOMAIN shown \ {sel.cursor} ELSE {1} :
         /\ sel' = [sel EXCEPT !.cursor = i, !.idx = i, !.text = shown[i].text,
                               !.count = CountIn(shown, shown[i].text), !.invalid = FALSE]
         /\ chosen' = [text |-> shown[i].text, idx |-> i, on |-> TextsOf(shown)]
    /\ inItems' = TRUE

LeaveItems ==
    /\ DeskKey /\ inItems /\ OffDesk
    /\ inItems' = FALSE
    /\ UNCHANGED <<shown, sel, chosen>>

\* space: the row on screen goes out with the page it was read on.
AskToggle ==
    /\ DeskKey /\ inItems /\ ~sel.invalid /\ sel.cursor \in DOMAIN shown
    /\ \E b \in Toggles :
         /\ pc[b] = Idle
         /\ Goes(b, [Doing("asked", shown[sel.cursor].text, ~shown[sel.cursor].done,
                           sel.cursor, shown) EXCEPT !.meant = chosen])
    /\ UNCHANGED <<page, gen, slip, branched, held, opsLeft, savesLeft, made, ledger, missed,
                   shown, sel, inItems, chosen>>

\* Toggle's checks under the lock.
StillShown(c) == page = c.from

ToggleLoads(b) ==
    /\ pc[b].do = "asked"
    /\ IF Acquire(b) /\ StillShown(pc[b])
       THEN held' = b /\ Goes(b, [pc[b] EXCEPT !.do = "toggle", !.from = page])
       ELSE Goes(b, Idle) /\ UNCHANGED held
    /\ UNCHANGED <<page, gen, opsLeft, made, ledger, missed>> /\ Rest

\* The commands and the editor by themselves, and the board among the ticks of a person.
CommandsNext ==
    \/ \E w \in Writers : Set(w) \/ Add(w) \/ Ensure(w) \/ EnsureAdds(w)
                          \/ NewBranch(w) \/ NewBranchWrites(w)
    \/ \E w \in Writers : WriteByte(w) \/ Cut(w) \/ Fill(w) \/ Die(w)
    \/ EditorSaves
DeskNext ==
    \/ \E w \in Writers \ {Flow} : Set(w)
    \/ \E w \in (Writers \ {Flow}) \cup Toggles : WriteByte(w) \/ Cut(w) \/ Fill(w) \/ Die(w)
    \/ \E b \in Toggles : ToggleLoads(b)
    \/ EditorSaves
    \/ \E r \in Readers : StartLoad(r) \/ LookUp(r) \/ Parse(r) \/ Keep(r) \/ Deliver(r)
    \/ ChooseItem \/ LeaveItems \/ AskToggle
ChecksNext == CommandsNext \/ DeskNext

ChecksSpec == ChecksInit /\ [][ChecksNext]_listVars

----------------------------------------------------------------------------
\* Every process is at a step of its command, a selection is a place, and the
\* lock is held exactly by the command that is between its load and its write.
ChecksTypeOK ==
    /\ page \in Seq(Items) /\ Len(page) <= MaxItems /\ gen >= cache.key
    /\ held \in Writers \cup Toggles \cup {NoOne}
    /\ \A w \in Writers \cup Toggles :
         held = w <=> pc[w].do \in {"set", "add", "toggle", "fill", "refill", "new"}
    /\ sel.cursor >= 1

\* checklist.go pageLock: commands that run at once do not undo one another.
\* Between commands the page is what each that succeeded, and the editor, made
\* of it: no tick and no added item is lost to another's write.  (A save or a
\* death in the middle of a write takes part of the page: the lock is the commands' own.)
NothingIsLost == held = NoOne /\ ~slip => page = ledger

\* branch.go NewBranch: "one page per repository and branch", however many
\* agents make it at once and whatever title each gives it.
OnePagePerBranch == Cardinality(made) <= 1

\* filecache.go: a file is not taken for unchanged at what it was before: what
\* is kept under the file's present stat is the file's present content.
CacheIsCurrent == cache.key = gen => cache.val = page

\* The commands' lock and the board's cache keep the page: nothing written is lost, one page
\* is made, and what is read is what is there.
PageIsKept == ChecksTypeOK /\ NothingIsLost /\ OnePagePerBranch /\ CacheIsCurrent

Twice(texts, t) == \E i, k \in DOMAIN texts : i # k /\ texts[i] = t /\ texts[k] = t

\* checklists.go and branch.go Toggle: space changes the item the person moved
\* to, at the state it was shown in, however the page moved under the board
\* since; of two items that read the same, the one at that place on that page.
ToggleHitsTheChosen ==
    \A b \in Toggles : pc[b].do = "toggle" =>
        LET c == pc[b] IN
        /\ c.from[c.at].text = c.meant.text /\ c.from[c.at].done # c.done
        /\ Twice(TextsOf(c.from), c.meant.text) \/ Twice(c.meant.on, c.meant.text) =>
             c.meant.on = TextsOf(c.from) /\ c.at = c.meant.idx

\* flow.go tickStep: a finished step's item is ticked, "nothing has to remember
\* to tick".  (A selector that also begins another item is refused, exact or
\* not, and so is a tick while the lock is held; neither is tried again.)
FlowTicksLand == missed = {}

\* checklist.go Ensure "adds an item only if the page does not already have
\* one".  (It looks before it locks.)
EnsureAddsOnce ==
    [][\A w \in Writers : EnsureAdds(w) /\ held' = w => Having(page, pc[w].text) = {}]_listVars

\* branch.go setBranchItem and Add: a person's save is not written over.
\* (Add, and the last step of a tick, write what was read before it.)
EditorSavesStay == [][\A w \in Writers \cup Toggles : Fill(w) /\ page # <<>> => FALSE]_listVars
=============================================================================
