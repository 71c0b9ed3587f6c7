---------------------------- MODULE KnowledgeProofs ----------------------------
(***************************************************************************)
(* Theorems about the index of the notes (Index), checklist pages          *)
(* (Checklists) and the delivery of mentions (Mention), for any number of  *)
(* notes, processes, agents and names.                                     *)
(***************************************************************************)
EXTENDS Index, Checklists, Mention, FiniteSetTheorems, TLAPS

(***************************************************************************)
(* The index.  Types, and the shape of what a sweep has in hand.           *)
(***************************************************************************)
Places == {"idle", "done", "rules", "drop", "reset", "scan", "compare", "read", "call", "record"}
Orders == {"sweep", "rebuild", "drop"}

\* What a sweep can be when k texts were written.
SweepOf(k) == [pc : Places, asked : Orders, files : [Notes -> 0..k], todo : SUBSET Notes, gone : SUBSET Notes,
               pending : SUBSET Notes, batch : SUBSET Notes, read : [Notes -> 0..k]]

Shape(w) ==
    /\ w.pending \subseteq w.gone /\ w.gone \cap (w.todo \cup w.batch) = {}
    /\ w.todo \cap w.batch = {}
    /\ \A n \in Notes : w.read[n] # 0 => n \in w.batch
    /\ w.pc \notin {"call", "record"} => w.batch = {}

IndexTypes ==
    /\ lastText \in 1..MaxTexts
    /\ note \in [Notes -> 0..lastText] /\ mani \in [Notes -> 0..lastText]
    /\ coll \in [Notes -> SUBSET ((1..lastText) \X Chunkers)]
    /\ ruled \in {0} \cup Chunkers /\ build \in Chunkers
    /\ sweeping \in [Sweepers -> SweepOf(lastText)]
    /\ \A s \in Sweepers : Shape(sweeping[s])

LEMMA TextsGrow ==
    ASSUME NEW k \in Nat, NEW m \in Nat, k <= m
    PROVE  /\ 0..k \subseteq 0..m /\ 1..k \subseteq 1..m
           /\ [Notes -> 0..k] \subseteq [Notes -> 0..m]
           /\ SUBSET ((1..k) \X Chunkers) \subseteq SUBSET ((1..m) \X Chunkers)
           /\ SweepOf(k) \subseteq SweepOf(m)
<1>1. 0..k \subseteq 0..m /\ 1..k \subseteq 1..m
  OBVIOUS
<1>2. [Notes -> 0..k] \subseteq [Notes -> 0..m]
  BY <1>1
<1>3. SUBSET ((1..k) \X Chunkers) \subseteq SUBSET ((1..m) \X Chunkers)
  BY <1>1
<1>4. SweepOf(k) \subseteq SweepOf(m)
  BY <1>2 DEF SweepOf
<1>5. QED
  BY <1>1, <1>2, <1>3, <1>4

LEMMA ShapeIsOK == IndexTypes => IndexTypeOK
<1> SUFFICES ASSUME IndexTypes PROVE IndexTypeOK
  OBVIOUS
<1>1. lastText \in Nat /\ MaxTexts \in Nat /\ lastText <= MaxTexts
  BY IndexAssumption DEF IndexTypes
<1>2. 0..lastText \subseteq Digests /\ 1..lastText \subseteq Digests \ {0}
  BY <1>1 DEF Digests
<1>3. note \in [Notes -> Digests] /\ mani \in [Notes -> Digests]
  BY <1>2 DEF IndexTypes
<1>4. \A n \in Notes : coll[n] \subseteq (Digests \ {0}) \X Chunkers
  BY <1>2 DEF IndexTypes
<1>5. \A s \in Sweepers : sweeping[s].files \in [Notes -> Digests] /\ sweeping[s].read \in [Notes -> Digests]
  BY <1>2 DEF IndexTypes, SweepOf
<1>6. QED
  BY <1>3, <1>4, <1>5 DEF IndexTypes, IndexTypeOK, Shape

LEMMA SweepOffType ==
    ASSUME NEW k \in Nat
    PROVE  /\ SweepOff \in SweepOf(k) /\ Shape(SweepOff)
           /\ \A s : Ended(s) \in SweepOf(k) /\ Shape(Ended(s)) /\ Ended(s).pc \in {"idle", "done"}
           /\ \A asked \in Orders, p \in Places :
                 LET w == [SweepOff EXCEPT !.asked = asked, !.pc = p]
                 IN  w \in SweepOf(k) /\ Shape(w) /\ w.pc = p /\ w.asked = asked
<1>1. [n \in Notes |-> 0] \in [Notes -> 0..k]
  OBVIOUS
<1>2. SweepOff \in SweepOf(k) /\ Shape(SweepOff)
  BY <1>1 DEF SweepOff, SweepOf, Shape, Places, Orders
<1>3. \A s : Ended(s) \in SweepOf(k) /\ Shape(Ended(s)) /\ Ended(s).pc \in {"idle", "done"}
  BY <1>1, <1>2 DEF Ended, SweepOff, SweepOf, Shape, Places, Orders
<1>4. ASSUME NEW asked \in Orders, NEW p \in Places
      PROVE  LET w == [SweepOff EXCEPT !.asked = asked, !.pc = p]
             IN  w \in SweepOf(k) /\ Shape(w) /\ w.pc = p /\ w.asked = asked
  BY <1>1, <1>4 DEF SweepOff, SweepOf, Shape
<1>5. QED
  BY <1>2, <1>3, <1>4

LEMMA IndexTypesInit == IndexInit => IndexTypes
<1> SUFFICES ASSUME IndexInit PROVE IndexTypes
  OBVIOUS
<1>1. lastText = 1 /\ lastText \in 1..MaxTexts /\ 1 \in Nat
  BY IndexAssumption DEF IndexInit
<1>2. sweeping \in [Sweepers -> SweepOf(lastText)] /\ \A s \in Sweepers : Shape(sweeping[s])
  BY <1>1, SweepOffType DEF IndexInit
<1>3. note \in [Notes -> 0..lastText] /\ mani \in [Notes -> 0..lastText]
  BY <1>1 DEF IndexInit
<1>4. QED
  BY <1>1, <1>2, <1>3 DEF IndexInit, IndexTypes, Chunkers

\* The vault changes, and so does the build.
LEMMA VaultTypes ==
    ASSUME IndexTypes, UNCHANGED <<stores, sweeping, worker>>,
           NewBuild \/ \E n \in Notes : Edit(n) \/ TakeAway(n)
    PROVE  IndexTypes' /\ lastText <= lastText'
<1>1. lastText \in Nat /\ MaxTexts \in Nat /\ lastText >= 1 /\ lastText <= MaxTexts
  BY IndexAssumption DEF IndexTypes
<1>2. lastText' \in 1..MaxTexts /\ lastText <= lastText' /\ lastText' \in Nat
  BY <1>1 DEF NewBuild, Edit, TakeAway
<1>3. note' \in [Notes -> 0..lastText']
  <2>1. note \in [Notes -> 0..lastText']
    BY <1>1, <1>2, TextsGrow DEF IndexTypes
  <2>2. CASE \E n \in Notes, t \in 0..lastText' : note' = [note EXCEPT ![n] = t]
    BY <2>1, <2>2
  <2>3. CASE \E n \in Notes : Edit(n)
    <3>1. PICK n \in Notes : Edit(n)
      BY <2>3
    <3>2. \E t \in 0..lastText' : note' = [note EXCEPT ![n] = t]
      <4>1. CASE lastText' = lastText + 1 /\ note' = [note EXCEPT ![n] = lastText + 1]
        <5>1. lastText + 1 \in 0..lastText'
          BY <1>1, <4>1
        <5>2. QED
          BY <4>1, <5>1
      <4>2. CASE lastText' = lastText /\ \E t \in 1..lastText : note' = [note EXCEPT ![n] = t]
        <5>1. 1..lastText \subseteq 0..lastText'
          BY <1>1, <4>2
        <5>2. QED
          BY <4>2, <5>1
      <4>3. QED
        BY <3>1, <4>1, <4>2 DEF Edit
    <3>3. QED
      BY <2>2, <3>2
  <2>4. CASE \E n \in Notes : TakeAway(n)
    <3>1. 0 \in 0..lastText'
      BY <1>2
    <3>2. QED
      BY <2>2, <2>4, <3>1 DEF TakeAway
  <2>5. CASE NewBuild
    BY <2>1, <2>5 DEF NewBuild
  <2>6. QED
    BY <2>3, <2>4, <2>5
<1>4. /\ mani' \in [Notes -> 0..lastText'] /\ coll' \in [Notes -> SUBSET ((1..lastText') \X Chunkers)]
      /\ sweeping' \in [Sweepers -> SweepOf(lastText')]
  <2>1. mani' = mani /\ coll' = coll /\ sweeping' = sweeping
    BY DEF stores
  <2>2. QED
    BY <1>1, <1>2, <2>1, TextsGrow DEF IndexTypes
<1>5. build' \in Chunkers /\ ruled' = ruled /\ sweeping' = sweeping
  BY DEF NewBuild, Edit, TakeAway, IndexTypes, Chunkers, stores
<1>6. QED
  BY <1>2, <1>3, <1>4, <1>5 DEF IndexTypes

\* A sweeper's step: the texts and the build are what they were.
LEMMA SweepTyped ==
    ASSUME IndexTypes, UNCHANGED vault, NEW s \in Sweepers, NEW w \in SweepOf(lastText), Shape(w),
           sweeping' = [sweeping EXCEPT ![s] = w],
           mani' \in [Notes -> 0..lastText], ruled' \in {0} \cup Chunkers,
           coll' \in [Notes -> SUBSET ((1..lastText) \X Chunkers)]
    PROVE  /\ IndexTypes'
           /\ sweeping'[s] = w /\ \A t \in Sweepers : t # s => sweeping'[t] = sweeping[t]
<1>1. sweeping' \in [Sweepers -> SweepOf(lastText)]
  BY DEF IndexTypes
<1>2. sweeping'[s] = w /\ \A t \in Sweepers : t # s => sweeping'[t] = sweeping[t]
  BY DEF IndexTypes
<1>3. \A t \in Sweepers : Shape(sweeping'[t])
  BY <1>2 DEF IndexTypes
<1>4. QED
  BY <1>1, <1>2, <1>3 DEF IndexTypes, vault

\* What is in the hand of a sweeper.
LEMMA InHand ==
    ASSUME IndexTypes, NEW s \in Sweepers
    PROVE  /\ sweeping[s] \in SweepOf(lastText) /\ Shape(sweeping[s]) /\ lastText \in Nat
           /\ sweeping[s].todo \subseteq Notes /\ sweeping[s].gone \subseteq Notes
           /\ sweeping[s].pending \subseteq Notes /\ sweeping[s].batch \subseteq Notes
           /\ sweeping[s].files \in [Notes -> 0..lastText] /\ sweeping[s].read \in [Notes -> 0..lastText]
           /\ mani \in [Notes -> 0..lastText] /\ note \in [Notes -> 0..lastText]
           /\ coll \in [Notes -> SUBSET ((1..lastText) \X Chunkers)]
           /\ ruled \in {0} \cup Chunkers /\ build \in Chunkers /\ ruled # 0 => ruled \in Chunkers
BY DEF IndexTypes, SweepOf

\* A sweeper goes on, and has in hand what it had.
SameHand(v, w) ==
    /\ v.asked = w.asked /\ v.files = w.files /\ v.todo = w.todo /\ v.gone = w.gone
    /\ v.pending = w.pending /\ v.batch = w.batch /\ v.read = w.read

LEMMA GoesOn ==
    ASSUME NEW k \in Nat, NEW w \in SweepOf(k), Shape(w), NEW p \in Places,
           p \in {"call", "record"} \/ w.batch = {}, NEW v, v = [w EXCEPT !.pc = p]
    PROVE  v \in SweepOf(k) /\ Shape(v) /\ v.pc = p /\ SameHand(v, w)
<1>1. v \in SweepOf(k) /\ v.pc = p /\ SameHand(v, w)
  BY DEF SweepOf, SameHand
<1>2. Shape(v)
  BY <1>1 DEF SameHand, Shape
<1>3. QED
  BY <1>1, <1>2

Only(s) == \A t \in Sweepers : t # s => sweeping'[t] = sweeping[t]

\* A store nobody touched has its type.
LEMMA Untouched ==
    ASSUME IndexTypes
    PROVE  /\ UNCHANGED mani => mani' \in [Notes -> 0..lastText]
           /\ UNCHANGED ruled => ruled' \in {0} \cup Chunkers
           /\ UNCHANGED coll => coll' \in [Notes -> SUBSET ((1..lastText) \X Chunkers)]
BY DEF IndexTypes

LEMMA MovesTyped ==
    ASSUME IndexTypes, UNCHANGED vault, NEW s \in Sweepers, NEW p \in Places,
           p \in {"call", "record"} \/ sweeping[s].batch = {}, Moves(s, p),
           mani' \in [Notes -> 0..lastText], ruled' \in {0} \cup Chunkers,
           coll' \in [Notes -> SUBSET ((1..lastText) \X Chunkers)]
    PROVE  IndexTypes' /\ Only(s) /\ sweeping'[s].pc = p /\ SameHand(sweeping'[s], sweeping[s])
<1> DEFINE w == [sweeping[s] EXCEPT !.pc = p]
<1>1. sweeping' = [sweeping EXCEPT ![s] = w]
  BY DEF Moves, IndexTypes
<1>2. w = [sweeping[s] EXCEPT !.pc = p]
  OBVIOUS
<1> HIDE DEF w
<1>3. w \in SweepOf(lastText) /\ Shape(w) /\ w.pc = p /\ SameHand(w, sweeping[s])
  BY <1>2, InHand, GoesOn
<1>4. QED
  BY <1>1, <1>3, SweepTyped DEF Only

LEMMA EndsTyped ==
    ASSUME IndexTypes, UNCHANGED vault, NEW s \in Sweepers, sweeping' = [sweeping EXCEPT ![s] = Ended(s)],
           mani' \in [Notes -> 0..lastText], ruled' \in {0} \cup Chunkers,
           coll' \in [Notes -> SUBSET ((1..lastText) \X Chunkers)]
    PROVE  IndexTypes' /\ Only(s) /\ sweeping'[s].pc \in {"idle", "done"}
<1>1. Ended(s) \in SweepOf(lastText) /\ Shape(Ended(s)) /\ Ended(s).pc \in {"idle", "done"}
  BY InHand, SweepOffType
<1>2. QED
  BY <1>1, SweepTyped DEF Only

LEMMA RulesTypes ==
    ASSUME IndexTypes, NEW s \in Sweepers, StaleForRules(s)
    PROVE  /\ IndexTypes' /\ Only(s) /\ SameHand(sweeping'[s], sweeping[s])
           /\ sweeping'[s].pc = IF sweeping[s].asked = "rebuild" \/ ruled \notin {0, build} THEN "drop" ELSE "scan"
<1> DEFINE p == IF sweeping[s].asked = "rebuild" \/ ruled \notin {0, build} THEN "drop" ELSE "scan"
<1>1. p \in Places /\ sweeping[s].batch = {} /\ UNCHANGED vault /\ UNCHANGED coll /\ UNCHANGED mani
  BY InHand DEF StaleForRules, Places, Shape, At
<1>2. Moves(s, p) /\ ruled' \in {0} \cup Chunkers
  BY DEF StaleForRules, IndexTypes
<1> HIDE DEF p
<1>3. IndexTypes' /\ Only(s) /\ SameHand(sweeping'[s], sweeping[s]) /\ sweeping'[s].pc = p
  BY <1>1, <1>2, InHand, Untouched, MovesTyped
<1>4. QED
  BY <1>3 DEF p

LEMMA DropTypes ==
    ASSUME IndexTypes, NEW s \in Sweepers, DropCall(s)
    PROVE  IndexTypes' /\ Only(s) /\ SameHand(sweeping'[s], sweeping[s]) /\ sweeping'[s].pc = "reset"
<1>1. "reset" \in Places /\ sweeping[s].batch = {} /\ UNCHANGED vault /\ UNCHANGED mani /\ UNCHANGED ruled /\ Moves(s, "reset")
  BY InHand DEF DropCall, Places, Shape, At
<1>2. coll' \in [Notes -> SUBSET ((1..lastText) \X Chunkers)]
  BY DEF DropCall
<1>3. QED
  BY <1>1, <1>2, InHand, Untouched, MovesTyped

LEMMA ResetTypes ==
    ASSUME IndexTypes, NEW s \in Sweepers, Reset(s)
    PROVE  /\ IndexTypes' /\ Only(s) /\ \A n \in Notes : mani'[n] = 0
           /\ \/ sweeping'[s].pc \in {"idle", "done"}
              \/ sweeping'[s].pc = "scan" /\ sweeping[s].asked # "drop"
<1>1. "scan" \in Places /\ sweeping[s].batch = {} /\ UNCHANGED vault /\ UNCHANGED coll /\ UNCHANGED ruled
  BY InHand DEF Reset, Places, Shape, At
<1>2. mani' \in [Notes -> 0..lastText] /\ \A n \in Notes : mani'[n] = 0
  BY InHand DEF Reset
<1>3. CASE Moves(s, "scan") /\ sweeping[s].asked # "drop"
  BY <1>1, <1>2, <1>3, InHand, Untouched, MovesTyped
<1>4. CASE sweeping' = [sweeping EXCEPT ![s] = Ended(s)]
  BY <1>1, <1>2, <1>4, InHand, Untouched, EndsTyped
<1>5. QED
  BY <1>3, <1>4 DEF Reset

LEMMA ScanTypes ==
    ASSUME IndexTypes, NEW s \in Sweepers, Scan(s)
    PROVE  IndexTypes' /\ Only(s) /\ sweeping'[s].pc = "compare" /\ sweeping'[s].files = note
<1> DEFINE w == [sweeping[s] EXCEPT !.pc = "compare", !.files = note]
<1>1. UNCHANGED vault /\ UNCHANGED coll /\ UNCHANGED mani /\ UNCHANGED ruled /\ sweeping[s].pc = "scan"
  BY DEF Scan, At, stores
<1>2. sweeping' = [sweeping EXCEPT ![s] = w]
  BY DEF Scan, IndexTypes
<1>3. /\ w \in SweepOf(lastText) /\ w.pc = "compare" /\ w.files = note /\ w.todo = sweeping[s].todo
      /\ w.gone = sweeping[s].gone /\ w.pending = sweeping[s].pending /\ w.batch = sweeping[s].batch
      /\ w.read = sweeping[s].read
  BY InHand DEF SweepOf, Places
<1> HIDE DEF w
<1>4. Shape(w)
  BY <1>1, <1>3, InHand DEF Shape
<1>5. QED
  BY <1>1, <1>2, <1>3, <1>4, InHand, Untouched, SweepTyped DEF Only

LEMMA CompareTypes ==
    ASSUME IndexTypes, NEW s \in Sweepers, Compare(s)
    PROVE  /\ IndexTypes' /\ Only(s)
           /\ \/ sweeping'[s].pc \in {"idle", "done"}
              \/ /\ sweeping'[s].pc = "read" /\ sweeping'[s].files = sweeping[s].files
                 /\ sweeping'[s].todo = StaleFiles(sweeping[s].files) /\ sweeping'[s].batch = {}
                 /\ sweeping'[s].gone = GoneFiles(sweeping[s].files)
<1> DEFINE todo == StaleFiles(sweeping[s].files)
           gone == GoneFiles(sweeping[s].files)
           w == [sweeping[s] EXCEPT !.pc = "read", !.todo = todo, !.gone = gone, !.pending = gone]
<1>1. UNCHANGED vault /\ UNCHANGED coll /\ UNCHANGED mani /\ UNCHANGED ruled /\ sweeping[s].pc = "compare"
  BY DEF Compare, At, stores
<1>2. todo \subseteq Notes /\ gone \subseteq Notes /\ todo \cap gone = {} /\ sweeping[s].batch = {}
  BY <1>1, InHand DEF StaleFiles, GoneFiles, Shape
<1>3. sweeping' = [sweeping EXCEPT ![s] = Ended(s)] \/ sweeping' = [sweeping EXCEPT ![s] = w]
  BY DEF Compare, IndexTypes
<1>4. CASE sweeping' = [sweeping EXCEPT ![s] = Ended(s)]
  BY <1>1, <1>4, InHand, Untouched, EndsTyped
<1>5. CASE sweeping' = [sweeping EXCEPT ![s] = w]
  <2> HIDE DEF todo, gone
  <2>1. /\ w \in SweepOf(lastText) /\ w.pc = "read" /\ w.files = sweeping[s].files /\ w.todo = todo
        /\ w.gone = gone /\ w.pending = gone /\ w.batch = sweeping[s].batch
        /\ w.read = sweeping[s].read
    BY <1>2, InHand DEF SweepOf, Places
  <2> HIDE DEF w
  <2>2. Shape(w)
    BY <1>2, <2>1, InHand DEF Shape
  <2>3. IndexTypes' /\ Only(s) /\ sweeping'[s] = w
    BY <1>1, <1>5, <2>1, <2>2, InHand, Untouched, SweepTyped DEF Only
  <2>4. QED
    BY <1>2, <2>1, <2>3 DEF todo, gone
<1>6. QED
  BY <1>3, <1>4, <1>5

LEMMA TakeTypes ==
    ASSUME IndexTypes, NEW s \in Sweepers, ReadBatch(s)
    PROVE  /\ IndexTypes' /\ Only(s)
           /\ sweeping'[s].pc \in {"call", "record"} /\ sweeping'[s].files = sweeping[s].files
           /\ sweeping'[s].todo \subseteq sweeping[s].todo /\ sweeping'[s].gone = sweeping[s].gone
           /\ sweeping'[s].batch \subseteq sweeping[s].todo /\ sweeping'[s].pending = sweeping[s].pending
           /\ \A n \in Notes : sweeping'[s].read[n] \in {note[n], 0}
           /\ sweeping'[s].pc = "record" => \A n \in Notes : sweeping'[s].read[n] = 0
<1>1. UNCHANGED vault /\ UNCHANGED coll /\ UNCHANGED mani /\ UNCHANGED ruled /\ sweeping[s].pc = "read"
  BY DEF ReadBatch, At, stores
<1>2. PICK batch \in kSubset(Min({FilesPerCall, Cardinality(sweeping[s].todo)}), sweeping[s].todo) :
        LET read == [n \in Notes |-> IF n \in batch THEN note[n] ELSE 0]
            calls == sweeping[s].pending # {} \/ \E n \in batch : read[n] # 0
        IN  sweeping' = [sweeping EXCEPT ![s].pc = IF calls THEN "call" ELSE "record",
                                         ![s].todo = @ \ batch, ![s].batch = batch, ![s].read = read]
  BY DEF ReadBatch
<1> DEFINE read == [n \in Notes |-> IF n \in batch THEN note[n] ELSE 0]
           p == IF sweeping[s].pending # {} \/ \E n \in batch : read[n] # 0 THEN "call" ELSE "record"
           w == [sweeping[s] EXCEPT !.pc = p, !.todo = @ \ batch, !.batch = batch, !.read = read]
<1>3. batch \subseteq sweeping[s].todo
  BY DEF kSubset
<1>4. sweeping' = [sweeping EXCEPT ![s] = w]
  BY <1>2, InHand DEF IndexTypes, SweepOf
<1>5. read \in [Notes -> 0..lastText] /\ \A n \in Notes : read[n] = IF n \in batch THEN note[n] ELSE 0
  BY InHand
<1>6. p \in {"call", "record"} /\ p \in Places /\ (p = "record" => \A n \in batch : read[n] = 0)
  BY DEF Places
<1> HIDE DEF p, read
<1>7. /\ w \in SweepOf(lastText) /\ w.pc = p /\ w.files = sweeping[s].files /\ w.todo = sweeping[s].todo \ batch
      /\ w.gone = sweeping[s].gone /\ w.pending = sweeping[s].pending /\ w.batch = batch
      /\ w.read = read
  BY <1>3, <1>5, <1>6, InHand DEF SweepOf
<1> HIDE DEF w
<1>8. Shape(w)
  BY <1>3, <1>5, <1>6, <1>7, InHand DEF Shape
<1>9. IndexTypes' /\ Only(s) /\ sweeping'[s] = w
  BY <1>1, <1>4, <1>7, <1>8, InHand, Untouched, SweepTyped DEF Only
<1>10. QED
  BY <1>3, <1>5, <1>6, <1>7, <1>9

\* The chunks of what was read, cut by this build.
LEMMA ChunksType ==
    ASSUME IndexTypes, NEW s \in Sweepers, NEW n \in Notes
    PROVE  /\ Replaced(s, n) \in SUBSET ((1..lastText) \X Chunkers)
           /\ coll[n] \in SUBSET ((1..lastText) \X Chunkers)
           /\ sweeping[s].read[n] # 0 => Replaced(s, n) = {<<sweeping[s].read[n], build>>}
           /\ (sweeping[s].read[n] = 0 /\ n \notin sweeping[s].pending) => Replaced(s, n) = coll[n]
<1>1. sweeping[s].read[n] # 0 => sweeping[s].read[n] \in 1..lastText /\ build \in Chunkers
  <2>0. sweeping[s].read \in [Notes -> 0..lastText] /\ lastText \in Nat /\ build \in Chunkers
    BY DEF IndexTypes, SweepOf
  <2>1. sweeping[s].read[n] \in 0..lastText /\ lastText \in Nat /\ build \in Chunkers
    BY <2>0
  <2>2. QED
    BY <2>1
<1>2. sweeping[s].read[n] # 0 => Replaced(s, n) = {<<sweeping[s].read[n], build>>}
  BY DEF Replaced, ChunksOf
<1>3. coll[n] \in SUBSET ((1..lastText) \X Chunkers)
  BY InHand
<1>4. sweeping[s].read[n] = 0 => Replaced(s, n) \in {coll[n], {}}
  BY DEF Replaced
<1>5. QED
  BY <1>1, <1>2, <1>3, <1>4 DEF Replaced

LEMMA UpsertTypes ==
    ASSUME IndexTypes, NEW s \in Sweepers, UpsertCall(s)
    PROVE  /\ IndexTypes' /\ Only(s)
           /\ sweeping'[s].pc = "record" /\ sweeping'[s].files = sweeping[s].files
           /\ sweeping'[s].todo = sweeping[s].todo /\ sweeping'[s].gone = sweeping[s].gone
           /\ sweeping'[s].batch = sweeping[s].batch /\ sweeping'[s].read = sweeping[s].read
           /\ \A n \in Notes : coll'[n] = Replaced(s, n)
<1> DEFINE w == [sweeping[s] EXCEPT !.pc = "record", !.pending = {}]
<1>1. UNCHANGED vault /\ UNCHANGED mani /\ UNCHANGED ruled /\ sweeping[s].pc = "call"
  BY DEF UpsertCall, At
<1>2. sweeping' = [sweeping EXCEPT ![s] = w]
  BY DEF UpsertCall, IndexTypes
<1>3. coll' \in [Notes -> SUBSET ((1..lastText) \X Chunkers)] /\ \A n \in Notes : coll'[n] = Replaced(s, n)
  BY ChunksType DEF UpsertCall
<1>4. /\ w \in SweepOf(lastText) /\ w.pc = "record" /\ w.files = sweeping[s].files /\ w.todo = sweeping[s].todo
      /\ w.gone = sweeping[s].gone /\ w.pending = {} /\ w.batch = sweeping[s].batch
      /\ w.read = sweeping[s].read
  BY InHand DEF SweepOf, Places
<1> HIDE DEF w
<1>5. Shape(w)
  BY <1>4, InHand DEF Shape
<1>6. IndexTypes' /\ sweeping'[s] = w /\ \A t \in Sweepers : t # s => sweeping'[t] = sweeping[t]
  BY <1>1, <1>2, <1>3, <1>4, <1>5, InHand, Untouched, SweepTyped
<1>7. QED
  BY <1>1, <1>3, <1>4, <1>6 DEF Only

LEMMA RecordTypes ==
    ASSUME IndexTypes, NEW s \in Sweepers, NEW n \in Notes, RecordNote(s, n)
    PROVE  /\ IndexTypes' /\ Only(s)
           /\ sweeping'[s].pc = "record" /\ sweeping'[s].files = sweeping[s].files
           /\ sweeping'[s].todo = sweeping[s].todo /\ sweeping'[s].gone = sweeping[s].gone
           /\ sweeping'[s].batch = sweeping[s].batch \ {n}
           /\ \A m \in Notes : sweeping'[s].read[m] = IF m = n THEN 0 ELSE sweeping[s].read[m]
           /\ \A m \in Notes : mani'[m] = IF m = n /\ sweeping[s].read[n] # 0 THEN sweeping[s].files[n] ELSE mani[m]
<1> DEFINE read == [sweeping[s].read EXCEPT ![n] = 0]
           w == [sweeping[s] EXCEPT !.batch = @ \ {n}, !.read = read]
<1>1. UNCHANGED vault /\ UNCHANGED coll /\ UNCHANGED ruled /\ sweeping[s].pc = "record" /\ n \in sweeping[s].batch
  BY DEF RecordNote, At
<1>2. sweeping' = [sweeping EXCEPT ![s] = w]
  BY InHand DEF RecordNote, IndexTypes, SweepOf
<1>3. /\ mani' \in [Notes -> 0..lastText]
      /\ \A m \in Notes : mani'[m] = IF m = n /\ sweeping[s].read[n] # 0 THEN sweeping[s].files[n] ELSE mani[m]
  BY InHand DEF RecordNote
<1>4. read \in [Notes -> 0..lastText] /\ \A m \in Notes : read[m] = IF m = n THEN 0 ELSE sweeping[s].read[m]
  BY InHand
<1> HIDE DEF read
<1>5. /\ w \in SweepOf(lastText) /\ w.pc = "record" /\ w.files = sweeping[s].files /\ w.todo = sweeping[s].todo
      /\ w.gone = sweeping[s].gone /\ w.pending = sweeping[s].pending /\ w.batch = sweeping[s].batch \ {n}
      /\ w.read = read
  BY <1>1, <1>4, InHand DEF SweepOf, Places
<1> HIDE DEF w
<1>6. Shape(w)
  BY <1>4, <1>5, InHand DEF Shape
<1>7. w \in SweepOf(lastText) /\ UNCHANGED vault /\ ruled' \in {0} \cup Chunkers
      /\ coll' \in [Notes -> SUBSET ((1..lastText) \X Chunkers)]
  BY <1>1, <1>5, InHand, Untouched
<1>8. IndexTypes' /\ sweeping'[s] = w /\ \A t \in Sweepers : t # s => sweeping'[t] = sweeping[t]
  BY <1>2, <1>3, <1>6, <1>7, SweepTyped
<1>9. QED
  BY <1>3, <1>4, <1>5, <1>8 DEF Only

LEMMA ForgetTypes ==
    ASSUME IndexTypes, NEW s \in Sweepers, Forget(s)
    PROVE  /\ IndexTypes' /\ Only(s)
           /\ \/ sweeping'[s].pc \in {"idle", "done"}
              \/ sweeping'[s].pc = "read" /\ SameHand(sweeping'[s], sweeping[s])
           /\ \A n \in Notes : mani'[n] = IF n \in sweeping[s].gone THEN 0 ELSE mani[n]
<1>1. UNCHANGED vault /\ UNCHANGED coll /\ UNCHANGED ruled /\ sweeping[s].batch = {} /\ "read" \in Places
  BY DEF Forget, Places
<1>2. /\ mani' \in [Notes -> 0..lastText]
      /\ \A n \in Notes : mani'[n] = IF n \in sweeping[s].gone THEN 0 ELSE mani[n]
  BY InHand DEF Forget
<1>3. CASE sweeping' = [sweeping EXCEPT ![s] = Ended(s)]
  BY <1>1, <1>2, <1>3, InHand, Untouched, EndsTyped
<1>4. CASE Moves(s, "read")
  BY <1>1, <1>2, <1>4, InHand, Untouched, MovesTyped
<1>5. sweeping' = [sweeping EXCEPT ![s] = Ended(s)] \/ Moves(s, "read")
  BY DEF Forget, Moves, IndexTypes
<1>6. QED
  BY <1>2, <1>3, <1>4, <1>5

LEMMA FailTypes ==
    ASSUME IndexTypes, NEW s \in Sweepers, SweepFails(s) \/ HelperMissing(s)
    PROVE  /\ IndexTypes' /\ Only(s)
           /\ sweeping'[s].pc \in {"idle", "done"} /\ sweeping[s].pc \in FailsAt
           /\ UNCHANGED <<vault, mani, ruled>>
           /\ sweeping[s].pc \notin {"drop", "call"} => UNCHANGED coll
           /\ sweeping[s].pc = "call" => \A n \in Notes :
                 coll'[n] \in {coll[n], Replaced(s, n), coll[n] \cup Replaced(s, n)}
<1>1. CASE SweepFails(s)
  <2>1. /\ UNCHANGED vault /\ UNCHANGED mani /\ UNCHANGED ruled /\ sweeping[s].pc \in FailsAt
        /\ sweeping' = [sweeping EXCEPT ![s] = Ended(s)]
    BY <1>1 DEF SweepFails, FailIn
  <2>2. \A n \in Notes : coll[n] \cup Replaced(s, n) \in SUBSET ((1..lastText) \X Chunkers)
    BY ChunksType
  <2>3. CASE sweeping[s].pc = "drop"
    <3>1. coll' = coll \/ coll' = [n \in Notes |-> {}]
      BY <1>1, <2>3 DEF SweepFails, FailIn, At
    <3>2. coll' \in [Notes -> SUBSET ((1..lastText) \X Chunkers)]
      BY <3>1, InHand
    <3>3. QED
      BY <2>1, <2>3, <3>2, Untouched, EndsTyped
  <2>4. CASE sweeping[s].pc = "call"
    <3>1. /\ coll' \in [Notes -> UNION {{coll[n], Replaced(s, n), coll[n] \cup Replaced(s, n)} : n \in Notes}]
          /\ \A n \in Notes : coll'[n] \in {coll[n], Replaced(s, n), coll[n] \cup Replaced(s, n)}
      BY <1>1, <2>4 DEF SweepFails, FailIn, At
    <3>2. \A n \in Notes : coll'[n] \in SUBSET ((1..lastText) \X Chunkers)
      BY <2>2, <3>1, ChunksType
    <3>3. coll' \in [Notes -> SUBSET ((1..lastText) \X Chunkers)]
      BY <3>1, <3>2
    <3>4. QED
      BY <2>1, <2>4, <3>1, <3>3, Untouched, EndsTyped
  <2>5. CASE sweeping[s].pc \notin {"drop", "call"}
    <3>1. UNCHANGED coll
      BY <1>1, <2>5 DEF SweepFails, FailIn, At
    <3>2. QED
      BY <2>1, <2>5, <3>1, Untouched, EndsTyped
  <2>6. QED
    BY <2>3, <2>4, <2>5
<1>2. CASE HelperMissing(s)
  <2>1. /\ UNCHANGED vault /\ UNCHANGED mani /\ UNCHANGED ruled /\ UNCHANGED coll /\ sweeping[s].pc \in FailsAt
        /\ sweeping' = [sweeping EXCEPT ![s] = Ended(s)]
    BY <1>2 DEF HelperMissing, stores
  <2>2. QED
    BY <2>1, Untouched, EndsTyped
<1>3. QED
  BY <1>1, <1>2

\* Who starts a sweep, and who goes to rest.
LEMMA StartTypes ==
    ASSUME IndexTypes, NEW s \in Sweepers, UNCHANGED <<vault, stores>>,
           \/ \E asked \in Orders : Starts(s, asked)
           \/ Moves(s, "idle") /\ sweeping[s].pc = "done"
    PROVE  /\ IndexTypes' /\ Only(s)
           /\ sweeping'[s].pc \in {"idle", "rules"} \/ (sweeping'[s].pc = "drop" /\ sweeping'[s].asked = "drop")
<1>1. UNCHANGED vault /\ UNCHANGED mani /\ UNCHANGED ruled /\ UNCHANGED coll
  BY DEF stores
<1>2. ASSUME NEW asked \in Orders, Starts(s, asked)
      PROVE  /\ IndexTypes' /\ Only(s)
             /\ sweeping'[s].pc = "rules" \/ (sweeping'[s].pc = "drop" /\ sweeping'[s].asked = "drop")
  <2> DEFINE p == IF asked = "drop" THEN "drop" ELSE "rules"
             w == [SweepOff EXCEPT !.asked = asked, !.pc = p]
  <2>1. p \in Places /\ (p = "rules" \/ (p = "drop" /\ asked = "drop"))
    BY DEF Places
  <2>2. sweeping' = [sweeping EXCEPT ![s] = w]
    BY <1>2 DEF Starts
  <2> HIDE DEF p
  <2>3. w \in SweepOf(lastText) /\ Shape(w) /\ w.pc = p /\ w.asked = asked
    BY <2>1, InHand, SweepOffType
  <2> HIDE DEF w
  <2>4. QED
    BY <1>1, <2>1, <2>2, <2>3, Untouched, SweepTyped DEF Only
<1>3. CASE Moves(s, "idle") /\ sweeping[s].pc = "done"
  <2>1. "idle" \in Places /\ sweeping[s].batch = {}
    BY <1>3, InHand DEF Places, Shape
  <2>2. QED
    BY <1>1, <1>3, <2>1, Untouched, MovesTyped
<1>4. QED
  BY <1>2, <1>3

-----------------------------------------------------------------------------
(***************************************************************************)
(* What looks indexed is indexed.  One sweep goes at a time, and while it  *)
(* does, what it scanned is either the note as it is or older than it.  A  *)
(* note it is about to write has a row that does not agree with what was   *)
(* scanned, so nothing it does to the collection can make a note that      *)
(* looks indexed untrue; and the row it then writes agrees with the note   *)
(* only if the note did not change since the scan, in which case the text  *)
(* it read after the scan was the same.                                    *)
(***************************************************************************)
AtRest(w) == w.pc \in {"idle", "done"}
Scanned(w) == w.pc \in {"compare", "read", "call", "record"}

Lone == \A s, t \in Sweepers : s = t \/ AtRest(sweeping[s]) \/ AtRest(sweeping[t])

RulesInv == ruled <= build /\ (ruled = 0 => \A n \in Notes : mani[n] = 0)

SyncInv ==
    (\A s \in Sweepers : sweeping[s].pc \notin {"drop", "reset"}) =>
        \A n \in Notes : (note[n] # 0 /\ mani[n] = note[n] /\ ruled = build) => coll[n] = {<<note[n], build>>}

\* A note, as the sweep scanned it, as it is, and as its row has it.
FilesInv(w) == \A n \in Notes :
    note[n] \in {w.files[n], 0} \/ (note[n] > mani[n] /\ note[n] > w.files[n])

TodoInv(w) ==
    /\ \A n \in w.todo \cup w.batch : w.files[n] # 0 /\ mani[n] # w.files[n]
    /\ \A n \in w.gone : w.files[n] = 0

ReadInv(w) == \A n \in Notes : w.read[n] # 0 => w.read[n] = w.files[n] \/ note[n] # w.files[n]
CollInv(w) == \A n \in Notes : w.read[n] # 0 => coll[n] = {<<w.read[n], build>>}

SweepInv(w) ==
    /\ Scanned(w) \/ w.pc = "scan" => ruled = build
    /\ (w.pc \in {"drop", "reset"} /\ w.asked # "drop") => ruled = build
    /\ Scanned(w) => FilesInv(w)
    /\ w.pc \in {"read", "call", "record"} => TodoInv(w)
    /\ w.pc \in {"call", "record"} => ReadInv(w)
    /\ w.pc = "record" => CollInv(w)

IndexInv == Lone /\ RulesInv /\ SyncInv /\ \A s \in Sweepers : SweepInv(sweeping[s])

\* Sweeps do not fail between the rules and the end of a rebuild, run one at a time, and no
\* note gets a text back that it had before.
Steady == ~Overlap /\ ~Restores /\ "drop" \notin FailsAt /\ "reset" \notin FailsAt

LEMMA IndexInvInit == IndexInit => IndexInv
<1> SUFFICES ASSUME IndexInit PROVE IndexInv
  OBVIOUS
<1>1. \A s \in Sweepers : sweeping[s].pc = "idle"
  BY DEF IndexInit, SweepOff
<1>2. QED
  BY <1>1 DEF IndexInit, IndexInv, Lone, AtRest, RulesInv, SyncInv, SweepInv, Scanned

LEMMA IndexInvSays == IndexTypes /\ IndexInv => HealthyIsTrue
<1> SUFFICES ASSUME IndexTypes, IndexInv, Quiet, NEW n \in Notes, Healthy(n), note[n] # 0
             PROVE  coll[n] = ChunksOf(note[n])
  BY DEF HealthyIsTrue
<1>1. mani[n] = note[n] /\ ruled \in {0, build}
  BY DEF Healthy
<1>2. ruled = build
  BY <1>1 DEF IndexInv, RulesInv
<1>3. coll[n] = {<<note[n], build>>}
  BY <1>1, <1>2 DEF IndexInv, SyncInv, Quiet
<1>4. QED
  BY <1>3 DEF ChunksOf

\* The vault and the build change.
LEMMA VaultStep ==
    ASSUME Steady, IndexTypes, IndexInv, NewBuild \/ \E n \in Notes : Edit(n) \/ TakeAway(n)
    PROVE  IndexTypes' /\ IndexInv'
<1>1. UNCHANGED <<stores, sweeping, worker>> /\ UNCHANGED coll /\ UNCHANGED mani /\ UNCHANGED ruled /\ UNCHANGED sweeping
  BY DEF NewBuild, Edit, TakeAway, stores
<1>2. IndexTypes' /\ lastText \in Nat
  BY <1>1, VaultTypes DEF IndexTypes
<1>3. Lone'
  BY <1>1 DEF IndexInv, Lone
<1>30. build \in Nat /\ ruled \in Nat /\ build' \in Nat /\ build <= build'
  BY <1>1 DEF IndexTypes, Chunkers, NewBuild, Edit, TakeAway
<1>31. RulesInv'
  BY <1>1, <1>30 DEF IndexInv, RulesInv
<1>4. CASE NewBuild
  <2>1. \A s \in Sweepers : sweeping[s].pc = "idle"
    BY <1>4 DEF NewBuild
  <2>2. \A s \in Sweepers : SweepInv(sweeping[s])'
    BY <1>1, <2>1 DEF SweepInv, Scanned
  <2>3. SyncInv'
    <3>1. ruled # build'
      BY <1>4, <1>30 DEF NewBuild, IndexInv, RulesInv
    <3>2. QED
      BY <1>1, <3>1 DEF SyncInv
  <2>4. QED
    BY <1>2, <1>3, <1>31, <2>2, <2>3 DEF IndexInv
<1>5. CASE \E n \in Notes : Edit(n) \/ TakeAway(n)
  <2>1. PICK n \in Notes : Edit(n) \/ TakeAway(n)
    BY <1>5
  <2>2. UNCHANGED build /\ \A m \in Notes : m # n => note'[m] = note[m]
    BY <2>1 DEF Edit, TakeAway, IndexTypes
  <2>3. note'[n] = 0 \/ note'[n] = lastText + 1
    BY <2>1 DEF Edit, TakeAway, IndexTypes, Steady
  <2>4. note'[n] = 0 \/ (note'[n] > mani[n] /\ note'[n] # 0)
    BY <1>2, <2>3 DEF IndexTypes
  <2>5. SyncInv'
    <3>1. \A m \in Notes : (note'[m] # 0 /\ mani[m] = note'[m]) => m # n
      BY <1>2, <2>4 DEF IndexTypes
    <3>2. QED
      BY <1>1, <2>2, <3>1 DEF IndexInv, SyncInv
  <2>6. ASSUME NEW s \in Sweepers PROVE SweepInv(sweeping[s])'
    <3>1. sweeping[s].files \in [Notes -> 0..lastText]
      BY InHand
    <3>2. note'[n] = 0 \/ note'[n] > sweeping[s].files[n]
      BY <1>2, <2>3, <3>1
    <3>3. Scanned(sweeping[s]) => FilesInv(sweeping[s])'
      BY <1>1, <2>2, <2>4, <3>2 DEF IndexInv, SweepInv, FilesInv
    <3>4. sweeping[s].pc \in {"read", "call", "record"} => TodoInv(sweeping[s])'
      BY <1>1 DEF IndexInv, SweepInv, TodoInv
    <3>5. sweeping[s].pc \in {"call", "record"} => ReadInv(sweeping[s])'
      <4> SUFFICES ASSUME sweeping[s].pc \in {"call", "record"}, NEW m \in Notes, sweeping[s].read[m] # 0
                   PROVE  sweeping[s].read[m] = sweeping[s].files[m] \/ note'[m] # sweeping[s].files[m]
        BY <1>1 DEF ReadInv
      <4>1. CASE m # n
        BY <2>2, <4>1 DEF IndexInv, SweepInv, ReadInv
      <4>2. CASE m = n
        <5>1. m \in sweeping[s].batch
          BY InHand DEF Shape
        <5>2. sweeping[s].files[m] # 0 /\ sweeping[s].files[m] \in Nat
          BY <3>1, <5>1 DEF IndexInv, SweepInv, TodoInv
        <5>3. QED
          BY <1>2, <2>3, <3>1, <3>2, <4>2, <5>2
      <4>3. QED
        BY <4>1, <4>2
    <3>6. sweeping[s].pc = "record" => CollInv(sweeping[s])'
      BY <1>1, <2>2 DEF IndexInv, SweepInv, CollInv
    <3>7. QED
      BY <1>1, <2>2, <3>3, <3>4, <3>5, <3>6 DEF IndexInv, SweepInv, Scanned
  <2>7. QED
    BY <1>2, <1>3, <1>31, <2>5, <2>6 DEF IndexInv
<1>6. QED
  BY <1>4, <1>5

\* A sweeper that goes alone: what holds of it holds of all.
LEMMA AloneLone ==
    ASSUME Lone, NEW s \in Sweepers, ~AtRest(sweeping[s])
    PROVE  \A t \in Sweepers : t # s => AtRest(sweeping[t])
BY DEF Lone

LEMMA LoneKept ==
    ASSUME Lone, NEW s \in Sweepers, \A t \in Sweepers : t # s => AtRest(sweeping[t]), Only(s),
           SweepInv(sweeping[s])'
    PROVE  Lone' /\ \A t \in Sweepers : SweepInv(sweeping[t])'
<1>1. \A t \in Sweepers : t # s => AtRest(sweeping'[t])
  BY DEF Only
<1>2. Lone'
  BY <1>1 DEF Lone, AtRest
<1>3. ASSUME NEW t \in Sweepers, t # s PROVE SweepInv(sweeping[t])'
  BY <1>1, <1>3 DEF AtRest, SweepInv, Scanned
<1>4. QED
  BY <1>2, <1>3

LEMMA EndInv ==
    ASSUME NEW s \in Sweepers, sweeping'[s].pc \in {"idle", "done", "rules"}
    PROVE  SweepInv(sweeping[s])'
BY DEF SweepInv, Scanned

\* All notes are in step, unless a rebuild is under way, and then it is the only sweep.
InStep == \A n \in Notes : (note[n] # 0 /\ mani[n] = note[n] /\ ruled = build) => coll[n] = {<<note[n], build>>}

LEMMA InStepNow ==
    ASSUME IndexInv, NEW s \in Sweepers, sweeping[s].pc \notin {"drop", "reset"},
           \A t \in Sweepers : t # s => AtRest(sweeping[t])
    PROVE  InStep
<1>1. \A t \in Sweepers : sweeping[t].pc \notin {"drop", "reset"}
  BY DEF AtRest
<1>2. QED
  BY <1>1 DEF IndexInv, SyncInv, InStep

LEMMA SyncThen ==
    ASSUME InStep' \/ \E s \in Sweepers : sweeping'[s].pc \in {"drop", "reset"}
    PROVE  SyncInv'
BY DEF InStep, SyncInv

LEMMA InStepKept == ASSUME InStep, UNCHANGED <<vault, stores>> PROVE InStep'
BY DEF InStep, vault, stores

\* The steps of a sweep, one by one.
LEMMA EarlyStep ==
    ASSUME IndexTypes, IndexInv, NEW s \in Sweepers,
           StaleForRules(s) \/ DropCall(s) \/ Reset(s)
    PROVE  IndexInv'
<1>1. ~AtRest(sweeping[s])
  BY DEF StaleForRules, DropCall, Reset, At, AtRest
<1>2. \A t \in Sweepers : t # s => AtRest(sweeping[t])
  BY <1>1, AloneLone DEF IndexInv
<1>3. UNCHANGED vault /\ UNCHANGED build /\ UNCHANGED note /\ build \in Nat \ {0}
  BY DEF StaleForRules, DropCall, Reset, vault, IndexTypes, Chunkers
<1>4. CASE StaleForRules(s)
  <2>1. /\ Only(s)
        /\ sweeping'[s].pc = IF sweeping[s].asked = "rebuild" \/ ruled \notin {0, build} THEN "drop" ELSE "scan"
    BY <1>4, RulesTypes
  <2>2. ruled' = build /\ UNCHANGED coll /\ UNCHANGED mani
    BY <1>4 DEF StaleForRules
  <2>3. SweepInv(sweeping[s])'
    BY <1>3, <2>1, <2>2 DEF SweepInv, Scanned
  <2>4. RulesInv'
    BY <1>3, <2>2 DEF RulesInv
  <2>5. SyncInv'
    <3>1. CASE sweeping'[s].pc = "drop"
      BY <3>1, SyncThen
    <3>2. CASE ruled \in {0, build}
      <4>1. InStep
        BY <1>2, <1>4, InStepNow DEF StaleForRules, At
      <4>2. InStep'
        BY <1>3, <2>2, <3>2, <4>1 DEF InStep, IndexInv, RulesInv
      <4>3. QED
        BY <4>2, SyncThen
    <3>3. QED
      BY <2>1, <3>1, <3>2
  <2>6. QED
    BY <1>2, <2>1, <2>3, <2>4, <2>5, LoneKept DEF IndexInv
<1>5. CASE DropCall(s)
  <2>1. Only(s) /\ sweeping'[s].pc = "reset" /\ UNCHANGED <<mani, ruled>>
    BY <1>5, DropTypes DEF DropCall
  <2>5. sweeping[s].asked # "drop" => ruled = build
    BY <1>3, <1>5 DEF IndexInv, SweepInv, DropCall, At
  <2>6. sweeping'[s].asked = sweeping[s].asked
    BY <1>5, DropTypes DEF SameHand
  <2>7. SweepInv(sweeping[s])'
    BY <1>3, <2>1, <2>5, <2>6 DEF SweepInv, Scanned
  <2>2. SweepInv(sweeping[s])' /\ SyncInv'
    BY <2>1, <2>7, SyncThen
  <2>3. RulesInv'
    BY <1>3, <2>1 DEF IndexInv, RulesInv
  <2>4. QED
    BY <1>2, <2>1, <2>2, <2>3, LoneKept DEF IndexInv
<1>6. CASE Reset(s)
  <2>1. /\ Only(s) /\ UNCHANGED ruled /\ \A n \in Notes : mani'[n] = 0
        /\ \/ sweeping'[s].pc \in {"idle", "done"}
           \/ sweeping'[s].pc = "scan" /\ sweeping[s].asked # "drop"
    BY <1>6, ResetTypes DEF Reset
  <2>5. sweeping[s].asked # "drop" => ruled = build
    BY <1>6 DEF IndexInv, SweepInv, Reset, At
  <2>2. InStep' /\ RulesInv'
    BY <1>3, <2>1 DEF InStep, IndexInv, RulesInv
  <2>3. SweepInv(sweeping[s])'
    BY <1>3, <2>1, <2>5 DEF SweepInv, Scanned
  <2>4. QED
    BY <1>2, <2>1, <2>2, <2>3, LoneKept, SyncThen DEF IndexInv
<1>7. QED
  BY <1>4, <1>5, <1>6

\* A note the sweep is about to write does not look indexed.
LEMMA NotIndexed ==
    ASSUME IndexTypes, NEW s \in Sweepers, SweepInv(sweeping[s]), sweeping[s].pc \in {"read", "call", "record"},
           NEW n \in Notes, n \in sweeping[s].todo \cup sweeping[s].batch \cup sweeping[s].gone
    PROVE  note[n] = 0 \/ mani[n] # note[n]
<1>1. /\ note[n] \in Nat /\ mani[n] \in Nat /\ sweeping[s].files[n] \in Nat
  BY DEF IndexTypes, SweepOf
<1>2. note[n] \in {sweeping[s].files[n], 0} \/ note[n] > mani[n]
  BY DEF SweepInv, Scanned, FilesInv
<1>3. (sweeping[s].files[n] # 0 /\ mani[n] # sweeping[s].files[n]) \/ sweeping[s].files[n] = 0
  BY DEF SweepInv, TodoInv
<1>4. QED
  BY <1>1, <1>2, <1>3

\* What the helper writes makes no note that looks indexed untrue.
LEMMA WritesNoIndexed ==
    ASSUME IndexTypes, NEW s \in Sweepers, SweepInv(sweeping[s]), sweeping[s].pc = "call", InStep, UNCHANGED <<vault, mani, ruled>>,
           \A n \in Notes : coll'[n] \in {coll[n], Replaced(s, n), coll[n] \cup Replaced(s, n)}
    PROVE  InStep'
<1> SUFFICES ASSUME NEW n \in Notes, note[n] # 0, mani[n] = note[n], ruled = build
             PROVE  coll'[n] = {<<note[n], build>>}
  BY DEF InStep, vault
<1>1. n \notin sweeping[s].batch /\ n \notin sweeping[s].gone
  BY NotIndexed
<1>2. sweeping[s].read[n] = 0 /\ n \notin sweeping[s].pending
  BY <1>1, InHand DEF Shape
<1>3. Replaced(s, n) = coll[n]
  BY <1>2, ChunksType
<1>4. coll[n] = {<<note[n], build>>}
  BY DEF InStep
<1>5. QED
  BY <1>3, <1>4

LEMMA LookStep ==
    ASSUME IndexTypes, IndexInv, NEW s \in Sweepers, Scan(s) \/ Compare(s) \/ ReadBatch(s)
    PROVE  IndexInv'
<1>1. ~AtRest(sweeping[s]) /\ sweeping[s].pc \notin {"drop", "reset"}
  BY DEF Scan, Compare, ReadBatch, At, AtRest
<1>2. \A t \in Sweepers : t # s => AtRest(sweeping[t])
  BY <1>1, AloneLone DEF IndexInv
<1>3. /\ UNCHANGED <<vault, stores>> /\ UNCHANGED note /\ UNCHANGED build
      /\ UNCHANGED mani /\ UNCHANGED ruled /\ UNCHANGED coll
  BY DEF Scan, Compare, ReadBatch, vault, stores
<1>4. SyncInv' /\ RulesInv'
  BY <1>1, <1>2, <1>3, InStepNow, InStepKept, SyncThen DEF IndexInv, RulesInv
<1>5. SweepInv(sweeping[s])
  BY DEF IndexInv
<1>6. CASE Scan(s)
  <2>1. Only(s) /\ sweeping'[s].pc = "compare" /\ sweeping'[s].files = note
    BY <1>6, ScanTypes
  <2>2. ruled = build
    BY <1>5, <1>6 DEF SweepInv, Scan, At
  <2>3. FilesInv(sweeping[s])'
    BY <1>3, <2>1 DEF FilesInv
  <2>4. SweepInv(sweeping[s])'
    BY <1>3, <2>1, <2>2, <2>3 DEF SweepInv
  <2>5. QED
    BY <1>2, <1>4, <2>1, <2>4, LoneKept DEF IndexInv
<1>7. CASE Compare(s)
  <2>1. Only(s)
    BY <1>7, CompareTypes
  <2>2. CASE sweeping'[s].pc \in {"idle", "done"}
    BY <1>2, <1>4, <2>1, <2>2, EndInv, LoneKept DEF IndexInv
  <2>3. CASE /\ sweeping'[s].pc = "read" /\ sweeping'[s].files = sweeping[s].files
             /\ sweeping'[s].todo = StaleFiles(sweeping[s].files) /\ sweeping'[s].batch = {}
             /\ sweeping'[s].gone = GoneFiles(sweeping[s].files)
    <3>1. ruled = build /\ FilesInv(sweeping[s])
      BY <1>5, <1>7 DEF SweepInv, Scanned, Compare, At
    <3>2. FilesInv(sweeping[s])'
      BY <1>3, <2>3, <3>1 DEF FilesInv
    <3>3. TodoInv(sweeping[s])'
      BY <1>3, <2>3 DEF TodoInv, StaleFiles, GoneFiles
    <3>4. SweepInv(sweeping[s])'
      BY <1>3, <2>3, <3>1, <3>2, <3>3 DEF SweepInv
    <3>5. QED
      BY <1>2, <1>4, <2>1, <3>4, LoneKept DEF IndexInv
  <2>4. QED
    BY <1>7, <2>2, <2>3, CompareTypes
<1>8. CASE ReadBatch(s)
  <2>1. /\ Only(s)
        /\ sweeping'[s].pc \in {"call", "record"} /\ sweeping'[s].files = sweeping[s].files
        /\ sweeping'[s].todo \subseteq sweeping[s].todo /\ sweeping'[s].gone = sweeping[s].gone
        /\ sweeping'[s].batch \subseteq sweeping[s].todo
        /\ \A n \in Notes : sweeping'[s].read[n] \in {note[n], 0}
        /\ sweeping'[s].pc = "record" => \A n \in Notes : sweeping'[s].read[n] = 0
    BY <1>8, TakeTypes
  <2>2. ruled = build /\ FilesInv(sweeping[s]) /\ TodoInv(sweeping[s])
    BY <1>5, <1>8 DEF SweepInv, Scanned, ReadBatch, At
  <2>3. FilesInv(sweeping[s])'
    BY <1>3, <2>1, <2>2 DEF FilesInv
  <2>4. TodoInv(sweeping[s])'
    BY <1>3, <2>1, <2>2 DEF TodoInv
  <2>5. ReadInv(sweeping[s])'
    BY <1>3, <2>1 DEF ReadInv
  <2>6. sweeping'[s].pc = "record" => CollInv(sweeping[s])'
    BY <2>1 DEF CollInv
  <2>7. SweepInv(sweeping[s])'
    BY <1>3, <2>1, <2>2, <2>3, <2>4, <2>5, <2>6 DEF SweepInv
  <2>8. QED
    BY <1>2, <1>4, <2>1, <2>7, LoneKept DEF IndexInv
<1>9. QED
  BY <1>6, <1>7, <1>8

LEMMA WriteStep ==
    ASSUME IndexTypes, IndexInv, NEW s \in Sweepers, UpsertCall(s) \/ Forget(s) \/ \E n \in Notes : RecordNote(s, n)
    PROVE  IndexInv'
<1>1. ~AtRest(sweeping[s]) /\ sweeping[s].pc \in {"call", "record"}
  BY DEF UpsertCall, Forget, RecordNote, At, AtRest
<1>2. \A t \in Sweepers : t # s => AtRest(sweeping[t])
  BY <1>1, AloneLone DEF IndexInv
<1>3. InStep /\ SweepInv(sweeping[s])
  BY <1>1, <1>2, InStepNow DEF IndexInv
<1>4. ruled = build /\ FilesInv(sweeping[s]) /\ TodoInv(sweeping[s]) /\ ReadInv(sweeping[s])
  BY <1>1, <1>3 DEF SweepInv, Scanned
<1>5. UNCHANGED vault /\ UNCHANGED note /\ UNCHANGED build /\ UNCHANGED ruled
  BY DEF UpsertCall, Forget, RecordNote, vault
<1>6. RulesInv'
  <2>1. ruled # 0
    BY <1>4 DEF IndexTypes, Chunkers
  <2>2. QED
    BY <1>5, <2>1 DEF IndexInv, RulesInv
<1>7. CASE UpsertCall(s)
  <2>1. /\ Only(s)
        /\ sweeping'[s].pc = "record" /\ sweeping'[s].files = sweeping[s].files
        /\ sweeping'[s].todo = sweeping[s].todo /\ sweeping'[s].gone = sweeping[s].gone
        /\ sweeping'[s].batch = sweeping[s].batch /\ sweeping'[s].read = sweeping[s].read
        /\ \A n \in Notes : coll'[n] = Replaced(s, n)
        /\ UNCHANGED mani
    BY <1>7, UpsertTypes DEF UpsertCall
  <2>2. InStep'
    BY <1>3, <1>5, <1>7, <2>1, WritesNoIndexed DEF UpsertCall, At
  <2>3. CollInv(sweeping[s])'
    BY <1>5, <2>1, ChunksType DEF CollInv
  <2>4. FilesInv(sweeping[s])' /\ TodoInv(sweeping[s])' /\ ReadInv(sweeping[s])'
    BY <1>4, <1>5, <2>1 DEF FilesInv, TodoInv, ReadInv
  <2>5. SweepInv(sweeping[s])'
    BY <1>4, <1>5, <2>1, <2>3, <2>4 DEF SweepInv
  <2>6. QED
    BY <1>2, <1>6, <2>1, <2>2, <2>5, LoneKept, SyncThen DEF IndexInv
<1>8. ASSUME NEW n \in Notes, RecordNote(s, n) PROVE IndexInv'
  <2>1. /\ Only(s)
        /\ sweeping'[s].pc = "record" /\ sweeping'[s].files = sweeping[s].files
        /\ sweeping'[s].todo = sweeping[s].todo /\ sweeping'[s].gone = sweeping[s].gone
        /\ sweeping'[s].batch = sweeping[s].batch \ {n}
        /\ \A m \in Notes : sweeping'[s].read[m] = IF m = n THEN 0 ELSE sweeping[s].read[m]
        /\ \A m \in Notes : mani'[m] = IF m = n /\ sweeping[s].read[n] # 0 THEN sweeping[s].files[n] ELSE mani[m]
        /\ UNCHANGED coll
    <3>1. UNCHANGED coll
      BY <1>8 DEF RecordNote
    <3>2. QED
      BY <1>8, <3>1, RecordTypes
  <2>2. CollInv(sweeping[s]) /\ n \in sweeping[s].batch
    BY <1>3, <1>8 DEF SweepInv, RecordNote, At
  <2>3. ASSUME NEW m \in Notes, note[m] # 0, mani'[m] = note[m] PROVE coll[m] = {<<note[m], build>>}
    <3>1. CASE m = n /\ sweeping[s].read[n] # 0
      <4>1. note[n] = sweeping[s].files[n]
        BY <2>1, <2>3, <3>1
      <4>2. sweeping[s].read[n] = note[n]
        BY <1>4, <3>1, <4>1 DEF ReadInv
      <4>3. QED
        BY <2>2, <3>1, <4>2 DEF CollInv
    <3>2. CASE ~(m = n /\ sweeping[s].read[n] # 0)
      <4>1. mani[m] = note[m]
        BY <2>1, <2>3, <3>2
      <4>2. QED
        BY <1>3, <1>4, <2>3, <4>1 DEF InStep
    <3>3. QED
      BY <3>1, <3>2
  <2>4. InStep'
    BY <1>5, <2>1, <2>3 DEF InStep
  <2>5. FilesInv(sweeping[s])'
    BY <1>4, <1>5, <2>1 DEF FilesInv
  <2>6. TodoInv(sweeping[s])'
    <3>1. \A m \in sweeping[s].todo \cup (sweeping[s].batch \ {n}) : m # n /\ m \in Notes
      BY <2>2, InHand DEF Shape
    <3>2. \A m \in sweeping[s].todo \cup (sweeping[s].batch \ {n}) : mani'[m] = mani[m]
      BY <2>1, <3>1
    <3>3. QED
      BY <1>4, <2>1, <3>2 DEF TodoInv
  <2>7. ReadInv(sweeping[s])' /\ CollInv(sweeping[s])'
    BY <1>4, <1>5, <2>1, <2>2 DEF ReadInv, CollInv
  <2>8. SweepInv(sweeping[s])'
    BY <1>4, <1>5, <2>1, <2>5, <2>6, <2>7 DEF SweepInv
  <2>9. QED
    BY <1>2, <1>6, <2>1, <2>4, <2>8, LoneKept, SyncThen DEF IndexInv
<1>9. CASE Forget(s)
  <2>1. /\ Only(s) /\ UNCHANGED coll
        /\ \A n \in Notes : mani'[n] = IF n \in sweeping[s].gone THEN 0 ELSE mani[n]
    BY <1>9, ForgetTypes DEF Forget
  <2>2. InStep'
    BY <1>3, <1>5, <2>1 DEF InStep
  <2>3. SweepInv(sweeping[s])'
    <3>1. CASE sweeping'[s].pc \in {"idle", "done"}
      BY <3>1, EndInv
    <3>2. CASE sweeping'[s].pc = "read" /\ SameHand(sweeping'[s], sweeping[s])
      <4>1. FilesInv(sweeping[s])'
        <5>1. \A n \in Notes : mani[n] \in Nat /\ note[n] \in Nat
          BY DEF IndexTypes
        <5>2. \A n \in Notes : note[n] > mani[n] => note[n] > mani'[n]
          BY <2>1, <5>1
        <5>3. QED
          BY <1>4, <1>5, <3>2, <5>2 DEF FilesInv, SameHand
      <4>2. TodoInv(sweeping[s])'
        <5>1. \A n \in sweeping[s].todo \cup sweeping[s].batch : mani'[n] = mani[n]
          BY <2>1, InHand DEF Shape
        <5>2. QED
          BY <1>4, <3>2, <5>1 DEF TodoInv, SameHand
      <4>3. QED
        BY <1>4, <1>5, <3>2, <4>1, <4>2 DEF SweepInv
    <3>3. QED
      BY <1>9, <3>1, <3>2, ForgetTypes
  <2>4. QED
    BY <1>2, <1>6, <2>1, <2>2, <2>3, LoneKept, SyncThen DEF IndexInv
<1>10. QED
  BY <1>7, <1>8, <1>9

LEMMA FailStep ==
    ASSUME Steady, IndexTypes, IndexInv, NEW s \in Sweepers, SweepFails(s) \/ HelperMissing(s)
    PROVE  IndexInv'
<1>1. /\ Only(s) /\ sweeping'[s].pc \in {"idle", "done"} /\ sweeping[s].pc \in FailsAt
      /\ UNCHANGED <<vault, mani, ruled>>
      /\ sweeping[s].pc \notin {"drop", "call"} => UNCHANGED coll
      /\ sweeping[s].pc = "call" => \A n \in Notes :
            coll'[n] \in {coll[n], Replaced(s, n), coll[n] \cup Replaced(s, n)}
  BY FailTypes
<1>2. sweeping[s].pc \notin {"drop", "reset"} /\ ~AtRest(sweeping[s])
  BY <1>1, IndexAssumption DEF Steady, AtRest
<1>3. \A t \in Sweepers : t # s => AtRest(sweeping[t])
  BY <1>2, AloneLone DEF IndexInv
<1>4. InStep /\ SweepInv(sweeping[s])
  BY <1>2, <1>3, InStepNow DEF IndexInv
<1>5. InStep'
  <2>1. CASE sweeping[s].pc = "call"
    BY <1>1, <1>4, <2>1, WritesNoIndexed
  <2>2. CASE sweeping[s].pc # "call"
    BY <1>1, <1>2, <1>4, <2>2, InStepKept DEF stores
  <2>3. QED
    BY <2>1, <2>2
<1>6. RulesInv'
  BY <1>1 DEF IndexInv, RulesInv, vault
<1>7. QED
  BY <1>1, <1>3, <1>5, <1>6, EndInv, LoneKept, SyncThen DEF IndexInv

LEMMA StartStep ==
    ASSUME Steady, IndexTypes, IndexInv,
           IndexTick \/ WorkerDone \/ \E asked \in Orders : Command(asked)
    PROVE  IndexTypes' /\ IndexInv'
<1>1. UNCHANGED <<vault, stores>> /\ UNCHANGED mani /\ UNCHANGED ruled /\ UNCHANGED build
  BY DEF IndexTick, WorkerDone, Command, vault, stores
<1>2. RulesInv'
  BY <1>1 DEF IndexInv, RulesInv
<1>3. ASSUME NEW s \in Sweepers, AtRest(sweeping[s]), \A t \in Sweepers \ {s} : sweeping[t].pc \in {"idle", "done"},
             \/ \E asked \in Orders : Starts(s, asked)
             \/ Moves(s, "idle") /\ sweeping[s].pc = "done"
      PROVE  IndexTypes' /\ IndexInv'
  <2>1. /\ IndexTypes' /\ Only(s)
        /\ sweeping'[s].pc \in {"idle", "rules"} \/ (sweeping'[s].pc = "drop" /\ sweeping'[s].asked = "drop")
    BY <1>1, <1>3, StartTypes
  <2>2. \A t \in Sweepers : t # s => AtRest(sweeping[t])
    BY <1>3 DEF AtRest
  <2>3. SyncInv'
    <3>1. InStep
      BY <1>3, <2>2, InStepNow DEF AtRest
    <3>2. QED
      BY <1>1, <3>1, InStepKept, SyncThen
  <2>4. SweepInv(sweeping[s])'
    BY <2>1 DEF SweepInv, Scanned
  <2>5. QED
    BY <1>2, <2>1, <2>2, <2>3, <2>4, LoneKept DEF IndexInv
<1>4. CASE UNCHANGED sweeping
  <2>1. IndexTypes'
    BY <1>1, <1>4 DEF IndexTypes, vault, stores
  <2>2. QED
    BY <1>1, <1>2, <1>4, <2>1 DEF IndexInv, Lone, SyncInv, SweepInv, FilesInv, TodoInv, ReadInv, CollInv, vault, stores
<1>5. CASE \E asked \in Orders : Command(asked)
  <2>1. /\ "hand" \in Sweepers /\ AtRest(sweeping["hand"]) /\ \E asked \in Orders : Starts("hand", asked)
        /\ \A t \in Sweepers \ {"hand"} : sweeping[t].pc \in {"idle", "done"}
    BY <1>5 DEF Command, Sweepers, At, AtRest, Free, Steady
  <2>2. QED
    BY <1>3, <2>1
<1>6. CASE IndexTick
  <2>1. CASE At("daemon", "idle") /\ Free("daemon") /\ Starts("daemon", "sweep")
    <3>1. /\ "daemon" \in Sweepers /\ AtRest(sweeping["daemon"]) /\ \E asked \in Orders : Starts("daemon", asked)
          /\ \A t \in Sweepers \ {"daemon"} : sweeping[t].pc \in {"idle", "done"}
      BY <2>1 DEF Sweepers, At, AtRest, Free, Steady, Orders
    <3>2. QED
      BY <1>3, <3>1
  <2>2. QED
    BY <1>4, <1>6, <2>1 DEF IndexTick
<1>7. CASE WorkerDone
  <2>1. /\ "daemon" \in Sweepers /\ AtRest(sweeping["daemon"]) /\ sweeping["daemon"].pc = "done"
        /\ \E asked \in Orders : Starts("daemon", asked) \/ Moves("daemon", "idle")
        /\ \A t \in Sweepers \ {"daemon"} : sweeping[t].pc \in {"idle", "done"}
    BY <1>7 DEF WorkerDone, Sweepers, At, AtRest, Free, Steady, Orders
  <2>2. QED
    BY <1>3, <2>1
<1>8. QED
  BY <1>5, <1>6, <1>7

LEMMA IndexInvStep == Steady /\ IndexTypes /\ IndexInv /\ [IndexNext]_indexVars => (IndexTypes /\ IndexInv)'
<1> SUFFICES ASSUME Steady, IndexTypes, IndexInv, [IndexNext]_indexVars PROVE IndexTypes' /\ IndexInv'
  OBVIOUS
<1>1. CASE \E n \in Notes : Edit(n) \/ TakeAway(n)
  BY <1>1, VaultStep
<1>2. CASE NewBuild
  BY <1>2, VaultStep
<1>3. ASSUME NEW s \in Sweepers, IndexStep(s) PROVE IndexTypes' /\ IndexInv'
  <2>1. IndexTypes'
    BY <1>3, RulesTypes, DropTypes, ResetTypes, ScanTypes, CompareTypes, TakeTypes, UpsertTypes, RecordTypes, ForgetTypes
       DEF IndexStep
  <2>2. IndexInv'
    BY <1>3, EarlyStep, LookStep, WriteStep DEF IndexStep
  <2>3. QED
    BY <2>1, <2>2
<1>4. ASSUME NEW s \in Sweepers, SweepFails(s) \/ HelperMissing(s) PROVE IndexTypes' /\ IndexInv'
  BY <1>4, FailTypes, FailStep
<1>5. CASE IndexTick \/ WorkerDone \/ \E asked \in {"sweep", "rebuild", "drop"} : Command(asked)
  BY <1>5, StartStep DEF Orders
<1>6. CASE UNCHANGED indexVars
  <2>1. UNCHANGED <<vault, stores>> /\ UNCHANGED sweeping
    BY <1>6 DEF indexVars, vault, stores
  <2>2. QED
    BY <2>1 DEF IndexTypes, IndexInv, Lone, RulesInv, SyncInv, SweepInv, FilesInv, TodoInv, ReadInv, CollInv, vault, stores
<1>7. QED
  BY <1>1, <1>2, <1>3, <1>4, <1>5, <1>6 DEF IndexNext

\* However edits, sweeps, commands, new builds and failures of a sweep or its helper fall: while
\* nothing sweeps, a note that looks indexed is in the collection as it is, cut by this build's
\* rules (index.go Sweep, "Re-running the sweep is then always the fix").  Each of the premises
\* is needed: a rebuild that fails before its manifest is reset, two sweeps at once, and a note
\* that gets an old text back during a sweep each break it.
THEOREM LooksIndexedIsIndexed == ASSUME Steady PROVE IndexSpec => []IndexIsSound
<1>1. IndexInit => IndexTypes /\ IndexInv
  BY IndexTypesInit, IndexInvInit
<1>2. IndexTypes /\ IndexInv /\ [IndexNext]_indexVars => (IndexTypes /\ IndexInv)'
  BY IndexInvStep
<1>3. IndexTypes /\ IndexInv => IndexIsSound
  BY ShapeIsOK, IndexInvSays DEF IndexIsSound
<1>4. QED
  BY <1>1, <1>2, <1>3, PTL DEF IndexSpec

(***************************************************************************)
(* Mentions.  Types, and what a delivery has in hand.                      *)
(***************************************************************************)
Said == UNION {ToSet(b) : b \in Bodies}
NoSpeaker == [target |-> NoName, name |-> NoName]
Homes == {SpaceOf[p] : p \in Panes} \cup {NoWorkspace}
Messages == [stage : {"none", "resolve", "done"}, names : Seq(Said), from : Speakers \cup {NoSpeaker},
             in : Homes, among : SUBSET Panes, rest : Seq(Said), queue : Seq(Panes)]
Reports == [failed : SUBSET Panes, missed : SUBSET Said, mine : SUBSET Said, refused : SUBSET Said]

MentionTypes ==
    /\ live \subseteq Panes /\ told \in [Panes -> {0, 1}]
    /\ message \in Messages /\ report \in Reports

NoRepeat(q) == \A i, j \in 1..Len(q) : q[i] = q[j] => i = j

\* What is left of the names is their tail, and the resolved ones come before it.
Resolved(m) == 1..(Len(m.names) - Len(m.rest))
Tailing(m) ==
    /\ Len(m.rest) <= Len(m.names)
    /\ \A i \in 1..Len(m.rest) : m.rest[i] = m.names[i + (Len(m.names) - Len(m.rest))]

\* The delivery refuses a name, or means an agent by it, or has dealt with the agent.
Refuses(m, name) == name = AllName /\ m.in = NoWorkspace
Means(m, name, p) == ~Refuses(m, name) /\ p \in Candidates(name, m.in, m.among) /\ ~IsMe(p, m.from)
Dealt(p) == p \in ToSet(message.queue) \/ told[p] = 1 \/ p \in report.failed

Accounted(name) ==
    \/ Refuses(message, name) /\ name \in report.refused
    \/ /\ ~Refuses(message, name) /\ \A p \in Panes : Means(message, name, p) => Dealt(p)
       /\ name \in report.missed \cup report.mine \/ \E p \in Panes : Means(message, name, p)

\* While names are left nobody was told; whoever waits or was told is meant by a resolved
\* name, and every resolved name is accounted for.
MentionInv ==
    /\ message.stage = "none" \/ message.rest # <<>> => \A p \in Panes : told[p] = 0
    /\ message.stage = "done" => message.rest = <<>> /\ message.queue = <<>>
    /\ NoRepeat(message.queue) /\ \A p \in ToSet(message.queue) : told[p] = 0
    /\ Tailing(message)
    /\ \A p \in Panes : p \in ToSet(message.queue) \/ told[p] = 1 =>
           \E i \in Resolved(message) : Means(message, message.names[i], p)
    /\ \A i \in Resolved(message) : Accounted(message.names[i])

\* A finite set is laid out as a sequence that has each of its members once.
LEMMA SetAsSeq ==
    ASSUME NEW S, IsFiniteSet(S)
    PROVE  SetToSeq(S) \in Seq(S) /\ NoRepeat(SetToSeq(S)) /\ ToSet(SetToSeq(S)) = S
<1> DEFINE n == Cardinality(S)
           g == SetToSeq(S)
<1>1. n \in Nat /\ ExistsBijection(1..n, S)
  BY FS_CardinalityType
<1>2. \E f \in [1..n -> S] : IsInjective(f)
  BY <1>1 DEF ExistsBijection, Bijection, Injection
<1>3. g \in [1..n -> S] /\ IsInjective(g)
  BY <1>2 DEF SetToSeq
<1>4. g \in Injection(1..n, S)
  BY <1>3 DEF Injection
<1>5. Cardinality(1..n) = n /\ IsFiniteSet(1..n)
  BY <1>1, FS_Interval
<1> HIDE DEF g
<1>6. g \in Surjection(1..n, S)
  BY <1>4, <1>5, FS_Injection
<1>7. \A x \in S : \E i \in 1..n : g[i] = x
  BY <1>6 DEF Surjection
<1> HIDE DEF n
<1>8. g \in Seq(S) /\ Len(g) = n /\ DOMAIN g = 1..n
  BY <1>1, <1>3
<1>9. NoRepeat(g)
  BY <1>3, <1>8 DEF NoRepeat, IsInjective
<1>10. ToSet(g) = S
  BY <1>3, <1>7, <1>8 DEF ToSet
<1>11. QED
  BY <1>8, <1>9, <1>10 DEF g

LEMMA ToSetIs ==
    ASSUME NEW S, NEW q \in Seq(S)
    PROVE  /\ ToSet(q) = {q[i] : i \in 1..Len(q)} /\ ToSet(q) \subseteq S
           /\ q = <<>> => ToSet(q) = {}
BY DEF ToSet

\* A queue takes the targets it does not have yet, each once.
LEMMA EnqueueTakes ==
    ASSUME NEW q \in Seq(Panes), NoRepeat(q), NEW T \in SUBSET Panes
    PROVE  /\ Enqueue(q, T) \in Seq(Panes) /\ NoRepeat(Enqueue(q, T))
           /\ ToSet(Enqueue(q, T)) = ToSet(q) \cup T
<1> DEFINE new == T \ ToSet(q)
           s == SetToSeq(new)
           e == q \o s
<1>1. IsFiniteSet(new)
  BY MentionAssumption, FS_Subset
<1>2. s \in Seq(new) /\ NoRepeat(s) /\ ToSet(s) = new
  BY <1>1, SetAsSeq
<1>3. s \in Seq(Panes)
  BY <1>2
<1>4. ToSet(s) = {s[i] : i \in 1..Len(s)} /\ ToSet(q) = {q[i] : i \in 1..Len(q)}
  BY <1>3, ToSetIs
<1>5. e = Enqueue(q, T)
  BY DEF Enqueue
<1> HIDE DEF s
<1>6. /\ e \in Seq(Panes) /\ Len(e) = Len(q) + Len(s)
      /\ \A i \in 1..Len(e) : e[i] = IF i <= Len(q) THEN q[i] ELSE s[i - Len(q)]
  BY <1>3
<1>7. \A i \in 1..Len(s) : s[i] \in T /\ s[i] \notin ToSet(q)
  BY <1>2, <1>4
<1>8. \A i \in 1..Len(s) : e[Len(q) + i] = s[i]
  BY <1>3, <1>6
<1> HIDE DEF e
<1>9. NoRepeat(e)
  <2> SUFFICES ASSUME NEW i \in 1..Len(e), NEW j \in 1..Len(e), e[i] = e[j] PROVE i = j
    BY DEF NoRepeat
  <2>1. CASE i <= Len(q) /\ j <= Len(q)
    <3>1. i \in 1..Len(q) /\ j \in 1..Len(q) /\ q[i] = q[j]
      BY <1>6, <2>1
    <3>2. QED
      BY <3>1 DEF NoRepeat
  <2>2. CASE i > Len(q) /\ j > Len(q)
    <3>1. i - Len(q) \in 1..Len(s) /\ j - Len(q) \in 1..Len(s) /\ s[i - Len(q)] = s[j - Len(q)]
      BY <1>3, <1>6, <2>2
    <3>2. i - Len(q) = j - Len(q)
      BY <1>2, <3>1 DEF NoRepeat
    <3>3. QED
      BY <3>2
  <2>3. ASSUME NEW a \in 1..Len(e), NEW b \in 1..Len(e), a <= Len(q), b > Len(q), e[a] = e[b] PROVE FALSE
    <3>1. a \in 1..Len(q) /\ b - Len(q) \in 1..Len(s) /\ e[a] = q[a] /\ e[b] = s[b - Len(q)]
      BY <1>3, <1>6, <2>3
    <3>2. QED
      BY <1>4, <1>7, <2>3, <3>1
  <2>4. Len(q) \in Nat
    OBVIOUS
  <2>5. QED
    BY <2>1, <2>2, <2>3, <2>4
<1>10. ToSet(e) = ToSet(q) \cup T
  <2>1. ToSet(e) = {e[i] : i \in 1..Len(e)}
    BY <1>6, ToSetIs
  <2>2. ASSUME NEW x \in ToSet(e) PROVE x \in ToSet(q) \cup T
    <3>1. PICK i \in 1..Len(e) : x = e[i]
      BY <2>1
    <3>2. CASE i <= Len(q)
      <4>1. i \in 1..Len(q) /\ x = q[i]
        BY <1>6, <3>1, <3>2
      <4>2. QED
        BY <1>4, <4>1
    <3>3. CASE i > Len(q)
      <4>1. i - Len(q) \in 1..Len(s) /\ x = s[i - Len(q)]
        BY <1>3, <1>6, <3>1, <3>3
      <4>2. QED
        BY <1>7, <4>1
    <3>4. Len(q) \in Nat
      OBVIOUS
    <3>5. QED
      BY <3>2, <3>3, <3>4
  <2>3. ASSUME NEW x \in ToSet(q) PROVE x \in ToSet(e)
    <3>1. PICK i \in 1..Len(q) : x = q[i]
      BY <1>4
    <3>2. i \in 1..Len(e) /\ e[i] = x
      BY <1>3, <1>6, <3>1
    <3>3. QED
      BY <2>1, <3>2
  <2>4. ASSUME NEW x \in new PROVE x \in ToSet(e)
    <3>1. PICK i \in 1..Len(s) : x = s[i]
      BY <1>2, <1>4
    <3>2. Len(q) + i \in 1..Len(e) /\ e[Len(q) + i] = x
      BY <1>3, <1>6, <1>8, <3>1
    <3>3. QED
      BY <2>1, <3>2
  <2>5. QED
    BY <2>2, <2>3, <2>4
<1>11. QED
  BY <1>5, <1>6, <1>9, <1>10

LEMMA MentionStarts == ASSUME MentionInit PROVE MentionTypes /\ MentionInv
<1>1. message = Nothing /\ report = NoReport /\ live \subseteq Panes /\ told = [p \in Panes |-> 0]
  BY DEF MentionInit
<1>2. MentionTypes
  BY <1>1 DEF MentionTypes, Messages, Reports, Nothing, NoReport, NoSpeaker, Homes
<1>3. message.stage = "none" /\ message.rest = <<>> /\ message.names = <<>> /\ message.queue = <<>>
  BY <1>1 DEF Nothing
<1>4. ToSet(message.queue) = {}
  BY <1>3 DEF ToSet
<1>5. NoRepeat(message.queue) /\ Tailing(message)
  BY <1>3 DEF NoRepeat, Tailing
<1>6. Resolved(message) = {}
  BY <1>3 DEF Resolved
<1>7. \A p \in Panes : told[p] = 0
  BY <1>1
<1>8. QED
  BY <1>2, <1>3, <1>4, <1>5, <1>6, <1>7 DEF MentionInv

LEMMA BodyIs == ASSUME NEW b \in Bodies PROVE b \in Seq(Said) /\ b \in Seq(ToSet(b))
BY MentionAssumption DEF Said

LEMMA AnnounceKeeps ==
    ASSUME MentionTypes, MentionInv, NEW body \in Bodies, NEW from \in Speakers, NEW space \in Homes,
           Announce(body, from, space)
    PROVE  MentionTypes' /\ MentionInv'
<1>1. body \in Seq(Said)
  BY BodyIs
<1>2. /\ message'.stage \in {"resolve", "done"} /\ (message'.stage = "done" => body = <<>>)
      /\ message'.names = body /\ message'.rest = body /\ message'.queue = <<>>
      /\ message' \in Messages
  BY <1>1 DEF Announce, MentionTypes, Messages
<1>3. message.stage = "none" /\ UNCHANGED told /\ UNCHANGED report /\ UNCHANGED live
  BY DEF Announce
<1>4. MentionTypes'
  BY <1>2, <1>3 DEF MentionTypes
<1>5. \A p \in Panes : told'[p] = 0
  BY <1>3 DEF MentionInv
<1>6. ToSet(message'.queue) = {} /\ NoRepeat(message'.queue)
  BY <1>2 DEF ToSet, NoRepeat
<1>7. Tailing(message') /\ Resolved(message') = {}
  BY <1>1, <1>2 DEF Tailing, Resolved
<1>8. QED
  BY <1>2, <1>4, <1>5, <1>6, <1>7 DEF MentionInv

LEMMA ResolveKeeps == ASSUME MentionTypes, MentionInv, ResolveName PROVE MentionTypes' /\ MentionInv'
<1> DEFINE name == Head(message.rest)
           refused == Refuses(message, name)
           found == Candidates(name, message.in, message.among)
           others == {p \in found : ~IsMe(p, message.from)}
           at == Len(message.names) - Len(message.rest) + 1
<1>1. /\ message \in Messages /\ message.rest \in Seq(Said) /\ message.rest # <<>> /\ message.names \in Seq(Said)
      /\ message.queue \in Seq(Panes) /\ message.among \subseteq Panes /\ message.stage = "resolve"
      /\ report \in Reports /\ told \in [Panes -> {0, 1}] /\ live \subseteq Panes
  BY DEF MentionTypes, Messages, ResolveName
<1>2. found \subseteq Panes /\ others \subseteq Panes
  BY <1>1 DEF Candidates, PickTargets, ByName
<1>3. /\ message' = [message EXCEPT !.rest = Tail(@), !.queue = IF refused THEN @ ELSE Enqueue(@, others)]
      /\ report' = [report EXCEPT
              !.refused = IF refused THEN @ \cup {name} ELSE @,
              !.missed = IF ~refused /\ found = {} THEN @ \cup {name} ELSE @,
              !.mine = IF ~refused /\ found # {} /\ others = {} THEN @ \cup {name} ELSE @]
      /\ UNCHANGED live /\ UNCHANGED told
  BY DEF ResolveName, Refuses
<1>4. /\ name \in Said /\ Tail(message.rest) \in Seq(Said) /\ Len(Tail(message.rest)) = Len(message.rest) - 1
      /\ \A i \in 1..Len(Tail(message.rest)) : Tail(message.rest)[i] = message.rest[i + 1]
      /\ Len(message.rest) >= 1 /\ name = message.rest[1]
  BY <1>1
<1>5. NoRepeat(message.queue) /\ Tailing(message)
  BY DEF MentionInv
<1>6. /\ Enqueue(message.queue, others) \in Seq(Panes) /\ NoRepeat(Enqueue(message.queue, others))
      /\ ToSet(Enqueue(message.queue, others)) = ToSet(message.queue) \cup others
  BY <1>1, <1>2, <1>5, EnqueueTakes
<1>7. \A p \in Panes : p \in others <=> p \in found /\ ~IsMe(p, message.from)
  OBVIOUS
<1> HIDE DEF found, refused, others, name
<1>8. /\ message' \in Messages /\ message'.stage = "resolve" /\ message'.names = message.names
      /\ message'.rest = Tail(message.rest) /\ message'.in = message.in /\ message'.among = message.among
      /\ message'.from = message.from
      /\ message'.queue = IF refused THEN message.queue ELSE Enqueue(message.queue, others)
  BY <1>1, <1>3, <1>4, <1>6 DEF Messages
<1>9. /\ report' \in Reports /\ report'.failed = report.failed
      /\ report.refused \subseteq report'.refused /\ report.missed \subseteq report'.missed /\ report.mine \subseteq report'.mine
      /\ refused => name \in report'.refused
      /\ ~refused /\ others = {} => name \in report'.missed \cup report'.mine
  BY <1>1, <1>3, <1>4 DEF Reports
<1>10. MentionTypes'
  BY <1>1, <1>3, <1>8, <1>9 DEF MentionTypes
<1>11. NoRepeat(message'.queue) /\ ToSet(message'.queue) = ToSet(message.queue) \cup (IF refused THEN {} ELSE others)
  BY <1>5, <1>6, <1>8
<1>12. \A p \in Panes : told'[p] = 0
  BY <1>1, <1>3 DEF MentionInv
<1>13. Tailing(message')
  <2> DEFINE l == Len(message.names)
             r == Len(message.rest)
  <2>1. l \in Nat /\ r \in Nat /\ r <= l /\ r >= 1
    BY <1>1, <1>4, <1>5 DEF Tailing
  <2>2. \A i \in 1..r : message.rest[i] = message.names[i + (l - r)]
    BY <1>5 DEF Tailing
  <2>3. message'.names = message.names /\ Len(message'.rest) = r - 1
    BY <1>4, <1>8
  <2>4. \A i \in 1..(r - 1) : message'.rest[i] = message.rest[i + 1]
    BY <1>4, <1>8
  <2> HIDE DEF l, r
  <2>5. ASSUME NEW i \in 1..(r - 1) PROVE message'.rest[i] = message.names[i + (l - (r - 1))]
    <3>1. i + 1 \in 1..r /\ (i + 1) + (l - r) = i + (l - (r - 1))
      BY <2>1
    <3>2. QED
      BY <2>2, <2>4, <3>1
  <2>6. Len(message'.names) = l
    BY <2>3 DEF l
  <2>7. QED
    BY <2>1, <2>3, <2>5, <2>6 DEF Tailing
<1>14. at \in 1..Len(message.names) /\ message.names[at] = name
  <2>1. Len(message.names) \in Nat /\ Len(message.rest) \in Nat /\ Len(message.rest) <= Len(message.names) /\ Len(message.rest) >= 1
    BY <1>1, <1>4, <1>5 DEF Tailing
  <2>2. 1 + (Len(message.names) - Len(message.rest)) = at /\ 1 \in 1..Len(message.rest)
    BY <2>1
  <2>3. message.rest[1] = message.names[at]
    BY <1>5, <2>2 DEF Tailing
  <2>4. at \in 1..Len(message.names)
    <3>1. \A l, r \in Nat : r <= l /\ r >= 1 => (l - r) + 1 \in 1..l
      OBVIOUS
    <3>2. QED
      BY <2>1, <3>1
  <2>5. QED
    BY <1>4, <2>3, <2>4
<1>15. Resolved(message') = Resolved(message) \cup {at} /\ Resolved(message) \subseteq Resolved(message')
  <2>1. Len(message.names) \in Nat /\ Len(message.rest) \in Nat /\ Len(message.rest) <= Len(message.names) /\ Len(message.rest) >= 1
    BY <1>1, <1>4, <1>5 DEF Tailing
  <2>2. Resolved(message') = 1..at /\ Resolved(message) = 1..(at - 1)
    <3> DEFINE l == Len(message.names)
               r == Len(message.rest)
    <3>1. l \in Nat /\ r \in Nat
      BY <2>1
    <3>2. Len(message'.names) = l /\ Len(message'.rest) = r - 1
      BY <1>4, <1>8
    <3> HIDE DEF l, r
    <3>3. l - (r - 1) = (l - r) + 1 /\ l - r = ((l - r) + 1) - 1
      BY <3>1
    <3>4. Resolved(message') = 1..(l - (r - 1)) /\ Resolved(message) = 1..(l - r) /\ at = (l - r) + 1
      BY <3>2 DEF Resolved, l, r
    <3>5. QED
      BY <3>1, <3>3, <3>4
  <2>3. at \in Nat /\ at >= 1
    BY <2>1
  <2> HIDE DEF at
  <2>4. QED
    BY <2>2, <2>3
<1> HIDE DEF at
<1>16. \A x, p : Means(message', x, p) <=> Means(message, x, p)
  BY <1>8 DEF Means, Refuses
<1>17. \A x : Refuses(message', x) <=> Refuses(message, x)
  BY <1>8 DEF Refuses
<1>18. \A p \in Panes : Means(message, name, p) <=> ~refused /\ p \in others
  BY <1>7 DEF Means, refused, found
<1>19. \A p \in Panes : Dealt(p) => Dealt(p)'
  BY <1>3, <1>9, <1>11 DEF Dealt
<1>20. ASSUME NEW x, Accounted(x) PROVE Accounted(x)'
  BY <1>9, <1>16, <1>17, <1>19, <1>20 DEF Accounted
<1>21. ASSUME NEW x, x = name PROVE Accounted(x)'
  <2>1. CASE refused
    BY <1>9, <1>17, <1>21, <2>1 DEF Accounted, refused
  <2>2. CASE ~refused
    <3>1. \A p \in Panes : Means(message, x, p) => Dealt(p)'
      BY <1>11, <1>18, <1>21, <2>2 DEF Dealt
    <3>2. others # {} => \E p \in Panes : Means(message, x, p)
      BY <1>2, <1>18, <1>21, <2>2
    <3>3. QED
      BY <1>9, <1>16, <1>17, <1>21, <2>2, <3>1, <3>2 DEF Accounted, refused
  <2>3. QED
    BY <2>1, <2>2
<1>22. ASSUME NEW i \in Resolved(message') PROVE Accounted(message.names[i])'
  <2>1. PICK x : x = message'.names[i]
    OBVIOUS
  <2>2. x = message.names[i] /\ (i \in Resolved(message) \/ x = name)
    BY <1>8, <1>14, <1>15, <2>1
  <2>3. Accounted(x)'
    BY <1>20, <1>21, <2>2 DEF MentionInv
  <2>4. QED
    BY <2>1, <2>3
<1>23. ASSUME NEW p \in Panes, p \in ToSet(message'.queue) PROVE \E i \in Resolved(message') : Means(message', message'.names[i], p)
  <2>1. CASE p \in ToSet(message.queue)
    <3>1. PICK i \in Resolved(message) : Means(message, message.names[i], p)
      BY <2>1 DEF MentionInv
    <3>2. QED
      BY <1>8, <1>15, <1>16, <3>1
  <2>2. CASE ~refused /\ p \in others
    <3>1. Means(message', message'.names[at], p)
      BY <1>8, <1>14, <1>16, <1>18, <2>2
    <3>2. QED
      BY <1>15, <3>1
  <2>3. QED
    BY <1>11, <1>23, <2>1, <2>2
<1>24. QED
  BY <1>8, <1>10, <1>11, <1>12, <1>13, <1>22, <1>23, ToSetIs DEF MentionInv, Messages

LEMMA DeliverKeeps == ASSUME MentionTypes, MentionInv, DeliverNext PROVE MentionTypes' /\ MentionInv'
<1> DEFINE p == Head(message.queue)
           q == Tail(message.queue)
<1>1. /\ message \in Messages /\ message.queue \in Seq(Panes) /\ message.queue # <<>> /\ message.rest = <<>>
      /\ message.stage = "resolve" /\ message' = [message EXCEPT !.queue = q] /\ UNCHANGED live
      /\ report \in Reports /\ told \in [Panes -> {0, 1}]
  BY DEF MentionTypes, Messages, DeliverNext
<1>2. /\ q \in Seq(Panes) /\ Len(q) = Len(message.queue) - 1 /\ p \in Panes /\ p = message.queue[1]
      /\ \A i \in 1..Len(q) : q[i] = message.queue[i + 1]
      /\ Len(message.queue) \in Nat /\ Len(message.queue) >= 1
  BY <1>1
<1>3. NoRepeat(message.queue) /\ (\A r \in ToSet(message.queue) : told[r] = 0) /\ Tailing(message)
  BY DEF MentionInv
<1>4. ToSet(message.queue) = {message.queue[i] : i \in 1..Len(message.queue)} /\ ToSet(q) = {q[i] : i \in 1..Len(q)}
  BY <1>1, <1>2, ToSetIs
<1>5. p \in ToSet(message.queue) /\ told[p] = 0
  BY <1>2, <1>3, <1>4
<1>6. \/ told' = [told EXCEPT ![p] = @ + 1] /\ UNCHANGED report
      \/ report' = [report EXCEPT !.failed = @ \cup {p}] /\ UNCHANGED told
  BY DEF DeliverNext
<1> HIDE DEF p, q
<1>7. /\ NoRepeat(q) /\ p \notin ToSet(q) /\ ToSet(q) \subseteq ToSet(message.queue)
      /\ \A r \in ToSet(message.queue) : r = p \/ r \in ToSet(q)
  <2>1. \A i \in 1..Len(q) : i + 1 \in 1..Len(message.queue) /\ i + 1 # 1
    BY <1>2
  <2>2. \A i \in 1..Len(q) : q[i] \in ToSet(message.queue)
    BY <1>2, <1>4, <2>1
  <2>3. 1 \in 1..Len(message.queue)
    BY <1>2
  <2>4. \A i \in 1..Len(q) : q[i] # p
    BY <1>2, <1>3, <2>1, <2>3 DEF NoRepeat
  <2>5. NoRepeat(q)
    BY <1>2, <1>3, <2>1 DEF NoRepeat
  <2>6. ASSUME NEW i \in 1..Len(message.queue) PROVE message.queue[i] = p \/ message.queue[i] \in ToSet(q)
    <3>1. CASE i = 1
      BY <1>2, <3>1
    <3>2. CASE i # 1
      <4>1. i - 1 \in 1..Len(q) /\ (i - 1) + 1 = i
        BY <1>2, <3>2
      <4>2. q[i - 1] = message.queue[i]
        BY <1>2, <4>1
      <4>3. QED
        BY <1>4, <4>1, <4>2
    <3>3. QED
      BY <3>1, <3>2
  <2>7. QED
    BY <1>4, <2>2, <2>4, <2>5, <2>6
<1>8. /\ message' \in Messages /\ message'.stage = "resolve" /\ message'.names = message.names /\ message'.rest = <<>>
      /\ message'.in = message.in /\ message'.among = message.among /\ message'.from = message.from /\ message'.queue = q
  BY <1>1, <1>2 DEF Messages
<1>9. told' \in [Panes -> {0, 1}] /\ report' \in Reports
  <2>1. CASE told' = [told EXCEPT ![p] = @ + 1] /\ UNCHANGED report
    BY <1>1, <1>2, <1>5, <2>1
  <2>2. CASE report' = [report EXCEPT !.failed = @ \cup {p}] /\ UNCHANGED told
    BY <1>1, <1>2, <2>2 DEF Reports
  <2>3. QED
    BY <1>6, <2>1, <2>2
<1>10. /\ \A r \in Panes : r # p => told'[r] = told[r]
       /\ \A r \in Panes : told[r] = 1 => told'[r] = 1
       /\ told'[p] = 1 \/ p \in report'.failed
       /\ report.failed \subseteq report'.failed /\ report'.refused = report.refused
       /\ report'.missed = report.missed /\ report'.mine = report.mine
  <2>1. CASE told' = [told EXCEPT ![p] = @ + 1] /\ UNCHANGED report
    BY <1>1, <1>2, <1>5, <2>1
  <2>2. CASE report' = [report EXCEPT !.failed = @ \cup {p}] /\ UNCHANGED told
    BY <1>1, <1>2, <2>2 DEF Reports
  <2>3. QED
    BY <1>6, <2>1, <2>2
<1>11. Resolved(message') = Resolved(message) /\ Tailing(message')
  BY <1>1, <1>3, <1>8 DEF Resolved, Tailing
<1>12. /\ \A x, r : Means(message', x, r) <=> Means(message, x, r)
       /\ \A x : Refuses(message', x) <=> Refuses(message, x)
  BY <1>8 DEF Means, Refuses
<1>13. \A r \in Panes : Dealt(r) => Dealt(r)'
  BY <1>7, <1>8, <1>10 DEF Dealt
<1>14. ASSUME NEW x, Accounted(x) PROVE Accounted(x)'
  BY <1>10, <1>12, <1>13, <1>14 DEF Accounted
<1>15. ASSUME NEW i \in Resolved(message') PROVE Accounted(message.names[i])'
  <2>1. PICK x : x = message'.names[i]
    OBVIOUS
  <2>2. x = message.names[i] /\ i \in Resolved(message)
    BY <1>8, <1>11, <2>1
  <2>3. Accounted(x)'
    BY <1>14, <2>2 DEF MentionInv
  <2>4. QED
    BY <2>1, <2>3
<1>16. \A r \in ToSet(q) : told'[r] = 0 /\ r \in Panes
  BY <1>2, <1>3, <1>4, <1>7, <1>10
<1>17. ASSUME NEW r \in Panes, r \in ToSet(q) \/ told'[r] = 1
       PROVE  \E i \in Resolved(message') : Means(message', message'.names[i], r)
  <2>1. r \in ToSet(message.queue) \/ told[r] = 1
    BY <1>5, <1>7, <1>10, <1>17
  <2>2. QED
    BY <1>8, <1>11, <1>12, <2>1 DEF MentionInv
<1>18. MentionTypes'
  BY <1>1, <1>8, <1>9 DEF MentionTypes
<1>19. message'.stage # "none" /\ message'.stage # "done" /\ message'.rest = <<>>
  BY <1>8
<1>20. QED
  BY <1>7, <1>8, <1>11, <1>15, <1>16, <1>17, <1>18, <1>19 DEF MentionInv

LEMMA MentionStep ==
    ASSUME MentionTypes, MentionInv, [MentionNext]_mentionVars PROVE MentionTypes' /\ MentionInv'
<1>1. ASSUME NEW body \in Bodies, NEW from \in Speakers, NEW space \in Homes, Announce(body, from, space)
      PROVE  MentionTypes' /\ MentionInv'
  BY <1>1, AnnounceKeeps
<1>2. CASE ResolveName
  BY <1>2, ResolveKeeps
<1>3. CASE DeliverNext
  BY <1>3, DeliverKeeps
<1>4. CASE Delivered
  <2>1. /\ message' = [message EXCEPT !.stage = "done"] /\ message.rest = <<>> /\ message.queue = <<>>
        /\ UNCHANGED live /\ UNCHANGED told /\ UNCHANGED report /\ message \in Messages
    BY <1>4 DEF Delivered, MentionTypes
  <2>2. /\ message' \in Messages /\ message'.stage = "done" /\ message'.names = message.names /\ message'.rest = <<>>
        /\ message'.in = message.in /\ message'.among = message.among /\ message'.from = message.from /\ message'.queue = <<>>
    BY <2>1 DEF Messages
  <2>3. MentionTypes'
    BY <2>1, <2>2 DEF MentionTypes
  <2>4. ToSet(message'.queue) = ToSet(message.queue) /\ NoRepeat(message'.queue)
    BY <2>1, <2>2 DEF MentionInv
  <2>5. Resolved(message') = Resolved(message) /\ Tailing(message')
    BY <2>1, <2>2 DEF MentionInv, Resolved, Tailing
  <2>6. /\ \A x, p : Means(message', x, p) <=> Means(message, x, p)
        /\ \A x : Refuses(message', x) <=> Refuses(message, x)
    BY <2>2 DEF Means, Refuses
  <2>7. ASSUME NEW x, Accounted(x) PROVE Accounted(x)'
    BY <2>1, <2>4, <2>6, <2>7 DEF Accounted, Dealt
  <2>8. ASSUME NEW i \in Resolved(message') PROVE Accounted(message.names[i])'
    <3>1. PICK x : x = message'.names[i]
      OBVIOUS
    <3>2. Accounted(x)
      BY <2>2, <2>5, <3>1 DEF MentionInv
    <3>3. QED
      BY <2>7, <3>1, <3>2
  <2>9. \A p \in ToSet(message.queue) : told'[p] = 0
    BY <2>1 DEF MentionInv
  <2>10. ASSUME NEW p \in Panes, p \in ToSet(message'.queue) \/ told'[p] = 1
         PROVE  \E i \in Resolved(message') : Means(message', message'.names[i], p)
    BY <2>1, <2>2, <2>4, <2>5, <2>6, <2>10 DEF MentionInv
  <2>11. QED
    BY <2>2, <2>3, <2>4, <2>5, <2>8, <2>9, <2>10 DEF MentionInv
<1>5. CASE UNCHANGED message /\ UNCHANGED told /\ UNCHANGED report /\ live' \subseteq Panes
  <2>1. MentionTypes'
    BY <1>5 DEF MentionTypes
  <2>2. QED
    BY <1>5, <2>1 DEF MentionInv, Accounted, Dealt
<1>6. ASSUME NEW p \in Panes, AgentExits(p) \/ AgentArrives(p) PROVE MentionTypes' /\ MentionInv'
  <2>1. UNCHANGED message /\ UNCHANGED told /\ UNCHANGED report /\ live' \subseteq Panes
    BY <1>6 DEF AgentExits, AgentArrives, MentionTypes
  <2>2. QED
    BY <1>5, <2>1
<1>7. CASE UNCHANGED mentionVars
  <2>1. UNCHANGED message /\ UNCHANGED told /\ UNCHANGED report /\ live' \subseteq Panes
    BY <1>7 DEF mentionVars, MentionTypes
  <2>2. QED
    BY <1>5, <2>1
<1>8. QED
  BY <1>1, <1>2, <1>3, <1>4, <1>6, <1>7 DEF MentionNext, Homes

\* What the invariant says once the delivery is over, and of who was told at any time.
LEMMA MentionDelivers == ASSUME MentionTypes, MentionInv PROVE MentionsReachTheNamed
<1>1. ASSUME NEW p \in Panes, told[p] # 0 PROVE \E x \in Mentioned : Means(message, x, p)
  <2>1. told[p] = 1
    BY <1>1 DEF MentionTypes
  <2>2. PICK i \in Resolved(message) : Means(message, message.names[i], p)
    BY <2>1 DEF MentionInv
  <2>3. i \in 1..Len(message.names) /\ message.names \in Seq(Said)
    <3>1. message.names \in Seq(Said) /\ message.rest \in Seq(Said)
      BY DEF MentionTypes, Messages
    <3>2. Len(message.names) \in Nat /\ Len(message.rest) \in Nat
      BY <3>1
    <3>3. \A l, r \in Nat : \A x \in 1..(l - r) : x \in 1..l
      OBVIOUS
    <3>4. i \in 1..(Len(message.names) - Len(message.rest))
      BY DEF Resolved
    <3>5. QED
      BY <3>1, <3>2, <3>3, <3>4
  <2>4. message.names[i] \in Mentioned
    BY <2>3, ToSetIs DEF Mentioned
  <2>5. QED
    BY <2>2, <2>4
<1>2. ToldOnce
  <2>1. ASSUME NEW p \in Panes PROVE told[p] <= 1 /\ (told[p] = 1 => p # message.from.target)
    <3>1. told[p] \in {0, 1}
      BY DEF MentionTypes
    <3>2. told[p] <= 1
      BY <3>1
    <3>3. told[p] = 1 => p # message.from.target
      BY <1>1 DEF Means, IsMe
    <3>4. QED
      BY <3>2, <3>3
  <2>2. QED
    BY <2>1 DEF ToldOnce
<1>3. \A p \in Panes : told[p] > 0 => told[p] # 0
  BY DEF MentionTypes
<1>4. AllStaysInSpace
  BY <1>1, <1>3 DEF AllStaysInSpace, Means, Candidates
<1>5. NamesWin
  <2> SUFFICES ASSUME NEW x \in Mentioned \ {AllName}, Mentioned = {x}, ByName(x, message.among) # {},
                      NEW p \in Panes, told[p] > 0
               PROVE  NameOf[p] = x
    BY DEF NamesWin
  <2>1. Means(message, x, p)
    BY <1>1, <1>3
  <2>2. p \in ByName(x, message.among)
    BY <2>1 DEF Means, Candidates, PickTargets
  <2>3. QED
    BY <2>2 DEF ByName
<1>6. MentionsAreAnswered
  <2> SUFFICES ASSUME Over PROVE /\ \A x \in Mentioned \ {AllName} : \A p \in ByName(x, message.among) :
                                        told[p] = 1 \/ p \in report.failed \/ IsMe(p, message.from)
                                 /\ \A x \in Mentioned :
                                        \/ x \in report.refused \cup report.missed \cup report.mine
                                        \/ \E p \in Candidates(x, message.in, message.among) : told[p] = 1 \/ p \in report.failed
    BY DEF MentionsAreAnswered
  <2>1. message.rest = <<>> /\ message.queue = <<>> /\ message.names \in Seq(Said) /\ message.among \subseteq Panes
    BY DEF Over, MentionInv, MentionTypes, Messages
  <2>2. Resolved(message) = 1..Len(message.names) /\ ToSet(message.queue) = {}
    BY <2>1 DEF Resolved, ToSet
  <2>3. \A x \in Mentioned : Accounted(x)
    BY <2>1, <2>2, ToSetIs DEF MentionInv, Mentioned
  <2>4. \A p : Dealt(p) => told[p] = 1 \/ p \in report.failed
    BY <2>2 DEF Dealt
  <2>5. ASSUME NEW x \in Mentioned \ {AllName}, NEW p \in ByName(x, message.among)
        PROVE  told[p] = 1 \/ p \in report.failed \/ IsMe(p, message.from)
    <3>1. p \in Panes /\ p \in Candidates(x, message.in, message.among)
      BY <2>1 DEF ByName, Candidates, PickTargets
    <3>2. ~Refuses(message, x)
      BY DEF Refuses
    <3>3. Means(message, x, p) \/ IsMe(p, message.from)
      BY <3>1, <3>2 DEF Means
    <3>4. QED
      BY <2>3, <2>4, <3>1, <3>2, <3>3 DEF Accounted
  <2>6. ASSUME NEW x \in Mentioned
        PROVE  \/ x \in report.refused \cup report.missed \cup report.mine
               \/ \E p \in Candidates(x, message.in, message.among) : told[p] = 1 \/ p \in report.failed
    <3>1. ASSUME NEW p \in Panes, Means(message, x, p), Dealt(p)
          PROVE  \E c \in Candidates(x, message.in, message.among) : told[c] = 1 \/ c \in report.failed
      BY <2>4, <3>1 DEF Means
    <3>2. QED
      BY <2>3, <3>1 DEF Accounted
  <2>7. QED
    BY <2>5, <2>6
<1>7. QED
  BY <1>2, <1>4, <1>5, <1>6 DEF MentionsReachTheNamed

\* internal/mention Resolve, Deliver: however agents come and go while a message is
\* delivered, each is told at most once and never the speaker, @all stays in the workspace,
\* a registered name goes before a loose match, and every mention is accounted for.
THEOREM MentionsReach == MentionSpec => []MentionsReachTheNamed
<1>1. MentionInit => MentionTypes /\ MentionInv
  BY MentionStarts
<1>2. MentionTypes /\ MentionInv /\ [MentionNext]_mentionVars => (MentionTypes /\ MentionInv)'
  BY MentionStep
<1>3. MentionTypes /\ MentionInv => MentionsReachTheNamed
  BY MentionDelivers
<1>4. QED
  BY <1>1, <1>2, <1>3, PTL DEF MentionSpec

(***************************************************************************)
(* A checklist page.  Types of the file, of what each process is in the     *)
(* middle of, of the board's reads and of its selection.                   *)
(***************************************************************************)
Procs == Writers \cup Toggles
HoldingDo == {"set", "add", "toggle", "fill", "refill", "new"}
Doings == {"idle", "ensure", "asked"} \cup HoldingDo
Marks == Texts \cup {NoText}
Picked == [text : Marks, idx : Nat, on : Seq(Texts)]
StepsOf == [do : Doings, text : Marks \cup Titles, done : BOOLEAN, at : Nat, from : Seq(Items), meant : {NoText} \cup Picked]
Reads == [at : {"none", "stat", "parse", "keep", "ready"}, key : Nat, val : Seq(Items)]
Selections == [idx : Nat, cursor : Nat \ {0}, text : Marks, snap : Seq(Texts), count : Nat, invalid : BOOLEAN]

FileTypes ==
    /\ page \in Seq(Items) /\ Len(page) <= MaxItems /\ gen \in Nat \ {0}
    /\ held \in Procs \cup {NoOne} /\ pc \in [Procs -> StepsOf]
ReadTypes ==
    /\ cache \in [key : Nat, val : Seq(Items)] /\ readers \in [Readers -> Reads]
DeskTypes ==
    /\ shown \in Seq(Items) /\ sel \in Selections /\ inItems \in BOOLEAN /\ chosen \in Picked

\* The lock is held from the load to the write.
LockInv == \A w \in Procs : held = w <=> pc[w].do \in HoldingDo

\* What a process carries from the load to the write is a change that fits the page it loaded.
StepFits(c) ==
    /\ c.do \in {"set", "toggle", "refill", "asked"} => c.at \in DOMAIN c.from
    /\ c.do \in {"set", "toggle", "refill", "add", "fill"} => Len(c.from) <= MaxItems
    /\ c.do \in {"add", "fill"} => Len(c.from) < MaxItems
    /\ c.do \in {"add", "fill", "ensure"} => c.text \in Texts
    /\ c.do = "new" => made = {} /\ c.text \in Titles

\* Without trouble the page is the agreed one but while a write is between its two halves,
\* and the holder of the lock has loaded the agreed one.
LedgerInv == ~slip =>
    /\ (\A w \in Procs : pc[w].do \notin {"fill", "refill"}) => ledger = page
    /\ \A w \in Procs : pc[w].do \in {"set", "toggle", "add", "fill", "refill"} => ledger = pc[w].from
MadeInv == made = {} \/ \E t \in Titles : made = {t}
FileInv == FileTypes /\ LockInv /\ (\A w \in Procs : StepFits(pc[w])) /\ LedgerInv /\ MadeInv

\* What was parsed under the file's present stat is the file.
ReadsInv ==
    /\ ReadTypes /\ cache.key <= gen /\ CacheIsCurrent
    /\ \A r \in Readers : readers[r].key <= gen /\ (readers[r].at = "keep" /\ readers[r].key = gen => readers[r].val = page)

\* A place on a page is the chosen item: told apart by its text or, when the text is there twice,
\* by its place on the page it was chosen on.
IsChosen(p, i, want) ==
    /\ i \in DOMAIN p /\ p[i].text = want.text
    /\ Twice(TextsOf(p), want.text) \/ Twice(want.on, want.text) => want.on = TextsOf(p) /\ i = want.idx
OnIt(s, p, want) ==
    /\ s.cursor = s.idx /\ s.text = want.text /\ s.count = CountIn(p, s.text)
    /\ IsChosen(p, s.cursor, want) /\ want.text \in Texts
SelInv ==
    /\ DeskTypes /\ sel.snap = TextsOf(shown)
    /\ inItems /\ ~sel.invalid => OnIt(sel, shown, chosen)
AimInv == \A w \in Procs : pc[w].do \in {"asked", "toggle"} =>
    /\ pc[w].meant \in Picked /\ IsChosen(pc[w].from, pc[w].at, pc[w].meant)
    /\ pc[w].from[pc[w].at].done # pc[w].done

LEMMA Joined == ASSUME NEW S, NEW a \in Seq(S), NEW b \in Seq(S) PROVE a \o b \in Seq(S) /\ Len(a \o b) = Len(a) + Len(b)
OBVIOUS

LEMMA PageEdits ==
    ASSUME NEW S, NEW p \in Seq(S), NEW e \in S
    PROVE  /\ \A i \in DOMAIN p : RemoveAt(p, i) \in Seq(S) /\ Len(RemoveAt(p, i)) = Len(p) - 1
           /\ \A i \in 1..(Len(p) + 1) : InsertAt(p, i, e) \in Seq(S) /\ Len(InsertAt(p, i, e)) = Len(p) + 1
           /\ Append(p, e) \in Seq(S) /\ Len(Append(p, e)) = Len(p) + 1
<1>1. \A i \in 1..(Len(p) + 1) : /\ SubSeq(p, 1, i - 1) \in Seq(S) /\ Len(SubSeq(p, 1, i - 1)) = i - 1
                                 /\ SubSeq(p, i, Len(p)) \in Seq(S) /\ Len(SubSeq(p, i, Len(p))) = Len(p) + 1 - i
  OBVIOUS
<1>2. \A i \in 1..Len(p) : SubSeq(p, i + 1, Len(p)) \in Seq(S) /\ Len(SubSeq(p, i + 1, Len(p))) = Len(p) - i
  OBVIOUS
<1>3. ASSUME NEW i \in DOMAIN p PROVE RemoveAt(p, i) \in Seq(S) /\ Len(RemoveAt(p, i)) = Len(p) - 1
  <2>1. i \in 1..(Len(p) + 1) /\ i \in 1..Len(p) /\ Len(p) \in Nat
    OBVIOUS
  <2> DEFINE a == SubSeq(p, 1, i - 1)
             b == SubSeq(p, i + 1, Len(p))
  <2>2. a \in Seq(S) /\ b \in Seq(S) /\ Len(a) = i - 1 /\ Len(b) = Len(p) - i /\ RemoveAt(p, i) = a \o b
    BY <1>1, <1>2, <2>1 DEF RemoveAt
  <2> HIDE DEF a, b
  <2>3. QED
    BY <2>1, <2>2
<1>4. ASSUME NEW i \in 1..(Len(p) + 1) PROVE InsertAt(p, i, e) \in Seq(S) /\ Len(InsertAt(p, i, e)) = Len(p) + 1
  <2> DEFINE a == SubSeq(p, 1, i - 1)
             b == SubSeq(p, i, Len(p))
  <2>1. a \in Seq(S) /\ b \in Seq(S) /\ Len(a) = i - 1 /\ Len(b) = Len(p) + 1 - i /\ InsertAt(p, i, e) = a \o <<e>> \o b
    BY <1>1 DEF InsertAt
  <2> HIDE DEF a, b
  <2> DEFINE c == a \o <<e>>
  <2>2. c \in Seq(S) /\ Len(c) = i /\ InsertAt(p, i, e) = c \o b /\ Len(p) \in Nat
    BY <2>1
  <2> HIDE DEF c
  <2>3. c \o b \in Seq(S) /\ Len(c \o b) = Len(c) + Len(b)
    BY <2>1, <2>2, Joined
  <2>4. QED
    BY <2>1, <2>2, <2>3
<1>5. QED
  BY <1>3, <1>4

LEMMA TickIs ==
    ASSUME NEW p \in Seq(Items), NEW i \in DOMAIN p, NEW d \in BOOLEAN
    PROVE  [p EXCEPT ![i].done = d] \in Seq(Items) /\ Len([p EXCEPT ![i].done = d]) = Len(p)
<1>0. p[i] \in Items
  OBVIOUS
<1>1. [p[i] EXCEPT !.done = d] \in Items
  BY <1>0 DEF Items
<1>2. [p EXCEPT ![i].done = d] = [p EXCEPT ![i] = [p[i] EXCEPT !.done = d]]
  OBVIOUS
<1>3. QED
  BY <1>1, <1>2

LEMMA TextsAre ==
    ASSUME NEW p \in Seq(Items)
    PROVE  /\ TextsOf(p) \in Seq(Texts) /\ Len(TextsOf(p)) = Len(p) /\ DOMAIN TextsOf(p) = DOMAIN p
           /\ \A i \in DOMAIN p : TextsOf(p)[i] = p[i].text /\ p[i].text \in Texts /\ p[i].done \in BOOLEAN
<1>1. \A i \in DOMAIN p : p[i] \in Items
  OBVIOUS
<1>2. \A i \in DOMAIN p : p[i].text \in Texts /\ p[i].done \in BOOLEAN
  BY <1>1 DEF Items
<1>3. TextsOf(p) = [i \in 1..Len(p) |-> p[i].text] /\ DOMAIN p = 1..Len(p) /\ Len(p) \in Nat
  BY DEF TextsOf
<1>4. [i \in 1..Len(p) |-> p[i].text] \in [1..Len(p) -> Texts]
  BY <1>2, <1>3
<1>5. TextsOf(p) \in Seq(Texts) /\ Len(TextsOf(p)) = Len(p)
  BY <1>3, <1>4
<1>6. QED
  BY <1>2, <1>3, <1>5

\* How often a text is on a page.
LEMMA CountIs ==
    ASSUME NEW p \in Seq(Items), NEW t
    PROVE  /\ CountIn(p, t) \in Nat /\ IsFiniteSet(Having(p, t)) /\ Having(p, t) \subseteq DOMAIN p
           /\ CountIn(p, t) <= 1 => ~Twice(TextsOf(p), t)
           /\ CountIn(p, t) = 1 => \E i \in DOMAIN p : Having(p, t) = {i}
<1>1. Having(p, t) \in SUBSET (1..Len(p)) /\ Len(p) \in Nat
  BY DEF Having
<1>2. IsFiniteSet(Having(p, t))
  <2>1. IsFiniteSet(1..Len(p))
    BY <1>1, FS_Interval
  <2>2. QED
    BY <1>1, <2>1, FS_Subset
<1>3. CountIn(p, t) \in Nat
  BY <1>2, FS_CardinalityType DEF CountIn
<1>4. ASSUME Twice(TextsOf(p), t) PROVE CountIn(p, t) > 1
  <2>1. PICK i \in DOMAIN p, k \in DOMAIN p : i # k /\ p[i].text = t /\ p[k].text = t
    BY <1>4, TextsAre DEF Twice
  <2>2. i \in Having(p, t) /\ k \in Having(p, t)
    BY <2>1 DEF Having
  <2>3. Cardinality(Having(p, t)) # 0
    BY <1>2, <2>2, FS_EmptySet
  <2>4. Cardinality(Having(p, t)) # 1
    <3>1. SUFFICES ASSUME Cardinality(Having(p, t)) = 1 PROVE FALSE
      OBVIOUS
    <3>2. PICK x : Having(p, t) = {x}
      BY <1>2, <3>1, FS_Singleton
    <3>3. QED
      BY <2>1, <2>2, <3>2
  <2>5. QED
    BY <1>3, <2>3, <2>4 DEF CountIn
<1>5. ASSUME CountIn(p, t) = 1 PROVE \E i \in DOMAIN p : Having(p, t) = {i}
  <2>1. PICK x : Having(p, t) = {x}
    BY <1>2, <1>5, FS_Singleton DEF CountIn
  <2>2. QED
    BY <2>1 DEF Having
<1>6. QED
  BY <1>1, <1>2, <1>3, <1>4, <1>5

\* Find gives an item of the page or refuses.
LEMMA FindIs == ASSUME NEW p \in Seq(Items), NEW s PROVE Find(p, s) = 0 \/ Find(p, s) \in DOMAIN p
<1> DEFINE at == {i \in DOMAIN p : p[i].text \in StartsWith[s]}
<1>1. CASE Cardinality(at) = 1
  <2> HIDE DEF at
  <2>1. at # {}
    <3>1. ASSUME at = {} PROVE FALSE
      BY <1>1, <3>1, FS_EmptySet
    <3>2. QED
      BY <3>1
  <2>2. (CHOOSE i \in at : TRUE) \in at
    BY <2>1
  <2>3. Find(p, s) = CHOOSE i \in at : TRUE
    BY <1>1 DEF Find, at
  <2>4. QED
    BY <2>2, <2>3 DEF at
<1>2. CASE Cardinality(at) # 1
  BY <1>2 DEF Find
<1>3. QED
  BY <1>1, <1>2

(***************************************************************************)
(* The three ways a process moves: it takes the lock with a page it has    *)
(* loaded, it ends or gives way, or it is between the halves of a write.   *)
(***************************************************************************)
LEMMA IdleIs == Idle \in StepsOf /\ Idle.do = "idle"
BY DEF Idle, StepsOf, Doings, HoldingDo, Marks

LEMMA DoingIs ==
    ASSUME NEW do \in Doings, NEW t \in Marks \cup Titles, NEW d \in BOOLEAN, NEW i \in Nat, NEW p \in Seq(Items)
    PROVE  /\ Doing(do, t, d, i, p) \in StepsOf
           /\ Doing(do, t, d, i, p).do = do /\ Doing(do, t, d, i, p).text = t /\ Doing(do, t, d, i, p).done = d
           /\ Doing(do, t, d, i, p).at = i /\ Doing(do, t, d, i, p).from = p
BY DEF Doing, StepsOf

LEMMA NoOneWorks == NoOne \notin Procs /\ Flow \in Procs
BY ChecklistAssumption DEF Procs

LEMMA TakesLock ==
    ASSUME FileInv, NEW w \in Procs, NEW st \in StepsOf, held = NoOne, held' = w, pc' = [pc EXCEPT ![w] = st],
           UNCHANGED page, UNCHANGED gen, UNCHANGED ledger, UNCHANGED made, UNCHANGED slip,
           st.do \in {"set", "add", "toggle", "new"}, StepFits(st), st.do # "new" => st.from = page
    PROVE  FileInv'
<1>1. /\ pc' \in [Procs -> StepsOf] /\ pc'[w] = st /\ \A v \in Procs : v # w => pc'[v] = pc[v]
      /\ \A v \in Procs : pc[v].do \notin HoldingDo
  BY NoOneWorks DEF FileInv, FileTypes, LockInv
<1>2. FileTypes'
  BY <1>1 DEF FileInv, FileTypes
<1>3. LockInv'
  BY <1>1 DEF LockInv, HoldingDo
<1>4. ASSUME NEW v \in Procs PROVE StepFits(pc[v])'
  BY <1>1 DEF FileInv, StepFits
<1>5. LedgerInv'
  <2>1. ~slip => ledger = page
    BY <1>1 DEF FileInv, LedgerInv, HoldingDo
  <2>2. \A v \in Procs : pc'[v].do \in {"set", "toggle", "add", "fill", "refill"} => pc'[v].from = page
    BY <1>1 DEF HoldingDo
  <2>3. QED
    BY <2>1, <2>2 DEF LedgerInv
<1>6. QED
  BY <1>2, <1>3, <1>4, <1>5 DEF FileInv, MadeInv

LEMMA LetsGo ==
    ASSUME FileInv, NEW w \in Procs, NEW st \in StepsOf, pc' = [pc EXCEPT ![w] = st], UNCHANGED slip,
           held' = (IF held = w THEN NoOne ELSE held), st.do \notin HoldingDo, StepFits(st),
           page' \in Seq(Items), Len(page') <= MaxItems, gen' \in Nat \ {0},
           UNCHANGED made \/ (held = w /\ \E t \in Titles : made' = {t}),
           \/ slip \/ (page' = page /\ ledger' = ledger /\ pc[w].do \notin {"fill", "refill"})
           \/ (held = w /\ ledger' = page')
    PROVE  FileInv'
<1>1. pc' \in [Procs -> StepsOf] /\ pc'[w] = st /\ \A v \in Procs : v # w => pc'[v] = pc[v]
  BY DEF FileInv, FileTypes
<1>2. held = w => \A v \in Procs : v # w => pc[v].do \notin HoldingDo
  BY DEF FileInv, LockInv
<1>3. FileTypes'
  BY <1>1 DEF FileInv, FileTypes
<1>4. LockInv'
  BY <1>1, <1>2, NoOneWorks DEF FileInv, LockInv
<1>5. ASSUME NEW v \in Procs PROVE StepFits(pc[v])'
  <2>1. CASE v = w
    BY <1>1, <2>1 DEF StepFits, HoldingDo
  <2>2. CASE v # w
    BY <1>1, <1>2, <2>2 DEF FileInv, StepFits, HoldingDo
  <2>3. QED
    BY <2>1, <2>2
<1>6. LedgerInv'
  <2>1. CASE slip
    BY <2>1 DEF LedgerInv
  <2>2. CASE page' = page /\ ledger' = ledger /\ pc[w].do \notin {"fill", "refill"}
    <3>1. (\A v \in Procs : pc'[v].do \notin {"fill", "refill"}) => (\A v \in Procs : pc[v].do \notin {"fill", "refill"})
      BY <1>1, <2>2
    <3>2. \A v \in Procs : pc'[v].do \in HoldingDo => pc'[v] = pc[v]
      BY <1>1
    <3>3. QED
      BY <2>2, <3>1, <3>2 DEF FileInv, LedgerInv, HoldingDo
  <2>3. CASE held = w /\ ledger' = page'
    <3>1. \A v \in Procs : pc'[v].do \notin HoldingDo
      BY <1>1, <1>2, <2>3
    <3>2. QED
      BY <2>3, <3>1 DEF LedgerInv, HoldingDo
  <2>4. QED
    BY <2>1, <2>2, <2>3
<1>7. MadeInv'
  BY DEF FileInv, MadeInv
<1>8. QED
  BY <1>3, <1>4, <1>5, <1>6, <1>7 DEF FileInv

\* What the commands and the editor do to the file leaves the board's side as it was; a page
\* that changes gets a stat nobody has seen.
Moved == (page' = page /\ gen' = gen) \/ gen' = gen + 1

LEMMA ReadsFollow ==
    ASSUME FileInv, ReadsInv, UNCHANGED readVars, Moved
    PROVE  ReadsInv'
<1>1. UNCHANGED cache /\ UNCHANGED readers /\ gen \in Nat
  BY DEF readVars, FileInv, FileTypes
<1>2. CASE page' = page /\ gen' = gen
  BY <1>1, <1>2 DEF ReadsInv, ReadTypes, CacheIsCurrent
<1>3. CASE gen' = gen + 1
  <2>1. cache.key \in Nat /\ cache.key <= gen /\ \A r \in Readers : readers[r].key \in Nat /\ readers[r].key <= gen
    BY DEF ReadsInv, ReadTypes, Reads
  <2>2. cache.key < gen' /\ \A r \in Readers : readers[r].key < gen'
    BY <1>1, <1>3, <2>1
  <2>3. cache'.key <= gen' /\ cache'.key # gen' /\ \A r \in Readers : readers'[r].key <= gen' /\ readers'[r].key # gen'
    BY <1>1, <1>3, <2>1, <2>2
  <2>4. QED
    BY <1>1, <2>3 DEF ReadsInv, ReadTypes, CacheIsCurrent
<1>4. QED
  BY <1>2, <1>3 DEF Moved

ListInv == FileInv /\ ReadsInv /\ SelInv /\ AimInv

LEMMA DeskStays == ASSUME SelInv, UNCHANGED deskVars PROVE SelInv'
BY DEF SelInv, DeskTypes, deskVars

LEMMA NothingDone ==
    ASSUME ListInv, UNCHANGED page, UNCHANGED gen, UNCHANGED held, UNCHANGED pc, UNCHANGED made, UNCHANGED ledger, Rest
    PROVE  ListInv'
<1>1. UNCHANGED slip /\ UNCHANGED readVars /\ UNCHANGED deskVars
  BY DEF Rest
<1>2. FileInv'
  BY <1>1 DEF ListInv, FileInv, FileTypes, LockInv, StepFits, LedgerInv, MadeInv
<1>3. AimInv'
  BY DEF ListInv, AimInv
<1>4. QED
  BY <1>1, <1>2, <1>3, DeskStays, ReadsFollow DEF ListInv, Moved

LEMMA CommandKeeps ==
    ASSUME ListInv, NEW w \in Procs, NEW st \in StepsOf, st.do \notin {"asked", "toggle"},
           pc' = [pc EXCEPT ![w] = st], FileInv', Rest, Moved
    PROVE  ListInv'
<1>1. UNCHANGED readVars /\ UNCHANGED deskVars
  BY DEF Rest
<1>2. pc'[w] = st /\ \A v \in Procs : v # w => pc'[v] = pc[v]
  BY DEF ListInv, FileInv, FileTypes
<1>3. AimInv'
  BY <1>2 DEF ListInv, AimInv
<1>4. QED
  BY <1>1, <1>3, DeskStays, ReadsFollow DEF ListInv

LEMMA RefusedKeeps == ASSUME ListInv, NEW w, NEW t, Refused(w, t), Rest PROVE ListInv'
BY NothingDone DEF Refused

LEMMA SetKeeps == ASSUME ListInv, NEW w \in Writers, Set(w) PROVE ListInv'
<1>1. Rest /\ pc[w] = Idle /\ w \in Procs
  BY DEF Set, Begin, Procs
<1>2. PICK t \in Texts, d \in BOOLEAN :
         LET i == Find(page, t) IN
            IF ~Acquire(w) \/ i = 0 THEN Refused(w, t)
            ELSE IF page[i].done = d
                 THEN UNCHANGED <<page, gen, held, pc, made, ledger, missed>>
                 ELSE /\ held' = w /\ Goes(w, Doing("set", t, d, i, page))
                      /\ UNCHANGED <<page, gen, made, ledger, missed>>
  BY DEF Set
<1> DEFINE i == Find(page, t)
           st == Doing("set", t, d, i, page)
<1>3. CASE Refused(w, t)
  BY <1>1, <1>3, RefusedKeeps
<1>4. CASE UNCHANGED <<page, gen, held, pc, made, ledger, missed>>
  BY <1>1, <1>4, NothingDone
<1>5. CASE /\ held = NoOne /\ i # 0 /\ held' = w /\ Goes(w, st)
           /\ UNCHANGED <<page, gen, made, ledger, missed>>
  <2>1. page \in Seq(Items) /\ Len(page) <= MaxItems
    BY DEF ListInv, FileInv, FileTypes
  <2>2. i \in DOMAIN page /\ i \in Nat
    BY <1>5, <2>1, FindIs
  <2> HIDE DEF i
  <2>3. st \in StepsOf /\ st.do = "set" /\ st.at = i /\ st.from = page
    BY <2>1, <2>2, DoingIs DEF Doings, HoldingDo, Marks
  <2>4. StepFits(st)
    BY <2>1, <2>2, <2>3 DEF StepFits
  <2> HIDE DEF st
  <2>5. UNCHANGED slip /\ FileInv
    BY <1>1 DEF Rest, ListInv
  <2>6. pc' = [pc EXCEPT ![w] = st] /\ UNCHANGED page /\ UNCHANGED gen /\ UNCHANGED ledger /\ UNCHANGED made
    BY <1>5 DEF Goes
  <2>7. FileInv'
    BY <1>1, <1>5, <2>3, <2>4, <2>5, <2>6, TakesLock
  <2>8. QED
    BY <1>1, <2>3, <2>6, <2>7, CommandKeeps DEF Moved
<1>6. QED
  BY <1>2, <1>3, <1>4, <1>5 DEF Acquire

\* Giving way without a write: the process is idle, or about to add, and the page stays.
LEMMA GivesWay ==
    ASSUME ListInv, NEW w \in Procs, pc[w].do \notin HoldingDo, NEW st \in StepsOf,
           st.do \in {"idle", "ensure"}, StepFits(st), Goes(w, st), Rest,
           UNCHANGED page, UNCHANGED gen, UNCHANGED held, UNCHANGED made, UNCHANGED ledger
    PROVE  ListInv'
<1>1. UNCHANGED slip /\ FileInv /\ pc' = [pc EXCEPT ![w] = st]
  BY DEF Rest, ListInv, Goes
<1>2. page \in Seq(Items) /\ Len(page) <= MaxItems /\ gen \in Nat \ {0}
  BY <1>1 DEF FileInv, FileTypes
<1>3. held # w /\ pc[w].do \notin {"fill", "refill"}
  BY <1>1 DEF FileInv, LockInv, HoldingDo
<1>4. FileInv'
  BY <1>1, <1>2, <1>3, LetsGo DEF HoldingDo
<1>5. QED
  BY <1>1, <1>4, CommandKeeps DEF Moved

LEMMA IdleFits == StepFits(Idle)
BY IdleIs DEF StepFits

LEMMA AddNowKeeps ==
    ASSUME ListInv, NEW w \in Procs, NEW t \in Texts, AddNow(w, t), Rest, pc[w].do \notin HoldingDo
    PROVE  ListInv'
<1> DEFINE st == Doing("add", t, FALSE, 0, page)
<1>1. page \in Seq(Items) /\ UNCHANGED slip /\ FileInv /\ MaxItems \in Nat /\ Len(page) <= MaxItems
  BY ChecklistAssumption DEF ListInv, FileInv, FileTypes, Rest
<1>2. CASE /\ held = NoOne /\ Len(page) < MaxItems /\ held' = w /\ Goes(w, st)
           /\ UNCHANGED <<page, gen, made, ledger, missed>>
  <2>1. st \in StepsOf /\ st.do = "add" /\ st.from = page /\ st.text = t
    BY <1>1 DEF Doing, StepsOf, Doings, HoldingDo, Marks
  <2>2. StepFits(st)
    BY <1>1, <1>2, <2>1 DEF StepFits
  <2> HIDE DEF st
  <2>3. pc' = [pc EXCEPT ![w] = st] /\ UNCHANGED page /\ UNCHANGED gen /\ UNCHANGED ledger /\ UNCHANGED made
    BY <1>2 DEF Goes
  <2>4. FileInv'
    BY <1>1, <1>2, <2>1, <2>2, <2>3, TakesLock
  <2>5. QED
    BY <2>1, <2>3, <2>4, CommandKeeps DEF Moved
<1>3. CASE Goes(w, Idle) /\ UNCHANGED <<page, gen, held, made, ledger, missed>>
  BY <1>3, IdleIs, IdleFits, GivesWay
<1>4. QED
  BY <1>2, <1>3 DEF AddNow, Acquire

LEMMA AddKeeps == ASSUME ListInv, NEW w \in Writers, Add(w) PROVE ListInv'
<1>1. Rest /\ pc[w] = Idle /\ w \in Procs
  BY DEF Add, Begin, Procs
<1>2. PICK t \in Texts : AddNow(w, t)
  BY DEF Add
<1>3. QED
  BY <1>1, <1>2, IdleIs, AddNowKeeps DEF HoldingDo

LEMMA EnsureKeeps == ASSUME ListInv, NEW w \in Writers, Ensure(w) PROVE ListInv'
<1>1. Rest /\ pc[w] = Idle /\ w \in Procs
  BY DEF Ensure, Begin, Procs
<1>2. PICK t \in Texts : Goes(w, Doing("ensure", t, FALSE, 0, page))
  BY DEF Ensure
<1> DEFINE st == Doing("ensure", t, FALSE, 0, page)
<1>3. page \in Seq(Items)
  BY DEF ListInv, FileInv, FileTypes
<1>4. st \in StepsOf /\ st.do = "ensure" /\ st.text = t
  BY <1>3 DEF Doing, StepsOf, Doings, HoldingDo, Marks
<1> HIDE DEF st
<1>5. StepFits(st)
  BY <1>4 DEF StepFits
<1>6. UNCHANGED page /\ UNCHANGED gen /\ UNCHANGED held /\ UNCHANGED made /\ UNCHANGED ledger
  BY DEF Ensure
<1>7. pc[w].do \notin HoldingDo
  BY <1>1, IdleIs DEF HoldingDo
<1>8. QED
  BY <1>1, <1>2, <1>4, <1>5, <1>6, <1>7, GivesWay DEF st

LEMMA EnsureAddsKeeps == ASSUME ListInv, NEW w \in Writers, EnsureAdds(w) PROVE ListInv'
<1>1. pc[w].do = "ensure" /\ Rest /\ AddNow(w, pc[w].text) /\ w \in Procs
  BY DEF EnsureAdds, Procs
<1>2. pc[w].text \in Texts
  BY <1>1 DEF ListInv, FileInv, StepFits
<1>3. QED
  BY <1>1, <1>2, AddNowKeeps DEF HoldingDo

LEMMA NewBranchKeeps == ASSUME ListInv, NEW w \in Writers, NewBranch(w) PROVE ListInv'
<1>1. Rest /\ w \in Procs /\ held = NoOne /\ made = {}
  BY DEF NewBranch, Begin, Procs, Acquire
<1>2. PICK t \in Titles : held' = w /\ Goes(w, Doing("new", t, FALSE, 0, <<>>))
  BY DEF NewBranch
<1> DEFINE st == Doing("new", t, FALSE, 0, <<>>)
<1>3. st \in StepsOf /\ st.do = "new" /\ st.text = t
  <2>1. <<>> \in Seq(Items)
    OBVIOUS
  <2>2. QED
    BY <2>1 DEF Doing, StepsOf, Doings, HoldingDo
<1> HIDE DEF st
<1>4. StepFits(st)
  BY <1>1, <1>3 DEF StepFits
<1>5. /\ UNCHANGED page /\ UNCHANGED gen /\ UNCHANGED made /\ UNCHANGED ledger /\ UNCHANGED slip /\ FileInv
      /\ pc' = [pc EXCEPT ![w] = st]
  BY <1>1, <1>2 DEF NewBranch, Rest, ListInv, Goes, st
<1>6. FileInv'
  BY <1>1, <1>2, <1>3, <1>4, <1>5, TakesLock
<1>7. QED
  BY <1>1, <1>3, <1>5, <1>6, CommandKeeps DEF Moved

LEMMA NewBranchWritesKeeps == ASSUME ListInv, NEW w \in Writers, NewBranchWrites(w) PROVE ListInv'
<1>1. /\ Rest /\ w \in Procs /\ pc[w].do = "new" /\ held' = NoOne /\ pc' = [pc EXCEPT ![w] = Idle]
      /\ made' = made \cup {pc[w].text} /\ UNCHANGED page /\ UNCHANGED gen /\ UNCHANGED ledger /\ UNCHANGED slip
  BY DEF NewBranchWrites, Procs, Goes, Rest
<1>2. held = w /\ made = {}
  BY <1>1 DEF ListInv, FileInv, LockInv, StepFits, HoldingDo
<1>3. made' = {pc[w].text}
  BY <1>1, <1>2
<1>4. page \in Seq(Items) /\ Len(page) <= MaxItems /\ gen \in Nat \ {0} /\ FileInv
  BY DEF ListInv, FileInv, FileTypes
<1>5. FileInv'
  <2>1. pc[w].text \in Titles
    BY <1>1, <1>4 DEF FileInv, StepFits
  <2>2. QED
    BY <1>1, <1>2, <1>3, <1>4, <2>1, IdleIs, IdleFits, LetsGo DEF HoldingDo
<1>6. QED
  BY <1>1, <1>5, IdleIs, CommandKeeps DEF Moved

LEMMA StepTypes ==
    ASSUME FileInv, NEW w \in Procs
    PROVE  /\ pc[w] \in StepsOf /\ pc[w].at \in Nat /\ pc[w].done \in BOOLEAN /\ pc[w].from \in Seq(Items)
           /\ page \in Seq(Items) /\ Len(page) <= MaxItems /\ gen \in Nat \ {0} /\ gen + 1 \in Nat \ {0}
           /\ StepFits(pc[w]) /\ (pc[w].do \in HoldingDo => held = w)
           /\ pc[w].do \in {"set", "toggle", "add", "fill", "refill"} => slip \/ ledger = pc[w].from
           /\ pc[w].do \in {"set", "toggle", "add"} => slip \/ ledger = page
<1>1. pc[w] \in StepsOf /\ gen \in Nat \ {0} /\ page \in Seq(Items) /\ Len(page) <= MaxItems
  BY DEF FileInv, FileTypes
<1>2. pc[w].at \in Nat /\ pc[w].done \in BOOLEAN /\ pc[w].from \in Seq(Items)
  BY <1>1 DEF StepsOf
<1>3. gen + 1 \in Nat \ {0}
  BY <1>1
<1>4. StepFits(pc[w]) /\ (pc[w].do \in HoldingDo => held = w)
  BY DEF FileInv, LockInv
<1>5. pc[w].do \in {"set", "toggle", "add", "fill", "refill"} => slip \/ ledger = pc[w].from
  BY DEF FileInv, LedgerInv
<1>6. pc[w].do \in {"set", "toggle", "add"} => slip \/ ledger = page
  <2>1. ASSUME pc[w].do \in {"set", "toggle", "add"}, NEW v \in Procs PROVE pc[v].do \notin {"fill", "refill"}
    BY <2>1 DEF FileInv, LockInv, HoldingDo
  <2>2. QED
    BY <2>1 DEF FileInv, LedgerInv
<1>7. QED
  BY <1>1, <1>2, <1>3, <1>4, <1>5, <1>6

LEMMA WrittenKeeps ==
    ASSUME ListInv, NEW w \in Procs, held = w, NEW p \in Seq(Items), Len(p) <= MaxItems,
           page' = p, gen' = gen + 1, held' = NoOne, Goes(w, Idle), UNCHANGED made, Rest, slip \/ ledger' = p
    PROVE  ListInv'
<1>1. UNCHANGED slip /\ FileInv /\ pc' = [pc EXCEPT ![w] = Idle] /\ gen' \in Nat \ {0} /\ Moved
  BY StepTypes DEF Rest, ListInv, Goes, Moved
<1>2. FileInv'
  BY <1>1, IdleIs, IdleFits, LetsGo DEF HoldingDo
<1>3. QED
  BY <1>1, <1>2, IdleIs, CommandKeeps

LEMMA TickedIs ==
    ASSUME NEW p \in Seq(Items), NEW i \in DOMAIN p, NEW d \in BOOLEAN
    PROVE  Ticked(p, i, d) \in Seq(Items) /\ Len(Ticked(p, i, d)) = Len(p)
BY TickIs DEF Ticked

LEMMA WriteByteKeeps == ASSUME ListInv, NEW w \in Procs, WriteByte(w) PROVE ListInv'
<1>1. pc[w].do \in {"set", "toggle"} /\ FileInv
  BY DEF WriteByte, Writing, ListInv
<1>2. held = w /\ pc[w].at \in DOMAIN pc[w].from /\ (slip \/ (ledger = pc[w].from /\ ledger = page))
  BY <1>1, StepTypes DEF HoldingDo, StepFits
<1>3. ASSUME NEW p \in Seq(Items), Len(p) <= MaxItems, Finish(w, p), slip \/ Entered(pc[w]) = p PROVE ListInv'
  BY <1>2, <1>3, WrittenKeeps DEF Finish
<1>4. CASE page = pc[w].from /\ Finish(w, Result(pc[w]))
  <2>1. Result(pc[w]) = Ticked(page, pc[w].at, pc[w].done)
    BY <1>1, <1>4 DEF Result
  <2>2. Result(pc[w]) \in Seq(Items) /\ Len(Result(pc[w])) <= MaxItems
    BY <1>1, <1>2, <1>4, <2>1, StepTypes, TickedIs
  <2>3. slip \/ Entered(pc[w]) = Result(pc[w])
    BY <1>1, <1>2, <2>1 DEF Entered
  <2>4. QED
    BY <1>3, <1>4, <2>2, <2>3
<1>5. ASSUME page # pc[w].from,
             NEW i \in DOMAIN page, Finish(w, [page EXCEPT ![i].done = pc[w].done]) \/ Finish(w, RemoveAt(page, i))
      PROVE  ListInv'
  <2>1. slip
    BY <1>2, <1>5
  <2>2. page \in Seq(Items) /\ Len(page) <= MaxItems /\ pc[w].done \in BOOLEAN /\ MaxItems \in Nat
    BY <1>1, StepTypes, ChecklistAssumption
  <2>3. CASE Finish(w, [page EXCEPT ![i].done = pc[w].done])
    <3> DEFINE p == [page EXCEPT ![i].done = pc[w].done]
    <3>1. p \in Seq(Items) /\ Len(p) <= MaxItems
      BY <2>2, TickIs
    <3> HIDE DEF p
    <3>2. QED
      BY <1>3, <2>1, <2>3, <3>1 DEF p
  <2>4. CASE Finish(w, RemoveAt(page, i))
    <3>1. page[i] \in Items
      BY <2>2
    <3>2. RemoveAt(page, i) \in Seq(Items) /\ Len(RemoveAt(page, i)) = Len(page) - 1
      BY <2>2, <3>1, PageEdits
    <3>3. Len(RemoveAt(page, i)) <= MaxItems
      BY <2>2, <3>2
    <3>4. QED
      BY <1>3, <2>1, <2>4, <3>2, <3>3
  <2>5. QED
    BY <1>5, <2>3, <2>4
<1>6. QED
  BY <1>4, <1>5 DEF WriteByte

LEMMA CutKeeps == ASSUME ListInv, NEW w \in Procs, Cut(w) PROVE ListInv'
<1>1. pc[w].do \in {"set", "toggle", "add"} /\ FileInv /\ Rest /\ UNCHANGED made /\ UNCHANGED ledger
  BY DEF Cut, Writing, ListInv
<1>2. held = w /\ UNCHANGED slip
  BY <1>1, StepTypes DEF HoldingDo, Rest
<1>3. CASE held' = NoOne /\ Goes(w, Idle) /\ UNCHANGED fileVars
  <2>1. UNCHANGED page /\ UNCHANGED gen /\ pc' = [pc EXCEPT ![w] = Idle]
    BY <1>3 DEF fileVars, Goes
  <2>2. page' \in Seq(Items) /\ Len(page') <= MaxItems /\ gen' \in Nat \ {0} /\ pc[w].do \notin {"fill", "refill"}
    BY <1>1, <2>1, StepTypes
  <2>3. FileInv'
    BY <1>1, <1>2, <1>3, <2>1, <2>2, IdleIs, IdleFits, LetsGo DEF HoldingDo
  <2>4. QED
    BY <1>1, <2>1, <2>3, IdleIs, CommandKeeps DEF Moved
<1>4. CASE /\ pc[w].do # "add" => page = pc[w].from
           /\ page' = <<>> /\ gen' = gen + 1 /\ UNCHANGED held
           /\ Goes(w, [pc[w] EXCEPT !.do = IF @ = "add" THEN "fill" ELSE "refill"])
  <2> DEFINE st == [pc[w] EXCEPT !.do = IF @ = "add" THEN "fill" ELSE "refill"]
  <2>1. /\ st \in StepsOf /\ st.do \in {"fill", "refill"} /\ (st.do = "fill" => pc[w].do = "add")
        /\ (st.do = "refill" => pc[w].do # "add") /\ st.at = pc[w].at /\ st.from = pc[w].from /\ st.text = pc[w].text
    <3>1. pc[w] \in StepsOf
      BY <1>1, StepTypes
    <3>2. QED
      BY <3>1 DEF StepsOf, Doings, HoldingDo
  <2>2. pc' = [pc EXCEPT ![w] = st]
    BY <1>4 DEF Goes
  <2> HIDE DEF st
  <2>3. StepFits(st)
    BY <1>1, <2>1, StepTypes DEF StepFits
  <2>4. pc' \in [Procs -> StepsOf] /\ pc'[w] = st /\ \A v \in Procs : v # w => pc'[v] = pc[v] /\ pc[v].do \notin HoldingDo
    BY <1>1, <1>2, <2>1, <2>2 DEF FileInv, FileTypes, LockInv
  <2>5. FileTypes'
    <3>1. page' \in Seq(Items) /\ Len(page') <= MaxItems
      BY <1>4, ChecklistAssumption
    <3>2. gen' \in Nat \ {0}
      BY <1>1, <1>4, StepTypes
    <3>3. QED
      BY <1>1, <1>4, <2>4, <3>1, <3>2 DEF FileInv, FileTypes
  <2>6. LockInv'
    BY <1>2, <1>4, <2>1, <2>4 DEF LockInv, HoldingDo
  <2>7. ASSUME NEW v \in Procs PROVE StepFits(pc[v])'
    BY <1>1, <2>3, <2>4 DEF FileInv, StepFits
  <2>8. LedgerInv'
    <3>1. pc'[w].do \in {"fill", "refill"}
      BY <2>1, <2>4
    <3>2. ~slip => ledger = pc'[w].from
      BY <1>1, <2>1, <2>4, StepTypes
    <3>3. QED
      BY <1>1, <1>2, <2>4, <3>1, <3>2 DEF LedgerInv, HoldingDo
  <2>9. FileInv'
    BY <1>1, <2>5, <2>6, <2>7, <2>8 DEF FileInv, MadeInv
  <2>10. QED
    BY <1>1, <1>4, <2>1, <2>2, <2>9, CommandKeeps DEF Moved
<1>5. QED
  BY <1>3, <1>4 DEF Cut

LEMMA FillKeeps == ASSUME ListInv, NEW w \in Procs, Fill(w) PROVE ListInv'
<1> DEFINE c == [pc[w] EXCEPT !.do = IF @ = "fill" THEN "add" ELSE "set"]
<1>1. /\ pc[w].do \in {"fill", "refill"} /\ FileInv /\ Rest /\ UNCHANGED made
      /\ page' = Result(c) /\ gen' = gen + 1 /\ ledger' = Entered(c) /\ held' = NoOne /\ Goes(w, Idle)
  BY DEF Fill, ListInv
<1>2. /\ c.do = (IF pc[w].do = "fill" THEN "add" ELSE "set") /\ c.at = pc[w].at /\ c.from = pc[w].from
      /\ c.done = pc[w].done /\ c.text = pc[w].text
  <2>1. pc[w] \in StepsOf
    BY <1>1, StepTypes
  <2>2. QED
    BY <2>1 DEF StepsOf
<1> HIDE DEF c
<1>3. held = w /\ (slip \/ ledger = c.from) /\ c.from \in Seq(Items) /\ Len(c.from) <= MaxItems
  BY <1>1, <1>2, StepTypes DEF HoldingDo, StepFits
<1>4. CASE pc[w].do = "fill"
  <2>1. Len(c.from) < MaxItems /\ c.text \in Texts
    BY <1>1, <1>2, <1>4, StepTypes DEF StepFits
  <2>2. With(c.text) \in Items
    BY <2>1 DEF With, Items
  <2>3. Result(c) = Append(c.from, With(c.text)) /\ Entered(c) = Append(ledger, With(c.text))
    BY <1>2, <1>4 DEF Result, Entered
  <2>4. Result(c) \in Seq(Items) /\ Len(Result(c)) <= MaxItems
    <3>1. Append(c.from, With(c.text)) \in Seq(Items) /\ Len(Append(c.from, With(c.text))) = Len(c.from) + 1
      BY <1>3, <2>2, PageEdits
    <3>2. Len(c.from) \in Nat /\ MaxItems \in Nat
      BY <1>3, ChecklistAssumption
    <3>3. Len(c.from) + 1 <= MaxItems
      BY <2>1, <3>2
    <3>4. QED
      BY <2>3, <3>1, <3>3
  <2>5. slip \/ ledger' = Result(c)
    BY <1>1, <1>3, <2>3
  <2>6. QED
    BY <1>1, <1>3, <2>4, <2>5, WrittenKeeps
<1>5. CASE pc[w].do = "refill"
  <2>1. c.at \in DOMAIN c.from /\ c.done \in BOOLEAN
    BY <1>1, <1>2, <1>5, StepTypes DEF StepFits
  <2>2. Result(c) = Ticked(c.from, c.at, c.done) /\ (c.at \in DOMAIN ledger => Entered(c) = Ticked(ledger, c.at, c.done))
    BY <1>2, <1>5 DEF Result, Entered
  <2>3. Result(c) \in Seq(Items) /\ Len(Result(c)) <= MaxItems
    BY <1>3, <2>1, <2>2, TickedIs
  <2>4. slip \/ ledger' = Result(c)
    BY <1>1, <1>3, <2>1, <2>2
  <2>5. QED
    BY <1>1, <1>3, <2>3, <2>4, WrittenKeeps
<1>6. QED
  BY <1>1, <1>4, <1>5

LEMMA DieKeeps == ASSUME ListInv, NEW w \in Procs, Die(w) PROVE ListInv'
<1>1. /\ slip /\ pc' = [pc EXCEPT ![w] = Idle] /\ held' = (IF held = w THEN NoOne ELSE held)
      /\ UNCHANGED page /\ UNCHANGED gen /\ UNCHANGED made /\ Rest /\ UNCHANGED slip /\ FileInv
  BY DEF Die, Goes, Rest, ListInv
<1>2. page' \in Seq(Items) /\ Len(page') <= MaxItems /\ gen' \in Nat \ {0}
  BY <1>1, StepTypes
<1>3. FileInv'
  BY <1>1, <1>2, IdleIs, IdleFits, LetsGo DEF HoldingDo
<1>4. QED
  BY <1>1, <1>3, IdleIs, CommandKeeps DEF Moved

LEMMA EditorKeeps == ASSUME ListInv, EditorSaves PROVE ListInv'
<1>1. /\ UNCHANGED slip /\ UNCHANGED held /\ UNCHANGED pc /\ UNCHANGED made /\ UNCHANGED readVars /\ UNCHANGED deskVars
      /\ gen' = gen + 1 /\ ledger' = page' /\ (held = NoOne \/ slip)
  BY DEF EditorSaves
<1>2. page \in Seq(Items) /\ Len(page) <= MaxItems /\ MaxItems \in Nat /\ FileInv /\ gen' \in Nat \ {0}
  BY <1>1, StepTypes, NoOneWorks, ChecklistAssumption DEF ListInv
<1>3. page' \in Seq(Items) /\ Len(page') <= MaxItems
  <2>1. ASSUME NEW i \in DOMAIN page, page' = [page EXCEPT ![i].done = ~@] PROVE page' \in Seq(Items) /\ Len(page') <= MaxItems
    <3>1. page[i].done = TRUE \/ page[i].done = FALSE
      BY <1>2, TextsAre
    <3>2. CASE page[i].done = TRUE
      <4>1. page' = [page EXCEPT ![i].done = FALSE]
        BY <2>1, <3>2
      <4>2. QED
        BY <1>2, <4>1, TickIs
    <3>3. CASE page[i].done = FALSE
      <4>1. page' = [page EXCEPT ![i].done = TRUE]
        BY <2>1, <3>3
      <4>2. QED
        BY <1>2, <4>1, TickIs
    <3>4. QED
      BY <3>1, <3>2, <3>3
  <2>2. ASSUME NEW i \in DOMAIN page, page' = RemoveAt(page, i) PROVE page' \in Seq(Items) /\ Len(page') <= MaxItems
    <3>1. page[i] \in Items
      BY <1>2
    <3>2. RemoveAt(page, i) \in Seq(Items) /\ Len(RemoveAt(page, i)) = Len(page) - 1
      BY <1>2, <3>1, PageEdits
    <3>3. QED
      BY <1>2, <2>2, <3>2
  <2>3. ASSUME Len(page) < MaxItems, NEW i \in 1..(Len(page) + 1), NEW t \in Texts, page' = InsertAt(page, i, With(t))
        PROVE  page' \in Seq(Items) /\ Len(page') <= MaxItems
    <3>1. With(t) \in Items
      BY DEF With, Items
    <3>2. InsertAt(page, i, With(t)) \in Seq(Items) /\ Len(InsertAt(page, i, With(t))) = Len(page) + 1
      BY <1>2, <3>1, PageEdits
    <3>3. Len(page) + 1 <= MaxItems
      BY <1>2, <2>3
    <3>4. QED
      BY <2>3, <3>2, <3>3
  <2>4. QED
    BY <2>1, <2>2, <2>3 DEF EditorSaves
<1>4. FileTypes' /\ LockInv' /\ MadeInv'
  BY <1>1, <1>2, <1>3 DEF FileInv, FileTypes, LockInv, MadeInv
<1>5. ASSUME NEW v \in Procs PROVE StepFits(pc[v])'
  BY <1>1, <1>2 DEF FileInv, StepFits
<1>6. LedgerInv'
  <2>1. ~slip => \A v \in Procs : pc[v].do \notin HoldingDo
    BY <1>1, <1>2, NoOneWorks DEF FileInv, LockInv
  <2>2. QED
    BY <1>1, <2>1 DEF LedgerInv, HoldingDo
<1>7. FileInv'
  BY <1>4, <1>5, <1>6 DEF FileInv
<1>8. AimInv'
  BY <1>1 DEF ListInv, AimInv
<1>9. QED
  BY <1>1, <1>7, <1>8, DeskStays, ReadsFollow DEF ListInv, Moved

LEMMA ToggleLoadsKeeps == ASSUME ListInv, NEW b \in Toggles, ToggleLoads(b) PROVE ListInv'
<1>1. /\ b \in Procs /\ pc[b].do = "asked" /\ Rest /\ FileInv
      /\ UNCHANGED page /\ UNCHANGED gen /\ UNCHANGED made /\ UNCHANGED ledger /\ UNCHANGED slip
  BY DEF ToggleLoads, Procs, Rest, ListInv
<1> DEFINE st == [pc[b] EXCEPT !.do = "toggle", !.from = page]
<1>2. CASE held = NoOne /\ page = pc[b].from /\ held' = b /\ Goes(b, st)
  <2>1. /\ st \in StepsOf /\ st.do = "toggle" /\ st.at = pc[b].at /\ st.from = page /\ st.done = pc[b].done
        /\ st.meant = pc[b].meant
    <3>1. pc[b] \in StepsOf /\ page \in Seq(Items)
      BY <1>1, StepTypes
    <3>2. QED
      BY <3>1 DEF StepsOf, Doings, HoldingDo
  <2>2. pc' = [pc EXCEPT ![b] = st]
    BY <1>2 DEF Goes
  <2> HIDE DEF st
  <2>3. StepFits(st)
    BY <1>1, <1>2, <2>1, StepTypes DEF StepFits
  <2>4. FileInv'
    BY <1>1, <1>2, <2>1, <2>2, <2>3, TakesLock
  <2>5. pc'[b] = st /\ \A v \in Procs : v # b => pc'[v] = pc[v]
    BY <1>1, <2>2 DEF FileInv, FileTypes
  <2>6. AimInv'
    BY <1>1, <1>2, <2>1, <2>5 DEF ListInv, AimInv
  <2>7. UNCHANGED readVars /\ UNCHANGED deskVars
    BY <1>1 DEF Rest
  <2>8. QED
    BY <1>1, <2>4, <2>6, <2>7, DeskStays, ReadsFollow DEF ListInv, Moved
<1>3. CASE Goes(b, Idle) /\ UNCHANGED held
  BY <1>1, <1>3, IdleIs, IdleFits, GivesWay DEF HoldingDo
<1>4. QED
  BY <1>2, <1>3 DEF ToggleLoads, Acquire, StillShown

(***************************************************************************)
(* The board: its reads, its selection across reads, and its toggles.      *)
(***************************************************************************)
LEMMA FitRowIs ==
    ASSUME NEW n \in Nat \ {0}, NEW k \in Nat
    PROVE  /\ FitRow(n, k) \in Nat \ {0} /\ (k # 0 => FitRow(n, k) \in 1..k)
           /\ n \in 1..k => FitRow(n, k) = n
BY DEF FitRow

\* A selection that is brought to another page of the same or other texts is still on the item
\* the person moved to, or is not taken for any.
LEMMA SyncedIs ==
    ASSUME NEW s \in Selections, NEW q \in Seq(Items), NEW p \in Seq(Items), NEW want \in Picked,
           s.snap = TextsOf(q)
    PROVE  /\ Synced(s, p) \in Selections /\ Synced(s, p).snap = TextsOf(p)
           /\ s.invalid \/ OnIt(s, q, want) => Synced(s, p).invalid \/ OnIt(Synced(s, p), p, want)
<1> DEFINE texts   == TextsOf(p)
           changed == texts # s.snap
           lost    == s.invalid \/ Ambiguous(s, changed)
           found   == IF changed THEN Having(p, s.text) ELSE {s.idx} \cap DOMAIN p
           invalid == lost \/ (s.text # NoText /\ Cardinality(found) # 1)
           cursor  == FitRow(IF s.text # NoText /\ ~invalid THEN CHOOSE i \in found : TRUE
                             ELSE s.cursor, Len(p))
           settled == p # <<>> /\ ~invalid
           n       == Synced(s, p)
<1>1. n = [idx     |-> IF settled THEN cursor ELSE s.idx,
           cursor  |-> cursor,
           text    |-> IF settled THEN p[cursor].text ELSE s.text,
           count   |-> IF settled THEN CountIn(p, p[cursor].text) ELSE s.count,
           snap    |-> texts,
           invalid |-> invalid]
  BY DEF Synced
<1> HIDE DEF n
<1>2. /\ s.idx \in Nat /\ s.cursor \in Nat \ {0} /\ s.text \in Marks /\ s.count \in Nat /\ s.invalid \in BOOLEAN
      /\ Len(p) \in Nat /\ DOMAIN p = 1..Len(p)
  BY DEF Selections
<1>3. found \subseteq DOMAIN p /\ IsFiniteSet(found)
  <2>1. Having(p, s.text) \subseteq DOMAIN p /\ IsFiniteSet(Having(p, s.text))
    BY CountIs
  <2>2. {s.idx} \cap DOMAIN p \subseteq DOMAIN p /\ IsFiniteSet({s.idx} \cap DOMAIN p)
    <3>1. IsFiniteSet({s.idx})
      BY FS_Singleton
    <3>2. {s.idx} \cap DOMAIN p \in SUBSET {s.idx}
      OBVIOUS
    <3>3. QED
      BY <3>1, <3>2, FS_Subset
  <2>3. QED
    BY <2>1, <2>2
<1> HIDE DEF found
<1>4. ASSUME s.text # NoText, ~invalid PROVE \E x \in DOMAIN p : found = {x} /\ cursor = x
  <2>1. Cardinality(found) = 1
    BY <1>4
  <2>2. PICK x : found = {x}
    BY <1>3, <2>1, FS_Singleton
  <2>3. x \in DOMAIN p /\ (CHOOSE i \in found : TRUE) = x
    BY <1>3, <2>2
  <2>4. cursor = FitRow(x, Len(p))
    BY <1>4, <2>3
  <2>5. x \in 1..Len(p) /\ x \in Nat \ {0}
    BY <1>2, <2>3
  <2>6. FitRow(x, Len(p)) = x
    BY <1>2, <2>5, FitRowIs
  <2>7. QED
    BY <2>2, <2>3, <2>4, <2>6
<1>5. cursor \in Nat \ {0} /\ (p # <<>> => cursor \in DOMAIN p)
  <2>1. CASE s.text # NoText /\ ~invalid
    BY <1>2, <1>4, <2>1
  <2>2. CASE ~(s.text # NoText /\ ~invalid)
    <3>1. cursor = FitRow(s.cursor, Len(p))
      BY <2>2
    <3>2. p # <<>> => Len(p) # 0
      OBVIOUS
    <3> HIDE DEF cursor
    <3>3. QED
      BY <1>2, <3>1, <3>2, FitRowIs
  <2>3. QED
    BY <2>1, <2>2
<1>6. invalid \in BOOLEAN /\ settled \in BOOLEAN
  BY <1>2 DEF Ambiguous
<1> HIDE DEF cursor
<1>7. settled => p[cursor].text \in Texts /\ CountIn(p, p[cursor].text) \in Nat
  BY <1>5, TextsAre, CountIs
<1>8. texts \in Seq(Texts)
  BY TextsAre
<1>9. n \in Selections /\ n.snap = texts
  <2> HIDE DEF invalid, settled, texts
  <2>1. (IF settled THEN cursor ELSE s.idx) \in Nat /\ (IF settled THEN CountIn(p, p[cursor].text) ELSE s.count) \in Nat
    BY <1>2, <1>5, <1>7
  <2>2. (IF settled THEN p[cursor].text ELSE s.text) \in Marks
    BY <1>2, <1>7 DEF Marks
  <2>3. QED
    BY <1>1, <1>5, <1>6, <1>8, <2>1, <2>2 DEF Selections
<1>10. ASSUME s.invalid \/ OnIt(s, q, want), ~n.invalid PROVE OnIt(n, p, want)
  <2>1. ~invalid
    BY <1>1, <1>10
  <2>2. ~s.invalid /\ ~Ambiguous(s, changed) /\ OnIt(s, q, want)
    BY <1>10, <2>1
  <2>3. /\ s.text = want.text /\ s.text \in Texts /\ s.text # NoText /\ s.cursor = s.idx
        /\ s.count = CountIn(q, s.text) /\ IsChosen(q, s.cursor, want)
    BY <2>2, ChecklistAssumption DEF OnIt
  <2>4. PICK x \in DOMAIN p : found = {x} /\ cursor = x
    BY <1>4, <2>1, <2>3
  <2>5. settled
    BY <2>1, <2>4
  <2>6. n.idx = x /\ n.cursor = x /\ n.text = p[x].text /\ n.count = CountIn(p, p[x].text)
    <3> HIDE DEF settled, invalid, texts
    <3>1. QED
      BY <1>1, <2>4, <2>5
  <2>7. p[x].text = want.text /\ (Twice(TextsOf(p), want.text) \/ Twice(want.on, want.text) => want.on = TextsOf(p) /\ x = want.idx)
    <3>1. CASE ~changed
      <4>1. x = s.cursor /\ TextsOf(p) = TextsOf(q)
        BY <2>3, <2>4, <3>1 DEF found
      <4>2. p[x].text = TextsOf(p)[x] /\ x \in DOMAIN q
        BY <2>3, <4>1, TextsAre DEF IsChosen
      <4>3. q[x].text = TextsOf(q)[x]
        BY <4>2, TextsAre
      <4>4. QED
        BY <2>3, <4>1, <4>2, <4>3 DEF IsChosen
    <3>2. CASE changed
      <4>1. found = Having(p, s.text)
        BY <3>2 DEF found
      <4>2. p[x].text = want.text
        BY <2>3, <2>4, <4>1 DEF Having
      <4>3. ~(s.count > 1)
        BY <2>2, <2>3, <3>2 DEF Ambiguous
      <4>4. CountIn(q, s.text) \in Nat /\ CountIn(q, s.text) <= 1
        BY <2>3, <4>3, CountIs
      <4>5. ~Twice(TextsOf(q), want.text)
        BY <2>3, <4>4, CountIs
      <4>6. CountIn(p, s.text) = 1
        BY <2>4, <4>1, FS_Singleton DEF CountIn
      <4>7. ~Twice(TextsOf(p), want.text)
        <5>1. CountIn(p, s.text) <= 1
          BY <4>6
        <5>2. QED
          BY <2>3, <5>1, CountIs
      <4>8. ~Twice(want.on, want.text)
        BY <2>3, <4>5 DEF IsChosen
      <4>9. QED
        BY <4>2, <4>7, <4>8
    <3>3. QED
      BY <3>1, <3>2
  <2>8. QED
    BY <2>3, <2>4, <2>6, <2>7 DEF OnIt, IsChosen
<1>11. QED
  BY <1>9, <1>10 DEF n

LEMMA OffDeskKeeps == ASSUME ListInv, OffDesk, ReadsInv', SelInv' PROVE ListInv'
<1>1. /\ UNCHANGED page /\ UNCHANGED gen /\ UNCHANGED slip /\ UNCHANGED held /\ UNCHANGED pc
      /\ UNCHANGED made /\ UNCHANGED ledger
  BY DEF OffDesk
<1>2. FileInv'
  BY <1>1 DEF ListInv, FileInv, FileTypes, LockInv, StepFits, LedgerInv, MadeInv
<1>3. AimInv'
  BY <1>1 DEF ListInv, AimInv
<1>4. QED
  BY <1>2, <1>3 DEF ListInv

\* A reader goes on, and what it keeps is the file if the stat is the file's.
LEMMA ReaderGoes ==
    ASSUME ReadsInv, NEW r \in Readers, NEW st \in Reads, ReadGoes(r, st), UNCHANGED page, UNCHANGED gen,
           st.key <= gen, st.at = "keep" /\ st.key = gen => st.val = page,
           UNCHANGED cache \/ (readers[r].at = "keep" /\ cache' = [key |-> readers[r].key, val |-> readers[r].val])
    PROVE  ReadsInv'
<1>1. readers' \in [Readers -> Reads] /\ readers'[r] = st /\ \A v \in Readers : v # r => readers'[v] = readers[v]
  BY DEF ReadsInv, ReadTypes, ReadGoes
<1>2. readers[r] \in Reads /\ readers[r].key <= gen /\ (readers[r].at = "keep" /\ readers[r].key = gen => readers[r].val = page)
  BY DEF ReadsInv, ReadTypes
<1>3. cache' \in [key : Nat, val : Seq(Items)] /\ cache'.key <= gen' /\ CacheIsCurrent'
  <2>1. CASE UNCHANGED cache
    BY <2>1 DEF ReadsInv, ReadTypes, CacheIsCurrent
  <2>2. CASE readers[r].at = "keep" /\ cache' = [key |-> readers[r].key, val |-> readers[r].val]
    <3>1. readers[r].key \in Nat /\ readers[r].val \in Seq(Items)
      BY <1>2 DEF Reads
    <3>2. cache' \in [key : Nat, val : Seq(Items)] /\ cache'.key = readers[r].key /\ cache'.val = readers[r].val
      BY <2>2, <3>1
    <3>3. QED
      BY <1>2, <2>2, <3>2 DEF CacheIsCurrent
  <2>3. QED
    BY <2>1, <2>2
<1>4. \A v \in Readers : readers'[v].key <= gen' /\ (readers'[v].at = "keep" /\ readers'[v].key = gen' => readers'[v].val = page')
  BY <1>1 DEF ReadsInv
<1>5. QED
  BY <1>1, <1>3, <1>4 DEF ReadsInv, ReadTypes

LEMMA ReadingKeeps ==
    ASSUME ListInv, NEW r \in Readers, StartLoad(r) \/ LookUp(r) \/ Parse(r) \/ Keep(r)
    PROVE  ListInv'
<1>1. ReadsInv /\ FileInv /\ OffDesk /\ UNCHANGED deskVars /\ UNCHANGED page /\ UNCHANGED gen
  BY DEF ListInv, StartLoad, LookUp, Parse, Keep, OffDesk
<1>2. /\ readers[r] \in Reads /\ readers[r].key <= gen /\ cache.val \in Seq(Items) /\ gen \in Nat /\ page \in Seq(Items)
      /\ readers[r].key \in Nat /\ readers[r].val \in Seq(Items) /\ <<>> \in Seq(Items)
  BY <1>1 DEF ReadsInv, ReadTypes, FileInv, FileTypes, Reads
<1>3. CASE StartLoad(r)
  <2> DEFINE st == [at |-> "stat", key |-> gen, val |-> <<>>]
  <2>1. st \in Reads /\ st.at = "stat" /\ st.key = gen
    BY <1>2 DEF Reads
  <2>2. ReadGoes(r, st) /\ UNCHANGED cache
    BY <1>3 DEF StartLoad
  <2> HIDE DEF st
  <2>3. ReadsInv'
    BY <1>1, <1>2, <2>1, <2>2, ReaderGoes
  <2>4. QED
    BY <1>1, <2>3, OffDeskKeeps, DeskStays DEF ListInv
<1>4. CASE LookUp(r)
  <2> DEFINE st == IF cache.key = readers[r].key THEN [readers[r] EXCEPT !.at = "ready", !.val = cache.val]
                   ELSE [readers[r] EXCEPT !.at = "parse"]
  <2>1. st \in Reads /\ st.at # "keep" /\ st.key = readers[r].key
    BY <1>2 DEF Reads
  <2>2. ReadGoes(r, st) /\ UNCHANGED cache
    BY <1>4 DEF LookUp
  <2> HIDE DEF st
  <2>3. ReadsInv'
    BY <1>1, <1>2, <2>1, <2>2, ReaderGoes
  <2>4. QED
    BY <1>1, <2>3, OffDeskKeeps, DeskStays DEF ListInv
<1>5. CASE Parse(r)
  <2> DEFINE st == [readers[r] EXCEPT !.at = "keep", !.val = page]
  <2>1. st \in Reads /\ st.val = page /\ st.key = readers[r].key
    BY <1>2 DEF Reads
  <2>2. ReadGoes(r, st) /\ UNCHANGED cache
    BY <1>5 DEF Parse
  <2> HIDE DEF st
  <2>3. ReadsInv'
    BY <1>1, <1>2, <2>1, <2>2, ReaderGoes
  <2>4. QED
    BY <1>1, <2>3, OffDeskKeeps, DeskStays DEF ListInv
<1>6. CASE Keep(r)
  <2> DEFINE st == [readers[r] EXCEPT !.at = "ready"]
  <2>1. st \in Reads /\ st.at # "keep" /\ st.key = readers[r].key
    BY <1>2 DEF Reads
  <2>2. ReadGoes(r, st) /\ readers[r].at = "keep" /\ cache' = [key |-> readers[r].key, val |-> readers[r].val]
    BY <1>6 DEF Keep
  <2> HIDE DEF st
  <2>3. ReadsInv'
    BY <1>1, <1>2, <2>1, <2>2, ReaderGoes
  <2>4. QED
    BY <1>1, <2>3, OffDeskKeeps, DeskStays DEF ListInv
<1>7. QED
  BY <1>3, <1>4, <1>5, <1>6

LEMMA DeliverPageKeeps == ASSUME ListInv, NEW r \in Readers, Deliver(r) PROVE ListInv'
<1> DEFINE p == readers[r].val
           st == [at |-> "none", key |-> 0, val |-> <<>>]
<1>1. /\ ReadsInv /\ FileInv /\ SelInv /\ OffDesk /\ UNCHANGED page /\ UNCHANGED gen /\ UNCHANGED cache
      /\ shown' = p /\ sel' = Synced(sel, p) /\ UNCHANGED inItems /\ UNCHANGED chosen /\ ReadGoes(r, st)
  BY DEF ListInv, Deliver, OffDesk
<1>2. p \in Seq(Items) /\ gen \in Nat
  BY <1>1 DEF ReadsInv, ReadTypes, Reads, FileInv, FileTypes
<1>3. st \in Reads /\ st.at = "none" /\ st.key = 0 /\ 0 <= gen
  BY <1>2 DEF Reads
<1> HIDE DEF p, st
<1>4. ReadsInv'
  BY <1>1, <1>3, ReaderGoes
<1>5. /\ shown \in Seq(Items) /\ sel \in Selections /\ inItems \in BOOLEAN /\ chosen \in Picked /\ sel.snap = TextsOf(shown)
      /\ (inItems => sel.invalid \/ OnIt(sel, shown, chosen))
  BY <1>1 DEF SelInv, DeskTypes
<1>6. /\ Synced(sel, p) \in Selections /\ Synced(sel, p).snap = TextsOf(p)
      /\ sel.invalid \/ OnIt(sel, shown, chosen) => Synced(sel, p).invalid \/ OnIt(Synced(sel, p), p, chosen)
  BY <1>2, <1>5, SyncedIs
<1>7. SelInv'
  BY <1>1, <1>2, <1>5, <1>6 DEF SelInv, DeskTypes
<1>8. QED
  BY <1>1, <1>4, <1>7, OffDeskKeeps

LEMMA ChooseKeeps == ASSUME ListInv, ChooseItem PROVE ListInv'
<1>1. /\ ReadsInv /\ FileInv /\ SelInv /\ OffDesk /\ UNCHANGED readVars /\ UNCHANGED shown /\ inItems' = TRUE
      /\ UNCHANGED page /\ UNCHANGED gen /\ shown # <<>>
  BY DEF ListInv, ChooseItem, DeskKey, OffDesk
<1>2. PICK i \in (IF inItems THEN DOMAIN shown \ {sel.cursor} ELSE {1}) :
         /\ sel' = [sel EXCEPT !.cursor = i, !.idx = i, !.text = shown[i].text,
                               !.count = CountIn(shown, shown[i].text), !.invalid = FALSE]
         /\ chosen' = [text |-> shown[i].text, idx |-> i, on |-> TextsOf(shown)]
  BY DEF ChooseItem
<1>3. shown \in Seq(Items) /\ sel \in Selections /\ sel.snap = TextsOf(shown)
  BY <1>1 DEF SelInv, DeskTypes
<1>4. i \in DOMAIN shown /\ i \in Nat \ {0}
  <2>1. 1 \in DOMAIN shown
    BY <1>1, <1>3
  <2>2. i \in DOMAIN shown
    BY <2>1
  <2>3. QED
    BY <1>3, <2>2
<1>5. shown[i].text \in Texts /\ TextsOf(shown) \in Seq(Texts) /\ CountIn(shown, shown[i].text) \in Nat
  BY <1>3, <1>4, TextsAre, CountIs
<1>6. /\ sel' \in Selections /\ sel'.cursor = i /\ sel'.idx = i /\ sel'.text = shown[i].text /\ sel'.snap = sel.snap
      /\ sel'.count = CountIn(shown, shown[i].text)
  BY <1>2, <1>3, <1>4, <1>5 DEF Selections, Marks
<1>7. /\ chosen' \in Picked /\ chosen'.text = shown[i].text /\ chosen'.idx = i /\ chosen'.on = TextsOf(shown)
  BY <1>2, <1>4, <1>5 DEF Picked, Marks
<1>8. OnIt(sel', shown, chosen')
  BY <1>4, <1>5, <1>6, <1>7 DEF OnIt, IsChosen
<1>9. SelInv'
  BY <1>1, <1>3, <1>6, <1>7, <1>8 DEF SelInv, DeskTypes
<1>10. QED
  BY <1>1, <1>9, ReadsFollow, OffDeskKeeps DEF Moved

LEMMA LeaveKeeps == ASSUME ListInv, LeaveItems PROVE ListInv'
<1>1. /\ ReadsInv /\ FileInv /\ SelInv /\ OffDesk /\ UNCHANGED readVars /\ UNCHANGED shown /\ inItems' = FALSE
      /\ UNCHANGED page /\ UNCHANGED gen /\ UNCHANGED sel /\ UNCHANGED chosen
  BY DEF ListInv, LeaveItems, DeskKey, OffDesk
<1>2. SelInv'
  BY <1>1 DEF SelInv, DeskTypes
<1>3. QED
  BY <1>1, <1>2, ReadsFollow, OffDeskKeeps DEF Moved

LEMMA AskKeeps == ASSUME ListInv, AskToggle PROVE ListInv'
<1>1. /\ ReadsInv /\ FileInv /\ SelInv /\ AimInv /\ UNCHANGED readVars /\ UNCHANGED shown /\ UNCHANGED inItems
      /\ UNCHANGED page /\ UNCHANGED gen /\ UNCHANGED sel /\ UNCHANGED chosen /\ UNCHANGED held /\ UNCHANGED slip
      /\ UNCHANGED ledger /\ UNCHANGED made /\ inItems /\ ~sel.invalid /\ sel.cursor \in DOMAIN shown
  BY DEF ListInv, AskToggle, DeskKey
<1> DEFINE i == sel.cursor
           d == ~shown[i].done
           st == [Doing("asked", shown[i].text, d, i, shown) EXCEPT !.meant = chosen]
<1>2. PICK b \in Toggles : pc[b] = Idle /\ Goes(b, st)
  BY DEF AskToggle
<1>3. /\ shown \in Seq(Items) /\ i \in DOMAIN shown /\ i \in Nat /\ chosen \in Picked /\ IsChosen(shown, i, chosen)
      /\ shown[i].text \in Texts /\ shown[i].done \in BOOLEAN
  <2>1. shown \in Seq(Items) /\ sel \in Selections /\ chosen \in Picked /\ OnIt(sel, shown, chosen)
    BY <1>1 DEF SelInv, DeskTypes
  <2>2. sel.cursor \in Nat
    BY <2>1 DEF Selections
  <2>3. QED
    BY <1>1, <2>1, <2>2, TextsAre DEF OnIt
<1>4. d \in BOOLEAN /\ d # shown[i].done
  BY <1>3
<1> HIDE DEF d, i
<1>5. /\ st \in StepsOf /\ st.do = "asked" /\ st.at = i /\ st.from = shown /\ st.done = d /\ st.meant = chosen
  <2>1. /\ Doing("asked", shown[i].text, d, i, shown) =
             [do |-> "asked", text |-> shown[i].text, done |-> d, at |-> i, from |-> shown, meant |-> NoText]
    BY DEF Doing
  <2>2. QED
    BY <1>3, <1>4, <2>1 DEF StepsOf, Doings, Marks
<1> HIDE DEF st
<1>6. StepFits(st) /\ pc' = [pc EXCEPT ![b] = st] /\ b \in Procs
  BY <1>2, <1>3, <1>5 DEF StepFits, Goes, Procs
<1>7. pc[b].do = "idle" /\ held # b
  BY <1>1, <1>2, <1>6, IdleIs DEF FileInv, LockInv, HoldingDo
<1>8. page' \in Seq(Items) /\ Len(page') <= MaxItems /\ gen' \in Nat \ {0}
  BY <1>1, <1>6, StepTypes
<1>9. FileInv'
  BY <1>1, <1>5, <1>6, <1>7, <1>8, LetsGo DEF HoldingDo
<1>10. pc'[b] = st /\ \A v \in Procs : v # b => pc'[v] = pc[v]
  BY <1>1, <1>6 DEF FileInv, FileTypes
<1>11. AimInv'
  <2>1. st.meant \in Picked /\ IsChosen(st.from, st.at, st.meant) /\ st.from[st.at].done # st.done
    BY <1>3, <1>4, <1>5
  <2>2. QED
    BY <1>1, <1>10, <2>1 DEF AimInv
<1>12. SelInv'
  BY <1>1 DEF SelInv, DeskTypes
<1>13. QED
  BY <1>1, <1>9, <1>11, <1>12, ReadsFollow DEF ListInv, Moved

LEMMA ListStarts == ASSUME ChecksInit PROVE ListInv
<1>1. /\ page \in Firsts /\ gen = 1 /\ held = NoOne /\ made = {} /\ ledger = page
      /\ pc = [w \in Procs |-> Idle] /\ cache = [key |-> 0, val |-> <<>>]
      /\ readers = [r \in Readers |-> [at |-> "none", key |-> 0, val |-> <<>>]] /\ shown = <<>> /\ inItems = FALSE
      /\ sel = [idx |-> 0, cursor |-> 1, text |-> NoText, snap |-> <<>>, count |-> 0, invalid |-> FALSE]
      /\ chosen = [text |-> NoText, idx |-> 0, on |-> <<>>]
  BY DEF ChecksInit, Procs
<1>2. page \in Seq(Items) /\ Len(page) <= MaxItems
  BY <1>1, ChecklistAssumption DEF Items
<1>3. \A w \in Procs : pc[w] = Idle /\ pc[w].do = "idle"
  BY <1>1, IdleIs
<1>4. FileTypes
  BY <1>1, <1>2, IdleIs DEF FileTypes
<1>5. LockInv /\ LedgerInv /\ MadeInv
  BY <1>1, <1>3, NoOneWorks DEF LockInv, LedgerInv, MadeInv, HoldingDo
<1>6. \A w \in Procs : StepFits(pc[w])
  BY <1>3, IdleFits
<1>7. ReadsInv
  <2>1. <<>> \in Seq(Items)
    OBVIOUS
  <2>2. cache \in [key : Nat, val : Seq(Items)] /\ cache.key = 0
    BY <1>1, <2>1
  <2>3. readers \in [Readers -> Reads] /\ \A r \in Readers : readers[r].key = 0 /\ readers[r].at = "none"
    BY <1>1, <2>1 DEF Reads
  <2>4. QED
    BY <1>1, <2>2, <2>3 DEF ReadsInv, ReadTypes, CacheIsCurrent
<1>8. SelInv
  <2>1. shown \in Seq(Items) /\ <<>> \in Seq(Texts) /\ TextsOf(shown) = <<>>
    BY <1>1 DEF TextsOf
  <2>2. sel \in Selections /\ sel.snap = <<>>
    BY <1>1, <2>1 DEF Selections, Marks
  <2>3. chosen \in Picked
    BY <1>1, <2>1 DEF Picked, Marks
  <2>4. QED
    BY <1>1, <2>1, <2>2, <2>3 DEF SelInv, DeskTypes
<1>9. AimInv
  BY <1>3 DEF AimInv
<1>10. QED
  BY <1>4, <1>5, <1>6, <1>7, <1>8, <1>9 DEF ListInv, FileInv

LEMMA ListStep == ASSUME ListInv, [ChecksNext]_listVars PROVE ListInv'
<1>1. ASSUME NEW w \in Writers, Set(w) \/ Add(w) \/ Ensure(w) \/ EnsureAdds(w) \/ NewBranch(w) \/ NewBranchWrites(w)
      PROVE  ListInv'
  BY <1>1, SetKeeps, AddKeeps, EnsureKeeps, EnsureAddsKeeps, NewBranchKeeps, NewBranchWritesKeeps
<1>2. ASSUME NEW w \in Procs, WriteByte(w) \/ Cut(w) \/ Fill(w) \/ Die(w) PROVE ListInv'
  BY <1>2, WriteByteKeeps, CutKeeps, FillKeeps, DieKeeps
<1>3. CASE EditorSaves
  BY <1>3, EditorKeeps
<1>4. CASE CommandsNext
  BY <1>1, <1>2, <1>3, <1>4 DEF CommandsNext, Procs
<1>5. CASE DeskNext
  <2>1. ASSUME NEW r \in Readers, StartLoad(r) \/ LookUp(r) \/ Parse(r) \/ Keep(r) \/ Deliver(r) PROVE ListInv'
    BY <2>1, ReadingKeeps, DeliverPageKeeps
  <2>2. ASSUME NEW b \in Toggles, ToggleLoads(b) PROVE ListInv'
    BY <2>2, ToggleLoadsKeeps
  <2>3. ChooseItem \/ LeaveItems \/ AskToggle => ListInv'
    BY ChooseKeeps, LeaveKeeps, AskKeeps
  <2>4. QED
    BY <1>1, <1>2, <1>3, <1>5, <2>1, <2>2, <2>3 DEF DeskNext, Procs
<1>6. CASE UNCHANGED listVars
  <2>1. Rest /\ UNCHANGED page /\ UNCHANGED gen /\ UNCHANGED held /\ UNCHANGED pc /\ UNCHANGED made /\ UNCHANGED ledger
    BY <1>6 DEF listVars, Rest, readVars, deskVars
  <2>2. QED
    BY <2>1, NothingDone
<1>7. QED
  BY <1>4, <1>5, <1>6 DEF ChecksNext

LEMMA ListKept == ChecksSpec => []ListInv
<1>1. ChecksInit => ListInv
  BY ListStarts
<1>2. ListInv /\ [ChecksNext]_listVars => ListInv'
  BY ListStep
<1>3. QED
  BY <1>1, <1>2, PTL DEF ChecksSpec

\* internal/checklist pageLock, branch.go NewBranch, internal/filecache: without a save or a death in
\* the middle of a write, commands and a person's editor do not undo one another; one page is made
\* for the branch; and what the cache keeps under the file's stat is the file.
THEOREM PageKept == ChecksSpec => []PageIsKept
<1>1. ASSUME ListInv PROVE PageIsKept
  <2>1. ChecksTypeOK
    <3>1. page \in Seq(Items) /\ Len(page) <= MaxItems /\ gen >= cache.key /\ sel.cursor >= 1
      BY <1>1 DEF ListInv, FileInv, FileTypes, ReadsInv, ReadTypes, SelInv, DeskTypes, Selections
    <3>2. /\ held \in Writers \cup Toggles \cup {NoOne}
          /\ \A w \in Writers \cup Toggles : held = w <=> pc[w].do \in {"set", "add", "toggle", "fill", "refill", "new"}
      BY <1>1 DEF ListInv, FileInv, FileTypes, LockInv, HoldingDo, Procs
    <3>3. QED
      BY <3>1, <3>2 DEF ChecksTypeOK
  <2>2. NothingIsLost
    <3>1. held = NoOne => \A w \in Procs : pc[w].do \notin HoldingDo
      BY <1>1, NoOneWorks DEF ListInv, FileInv, LockInv
    <3>2. QED
      BY <1>1, <3>1 DEF NothingIsLost, ListInv, FileInv, LedgerInv, HoldingDo
  <2>3. OnePagePerBranch
    <3>1. Cardinality(made) = 0 \/ Cardinality(made) = 1
      BY <1>1, FS_EmptySet, FS_Singleton DEF ListInv, FileInv, MadeInv
    <3>2. QED
      BY <3>1 DEF OnePagePerBranch
  <2>4. CacheIsCurrent
    BY <1>1 DEF ListInv, ReadsInv
  <2>5. QED
    BY <2>1, <2>2, <2>3, <2>4 DEF PageIsKept
<1>2. QED
  BY <1>1, ListKept, PTL

\* board/checklists.go syncChecks, branch.go Toggle: however the page moved under the board, what
\* space changes is the item the person moved to, in the state it was shown in.
THEOREM ToggleHits == ChecksSpec => []ToggleHitsTheChosen
<1>1. ASSUME ListInv PROVE ToggleHitsTheChosen
  <2> SUFFICES ASSUME NEW b \in Toggles, pc[b].do = "toggle"
               PROVE  /\ pc[b].from[pc[b].at].text = pc[b].meant.text /\ pc[b].from[pc[b].at].done # pc[b].done
                      /\ Twice(TextsOf(pc[b].from), pc[b].meant.text) \/ Twice(pc[b].meant.on, pc[b].meant.text) =>
                           pc[b].meant.on = TextsOf(pc[b].from) /\ pc[b].at = pc[b].meant.idx
    BY DEF ToggleHitsTheChosen
  <2>1. b \in Procs /\ IsChosen(pc[b].from, pc[b].at, pc[b].meant) /\ pc[b].from[pc[b].at].done # pc[b].done
    BY <1>1 DEF ListInv, AimInv, Procs
  <2>2. QED
    BY <2>1 DEF IsChosen
<1>2. QED
  BY <1>1, ListKept, PTL
=============================================================================
