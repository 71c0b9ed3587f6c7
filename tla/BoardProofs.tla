---------------------------- MODULE BoardProofs ----------------------------
(***************************************************************************)
(* Theorems about Board, for any jobs, conversations, keys and answers.    *)
(***************************************************************************)
EXTENDS Board, FiniteSetTheorems, WellFoundedInduction, TLAPS

(***************************************************************************)
(* The THREADS view: the box that is open names the conversation on        *)
(* screen, because the keys that switch are not looked at under a box and  *)
(* a fall-back takes the box along; a post keeps what it was given.        *)
(***************************************************************************)
BoxInv ==
    /\ box = NoTalk \/ box = reading
    /\ \A c \in talkFlight : c.do = "post" => c.talk = c.from
    /\ PostsWhereTheBoxSays

\* What a read, an action or a re-read puts in flight is no post.
LEMMA ReadsArePostless ==
    ASSUME NEW do \in {"load", "data", "action"}, NEW talk, NEW order, NEW from,
           NEW c, c = TalkCmd(do, talk, order, from)
    PROVE  c.do # "post"
BY DEF TalkCmd

LEMMA SwitchInv == ASSUME BoxInv, NEW id, switchThread(id) PROVE
    \A c \in talkFlight' : c.do = "post" => c.talk = c.from
BY DEF BoxInv, switchThread, Reread, TalkCmd

LEMMA TalkInitInv == TalkInit => BoxInv
BY DEF TalkInit, BoxInv, PostsWhereTheBoxSays

\* Keys that switch come only where no box is open.
LEMMA SwitchKeysInv == ASSUME BoxInv, StepThread \/ PickerKey PROVE BoxInv'
<1>1. CASE StepThread
  <2>1. box = NoTalk /\ box' = box /\ posted' = posted
    BY <1>1 DEF StepThread, ThreadOwnsKeys, TalkBelow
  <2>2. \A c \in talkFlight' : c.do = "post" => c.talk = c.from
    BY <1>1, SwitchInv DEF StepThread
  <2>3. QED
    BY <2>1, <2>2 DEF BoxInv, PostsWhereTheBoxSays
<1>2. CASE PickerKey
  <2>1. box = NoTalk /\ box' = box /\ posted' = posted
    BY <1>2 DEF PickerKey, TalkBelow
  <2>2. \A c \in talkFlight' : c.do = "post" => c.talk = c.from
    BY <1>2, SwitchInv DEF PickerKey, BoxInv
  <2>3. QED
    BY <2>1, <2>2 DEF BoxInv, PostsWhereTheBoxSays
<1>3. QED
  BY <1>1, <1>2

\* The box opens on the conversation on screen, and a post takes both from it.
LEMMA BoxKeysInv == ASSUME BoxInv, OpenPicker \/ OpenCompose \/ ComposeKey PROVE BoxInv'
<1>1. CASE OpenPicker
  BY <1>1 DEF OpenPicker, TalkBelow, BoxInv, PostsWhereTheBoxSays
<1>2. CASE OpenCompose
  BY <1>2 DEF OpenCompose, TalkBelow, BoxInv, PostsWhereTheBoxSays
<1>3. CASE ComposeKey
  <2>1. box = reading /\ box' = NoTalk /\ posted' = posted
    BY <1>3 DEF ComposeKey, BoxInv, TalkBelow
  <2>2. talkFlight' = talkFlight \/ talkFlight' = talkFlight \cup {TalkCmd("post", reading, <<>>, box)}
    BY <1>3 DEF ComposeKey
  <2>3. \A c \in talkFlight' : c.do = "post" => c.talk = c.from
    BY <2>1, <2>2 DEF BoxInv, TalkCmd
  <2>4. QED
    BY <2>1, <2>3 DEF BoxInv, PostsWhereTheBoxSays
<1>4. QED
  BY <1>1, <1>2, <1>3

LEMMA AnswersInv ==
    ASSUME BoxInv, NEW c \in talkFlight, DoTalkRead(c) \/ DoPost(c) \/ HearTalk(c) \/ HearTalkAction(c)
    PROVE  BoxInv'
<1>1. CASE DoTalkRead(c)
  <2>1. PICK o : talkFlight' = (talkFlight \ {c}) \cup {TalkCmd("data", c.talk, o, NoTalk)}
    BY <1>1 DEF DoTalkRead
  <2>2. \A d \in talkFlight' : d.do = "post" => d.talk = d.from
    BY <2>1 DEF BoxInv, TalkCmd
  <2>3. QED
    BY <1>1, <2>2 DEF DoTalkRead, TalkLoop, BoxInv, PostsWhereTheBoxSays
<1>2. CASE DoPost(c)
  <2>1. c.talk = c.from
    BY <1>2 DEF DoPost, BoxInv
  <2>2. posted' = posted \/ posted' = posted \cup {<<c.talk, c.from>>}
    BY <1>2 DEF DoPost
  <2>3. PostsWhereTheBoxSays'
    BY <2>1, <2>2 DEF BoxInv, PostsWhereTheBoxSays
  <2>4. \A d \in talkFlight' : d.do = "post" => d.talk = d.from
    BY <1>2 DEF DoPost, BoxInv, TalkCmd
  <2>5. QED
    BY <1>2, <2>3, <2>4 DEF DoPost, TalkLoop, BoxInv
<1>3. CASE HearTalk(c)
  <2>1. posted' = posted
    BY <1>3 DEF HearTalk
  <2>2. \A d \in talkFlight' : d.do = "post" => d.talk = d.from
    BY <1>3 DEF HearTalk, BoxInv, Reread, TalkCmd
  <2>3. box' = NoTalk \/ box' = reading'
    BY <1>3 DEF HearTalk, BoxInv
  <2>4. QED
    BY <2>1, <2>2, <2>3 DEF BoxInv, PostsWhereTheBoxSays
<1>4. CASE HearTalkAction(c)
  BY <1>4 DEF HearTalkAction, TalkLoop, BoxInv, PostsWhereTheBoxSays, Reread, TalkCmd
<1>5. QED
  BY <1>1, <1>2, <1>3, <1>4

LEMMA TalkStepInv == ASSUME BoxInv, [TalkNext]_talkVars PROVE BoxInv'
<1>1. CASE StepThread \/ PickerKey
  BY <1>1, SwitchKeysInv
<1>2. CASE OpenPicker \/ OpenCompose \/ ComposeKey
  BY <1>2, BoxKeysInv
<1>3. CASE TalkTick
  BY <1>3 DEF TalkTick, BoxInv, PostsWhereTheBoxSays, Reread, TalkCmd
<1>4. CASE TalkOthers
  BY <1>4 DEF TalkOthers, BoxInv, PostsWhereTheBoxSays
<1>5. CASE TalkAnswers
  BY <1>5, AnswersInv DEF TalkAnswers
<1>6. CASE UNCHANGED talkVars
  BY <1>6 DEF talkVars, BoxInv, PostsWhereTheBoxSays
<1>7. QED
  BY <1>1, <1>2, <1>3, <1>4, <1>5, <1>6 DEF TalkNext

\* compose.go: a message goes to the conversation that its box named, whatever was switched,
\* removed or read in between.
THEOREM PostsGoWhereTheyAreMeant == TalkSpec => []PostsWhereTheBoxSays
<1>1. BoxInv => PostsWhereTheBoxSays
  BY DEF BoxInv
<1>2. QED
  BY TalkInitInv, TalkStepInv, <1>1, PTL DEF TalkSpec

-----------------------------------------------------------------------------
(* The marquee. *)

\* marquee.go: one tick at most is ever on its way, and the flag says whether there is one.
THEOREM OneTickOfTheMarquee == MarqueeInit /\ [][MarqueeNext]_marqueeVars => []OneMarqueeTick
<1> DEFINE Inv == scrolling \in BOOLEAN /\ marqueeOn \in BOOLEAN /\ OneMarqueeTick
<1>1. MarqueeInit => Inv
  BY DEF MarqueeInit, OneMarqueeTick
<1>2. ASSUME Inv, [MarqueeNext]_marqueeVars PROVE Inv'
  <2>1. CASE DrawFrame
    <3>1. PICK sc \in BOOLEAN :
             /\ scrolling' = sc /\ marqueeOn' = Armed(sc, marqueeOn)
             /\ marqueeTicks' = IF sc /\ ~marqueeOn /\ marqueeTicks < 2 THEN marqueeTicks + 1 ELSE marqueeTicks
      BY <2>1 DEF DrawFrame
    <3>2. CASE marqueeOn
      BY <1>2, <3>1, <3>2 DEF Armed, OneMarqueeTick
    <3>3. CASE ~marqueeOn /\ sc
      <4>1. marqueeTicks = 0
        BY <1>2, <3>3 DEF OneMarqueeTick
      <4>2. marqueeTicks' = 1
        BY <3>1, <3>3, <4>1
      <4>3. marqueeOn' = TRUE /\ scrolling' \in BOOLEAN
        BY <1>2, <3>1, <3>3 DEF Armed
      <4>4. QED
        BY <4>2, <4>3 DEF OneMarqueeTick
    <3>4. CASE ~marqueeOn /\ ~sc
      BY <1>2, <3>1, <3>4 DEF Armed, OneMarqueeTick
    <3>5. QED
      BY <3>2, <3>3, <3>4
  <2>2. CASE MarqueeTick
    <3>1. scrolling' \in BOOLEAN /\ marqueeOn' \in BOOLEAN
      BY <1>2, <2>2 DEF MarqueeTick
    <3>2. CASE scrolling
      BY <1>2, <2>2, <3>1, <3>2 DEF MarqueeTick, OneMarqueeTick
    <3>3. CASE ~scrolling
      <4>1. marqueeTicks = 1
        BY <1>2, <2>2 DEF MarqueeTick, OneMarqueeTick
      <4>2. marqueeOn' = FALSE /\ marqueeTicks' = marqueeTicks - 1
        BY <2>2, <3>3 DEF MarqueeTick
      <4>3. QED
        BY <3>1, <4>1, <4>2 DEF OneMarqueeTick
    <3>4. QED
      BY <3>2, <3>3
  <2>3. CASE UNCHANGED marqueeVars
    BY <1>2, <2>3 DEF marqueeVars, OneMarqueeTick
  <2>4. QED
    BY <1>2, <2>1, <2>2, <2>3 DEF MarqueeNext
<1>3. QED
  BY <1>1, <1>2, PTL

(***************************************************************************)
(* The JOBS list.  Rows, and what a command under way may carry.           *)
(***************************************************************************)
Jobs == Range(JobOrder)
RowSet == [id : Jobs, edit : 0..2, on : BOOLEAN, pin : BOOLEAN, over : BOOLEAN]
RunRows == [id : Jobs, edit : Nat, on : BOOLEAN, pin : BOOLEAN, over : BOOLEAN]
Doings == {"load", "refresh", "open", "check", "put", "run", "ran", "delete", "enable", "prune", "data", "refreshed",
           "opened", "action", "saved", "failed", "deleted", "pruned"}
Commands == [do : Doings, job : Jobs \cup {NoJob}, row : RunRows \cup {NoJob}, rest : Seq(Jobs) \cup Seq(RowSet),
             flag : BOOLEAN]

CmdFits(c) ==
    /\ c \in Commands
    /\ c.do \in {"refresh", "open"} => c.job \in Jobs
    /\ c.do \in {"check", "put", "opened", "refreshed"} => c.row \in RowSet
    /\ c.do \in {"opened", "refreshed"} => c.row # NoJob
    /\ c.do = "data" => c.rest \in Seq(RowSet)
    /\ c.do = "prune" => c.rest \in Seq(Jobs)

\* What is out is fit, the runs out are the ones counted, and a prune takes what was agreed to.
FlightInv == (\A c \in flight : CmdFits(c)) /\ RunningIsInFlight /\ PruneTakesTheNamed

ScreenTypes ==
    /\ rows \in [Jobs -> RowSet \cup {NoJob}] /\ list \in Seq(RowSet)
    /\ detail \in RowSet \cup {NoJob}
    /\ editor # NoJob => editor \in [row : RowSet, new : BOOLEAN]
    /\ at \in Nat \ {0} /\ finished \in BOOLEAN /\ running \subseteq Jobs
    /\ doomed \subseteq Jobs /\ agreed \subseteq Jobs
    /\ reads \in 0..(ReadsPerTick + 1) /\ keysLeft \in Nat
ScreenInv == ScreenTypes /\ CursorOnARow

JobsInv == FlightInv /\ ScreenInv


\* Every set of places has its k-th for each k up to their number.
Counted(I) == \A k \in 1..Cardinality(I) : \E i \in I : Cardinality({j \in I : j < i}) = k - 1

LEMMA PlacesAreCounted == ASSUME NEW n \in Nat, NEW I \in SUBSET (1..n) PROVE Counted(I)
<1> DEFINE Bad == {m \in Nat : \E A \in SUBSET (1..m) : ~Counted(A)}
<1>1. ASSUME Bad # {} PROVE FALSE
  <2>1. PICK m \in Bad : \A y \in Bad : ~(<<y, m>> \in OpToRel(<, Nat))
    BY <1>1, WFMin, NatLessThanWellFounded
  <2>2. m \in Nat /\ \A y \in Bad : ~(y < m)
    BY <2>1 DEF OpToRel
  <2>3. PICK A \in SUBSET (1..m) : ~Counted(A)
    BY <2>1
  <2> HIDE DEF Bad
  <2>4. IsFiniteSet(A) /\ Cardinality(A) \in Nat
    <3>1. IsFiniteSet(1..m)
      BY <2>2, FS_Interval
    <3>2. IsFiniteSet(A)
      BY <3>1, FS_Subset
    <3>3. QED
      BY <3>2, FS_CardinalityType
  <2>5. CASE A = {}
    <3>1. Cardinality(A) = 0
      BY <2>5, FS_EmptySet
    <3>2. QED
      BY <2>3, <3>1 DEF Counted
  <2>6. CASE A # {}
    <3>1. m >= 1 /\ m - 1 \in Nat
      <4>1. PICK a \in A : TRUE
        BY <2>6
      <4>2. a \in 1..m
        BY <4>1
      <4>3. QED
        BY <2>2, <4>2
    <3>2. \A B \in SUBSET (1..(m - 1)) : Counted(B)
      <4>1. m - 1 \notin Bad
        BY <2>2, <3>1
      <4>2. QED
        BY <3>1, <4>1 DEF Bad
    <3>3. m \in A
      <4>1. SUFFICES ASSUME m \notin A PROVE FALSE
        OBVIOUS
      <4>2. A \in SUBSET (1..(m - 1))
        BY <2>2, <4>1
      <4>3. QED
        BY <2>3, <3>2, <4>2
    <3> DEFINE B == A \ {m}
    <3>4. B \in SUBSET (1..(m - 1)) /\ m \notin B
      BY <2>2
    <3>5. IsFiniteSet(B) /\ Cardinality(B) = Cardinality(A) - 1
      BY <2>4, <3>3, FS_RemoveElement
    <3>6. \A i \in B : i < m /\ i \in Nat
      BY <2>2, <3>4
    <3>7. {j \in A : j < m} = B
      BY <2>2, <3>6
    <3>8. \A i \in B : {j \in A : j < i} = {j \in B : j < i}
      <4>1. \A i \in B : ~(m < i)
        BY <2>2, <3>6
      <4>2. QED
        BY <4>1
    <3>9. ASSUME NEW k \in 1..Cardinality(A) PROVE \E i \in A : Cardinality({j \in A : j < i}) = k - 1
      <4>1. CASE k = Cardinality(A)
        <5>1. Cardinality({j \in A : j < m}) = k - 1
          BY <3>5, <3>7, <4>1
        <5>2. QED
          BY <3>3, <5>1
      <4>2. CASE k # Cardinality(A)
        <5>1. k \in 1..Cardinality(B)
          BY <2>4, <3>5, <4>2
        <5>2. PICK i \in B : Cardinality({j \in B : j < i}) = k - 1
          BY <3>2, <3>4, <5>1 DEF Counted
        <5>3. Cardinality({j \in A : j < i}) = k - 1
          BY <3>8, <5>2
        <5>4. QED
          BY <5>3
      <4>3. QED
        BY <4>1, <4>2
    <3>10. QED
      BY <2>3, <3>9 DEF Counted
  <2>7. QED
    BY <2>5, <2>6
<1>2. QED
  BY <1>1

\* What is taken of a sequence at some of its places is a sequence of its members there.
LEMMA InPlacesIs ==
    ASSUME NEW S, NEW seq \in Seq(S), NEW places \in SUBSET (DOMAIN seq)
    PROVE  /\ InPlaces(seq, places) \in Seq(S) /\ Len(InPlaces(seq, places)) = Cardinality(places)
           /\ \A k \in 1..Len(InPlaces(seq, places)) : \E i \in places : InPlaces(seq, places)[k] = seq[i]
<1> DEFINE q == InPlaces(seq, places)
<1>1. places \in SUBSET (1..Len(seq)) /\ Len(seq) \in Nat /\ IsFiniteSet(places)
  <2>1. places \in SUBSET (1..Len(seq)) /\ Len(seq) \in Nat
    OBVIOUS
  <2>2. IsFiniteSet(1..Len(seq))
    BY <2>1, FS_Interval
  <2>3. QED
    BY <2>1, <2>2, FS_Subset
<1>2. Cardinality(places) \in Nat
  BY <1>1, FS_CardinalityType
<1>3. Counted(places)
  BY <1>1, PlacesAreCounted
<1>4. \A k \in 1..Cardinality(places) : Kth(places, k) \in places
  BY <1>3 DEF Counted, Kth
<1>5. q = [k \in 1..Cardinality(places) |-> seq[Kth(places, k)]]
  BY DEF InPlaces
<1> HIDE DEF q
<1>6. \A k \in 1..Cardinality(places) : seq[Kth(places, k)] \in S
  BY <1>1, <1>4
<1>7. q \in [1..Cardinality(places) -> S]
  BY <1>5, <1>6
<1>8. q \in Seq(S) /\ Len(q) = Cardinality(places)
  BY <1>2, <1>7
<1>9. \A k \in 1..Len(q) : \E i \in places : q[k] = seq[i]
  BY <1>4, <1>5, <1>8
<1>10. QED
  BY <1>8, <1>9 DEF q

LEMMA RangeIs ==
    ASSUME NEW S, NEW q \in Seq(S)
    PROVE  /\ Range(q) = {q[i] : i \in 1..Len(q)} /\ Range(q) \subseteq S /\ (\A i \in 1..Len(q) : q[i] \in Range(q))
           /\ q # <<>> => Head(q) \in Range(q) /\ Tail(q) \in Seq(S) /\ Range(Tail(q)) \subseteq Range(q)
<1>1. Range(q) = {q[i] : i \in 1..Len(q)}
  BY DEF Range
<1>2. ASSUME q # <<>> PROVE Head(q) \in Range(q) /\ Tail(q) \in Seq(S) /\ Range(Tail(q)) \subseteq Range(q)
  <2>1. /\ Tail(q) \in Seq(S) /\ Len(Tail(q)) = Len(q) - 1 /\ \A i \in 1..Len(Tail(q)) : Tail(q)[i] = q[i + 1]
        /\ Head(q) = q[1] /\ 1 \in 1..Len(q)
    BY <1>2
  <2>2. ASSUME NEW t \in Seq(S) PROVE Range(t) = {t[i] : i \in 1..Len(t)}
    BY DEF Range
  <2>3. \A i \in 1..Len(Tail(q)) : i + 1 \in 1..Len(q)
    BY <2>1
  <2>4. Range(Tail(q)) = {Tail(q)[i] : i \in 1..Len(Tail(q))}
    BY <2>1, <2>2
  <2>5. QED
    BY <1>1, <2>1, <2>3, <2>4
<1>3. QED
  BY <1>1, <1>2

LEMMA OrderIs == JobOrder \in Seq(Jobs) /\ DOMAIN JobOrder = 1..Len(JobOrder) /\ NoJob \notin Jobs
BY BoardAssumption DEF Jobs

\* The store's rows in the order of the list.
LEMMA StoreJobsAre == ASSUME NEW st \in [Jobs -> RowSet \cup {NoJob}] PROVE StoreJobs(st) \in Seq(RowSet)
<1> DEFINE there(pin) == {i \in DOMAIN JobOrder : JobOrder[i] \in Present(st) /\ st[JobOrder[i]].pin = pin}
           a == InPlaces(JobOrder, there(TRUE))
           b == InPlaces(JobOrder, there(FALSE))
           There == Present(st)
<1>1. \A j \in There : j \in Jobs /\ st[j] \in RowSet
  BY DEF Present, Jobs
<1>2. ASSUME NEW places \in SUBSET (DOMAIN JobOrder), \A i \in places : JobOrder[i] \in There
      PROVE  InPlaces(JobOrder, places) \in Seq(There)
  <2>1. /\ InPlaces(JobOrder, places) \in Seq(Jobs)
        /\ \A k \in 1..Len(InPlaces(JobOrder, places)) : \E i \in places : InPlaces(JobOrder, places)[k] = JobOrder[i]
    BY OrderIs, InPlacesIs
  <2>2. \A k \in 1..Len(InPlaces(JobOrder, places)) : InPlaces(JobOrder, places)[k] \in There
    BY <1>2, <2>1
  <2>3. QED
    BY <2>1, <2>2
<1>3. a \in Seq(There) /\ b \in Seq(There)
  BY <1>2
<1>4. StoreJobs(st) = [i \in DOMAIN (a \o b) |-> st[(a \o b)[i]]]
  BY DEF StoreJobs
<1> DEFINE ids == a \o b
<1> HIDE DEF a, b
<1>5. ids \in Seq(There)
  BY <1>3
<1> HIDE DEF There, ids
<1>6. DOMAIN ids = 1..Len(ids) /\ Len(ids) \in Nat /\ \A i \in 1..Len(ids) : ids[i] \in There
  BY <1>5
<1>7. [i \in 1..Len(ids) |-> st[ids[i]]] \in [1..Len(ids) -> RowSet]
  BY <1>1, <1>6
<1>8. StoreJobs(st) = [i \in 1..Len(ids) |-> st[ids[i]]]
  BY <1>4, <1>6 DEF ids
<1>9. QED
  BY <1>6, <1>7, <1>8

LEMMA VisibleAre == ASSUME NEW l \in Seq(RowSet), NEW all PROVE visibleJobs(l, all) \in Seq(RowSet)
<1>1. {i \in DOMAIN l : all \/ ~l[i].over} \in SUBSET (DOMAIN l)
  OBVIOUS
<1>2. QED
  BY <1>1, InPlacesIs DEF visibleJobs

LEMMA ClampIs ==
    ASSUME NEW n \in Int, NEW size \in Nat
    PROVE  clampCursor(n, size) \in Nat \ {0} /\ clampCursor(n, size) \in 1..(IF size = 0 THEN 1 ELSE size)
BY DEF clampCursor


(***************************************************************************)
(* What the person's keys and the messages find.                           *)
(***************************************************************************)
\* The rows on screen are rows, and the one under the cursor is one of them.
LEMMA ScreenHolds ==
    ASSUME ScreenTypes
    PROVE  /\ visibleJobs(list, finished) \in Seq(RowSet) /\ Len(visibleJobs(list, finished)) \in Nat
           /\ selectedJob # NoJob => selectedJob \in RowSet /\ selectedJob.id \in Jobs
           /\ detail # NoJob => detail.id \in Jobs
<1>1. visibleJobs(list, finished) \in Seq(RowSet)
  BY VisibleAre DEF ScreenTypes
<1>2. Len(visibleJobs(list, finished)) \in Nat
  BY <1>1
<1>3. ASSUME detail # NoJob PROVE detail \in RowSet /\ detail.id \in Jobs
  BY <1>3 DEF ScreenTypes, RowSet
<1>4. ASSUME selectedJob # NoJob PROVE selectedJob \in RowSet /\ selectedJob.id \in Jobs
  <2>1. CASE detail # NoJob
    BY <1>3, <2>1 DEF selectedJob
  <2>2. CASE detail = NoJob
    <3>1. at <= Len(visibleJobs(list, finished)) /\ selectedJob = visibleJobs(list, finished)[at]
      BY <1>4, <2>2 DEF selectedJob
    <3>2. at \in 1..Len(visibleJobs(list, finished))
      BY <1>2, <3>1 DEF ScreenTypes
    <3>3. visibleJobs(list, finished)[at] \in RowSet
      BY <1>1, <3>2
    <3>4. QED
      BY <3>1, <3>3 DEF RowSet
  <2>3. QED
    BY <2>1, <2>2
<1>5. QED
  BY <1>1, <1>2, <1>3, <1>4

\* The cursor stays on a row when the screen is left alone, and is on one after a clamp
\* or at the top.
LEMMA CursorStays ==
    ASSUME ScreenInv, list' = list, finished' = finished, at' = at, detail' = detail
    PROVE  CursorOnARow'
<1> DEFINE v == visibleJobs(list', finished')
<1>1. v = visibleJobs(list, finished)
  OBVIOUS
<1> HIDE DEF v
<1>2. detail' = NoJob => at' \in 1..(IF v = <<>> THEN 1 ELSE Len(v))
  BY <1>1 DEF ScreenInv, CursorOnARow
<1>3. QED
  BY <1>2 DEF v, CursorOnARow, visibleJobs, InPlaces, Kth

LEMMA CursorOnTop ==
    ASSUME list' \in Seq(RowSet), at' = 1
    PROVE  CursorOnARow'
<1> DEFINE v == visibleJobs(list', finished')
<1>1. v \in Seq(RowSet)
  BY VisibleAre
<1> HIDE DEF v
<1>2. v # <<>> => Len(v) >= 1 /\ Len(v) \in Nat
  BY <1>1
<1>3. 1 \in 1..(IF v = <<>> THEN 1 ELSE Len(v))
  BY <1>2
<1>4. QED
  BY <1>3 DEF v, CursorOnARow, visibleJobs, InPlaces, Kth

LEMMA CursorClamped ==
    ASSUME list' \in Seq(RowSet), NEW n \in Int, at' = clampCursor(n, Len(visibleJobs(list', finished')))
    PROVE  CursorOnARow' /\ at' \in Nat \ {0}
<1> DEFINE v == visibleJobs(list', finished')
<1>1. v \in Seq(RowSet)
  BY VisibleAre
<1> HIDE DEF v
<1>2. /\ Len(v) \in Nat
      /\ Len(v) = 0 <=> v = <<>>
  BY <1>1
<1>3. at' = clampCursor(n, Len(v))
  BY DEF v
<1>4. at' \in Nat \ {0} /\ at' \in 1..(IF Len(v) = 0 THEN 1 ELSE Len(v))
  BY <1>2, <1>3, ClampIs
<1>5. at' \in 1..(IF v = <<>> THEN 1 ELSE Len(v))
  BY <1>2, <1>4
<1>6. QED
  BY <1>4, <1>5 DEF v, CursorOnARow, visibleJobs, InPlaces, Kth

\* What goes out.
LEMMA SaysFit ==
    ASSUME NEW do \in Doings, NEW j \in Jobs \cup {NoJob}, do \notin {"check", "put", "opened", "refreshed", "data"},
           do \in {"refresh", "open"} => j \in Jobs
    PROVE  CmdFits(Say(do, j)) /\ Say(do, j).do = do
<1> DEFINE c == [do |-> do, job |-> j, row |-> NoJob, rest |-> <<>>, flag |-> FALSE]
<1>1. <<>> \in Seq(Jobs)
  OBVIOUS
<1>2. c \in Commands
  BY <1>1 DEF Commands
<1>3. c.do = do /\ c.job = j /\ c.rest = <<>>
  OBVIOUS
<1>4. Say(do, j) = c
  BY DEF Say, Cmd
<1> HIDE DEF c
<1>5. CmdFits(c)
  BY <1>1, <1>2, <1>3 DEF CmdFits
<1>6. QED
  BY <1>3, <1>4, <1>5

LEMMA ReadsFit ==
    ASSUME ScreenTypes
    PROVE  \A m \in loadCmd \cup refreshDetail : CmdFits(m) /\ m.do \in {"load", "refresh"}
<1>1. CmdFits(Say("load", NoJob)) /\ Say("load", NoJob).do = "load"
  BY SaysFit DEF Doings
<1>2. detail # NoJob => CmdFits(Say("refresh", detail.id)) /\ Say("refresh", detail.id).do = "refresh"
  <2>1. SUFFICES ASSUME detail # NoJob
                 PROVE  CmdFits(Say("refresh", detail.id)) /\ Say("refresh", detail.id).do = "refresh"
    OBVIOUS
  <2>2. detail.id \in Jobs
    BY <2>1, ScreenHolds
  <2> DEFINE j == detail.id
  <2> HIDE DEF j
  <2>3. CmdFits(Say("refresh", j)) /\ Say("refresh", j).do = "refresh"
    BY <2>2, SaysFit DEF Doings, j
  <2>4. QED
    BY <2>3 DEF j
<1>3. QED
  BY <1>1, <1>2 DEF loadCmd, refreshDetail

\* Nothing that is out matters to the runs and the prunes but runs and prunes.
Calm(c) == CmdFits(c) /\ c.do \notin {"run", "ran", "prune"}

LEMMA QuietMove ==
    ASSUME FlightInv, NEW ms, \A m \in ms : Calm(m),
           flight' \subseteq flight \cup ms, \A c \in flight : c.do \in {"run", "ran"} => c \in flight',
           running' = running, agreed \subseteq agreed'
    PROVE  FlightInv'
<1>1. \A c \in flight' : CmdFits(c)
  BY DEF FlightInv, Calm
<1>2. \A c \in flight' : c.do \in {"run", "ran", "prune"} => c \in flight
  BY DEF Calm
<1>3. {c.job : c \in {d \in flight' : d.do \in {"run", "ran"}}} = {c.job : c \in {d \in flight : d.do \in {"run", "ran"}}}
  <2>1. {d \in flight' : d.do \in {"run", "ran"}} = {d \in flight : d.do \in {"run", "ran"}}
    BY <1>2
  <2>2. QED
    BY <2>1
<1>4. RunningIsInFlight'
  <2>1. ASSUME NEW c \in flight', NEW d \in flight', {c.do, d.do} \subseteq {"run", "ran"}, c.job = d.job PROVE c = d
    <3>1. c \in flight /\ d \in flight
      BY <1>2, <2>1
    <3>2. QED
      BY <2>1, <3>1 DEF FlightInv, RunningIsInFlight
  <2>2. running' = {c.job : c \in {d \in flight' : d.do \in {"run", "ran"}}}
    BY <1>3 DEF FlightInv, RunningIsInFlight
  <2>3. QED
    BY <2>1, <2>2 DEF RunningIsInFlight
<1>5. PruneTakesTheNamed'
  <2>1. ASSUME NEW c \in flight', c.do = "prune" PROVE Range(c.rest) \subseteq agreed'
    BY <1>2, <2>1 DEF FlightInv, PruneTakesTheNamed
  <2>2. QED
    BY <2>1 DEF PruneTakesTheNamed
<1>6. QED
  BY <1>1, <1>4, <1>5 DEF FlightInv

LEMMA NothingSent ==
    ASSUME FlightInv, flight' = flight, running' = running, agreed' = agreed
    PROVE  FlightInv'
<1> DEFINE ms == {}
<1>1. (\A m \in ms : Calm(m)) /\ flight' \subseteq flight \cup ms
  OBVIOUS
<1> HIDE DEF ms
<1>2. QED
  BY <1>1, QuietMove

LEMMA SentOne ==
    ASSUME FlightInv, NEW m, Calm(m), flight' = flight \cup {m}, running' = running, agreed' = agreed
    PROVE  FlightInv'
<1> DEFINE ms == {m}
<1>1. (\A x \in ms : Calm(x)) /\ flight' \subseteq flight \cup ms /\ \A c \in flight : c \in flight'
  OBVIOUS
<1> HIDE DEF ms
<1>2. QED
  BY <1>1, QuietMove

LEMMA SentReads ==
    ASSUME JobsInv, flight' = flight \cup loadCmd, running' = running, agreed' = agreed
    PROVE  FlightInv'
<1> DEFINE m == Say("load", NoJob)
<1>1. Calm(m)
  BY ReadsFit DEF Calm, JobsInv, ScreenInv, loadCmd
<1>2. flight' = flight \cup {m} /\ FlightInv
  BY DEF loadCmd, JobsInv
<1> HIDE DEF m
<1>3. QED
  BY <1>1, <1>2, SentOne


(***************************************************************************)
(* The keys.                                                               *)
(***************************************************************************)
\* A key that sends nothing, or one calm command.
LEMMA KeysCount == ASSUME ScreenTypes, AKey PROVE keysLeft' \in Nat /\ reads' \in 0..(ReadsPerTick + 1)
BY BoardAssumption DEF AKey, ScreenTypes

LEMMA MoveHolds == ASSUME JobsInv, KeyMove PROVE JobsInv'
<1>1. FlightInv'
  BY NothingSent DEF JobsInv, KeyMove
<1>2. PICK d \in {-1, 1} : at' = clampCursor(at + d, Len(visibleJobs(list, finished)))
  BY DEF KeyMove
<1>3. list' = list /\ finished' = finished /\ list' \in Seq(RowSet)
  BY DEF KeyMove, JobsInv, ScreenInv, ScreenTypes
<1> DEFINE n == at + d
<1>4. n \in Int
  BY DEF JobsInv, ScreenInv, ScreenTypes
<1>5. at' = clampCursor(n, Len(visibleJobs(list', finished')))
  BY <1>2, <1>3
<1> HIDE DEF n
<1>6. CursorOnARow' /\ at' \in Nat \ {0}
  BY <1>3, <1>4, <1>5, CursorClamped
<1>7. keysLeft' \in Nat /\ reads' \in 0..(ReadsPerTick + 1)
  BY KeysCount DEF JobsInv, ScreenInv, KeyMove
<1>8. ScreenTypes'
  BY <1>6, <1>7 DEF JobsInv, ScreenInv, ScreenTypes, KeyMove, Below
<1>9. QED
  BY <1>1, <1>6, <1>8 DEF JobsInv, ScreenInv

LEMMA OpenHolds == ASSUME JobsInv, KeyOpen PROVE JobsInv'
<1> DEFINE m == Say("open", selectedJob.id)
<1>1. selectedJob.id \in Jobs
  BY ScreenHolds DEF JobsInv, ScreenInv, KeyOpen, OnAJob
<1>2. Calm(m)
  <2> DEFINE j == selectedJob.id
  <2> HIDE DEF j
  <2>1. CmdFits(Say("open", j)) /\ Say("open", j).do = "open"
    BY <1>1, SaysFit DEF Doings, j
  <2>2. Calm(Say("open", j))
    BY <2>1 DEF Calm
  <2>3. QED
    BY <2>2 DEF j
<1> HIDE DEF m
<1>3. flight' = flight \cup {m}
  BY DEF KeyOpen, Spawn, m
<1>4. FlightInv'
  BY <1>2, <1>3, SentOne DEF JobsInv, KeyOpen
<1>5. CursorOnARow'
  BY CursorStays DEF JobsInv, KeyOpen
<1>6. keysLeft' \in Nat /\ reads' \in 0..(ReadsPerTick + 1)
  BY KeysCount DEF JobsInv, ScreenInv, KeyOpen
<1>7. ScreenTypes'
  BY <1>6 DEF JobsInv, ScreenInv, ScreenTypes, KeyOpen, Below
<1>8. QED
  BY <1>4, <1>5, <1>7 DEF JobsInv, ScreenInv

LEMMA CloseHolds == ASSUME JobsInv, KeyClose PROVE JobsInv'
<1>1. FlightInv'
  BY SentReads DEF KeyClose, Spawn
<1>2. list' \in Seq(RowSet) /\ at' = 1
  BY DEF KeyClose, JobsInv, ScreenInv, ScreenTypes
<1>3. CursorOnARow'
  BY <1>2, CursorOnTop
<1>4. keysLeft' \in Nat /\ reads' \in 0..(ReadsPerTick + 1)
  BY KeysCount DEF JobsInv, ScreenInv, KeyClose
<1>5. ScreenTypes'
  BY <1>4 DEF JobsInv, ScreenInv, ScreenTypes, KeyClose, Below
<1>6. QED
  BY <1>1, <1>3, <1>5 DEF JobsInv, ScreenInv

LEMMA EditHolds == ASSUME JobsInv, KeyEdit PROVE JobsInv'
<1>1. FlightInv'
  BY NothingSent DEF JobsInv, KeyEdit
<1>2. CursorOnARow'
  BY CursorStays DEF JobsInv, KeyEdit
<1>3. keysLeft' \in Nat /\ reads' \in 0..(ReadsPerTick + 1)
  BY KeysCount DEF JobsInv, ScreenInv, KeyEdit
<1>4. selectedJob \in RowSet
  BY ScreenHolds DEF JobsInv, ScreenInv, KeyEdit, OnAJob
<1>5. editor' \in [row : RowSet, new : BOOLEAN]
  BY <1>4 DEF KeyEdit
<1>6. ScreenTypes'
  BY <1>3, <1>5 DEF JobsInv, ScreenInv, ScreenTypes, KeyEdit, Below
<1>7. QED
  BY <1>1, <1>2, <1>6 DEF JobsInv, ScreenInv

LEMMA NewRowIs == \A j \in Jobs : NewRow(j) \in RowSet
BY DEF NewRow, RowSet

LEMMA NewHolds == ASSUME JobsInv, KeyNew PROVE JobsInv'
<1>1. FlightInv'
  BY NothingSent DEF JobsInv, KeyNew
<1>2. CursorOnARow'
  BY CursorStays DEF JobsInv, KeyNew
<1>3. keysLeft' \in Nat /\ reads' \in 0..(ReadsPerTick + 1)
  BY KeysCount DEF JobsInv, ScreenInv, KeyNew
<1>4. editor' \in [row : RowSet, new : BOOLEAN]
  BY NewRowIs DEF KeyNew, Jobs
<1>5. ScreenTypes'
  BY <1>3, <1>4 DEF JobsInv, ScreenInv, ScreenTypes, KeyNew, Below
<1>6. QED
  BY <1>1, <1>2, <1>5 DEF JobsInv, ScreenInv

LEMMA EditsFit ==
    ASSUME NEW do \in {"check", "put", "opened", "refreshed"}, NEW j \in Jobs, NEW r \in RowSet, NEW f \in BOOLEAN,
           do \in {"opened", "refreshed"} => r # NoJob
    PROVE  Calm(Cmd(do, j, r, <<>>, f))
<1> DEFINE c == [do |-> do, job |-> j, row |-> r, rest |-> <<>>, flag |-> f]
<1>1. r \in RunRows /\ <<>> \in Seq(Jobs) /\ do \in Doings
  BY DEF RowSet, RunRows, Doings
<1>2. c \in Commands
  BY <1>1 DEF Commands
<1>3. c.do = do /\ c.row = r
  OBVIOUS
<1>4. Cmd(do, j, r, <<>>, f) = c
  BY DEF Cmd
<1> HIDE DEF c
<1>5. CmdFits(c)
  BY <1>2, <1>3 DEF CmdFits
<1>6. QED
  BY <1>3, <1>4, <1>5 DEF Calm


LEMMA SaveHolds == ASSUME JobsInv, KeySave PROVE JobsInv'
<1> DEFINE r == [editor.row EXCEPT !.edit = 1]
           do == IF editor.new THEN "check" ELSE "put"
           j == editor.row.id
<1>1. editor.row \in RowSet
  BY DEF JobsInv, ScreenInv, ScreenTypes, KeySave, InEditor
<1>2. r \in RowSet /\ j \in Jobs
  BY <1>1 DEF RowSet
<1>3. do \in {"check", "put"}
  OBVIOUS
<1>4. flight' = flight \cup {Cmd(do, j, r, <<>>, TRUE)}
  BY DEF KeySave, Spawn
<1> HIDE DEF r, do, j
<1>5. Calm(Cmd(do, j, r, <<>>, TRUE))
  BY <1>2, <1>3, EditsFit
<1>6. FlightInv'
  BY <1>4, <1>5, SentOne DEF JobsInv, KeySave
<1>7. CursorOnARow'
  BY CursorStays DEF JobsInv, KeySave
<1>8. keysLeft' \in Nat /\ reads' \in 0..(ReadsPerTick + 1)
  BY KeysCount DEF JobsInv, ScreenInv, KeySave
<1>9. ScreenTypes'
  BY <1>8 DEF JobsInv, ScreenInv, ScreenTypes, KeySave, Below
<1>10. QED
  BY <1>6, <1>7, <1>9 DEF JobsInv, ScreenInv

LEMMA AbandonHolds == ASSUME JobsInv, KeyAbandon PROVE JobsInv'
<1>1. FlightInv'
  BY SentReads DEF KeyAbandon, Spawn
<1>2. CursorOnARow'
  BY CursorStays DEF JobsInv, KeyAbandon
<1>3. keysLeft' \in Nat /\ reads' \in 0..(ReadsPerTick + 1)
  BY KeysCount DEF JobsInv, ScreenInv, KeyAbandon
<1>4. ScreenTypes'
  BY <1>3 DEF JobsInv, ScreenInv, ScreenTypes, KeyAbandon, Below
<1>5. QED
  BY <1>1, <1>2, <1>4 DEF JobsInv, ScreenInv

\* A run goes out of a job that has none out.
LEMMA RunStarts ==
    ASSUME JobsInv, NEW j \in Jobs, j \notin running, NEW m, CmdFits(m), m.do = "run", m.job = j,
           flight' = flight \cup {m}, running' = running \cup {j}, agreed' = agreed
    PROVE  FlightInv'
<1>1. \A c \in flight' : CmdFits(c)
  BY DEF JobsInv, FlightInv
<1>2. \A c \in flight : c.do \in {"run", "ran"} => c.job # j
  BY DEF JobsInv, FlightInv, RunningIsInFlight
<1>3. RunningIsInFlight'
  <2>1. ASSUME NEW c \in flight', NEW d \in flight', {c.do, d.do} \subseteq {"run", "ran"}, c.job = d.job PROVE c = d
    <3>1. CASE c \in flight /\ d \in flight
      BY <2>1, <3>1 DEF JobsInv, FlightInv, RunningIsInFlight
    <3>2. CASE c = m \/ d = m
      BY <1>2, <2>1, <3>2
    <3>3. QED
      BY <3>1, <3>2
  <2>2. {d \in flight' : d.do \in {"run", "ran"}} = {d \in flight : d.do \in {"run", "ran"}} \cup {m}
    OBVIOUS
  <2>3. running' = {c.job : c \in {d \in flight' : d.do \in {"run", "ran"}}}
    <3>1. running = {c.job : c \in {d \in flight : d.do \in {"run", "ran"}}}
      BY DEF JobsInv, FlightInv, RunningIsInFlight
    <3> DEFINE F == {d \in flight : d.do \in {"run", "ran"}}
               G == {d \in flight' : d.do \in {"run", "ran"}}
    <3>2. G = F \cup {m} /\ running = {c.job : c \in F}
      BY <2>2, <3>1
    <3> HIDE DEF F, G
    <3>3. {c.job : c \in G} = {c.job : c \in F} \cup {j}
      BY <3>2
    <3>4. running' = {c.job : c \in G}
      BY <3>2, <3>3
    <3>5. QED
      BY <3>4 DEF G
  <2>4. QED
    BY <2>1, <2>3 DEF RunningIsInFlight
<1>4. PruneTakesTheNamed'
  BY DEF JobsInv, FlightInv, PruneTakesTheNamed
<1>5. QED
  BY <1>1, <1>3, <1>4 DEF FlightInv

LEMMA RunHolds == ASSUME JobsInv, KeyRun PROVE JobsInv'
<1> DEFINE j == selectedJob.id
           r == [NewRow(j) EXCEPT !.edit = keysLeft]
           m == [do |-> "run", job |-> j, row |-> r, rest |-> <<>>, flag |-> FALSE]
<1>1. j \in Jobs /\ keysLeft \in Nat
  BY ScreenHolds DEF JobsInv, ScreenInv, ScreenTypes, KeyRun, OnAJob
<1>2. r \in RunRows
  BY <1>1 DEF NewRow, RunRows
<1>3. /\ MayRun(j) => running' = running \cup {j} /\ flight' = flight \cup {Cmd("run", j, r, <<>>, FALSE)}
      /\ ~MayRun(j) => running' = running /\ flight' = flight \cup {Say("action", NoJob)}
  BY DEF KeyRun, Spawn
<1> HIDE DEF j, r
<1>4. <<>> \in Seq(Jobs) /\ "run" \in Doings
  BY DEF Doings
<1>5. m \in Commands
  BY <1>1, <1>2, <1>4 DEF Commands
<1>6. m.do = "run" /\ m.job = j
  OBVIOUS
<1>7. Cmd("run", j, r, <<>>, FALSE) = m
  BY DEF Cmd
<1> HIDE DEF m
<1>8. CmdFits(m)
  BY <1>5, <1>6 DEF CmdFits
<1>9. agreed' = agreed
  BY DEF KeyRun
<1>10. FlightInv' /\ running' \subseteq Jobs
  <2>1. CASE MayRun(j)
    <3>1. FlightInv'
      BY <1>1, <1>3, <1>6, <1>7, <1>8, <1>9, <2>1, RunStarts DEF MayRun
    <3>2. running' \subseteq Jobs
      BY <1>1, <1>3, <2>1 DEF JobsInv, ScreenInv, ScreenTypes
    <3>3. QED
      BY <3>1, <3>2
  <2>2. CASE ~MayRun(j)
    <3>1. Calm(Say("action", NoJob))
      BY SaysFit DEF Doings, Calm
    <3>2. FlightInv'
      BY <1>3, <1>9, <2>2, <3>1, SentOne DEF JobsInv
    <3>3. running' \subseteq Jobs
      BY <1>3, <2>2 DEF JobsInv, ScreenInv, ScreenTypes
    <3>4. QED
      BY <3>2, <3>3
  <2>3. QED
    BY <2>1, <2>2
<1>11. CursorOnARow'
  BY CursorStays DEF JobsInv, KeyRun
<1>12. keysLeft' \in Nat /\ reads' \in 0..(ReadsPerTick + 1)
  BY KeysCount DEF JobsInv, ScreenInv, KeyRun
<1>13. ScreenTypes'
  BY <1>10, <1>12 DEF JobsInv, ScreenInv, ScreenTypes, KeyRun, Below
<1>14. QED
  BY <1>10, <1>11, <1>13 DEF JobsInv, ScreenInv

LEMMA OrdersFit ==
    ASSUME NEW do \in {"delete", "enable", "deleted"}, NEW j \in Jobs \cup {NoJob}, NEW f \in BOOLEAN
    PROVE  Calm(Cmd(do, j, NoJob, <<>>, f))
<1> DEFINE c == [do |-> do, job |-> j, row |-> NoJob, rest |-> <<>>, flag |-> f]
<1>1. <<>> \in Seq(Jobs) /\ do \in Doings
  BY DEF Doings
<1>2. c \in Commands
  BY <1>1 DEF Commands
<1>3. c.do = do
  OBVIOUS
<1>4. Cmd(do, j, NoJob, <<>>, f) = c
  BY DEF Cmd
<1> HIDE DEF c
<1>5. CmdFits(c)
  BY <1>2, <1>3 DEF CmdFits
<1>6. QED
  BY <1>3, <1>4, <1>5 DEF Calm

\* A key that sends one calm command and leaves the screen alone.
SendsOne(m) ==
    /\ Calm(m) /\ flight' = flight \cup {m} /\ AKey /\ Below
    /\ UNCHANGED list /\ UNCHANGED at /\ UNCHANGED detail /\ UNCHANGED editor /\ UNCHANGED doomed
    /\ UNCHANGED finished /\ UNCHANGED running /\ UNCHANGED agreed

LEMMA SendingHolds == ASSUME JobsInv, NEW m, SendsOne(m) PROVE JobsInv'
<1>1. FlightInv'
  BY SentOne DEF JobsInv, SendsOne
<1>2. CursorOnARow'
  BY CursorStays DEF JobsInv, SendsOne
<1>3. keysLeft' \in Nat /\ reads' \in 0..(ReadsPerTick + 1)
  BY KeysCount DEF JobsInv, ScreenInv, SendsOne
<1>4. ScreenTypes'
  BY <1>3 DEF JobsInv, ScreenInv, ScreenTypes, SendsOne, Below
<1>5. QED
  BY <1>1, <1>2, <1>4 DEF JobsInv, ScreenInv

LEMMA DeleteHolds == ASSUME JobsInv, KeyDelete PROVE JobsInv'
<1> DEFINE j == selectedJob.id
           f == detail # NoJob
<1>1. j \in Jobs /\ f \in BOOLEAN
  BY ScreenHolds DEF JobsInv, ScreenInv, KeyDelete, OnAJob
<1>2. flight' = flight \cup {Cmd("delete", j, NoJob, <<>>, f)}
  BY DEF KeyDelete, Spawn
<1> HIDE DEF j, f
<1>3. SendsOne(Cmd("delete", j, NoJob, <<>>, f))
  BY <1>1, <1>2, OrdersFit DEF SendsOne, KeyDelete
<1>4. QED
  BY <1>3, SendingHolds

LEMMA PauseHolds == ASSUME JobsInv, KeyPause PROVE JobsInv'
<1> DEFINE j == selectedJob.id
           f == ~selectedJob.on
<1>1. j \in Jobs /\ f \in BOOLEAN
  BY ScreenHolds DEF JobsInv, ScreenInv, KeyPause, OnAJob
<1>2. flight' = flight \cup {Cmd("enable", j, NoJob, <<>>, f)}
  BY DEF KeyPause, Spawn
<1> HIDE DEF j, f
<1>3. SendsOne(Cmd("enable", j, NoJob, <<>>, f))
  BY <1>1, <1>2, OrdersFit DEF SendsOne, KeyPause
<1>4. QED
  BY <1>3, SendingHolds

LEMMA PinHolds == ASSUME JobsInv, KeyPin PROVE JobsInv'
<1> DEFINE j == selectedJob.id
           r == [selectedJob EXCEPT !.pin = ~@]
<1>1. selectedJob \in RowSet /\ j \in Jobs
  BY ScreenHolds DEF JobsInv, ScreenInv, KeyPin, OnAJob
<1>2. r \in RowSet
  BY <1>1 DEF RowSet
<1>3. flight' = flight \cup {Cmd("put", j, r, <<>>, FALSE)}
  BY DEF KeyPin, Spawn
<1> HIDE DEF j, r
<1>4. SendsOne(Cmd("put", j, r, <<>>, FALSE))
  BY <1>1, <1>2, <1>3, EditsFit DEF SendsOne, KeyPin
<1>5. QED
  BY <1>4, SendingHolds

LEMMA FinishedHolds == ASSUME JobsInv, KeyFinished PROVE JobsInv'
<1>1. FlightInv'
  BY NothingSent DEF JobsInv, KeyFinished
<1>2. list' \in Seq(RowSet) /\ at' = 1
  BY DEF KeyFinished, JobsInv, ScreenInv, ScreenTypes
<1>3. CursorOnARow'
  BY <1>2, CursorOnTop
<1>4. keysLeft' \in Nat /\ reads' \in 0..(ReadsPerTick + 1)
  BY KeysCount DEF JobsInv, ScreenInv, KeyFinished
<1>5. ScreenTypes'
  BY <1>4 DEF JobsInv, ScreenInv, ScreenTypes, KeyFinished, Below
<1>6. QED
  BY <1>1, <1>3, <1>5 DEF JobsInv, ScreenInv

LEMMA PruneHolds == ASSUME JobsInv, KeyPrune PROVE JobsInv'
<1>1. FlightInv'
  BY NothingSent DEF JobsInv, KeyPrune
<1>2. CursorOnARow'
  BY CursorStays DEF JobsInv, KeyPrune
<1>3. keysLeft' \in Nat /\ reads' \in 0..(ReadsPerTick + 1)
  BY KeysCount DEF JobsInv, ScreenInv, KeyPrune
<1>4. OverIn(list) \subseteq Jobs
  <2>1. \A i \in DOMAIN list : list[i] \in RowSet
    BY DEF JobsInv, ScreenInv, ScreenTypes
  <2>2. QED
    BY <2>1 DEF OverIn, RowSet
<1>5. ScreenTypes'
  BY <1>3, <1>4 DEF JobsInv, ScreenInv, ScreenTypes, KeyPrune, Below
<1>6. QED
  BY <1>1, <1>2, <1>5 DEF JobsInv, ScreenInv

\* What a yes sends out is what the box named.
LEMMA PruneGoesOut ==
    ASSUME JobsInv, NEW m, CmdFits(m), m.do = "prune", Range(m.rest) \subseteq doomed,
           flight' = flight \cup {m}, running' = running, agreed' = agreed \cup doomed
    PROVE  FlightInv'
<1>1. \A c \in flight' : CmdFits(c)
  BY DEF JobsInv, FlightInv
<1>2. {d \in flight' : d.do \in {"run", "ran"}} = {d \in flight : d.do \in {"run", "ran"}}
  OBVIOUS
<1>3. RunningIsInFlight'
  <2>1. ASSUME NEW c \in flight', NEW d \in flight', {c.do, d.do} \subseteq {"run", "ran"}, c.job = d.job PROVE c = d
    <3>1. c \in flight /\ d \in flight
      BY <1>2, <2>1
    <3>2. QED
      BY <2>1, <3>1 DEF JobsInv, FlightInv, RunningIsInFlight
  <2>2. running' = {c.job : c \in {d \in flight' : d.do \in {"run", "ran"}}}
    BY <1>2 DEF JobsInv, FlightInv, RunningIsInFlight
  <2>3. QED
    BY <2>1, <2>2 DEF RunningIsInFlight
<1>4. PruneTakesTheNamed'
  <2>1. ASSUME NEW c \in flight', c.do = "prune" PROVE Range(c.rest) \subseteq agreed'
    <3>1. CASE c \in flight
      BY <2>1, <3>1 DEF JobsInv, FlightInv, PruneTakesTheNamed
    <3>2. CASE c = m
      BY <3>2
    <3>3. QED
      BY <3>1, <3>2
  <2>2. QED
    BY <2>1 DEF PruneTakesTheNamed
<1>5. QED
  BY <1>1, <1>3, <1>4 DEF FlightInv

LEMMA AnswerHolds == ASSUME JobsInv, KeyPruneAnswer PROVE JobsInv'
<1> DEFINE named == {i \in DOMAIN JobOrder : JobOrder[i] \in doomed}
           rest == InPlaces(JobOrder, named)
           m == [do |-> "prune", job |-> NoJob, row |-> NoJob, rest |-> rest, flag |-> FALSE]
<1>1. \/ agreed' = agreed \cup doomed /\ flight' = flight \cup {Cmd("prune", NoJob, NoJob, rest, FALSE)}
      \/ UNCHANGED <<agreed, flight>>
  BY DEF KeyPruneAnswer, Spawn
<1>2. /\ rest \in Seq(Jobs)
      /\ \A k \in 1..Len(rest) : \E i \in named : rest[k] = JobOrder[i]
  <2>1. JobOrder \in Seq(Jobs) /\ named \in SUBSET (DOMAIN JobOrder)
    BY OrderIs
  <2> HIDE DEF named
  <2>2. QED
    BY <2>1, InPlacesIs
<1>3. \A k \in 1..Len(rest) : rest[k] \in doomed
  BY <1>2
<1> HIDE DEF named, rest
<1>4. Range(rest) \subseteq doomed
  BY <1>2, <1>3, RangeIs
<1>5. "prune" \in Doings
  BY DEF Doings
<1>6. m \in Commands
  BY <1>2, <1>5 DEF Commands
<1>7. m.do = "prune" /\ m.rest = rest
  OBVIOUS
<1>8. Cmd("prune", NoJob, NoJob, rest, FALSE) = m
  BY DEF Cmd
<1> HIDE DEF m
<1>9. CmdFits(m)
  BY <1>2, <1>6, <1>7 DEF CmdFits
<1>10. running' = running
  BY DEF KeyPruneAnswer
<1>11. FlightInv'
  <2>1. CASE agreed' = agreed \cup doomed /\ flight' = flight \cup {Cmd("prune", NoJob, NoJob, rest, FALSE)}
    BY <1>4, <1>7, <1>8, <1>9, <1>10, <2>1, PruneGoesOut
  <2>2. CASE UNCHANGED <<agreed, flight>>
    BY <1>10, <2>2, NothingSent DEF JobsInv
  <2>3. QED
    BY <1>1, <2>1, <2>2
<1>12. CursorOnARow'
  BY CursorStays DEF JobsInv, KeyPruneAnswer
<1>13. keysLeft' \in Nat /\ reads' \in 0..(ReadsPerTick + 1)
  BY KeysCount DEF JobsInv, ScreenInv, KeyPruneAnswer
<1>14. agreed' \subseteq Jobs /\ doomed' \subseteq Jobs
  BY <1>1 DEF JobsInv, ScreenInv, ScreenTypes, KeyPruneAnswer
<1>15. ScreenTypes'
  BY <1>13, <1>14 DEF JobsInv, ScreenInv, ScreenTypes, KeyPruneAnswer, Below
<1>16. QED
  BY <1>11, <1>12, <1>15 DEF JobsInv, ScreenInv


(***************************************************************************)
(* The commands: what a goroutine does to the store, and what it says.     *)
(***************************************************************************)

LEMMA LoopHolds == ASSUME ScreenInv, OnLoop, rows' \in [Jobs -> RowSet \cup {NoJob}], reads' \in 0..(ReadsPerTick + 1)
                   PROVE  ScreenInv'
<1>1. CursorOnARow'
  BY CursorStays DEF OnLoop
<1>2. ScreenTypes'
  BY DEF ScreenInv, ScreenTypes, OnLoop
<1>3. QED
  BY <1>1, <1>2 DEF ScreenInv

LEMMA ComesBack ==
    ASSUME FlightInv, NEW c \in flight, c.do \notin {"run", "ran"}, NEW m, Calm(m),
           flight' = (flight \ {c}) \cup {m}, running' = running, agreed' = agreed
    PROVE  FlightInv'
<1> DEFINE ms == {m}
<1>1. /\ \A x \in ms : Calm(x)
      /\ flight' \subseteq flight \cup ms
      /\ \A d \in flight : d.do \in {"run", "ran"} => d \in flight'
  OBVIOUS
<1> HIDE DEF ms
<1>2. QED
  BY <1>1, QuietMove

LEMMA SayingFits == ASSUME NEW do \in {"action", "saved", "failed", "pruned"}, NEW j \in Jobs \cup {NoJob}
                    PROVE  Calm(Say(do, j))
BY SaysFit DEF Doings, Calm

LEMMA FitsIs == ASSUME FlightInv, NEW c \in flight
                PROVE  CmdFits(c) /\ c \in Commands /\ c.job \in Jobs \cup {NoJob} /\ c.flag \in BOOLEAN
BY DEF FlightInv, CmdFits, Commands

LEMMA ReadHolds == ASSUME JobsInv, NEW c \in flight, DoRead(c) PROVE JobsInv'
<1> DEFINE d == Cmd("data", NoJob, NoJob, StoreJobs(rows), FALSE)
           r == Cmd("refreshed", c.job, rows[c.job], <<>>, FALSE)
           o == Cmd("opened", c.job, rows[c.job], <<>>, FALSE)
           a == Say("action", NoJob)
           m == CASE c.do = "load" -> d
                  [] c.do = "refresh" /\ rows[c.job] # NoJob -> r
                  [] c.do = "open" /\ rows[c.job] # NoJob -> o
                  [] OTHER -> a
<1>1. CmdFits(c) /\ c.do \in {"load", "refresh", "open"} /\ rows \in [Jobs -> RowSet \cup {NoJob}]
  BY FitsIs DEF JobsInv, ScreenInv, ScreenTypes, DoRead
<1>2. flight' = (flight \ {c}) \cup {m}
  BY DEF DoRead, Becomes
<1>3. Calm(a)
  BY SayingFits
<1>4. Calm(d)
  <2> DEFINE l == StoreJobs(rows)
             b == [do |-> "data", job |-> NoJob, row |-> NoJob, rest |-> l, flag |-> FALSE]
  <2>1. l \in Seq(RowSet)
    BY <1>1, StoreJobsAre
  <2> HIDE DEF l
  <2>2. "data" \in Doings
    BY DEF Doings
  <2>3. b \in Commands
    BY <2>1, <2>2 DEF Commands
  <2>4. b.do = "data" /\ b.rest = l
    OBVIOUS
  <2>5. d = b
    BY DEF Cmd, l
  <2> HIDE DEF b, d
  <2>6. CmdFits(b)
    BY <2>1, <2>3, <2>4 DEF CmdFits
  <2>7. QED
    BY <2>4, <2>5, <2>6 DEF Calm
<1>5. c.do \in {"refresh", "open"} /\ rows[c.job] # NoJob => Calm(r) /\ Calm(o)
  <2>1. SUFFICES ASSUME c.do \in {"refresh", "open"}, rows[c.job] # NoJob PROVE Calm(r) /\ Calm(o)
    OBVIOUS
  <2> DEFINE j == c.job
             w == rows[c.job]
  <2>2. j \in Jobs
    BY <1>1, <2>1 DEF CmdFits
  <2>3. w \in RowSet /\ w # NoJob
    BY <1>1, <2>1, <2>2
  <2> HIDE DEF j, w
  <2>4. Calm(Cmd("refreshed", j, w, <<>>, FALSE)) /\ Calm(Cmd("opened", j, w, <<>>, FALSE))
    BY <2>2, <2>3, EditsFit
  <2>5. QED
    BY <2>4 DEF j, w
<1> HIDE DEF d, r, o, a
<1>6. Calm(m)
  BY <1>3, <1>4, <1>5
<1>7. m = m
  OBVIOUS
<1> HIDE DEF m
<1>8. c.do \notin {"run", "ran"} /\ running' = running /\ agreed' = agreed
  BY <1>1 DEF DoRead, OnLoop
<1>9. FlightInv'
  BY <1>2, <1>6, <1>8, ComesBack DEF JobsInv
<1>10. reads' \in 0..(ReadsPerTick + 1)
  BY BoardAssumption DEF JobsInv, ScreenInv, ScreenTypes, DoRead
<1>11. ScreenInv'
  BY <1>1, <1>10, LoopHolds DEF JobsInv, DoRead
<1>12. QED
  BY <1>9, <1>11 DEF JobsInv

\* Every other command leaves the reads alone.
LEMMA WriteHolds ==
    ASSUME JobsInv, NEW c \in flight, c.do \notin {"run", "ran"}, NEW m, Calm(m), flight' = (flight \ {c}) \cup {m},
           OnLoop, reads' = reads, rows' \in [Jobs -> RowSet \cup {NoJob}]
    PROVE  JobsInv'
<1>1. running' = running /\ agreed' = agreed
  BY DEF OnLoop
<1>2. FlightInv'
  BY <1>1, ComesBack DEF JobsInv
<1>3. reads' \in 0..(ReadsPerTick + 1)
  BY DEF JobsInv, ScreenInv, ScreenTypes
<1>4. ScreenInv'
  BY <1>3, LoopHolds DEF JobsInv
<1>5. QED
  BY <1>2, <1>4 DEF JobsInv

LEMMA RowsAre == ASSUME JobsInv PROVE rows \in [Jobs -> RowSet \cup {NoJob}]
BY DEF JobsInv, ScreenInv, ScreenTypes

LEMMA PutHolds == ASSUME JobsInv, NEW c \in flight, DoPut(c) PROVE JobsInv'
<1> DEFINE m == IF c.flag THEN Say("saved", c.job) ELSE Say("action", NoJob)
<1>1. CmdFits(c) /\ c.job \in Jobs \cup {NoJob} /\ c.do = "put" /\ c.row \in RowSet
  BY FitsIs DEF JobsInv, DoPut, CmdFits
<1>2. Calm(m)
  BY <1>1, SayingFits
<1>3. flight' = (flight \ {c}) \cup {m}
  BY DEF DoPut, Becomes
<1> HIDE DEF m
<1>4. rows' \in [Jobs -> RowSet \cup {NoJob}]
  BY <1>1, RowsAre DEF DoPut
<1>5. OnLoop /\ reads' = reads /\ c.do \notin {"run", "ran"}
  BY <1>1 DEF DoPut
<1>6. QED
  BY <1>2, <1>3, <1>4, <1>5, WriteHolds

LEMMA CheckHolds == ASSUME JobsInv, NEW c \in flight, DoCheck(c) PROVE JobsInv'
<1> DEFINE p == [c EXCEPT !.do = "put"]
           m == IF rows[c.job] # NoJob THEN Say("failed", c.job) ELSE p
<1>1. CmdFits(c) /\ c \in Commands /\ c.job \in Jobs \cup {NoJob} /\ c.do = "check" /\ c.row \in RowSet
  BY FitsIs DEF JobsInv, DoCheck, CmdFits
<1>2. p \in Commands /\ p.do = "put" /\ p.row = c.row
  <2>1. "put" \in Doings
    BY DEF Doings
  <2>2. QED
    BY <1>1, <2>1 DEF Commands
<1>3. flight' = (flight \ {c}) \cup {m}
  BY DEF DoCheck, Becomes
<1> HIDE DEF p
<1>4. Calm(p)
  BY <1>1, <1>2 DEF Calm, CmdFits
<1>5. Calm(m)
  BY <1>1, <1>4, SayingFits
<1> HIDE DEF m
<1>6. OnLoop /\ reads' = reads /\ rows' = rows /\ c.do \notin {"run", "ran"}
  BY <1>1 DEF DoCheck
<1>7. rows' \in [Jobs -> RowSet \cup {NoJob}]
  BY <1>6, RowsAre
<1>8. QED
  BY <1>3, <1>5, <1>6, <1>7, WriteHolds

LEMMA EnableHolds == ASSUME JobsInv, NEW c \in flight, DoEnable(c) PROVE JobsInv'
<1>1. CmdFits(c) /\ c.flag \in BOOLEAN /\ c.do = "enable"
  BY FitsIs DEF JobsInv, DoEnable
<1>2. Calm(Say("action", NoJob))
  BY SayingFits
<1>3. flight' = (flight \ {c}) \cup {Say("action", NoJob)} /\ OnLoop /\ reads' = reads /\ c.do \notin {"run", "ran"}
  BY <1>1 DEF DoEnable, Becomes
<1>4. rows' \in [Jobs -> RowSet \cup {NoJob}]
  <2>1. CASE rows[c.job] = NoJob
    BY <2>1, RowsAre DEF DoEnable
  <2>2. CASE rows[c.job] # NoJob
    <3> DEFINE w == [rows[c.job] EXCEPT !.on = c.flag]
    <3>1. rows' = [rows EXCEPT ![c.job] = w]
      BY <2>2 DEF DoEnable
    <3>2. c.job \in Jobs => w \in RowSet
      <4>1. SUFFICES ASSUME c.job \in Jobs PROVE w \in RowSet
        OBVIOUS
      <4>2. rows[c.job] \in RowSet
        BY <2>2, <4>1, RowsAre
      <4>3. QED
        BY <1>1, <4>2 DEF RowSet
    <3> HIDE DEF w
    <3>3. QED
      BY <3>1, <3>2, RowsAre
  <2>3. QED
    BY <2>1, <2>2
<1>5. QED
  BY <1>2, <1>3, <1>4, WriteHolds

LEMMA RemoveHolds == ASSUME JobsInv, NEW c \in flight, DoDelete(c) PROVE JobsInv'
<1> DEFINE m == IF rows[c.job] = NoJob THEN Say("action", NoJob) ELSE Cmd("deleted", c.job, NoJob, <<>>, c.flag)
<1>1. c.job \in Jobs \cup {NoJob} /\ c.flag \in BOOLEAN /\ c.do = "delete"
  BY FitsIs DEF JobsInv, DoDelete
<1>2. Calm(m)
  BY <1>1, SayingFits, OrdersFit
<1>3. flight' = (flight \ {c}) \cup {m} /\ OnLoop /\ reads' = reads /\ c.do \notin {"run", "ran"}
  BY <1>1 DEF DoDelete, Becomes
<1> HIDE DEF m
<1>4. rows' \in [Jobs -> RowSet \cup {NoJob}]
  BY RowsAre DEF DoDelete
<1>5. QED
  BY <1>2, <1>3, <1>4, WriteHolds

\* A prune goes on with the rest of what it was given.
LEMMA PruneGoesOn ==
    ASSUME FlightInv, NEW c \in flight, NEW m, CmdFits(m), c.do = "prune", m.do = "prune",
           Range(m.rest) \subseteq Range(c.rest),
           flight' = (flight \ {c}) \cup {m}, running' = running, agreed' = agreed
    PROVE  FlightInv'
<1>1. \A d \in flight' : CmdFits(d)
  BY DEF FlightInv
<1>2. {d \in flight' : d.do \in {"run", "ran"}} = {d \in flight : d.do \in {"run", "ran"}}
  OBVIOUS
<1>3. RunningIsInFlight'
  <2>1. ASSUME NEW d \in flight', NEW e \in flight', {d.do, e.do} \subseteq {"run", "ran"}, d.job = e.job PROVE d = e
    <3>1. d \in flight /\ e \in flight
      BY <1>2, <2>1
    <3>2. QED
      BY <2>1, <3>1 DEF FlightInv, RunningIsInFlight
  <2>2. running' = {d.job : d \in {e \in flight' : e.do \in {"run", "ran"}}}
    BY <1>2 DEF FlightInv, RunningIsInFlight
  <2>3. QED
    BY <2>1, <2>2 DEF RunningIsInFlight
<1>4. PruneTakesTheNamed'
  <2>1. ASSUME NEW d \in flight', d.do = "prune" PROVE Range(d.rest) \subseteq agreed'
    <3>1. CASE d \in flight
      BY <2>1, <3>1 DEF FlightInv, PruneTakesTheNamed
    <3>2. CASE d = m
      BY <3>2 DEF FlightInv, PruneTakesTheNamed
    <3>3. QED
      BY <3>1, <3>2
  <2>2. QED
    BY <2>1 DEF PruneTakesTheNamed
<1>5. QED
  BY <1>1, <1>3, <1>4 DEF FlightInv

LEMMA TakeHolds == ASSUME JobsInv, NEW c \in flight, DoPrune(c) PROVE JobsInv'
<1>1. CmdFits(c) /\ c \in Commands /\ c.do = "prune" /\ c.rest \in Seq(Jobs)
  BY FitsIs DEF JobsInv, DoPrune, CmdFits
<1>2. OnLoop /\ reads' = reads /\ c.do \notin {"run", "ran"}
  BY <1>1 DEF DoPrune
<1>3. CASE c.rest = <<>> \/ rows[Head(c.rest)] = NoJob
  <2>1. rows' = rows /\ flight' = (flight \ {c}) \cup {Say("pruned", NoJob)}
    BY <1>3 DEF DoPrune, Becomes
  <2>2. Calm(Say("pruned", NoJob)) /\ rows' \in [Jobs -> RowSet \cup {NoJob}]
    BY <2>1, SayingFits, RowsAre
  <2>3. QED
    BY <1>2, <2>1, <2>2, WriteHolds
<1>4. CASE ~(c.rest = <<>> \/ rows[Head(c.rest)] = NoJob)
  <2> DEFINE t == Tail(c.rest)
             m == [c EXCEPT !.rest = t]
  <2>1. rows' = [rows EXCEPT ![Head(c.rest)] = NoJob] /\ flight' = (flight \ {c}) \cup {m}
    BY <1>4 DEF DoPrune, Becomes
  <2>2. rows' \in [Jobs -> RowSet \cup {NoJob}]
    BY <2>1, RowsAre
  <2>3. t \in Seq(Jobs) /\ Range(t) \subseteq Range(c.rest)
    BY <1>1, <1>4, RangeIs
  <2> HIDE DEF t
  <2>4. m \in Commands /\ m.do = "prune" /\ m.rest = t
    BY <1>1, <2>3 DEF Commands
  <2> HIDE DEF m
  <2>5. CmdFits(m)
    BY <2>3, <2>4 DEF CmdFits
  <2>6. running' = running /\ agreed' = agreed
    BY <1>2 DEF OnLoop
  <2>7. FlightInv'
    BY <1>1, <2>1, <2>3, <2>4, <2>5, <2>6, PruneGoesOn DEF JobsInv
  <2>8. reads' \in 0..(ReadsPerTick + 1)
    BY <1>2 DEF JobsInv, ScreenInv, ScreenTypes
  <2>9. ScreenInv'
    BY <1>2, <2>2, <2>8, LoopHolds DEF JobsInv
  <2>10. QED
    BY <2>7, <2>9 DEF JobsInv
<1>5. QED
  BY <1>3, <1>4

LEMMA RunComesBack == ASSUME JobsInv, NEW c \in flight, DoRun(c) PROVE JobsInv'
<1> DEFINE m == [c EXCEPT !.do = "ran"]
<1>1. CmdFits(c) /\ c \in Commands /\ c.do = "run"
  BY FitsIs DEF JobsInv, DoRun
<1>2. m \in Commands /\ m.do = "ran" /\ m.job = c.job
  <2>1. "ran" \in Doings
    BY DEF Doings
  <2>2. QED
    BY <1>1, <2>1 DEF Commands
<1>3. flight' = (flight \ {c}) \cup {m} /\ OnLoop /\ rows' = rows /\ reads' = reads
  BY DEF DoRun, Becomes
<1> HIDE DEF m
<1>4. running' = running /\ agreed' = agreed
  BY <1>3 DEF OnLoop
<1>5. \A d \in flight' : CmdFits(d)
  BY <1>2, <1>3 DEF JobsInv, FlightInv, CmdFits
<1> DEFINE F == {d \in flight : d.do \in {"run", "ran"}}
           G == {d \in flight' : d.do \in {"run", "ran"}}
<1>6. G = (F \ {c}) \cup {m} /\ c \in F
  BY <1>1, <1>2, <1>3
<1>7. running = {d.job : d \in F} /\ \A d, e \in F : d.job = e.job => d = e
  BY DEF JobsInv, FlightInv, RunningIsInFlight
<1>8. RunningIsInFlight'
  <2> HIDE DEF F, G
  <2>1. {d.job : d \in G} = {d.job : d \in F}
    BY <1>2, <1>6
  <2>2. \A d, e \in G : d.job = e.job => d = e
    BY <1>2, <1>6, <1>7
  <2>3. running' = {d.job : d \in G}
    BY <1>4, <1>7, <2>1
  <2> USE DEF G
  <2>4. QED
    BY <2>2, <2>3 DEF RunningIsInFlight
<1>9. PruneTakesTheNamed'
  <2>1. ASSUME NEW d \in flight', d.do = "prune" PROVE Range(d.rest) \subseteq agreed'
    BY <1>2, <1>3, <1>4, <2>1 DEF JobsInv, FlightInv, PruneTakesTheNamed
  <2>2. QED
    BY <2>1 DEF PruneTakesTheNamed
<1>10. FlightInv'
  BY <1>5, <1>8, <1>9 DEF FlightInv
<1>11. rows' \in [Jobs -> RowSet \cup {NoJob}] /\ reads' \in 0..(ReadsPerTick + 1)
  BY <1>3 DEF JobsInv, ScreenInv, ScreenTypes
<1>12. ScreenInv'
  BY <1>3, <1>11, LoopHolds DEF JobsInv
<1>13. QED
  BY <1>10, <1>12 DEF JobsInv


(***************************************************************************)
(* The messages, the ticks and the other programs.                         *)
(***************************************************************************)
\* A message that is not a run's return is heard, and asks for calm reads.
LEMMA HeardIs ==
    ASSUME JobsInv, NEW c \in flight, c.do \notin {"run", "ran"}, NEW ms, \A m \in ms : Calm(m),
           Heard(c, ms), running' = running
    PROVE  FlightInv'
<1>1. /\ flight' \subseteq flight \cup ms /\ \A d \in flight : d.do \in {"run", "ran"} => d \in flight'
      /\ agreed \subseteq agreed'
  BY DEF Heard
<1>2. QED
  BY <1>1, QuietMove DEF JobsInv

LEMMA ReadsAreCalm == ASSUME JobsInv PROVE \A m \in loadCmd \cup refreshDetail : Calm(m)
BY ReadsFit DEF JobsInv, ScreenInv, Calm

LEMMA DataHolds == ASSUME JobsInv, NEW c \in flight, HearData(c) PROVE JobsInv'
<1>1. CmdFits(c) /\ c.do = "data" /\ Heard(c, {}) /\ running' = running
  BY FitsIs DEF JobsInv, HearData
<1>2. FlightInv'
  <2> DEFINE ms == {}
  <2>1. (\A m \in ms : Calm(m)) /\ Heard(c, ms)
    BY <1>1
  <2> HIDE DEF ms
  <2>2. QED
    BY <1>1, <2>1, HeardIs
<1>3. list' = c.rest /\ list' \in Seq(RowSet) /\ finished' = finished
  BY <1>1 DEF HearData, Heard, CmdFits
<1>4. CursorOnARow' /\ at' \in Nat \ {0}
  <2>1. CASE detail # NoJob
    <3>1. at' = at /\ detail' # NoJob
      BY <2>1 DEF HearData
    <3>2. QED
      BY <3>1 DEF CursorOnARow, JobsInv, ScreenInv, ScreenTypes
  <2>2. CASE detail = NoJob
    <3>1. at' = clampCursor(at, Len(visibleJobs(list', finished')))
      BY <1>3, <2>2 DEF HearData
    <3>2. at \in Int
      BY DEF JobsInv, ScreenInv, ScreenTypes
    <3>3. QED
      BY <1>3, <3>1, <3>2, CursorClamped
  <2>3. QED
    BY <2>1, <2>2
<1>5. ScreenTypes'
  BY <1>3, <1>4 DEF JobsInv, ScreenInv, ScreenTypes, HearData, Heard
<1>6. QED
  BY <1>2, <1>4, <1>5 DEF JobsInv, ScreenInv

LEMMA OpenedHolds == ASSUME JobsInv, NEW c \in flight, HearOpened(c) PROVE JobsInv'
<1>1. CmdFits(c) /\ c.do = "opened" /\ Heard(c, {}) /\ running' = running
  BY FitsIs DEF JobsInv, HearOpened
<1>2. FlightInv'
  <2> DEFINE ms == {}
  <2>1. (\A m \in ms : Calm(m)) /\ Heard(c, ms)
    BY <1>1
  <2> HIDE DEF ms
  <2>2. QED
    BY <1>1, <2>1, HeardIs
<1>3. list' \in Seq(RowSet) /\ at' = 1
  BY DEF HearOpened, JobsInv, ScreenInv, ScreenTypes
<1>4. CursorOnARow'
  BY <1>3, CursorOnTop
<1>5. detail' \in RowSet
  BY <1>1 DEF HearOpened, CmdFits
<1>6. ScreenTypes'
  BY <1>3, <1>5 DEF JobsInv, ScreenInv, ScreenTypes, HearOpened, Heard
<1>7. QED
  BY <1>2, <1>4, <1>6 DEF JobsInv, ScreenInv

LEMMA RefreshedHolds == ASSUME JobsInv, NEW c \in flight, HearRefreshed(c) PROVE JobsInv'
<1>1. CmdFits(c) /\ c.do = "refreshed" /\ Heard(c, {}) /\ running' = running
  BY FitsIs DEF JobsInv, HearRefreshed
<1>2. FlightInv'
  <2> DEFINE ms == {}
  <2>1. (\A m \in ms : Calm(m)) /\ Heard(c, ms)
    BY <1>1
  <2> HIDE DEF ms
  <2>2. QED
    BY <1>1, <2>1, HeardIs
<1>3. detail' \in RowSet /\ detail' # NoJob
  BY <1>1 DEF HearRefreshed, CmdFits
<1>4. CursorOnARow'
  BY <1>3 DEF CursorOnARow
<1>5. ScreenTypes'
  BY <1>3 DEF JobsInv, ScreenInv, ScreenTypes, HearRefreshed, Heard
<1>6. QED
  BY <1>2, <1>4, <1>5 DEF JobsInv, ScreenInv

\* A message that leaves the list, the cursor and the detail alone.
LEMMA PlainMessage ==
    ASSUME JobsInv, NEW c \in flight, c.do \notin {"run", "ran"},
           Heard(c, loadCmd \cup refreshDetail) \/ Heard(c, loadCmd) \/ Heard(c, {}),
           list' = list, at' = at, detail' = detail, editor' \in {editor, NoJob}, running' = running
    PROVE  JobsInv'
<1>1. FlightInv'
  <2>1. PICK ms \in SUBSET (loadCmd \cup refreshDetail) : Heard(c, ms)
    OBVIOUS
  <2>2. \A m \in ms : Calm(m)
    BY ReadsAreCalm
  <2>3. QED
    BY <2>1, <2>2, HeardIs
<1>2. CursorOnARow'
  BY CursorStays DEF JobsInv, Heard
<1>3. ScreenTypes'
  BY DEF JobsInv, ScreenInv, ScreenTypes, Heard
<1>4. QED
  BY <1>1, <1>2, <1>3 DEF JobsInv, ScreenInv

LEMMA PlainMessages ==
    ASSUME JobsInv, NEW c \in flight, HearAction(c) \/ HearSaved(c) \/ HearFailed(c) \/ HearPruned(c)
    PROVE  JobsInv'
<1>1. CASE HearAction(c)
  BY <1>1, PlainMessage DEF HearAction
<1>2. CASE HearSaved(c)
  BY <1>2, PlainMessage DEF HearSaved
<1>3. CASE HearFailed(c)
  BY <1>3, PlainMessage DEF HearFailed
<1>4. CASE HearPruned(c)
  BY <1>4, PlainMessage DEF HearPruned
<1>5. QED
  BY <1>1, <1>2, <1>3, <1>4

LEMMA DeletedHolds == ASSUME JobsInv, NEW c \in flight, HearDeleted(c) PROVE JobsInv'
<1>1. c.do = "deleted" /\ Heard(c, loadCmd) /\ running' = running
  BY DEF HearDeleted
<1>2. FlightInv'
  <2> DEFINE ms == loadCmd
  <2>1. (\A m \in ms : Calm(m)) /\ Heard(c, ms)
    BY <1>1, ReadsAreCalm
  <2> HIDE DEF ms
  <2>2. QED
    BY <1>1, <2>1, HeardIs
<1>3. list' \in Seq(RowSet) /\ list' = list /\ finished' = finished
  BY DEF HearDeleted, Heard, JobsInv, ScreenInv, ScreenTypes
<1>4. CursorOnARow'
  <2>1. CASE c.flag
    BY <1>3, <2>1, CursorOnTop DEF HearDeleted
  <2>2. CASE ~c.flag
    BY <1>3, <2>2, CursorStays DEF HearDeleted, JobsInv
  <2>3. QED
    BY <2>1, <2>2
<1>5. ScreenTypes'
  BY <1>3 DEF JobsInv, ScreenInv, ScreenTypes, HearDeleted, Heard
<1>6. QED
  BY <1>2, <1>4, <1>5 DEF JobsInv, ScreenInv

\* A run that is heard of is one less out.
LEMMA RanHolds == ASSUME JobsInv, NEW c \in flight, HearRan(c) PROVE JobsInv'
<1>1. c.do = "ran" /\ flight' = (flight \ {c}) \cup refreshDetail /\ running' = running \ {c.job} /\ agreed' = agreed
  BY DEF HearRan, Heard
<1>2. \A m \in refreshDetail : Calm(m)
  BY ReadsAreCalm
<1> DEFINE F == {d \in flight : d.do \in {"run", "ran"}}
           G == {d \in flight' : d.do \in {"run", "ran"}}
<1>3. G = F \ {c} /\ c \in F
  BY <1>1, <1>2 DEF Calm
<1>4. running = {d.job : d \in F} /\ \A d, e \in F : d.job = e.job => d = e
  BY DEF JobsInv, FlightInv, RunningIsInFlight
<1>5. RunningIsInFlight'
  <2> HIDE DEF F, G
  <2>1. {d.job : d \in G} = {d.job : d \in F} \ {c.job}
    BY <1>3, <1>4
  <2>2. \A d, e \in G : d.job = e.job => d = e
    BY <1>3, <1>4
  <2>3. running' = {d.job : d \in G}
    BY <1>1, <1>4, <2>1
  <2> USE DEF G
  <2>4. QED
    BY <2>2, <2>3 DEF RunningIsInFlight
<1>6. \A d \in flight' : CmdFits(d)
  BY <1>1, <1>2 DEF JobsInv, FlightInv, Calm
<1>7. PruneTakesTheNamed'
  <2>1. ASSUME NEW d \in flight', d.do = "prune" PROVE Range(d.rest) \subseteq agreed'
    BY <1>1, <1>2, <2>1 DEF JobsInv, FlightInv, PruneTakesTheNamed, Calm
  <2>2. QED
    BY <2>1 DEF PruneTakesTheNamed
<1>8. FlightInv'
  BY <1>5, <1>6, <1>7 DEF FlightInv
<1>9. CursorOnARow'
  BY CursorStays DEF JobsInv, HearRan, Heard
<1>10. ScreenTypes'
  BY DEF JobsInv, ScreenInv, ScreenTypes, HearRan, Heard
<1>11. QED
  BY <1>8, <1>9, <1>10 DEF JobsInv, ScreenInv

LEMMA TickHolds == ASSUME JobsInv, ScreenTick PROVE JobsInv'
<1>1. flight' = flight \cup (loadCmd \cup refreshDetail) /\ running' = running /\ agreed' = agreed
  BY DEF ScreenTick, Spawn
<1>2. FlightInv'
  <2> DEFINE ms == loadCmd \cup refreshDetail
  <2>1. /\ \A m \in ms : Calm(m)
        /\ flight' \subseteq flight \cup ms
        /\ \A d \in flight : d \in flight'
    BY <1>1, ReadsAreCalm
  <2> HIDE DEF ms
  <2>2. QED
    BY <1>1, <2>1, QuietMove DEF JobsInv
<1>3. CursorOnARow'
  BY CursorStays DEF JobsInv, ScreenTick
<1>4. ScreenTypes'
  BY BoardAssumption DEF JobsInv, ScreenInv, ScreenTypes, ScreenTick
<1>5. QED
  BY <1>2, <1>3, <1>4 DEF JobsInv, ScreenInv

\* An empty flight but for one read, and no run counted.
LEMMA AloneIsSound == ASSUME flight' = loadCmd, running' = {} PROVE FlightInv'
<1> DEFINE m == Say("load", NoJob)
<1>1. CmdFits(m) /\ m.do = "load"
  BY SaysFit DEF Doings
<1>2. flight' = {m}
  BY DEF loadCmd
<1> HIDE DEF m
<1>3. QED
  BY <1>1, <1>2 DEF FlightInv, RunningIsInFlight, PruneTakesTheNamed

LEMMA ReloadHolds == ASSUME JobsInv, Reload PROVE JobsInv'
<1>1. FlightInv'
  BY AloneIsSound DEF Reload
<1>2. list' = <<>> /\ at' = 1
  BY DEF Reload
<1>3. list' \in Seq(RowSet)
  BY <1>2
<1>4. CursorOnARow'
  BY <1>2, <1>3, CursorOnTop
<1>5. at' \in Nat \ {0} /\ reads' \in 0..(ReadsPerTick + 1)
  BY BoardAssumption DEF Reload
<1>6. ScreenTypes'
  BY <1>3, <1>5 DEF JobsInv, ScreenInv, ScreenTypes, Reload
<1>7. QED
  BY <1>1, <1>4, <1>6 DEF JobsInv, ScreenInv

LEMMA OthersHolds == ASSUME JobsInv, Others PROVE JobsInv'
<1>1. FlightInv'
  BY NothingSent DEF JobsInv, Others
<1>2. CursorOnARow'
  BY CursorStays DEF JobsInv, Others
<1>3. rows' \in [Jobs -> RowSet \cup {NoJob}]
  <2>1. PICK j \in Jobs :
            IF rows[j] = NoJob THEN rows' = [rows EXCEPT ![j] = NewRow(j)]
            ELSE \/ rows' = [rows EXCEPT ![j] = NoJob]
                 \/ rows' = [rows EXCEPT ![j].edit = 2]
                 \/ rows' = [rows EXCEPT ![j].on = rows[j].over, ![j].over = ~@]
    BY DEF Others, Jobs
  <2>2. CASE rows[j] = NoJob
    BY <2>1, <2>2, NewRowIs, RowsAre
  <2>3. CASE rows[j] # NoJob
    <3>1. rows[j] \in RowSet
      BY <2>3, RowsAre
    <3>2. CASE rows' = [rows EXCEPT ![j] = NoJob]
      BY <3>2, RowsAre
    <3>3. CASE rows' = [rows EXCEPT ![j].edit = 2]
      BY <3>1, <3>3, RowsAre DEF RowSet
    <3>4. CASE rows' = [rows EXCEPT ![j].on = rows[j].over, ![j].over = ~@]
      BY <3>1, <3>4, RowsAre DEF RowSet
    <3>5. QED
      BY <2>1, <2>3, <3>2, <3>3, <3>4
  <2>4. QED
    BY <2>2, <2>3
<1>4. ScreenTypes'
  BY <1>3 DEF JobsInv, ScreenInv, ScreenTypes, Others
<1>5. QED
  BY <1>1, <1>2, <1>4 DEF JobsInv, ScreenInv

----------------------------------------------------------------------------
LEMMA JobsInitHolds == RowsInit => JobsInv
<1>1. SUFFICES ASSUME RowsInit PROVE JobsInv
  OBVIOUS
<1>2. FlightInv
  <2> DEFINE m == Say("load", NoJob)
  <2>1. CmdFits(m) /\ m.do = "load"
    BY SaysFit DEF Doings
  <2>2. flight = {m} /\ running = {}
    BY <1>1 DEF RowsInit, loadCmd
  <2> HIDE DEF m
  <2>3. QED
    BY <2>1, <2>2 DEF FlightInv, RunningIsInFlight, PruneTakesTheNamed
<1>3. list = <<>> /\ list \in Seq(RowSet) /\ at = 1
  <2>1. list = <<>> /\ at = 1
    BY <1>1 DEF RowsInit
  <2>2. QED
    BY <2>1
<1>4. rows \in [Jobs -> RowSet \cup {NoJob}]
  <2>1. rows = [j \in Jobs |-> NewRow(j)] \/ rows = [j \in Jobs |-> IF j = JobOrder[1]
           THEN [NewRow(j) EXCEPT !.on = FALSE, !.over = TRUE] ELSE NewRow(j)]
    BY <1>1 DEF RowsInit, Jobs
  <2>2. \A j \in Jobs : [NewRow(j) EXCEPT !.on = FALSE, !.over = TRUE] \in RowSet
    <3>1. ASSUME NEW r \in RowSet PROVE [r EXCEPT !.on = FALSE, !.over = TRUE] \in RowSet
      BY DEF RowSet
    <3>2. QED
      BY <3>1, NewRowIs
  <2>3. QED
    BY <2>1, <2>2, NewRowIs
<1>5. CursorOnARow
  <2> DEFINE v == visibleJobs(list, finished)
  <2>1. v \in Seq(RowSet)
    BY <1>3, VisibleAre
  <2> HIDE DEF v
  <2>2. 1 \in 1..(IF v = <<>> THEN 1 ELSE Len(v))
    BY <2>1
  <2>3. QED
    BY <1>3, <2>2 DEF CursorOnARow, v
<1>6. at \in Nat \ {0} /\ reads \in 0..(ReadsPerTick + 1) /\ keysLeft \in Nat
  <2>1. at = 1 /\ reads = 0 /\ keysLeft = MaxKeys
    BY <1>1 DEF RowsInit
  <2>2. MaxKeys \in Nat /\ ReadsPerTick \in Nat
    BY BoardAssumption
  <2>3. QED
    BY <2>1, <2>2
<1>7. ScreenTypes
  BY <1>1, <1>3, <1>4, <1>6 DEF RowsInit, ScreenTypes
<1>8. QED
  BY <1>2, <1>5, <1>7 DEF JobsInv, ScreenInv

LEMMA JobsStep == JobsInv /\ [RowsNext]_rowVars => JobsInv'
<1>1. SUFFICES ASSUME JobsInv, [RowsNext]_rowVars PROVE JobsInv'
  OBVIOUS
<1>2. CASE \/ KeyMove \/ KeyOpen \/ KeyClose \/ KeyEdit \/ KeyNew \/ KeySave \/ KeyAbandon
           \/ KeyRun \/ KeyDelete \/ KeyPin \/ KeyPause \/ KeyFinished \/ KeyPrune \/ KeyPruneAnswer
  BY <1>1, <1>2, MoveHolds, OpenHolds, CloseHolds, EditHolds, NewHolds, SaveHolds, AbandonHolds, RunHolds,
     DeleteHolds, PinHolds, PauseHolds, FinishedHolds, PruneHolds, AnswerHolds
<1>3. CASE ScreenTick \/ Reload \/ Others
  BY <1>1, <1>3, TickHolds, ReloadHolds, OthersHolds
<1>4. CASE \E c \in flight : DoRead(c) \/ DoPut(c) \/ DoCheck(c) \/ DoEnable(c) \/ DoDelete(c) \/ DoPrune(c) \/ DoRun(c)
  BY <1>1, <1>4, ReadHolds, PutHolds, CheckHolds, EnableHolds, RemoveHolds, TakeHolds, RunComesBack
<1>5. CASE \E c \in flight : \/ HearData(c) \/ HearOpened(c) \/ HearRefreshed(c) \/ HearAction(c) \/ HearSaved(c)
                             \/ HearFailed(c) \/ HearDeleted(c) \/ HearPruned(c) \/ HearRan(c)
  BY <1>1, <1>5, DataHolds, OpenedHolds, RefreshedHolds, PlainMessages, DeletedHolds, RanHolds
<1>6. CASE UNCHANGED rowVars
  <2>1. FlightInv'
    BY <1>1, <1>6, NothingSent DEF JobsInv, rowVars
  <2>2. CursorOnARow'
    BY <1>1, <1>6, CursorStays DEF JobsInv, rowVars
  <2>3. ScreenTypes'
    BY <1>1, <1>6 DEF JobsInv, ScreenInv, ScreenTypes, rowVars
  <2>4. QED
    BY <2>1, <2>2, <2>3 DEF JobsInv, ScreenInv
<1>7. QED
  BY <1>1, <1>2, <1>3, <1>4, <1>5, <1>6 DEF RowsNext

LEMMA JobsInvSound == JobsInv => JobListIsSound
<1>1. SUFFICES ASSUME JobsInv PROVE JobListIsSound
  OBVIOUS
<1>2. Range(list) \subseteq RowSet
  BY <1>1, RangeIs DEF JobsInv, ScreenInv, ScreenTypes
<1>3. detail # NoJob => detail.id \in Jobs
  BY <1>1, ScreenHolds DEF JobsInv, ScreenInv
<1>4. \A c \in flight : c.job \in Jobs \cup {NoJob}
  BY <1>1, FitsIs DEF JobsInv
<1>5. BoardTypeOK
  BY <1>1, <1>2, <1>3, <1>4 DEF JobsInv, ScreenInv, ScreenTypes, BoardTypeOK, Jobs, RowSet
<1>6. QED
  BY <1>1, <1>5 DEF JobsInv, FlightInv, ScreenInv, JobListIsSound

\* selection.go, board.go, prune.go: whatever comes back late, in whatever order, and however
\* the store changes under the board, the list holds rows, the cursor is on one of those that
\* are drawn, a job is marked running exactly while its one run is out, and a prune takes only
\* what the box had named.
THEOREM JobListSound == JobsBoardSpec => []JobListIsSound
<1>1. JobsBoardSpec => []JobsInv
  BY JobsInitHolds, JobsStep, PTL DEF JobsBoardSpec
<1>2. QED
  BY <1>1, JobsInvSound, PTL

=============================================================================
