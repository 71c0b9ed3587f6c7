---------------------------- MODULE ForumProofs ----------------------------
(***************************************************************************)
(* Theorems about Forum, for any processes, names, boards, keys and        *)
(* bounds: keys, the search index, threads and watermarks.                 *)
(***************************************************************************)
EXTENDS Forum, SequenceTheorems, WellFoundedInduction, TLAPS

Texts == {"first", "second"}
Row == [there : BOOLEAN, board : Boards, parent : Nat, root : Nat, author : Handles,
        text : Texts, key : Keys \cup {NoKey}, at : Nat, deleted : BOOLEAN]

(***************************************************************************)
(* The invariant, over the posts ps.  A key is used once.  A reply and its *)
(* parent have one root, which is on their board; a board goes as a whole, *)
(* so the root of a row that is gone is gone too.  The index has the entry *)
(* of every readable post, and no other entry for it.  What a command has  *)
(* read stays true until it writes, because the columns it relies on never *)
(* change and a post that was deleted stays so.                            *)
(***************************************************************************)
ReadableIn(ps, i) == ps[i].there /\ ~ps[i].deleted
KeysUsedOnce(ps) == \A i, j \in DOMAIN ps :
    (ps[i].there /\ ps[j].there /\ ps[i].key # NoKey
        /\ ps[i].author = ps[j].author /\ ps[i].key = ps[j].key) => i = j
RootsHold(ps) == \A i \in DOMAIN ps :
    /\ ps[i].root \in DOMAIN ps
    /\ ps[ps[i].root].board = ps[i].board
    /\ ps[ps[i].root].there => ps[i].there
    /\ ps[i].parent # 0 => ps[i].parent \in DOMAIN ps /\ ps[ps[i].parent].root = ps[i].root
BoardsHold(ps, bs) == \A i \in DOMAIN ps : ps[i].there => ps[i].board \in bs
NotAhead(ps, now) == \A i \in DOMAIN ps : ps[i].at <= now
Indexed(ps, ft) ==
    /\ \A i \in DOMAIN ps : ReadableIn(ps, i) => EntryOf(i, ps[i]) \in ft
    /\ \A e \in ft : e.id \in DOMAIN ps /\ (ReadableIn(ps, e.id) => e.text = ps[e.id].text)
AnswersHold(ps, told) == \A x \in told :
    x.id \in DOMAIN ps /\ x.key # NoKey /\ x.author = ps[x.id].author /\ x.key = ps[x.id].key
ShownIsRead(ps, shown, upTo) == \A w \in Handles, b \in Scopes : \A i \in shown[w][b] :
    i \in DOMAIN ps /\ ps[i].at <= upTo[w][b]

CreateHolds(cmd, ps, now) ==
    /\ cmd.board \in Boards /\ cmd.key \in Keys \cup {NoKey}
    /\ cmd.at \in Nat /\ cmd.at <= now /\ cmd.parent \in Nat /\ cmd.root \in Nat
    /\ IF cmd.parent = 0 THEN cmd.root = 0
       ELSE cmd.parent \in DOMAIN ps /\ cmd.root = ps[cmd.parent].root /\ cmd.board = ps[cmd.parent].board
EditHolds(cmd, ps) ==
    cmd.id \in DOMAIN ps /\ cmd.text \in Texts /\ (cmd.deleted => ~ReadableIn(ps, cmd.id))
ListedHolds(cmd, ps) ==
    /\ cmd.scope \in Scopes /\ cmd.newest \in 0..LastSecond
    /\ cmd.found \subseteq DOMAIN ps /\ \A i \in cmd.found : ps[i].at <= cmd.newest
CommandHolds(cmd, ps, now) ==
    /\ cmd.op = "create" => CreateHolds(cmd, ps, now)
    /\ cmd.op = "edit" => EditHolds(cmd, ps)
    /\ cmd.op = "delete" => cmd.id \in DOMAIN ps
    /\ cmd.op = "since" => cmd.scope \in Scopes /\ cmd.since \in 0..LastSecond
    /\ cmd.op = "listed" => ListedHolds(cmd, ps)
CommandsHold(cmds, ps, now) ==
    cmds = [c \in Clients |-> cmds[c]] /\ \A c \in Clients : CommandHolds(cmds[c], ps, now)

PostsInv(ps) == ps \in Seq(Row) /\ KeysUsedOnce(ps) /\ RootsHold(ps)
ReadInv(shown, upTo) ==
    /\ upTo \in [Handles -> [Scopes -> 0..LastSecond]]
    /\ shown \in [Handles -> [Scopes -> SUBSET Nat]]
ForumInv ==
    /\ clock \in 1..LastSecond /\ boards \subseteq Boards
    /\ PostsInv(posts) /\ BoardsHold(posts, boards) /\ NotAhead(posts, clock)
    /\ Indexed(posts, fts) /\ AnswersHold(posts, answered)
    /\ ReadInv(wasShown, seenTo) /\ ShownIsRead(posts, wasShown, seenTo)
    /\ CommandsHold(command, posts, clock)

-----------------------------------------------------------------------------
(* The invariant implies the properties. *)

LEMMA InvIdemOnce == ASSUME ForumInv PROVE IdemOnce
BY DEF ForumInv, PostsInv, KeysUsedOnce, AnswersHold, IdemOnce, There, PostIds

LEMMA InvSearch == ASSUME ForumInv PROVE SearchIsCurrent
<1>1. ASSUME NEW text \in Texts, NEW i \in Readable, posts[i].text = text
      PROVE  \E e \in fts : e.id = i /\ e.text = text
  <2>1. EntryOf(i, posts[i]) \in fts
    BY <1>1 DEF ForumInv, Indexed, Readable, There, PostIds, ReadableIn
  <2>2. QED
    BY <2>1, <1>1 DEF EntryOf
<1>2. ASSUME NEW i \in Readable, NEW e \in fts, e.id = i PROVE e.text = posts[i].text
  BY <1>2 DEF ForumInv, Indexed, Readable, There, PostIds, ReadableIn
<1>3. QED
  BY <1>1, <1>2 DEF SearchIsCurrent, Search, Texts

LEMMA InvThreads == ASSUME ForumInv PROVE ThreadsHangTogether
<1> SUFFICES ASSUME NEW i \in There, posts[i].parent # 0, posts[i].root \in There
             PROVE  posts[i].parent \in There /\ InThread(posts[i].parent)
  BY DEF ThreadsHangTogether
<1>1. i \in DOMAIN posts /\ RootsHold(posts) /\ posts[posts[i].root].there
  BY DEF ForumInv, PostsInv, There, PostIds
<1>2. posts[i].parent \in DOMAIN posts /\ posts[posts[i].parent].root = posts[i].root
  BY <1>1 DEF RootsHold
<1>3. posts[i].parent \in There
  BY <1>1, <1>2 DEF RootsHold, There, PostIds
<1>4. i \in Kids(posts[i].parent)
  BY <1>2 DEF Kids
<1>5. QED
  BY <1>3, <1>4 DEF InThread

LEMMA InvReaders == ASSUME ForumInv PROVE ReadersSeeThePosts
<1>1. \A i \in There : posts[i].board \in boards /\ posts[i].at <= clock
  BY DEF ForumInv, BoardsHold, NotAhead, There, PostIds
<1>2. \A e \in fts : e.id \in PostIds
  BY DEF ForumInv, Indexed, PostIds
<1>3. \A w \in Handles, b \in Scopes : seenTo[w][b] \in 0..LastSecond
  BY DEF ForumInv, ReadInv
<1>4. ForumTypeOK
  BY <1>1, <1>2, <1>3 DEF ForumInv, ForumTypeOK
<1>5. QED
  BY <1>4, InvSearch, InvThreads DEF ReadersSeeThePosts

LEMMA InvShown == ASSUME ForumInv PROVE NothingResurfaces
BY DEF ForumInv, ShownIsRead, NothingResurfaces

-----------------------------------------------------------------------------
(* What a change of the posts may do to the rest: rows keep all but their  *)
(* text, and what cannot be read never comes back.                         *)

Keeps(ps, qs) == \A i \in DOMAIN ps :
    /\ i \in DOMAIN qs
    /\ qs[i].board = ps[i].board /\ qs[i].parent = ps[i].parent /\ qs[i].root = ps[i].root
    /\ qs[i].author = ps[i].author /\ qs[i].key = ps[i].key /\ qs[i].at = ps[i].at
    /\ ReadableIn(qs, i) => ReadableIn(ps, i)

LEMMA KeepsSame == ASSUME NEW ps PROVE Keeps(ps, ps)
BY DEF Keeps

LEMMA CommandsStay ==
    ASSUME NEW cmds, NEW ps, NEW qs, NEW now \in Nat, NEW later \in Nat, now <= later,
           CommandsHold(cmds, ps, now), Keeps(ps, qs)
    PROVE  CommandsHold(cmds, qs, later)
<1> SUFFICES ASSUME NEW c \in Clients, CommandHolds(cmds[c], ps, now)
             PROVE  CommandHolds(cmds[c], qs, later)
  BY DEF CommandsHold
<1> DEFINE cmd == cmds[c]
<1>1. CreateHolds(cmd, ps, now) => CreateHolds(cmd, qs, later)
  <2> SUFFICES ASSUME CreateHolds(cmd, ps, now) PROVE CreateHolds(cmd, qs, later)
    OBVIOUS
  <2>1. cmd.at <= later
    BY DEF CreateHolds
  <2>2. QED
    BY <2>1 DEF CreateHolds, Keeps
<1>2. EditHolds(cmd, ps) => EditHolds(cmd, qs)
  BY DEF EditHolds, Keeps
<1>3. ListedHolds(cmd, ps) => ListedHolds(cmd, qs)
  BY DEF ListedHolds, Keeps
<1>4. cmd.op = "delete" => (cmd.id \in DOMAIN ps => cmd.id \in DOMAIN qs)
  BY DEF Keeps
<1>5. QED
  BY <1>1, <1>2, <1>3, <1>4 DEF CommandHolds

LEMMA CommandSet ==
    ASSUME NEW cmds, NEW ps, NEW now, NEW c \in Clients, NEW cmd, CommandsHold(cmds, ps, now),
           CommandHolds(cmd, ps, now)
    PROVE  CommandsHold([cmds EXCEPT ![c] = cmd], ps, now)
BY DEF CommandsHold

LEMMA IdleHolds == ASSUME NEW ps, NEW now PROVE CommandHolds(NoCommand, ps, now)
BY DEF CommandHolds, NoCommand

LEMMA AnswersStay ==
    ASSUME NEW ps, NEW qs, NEW told, AnswersHold(ps, told), Keeps(ps, qs) PROVE AnswersHold(qs, told)
BY DEF AnswersHold, Keeps

LEMMA ShownStays ==
    ASSUME NEW ps, NEW qs, NEW shown, NEW upTo, ShownIsRead(ps, shown, upTo), Keeps(ps, qs)
    PROVE  ShownIsRead(qs, shown, upTo)
BY DEF ShownIsRead, Keeps

-----------------------------------------------------------------------------
(* Steps that leave the posts and the index alone. *)

\* A command that has read something, or returns or dies.
LEMMA CommandStep ==
    ASSUME ForumInv, NEW c \in Clients, NEW cmd, CommandHolds(cmd, posts, clock),
           command' = [command EXCEPT ![c] = cmd],
           UNCHANGED <<clock, posts, boards, fts, seenTo, answered, wasShown>>
    PROVE  ForumInv'
<1>1. CommandsHold(command', posts, clock)
  BY CommandSet DEF ForumInv
<1>2. QED
  BY <1>1 DEF ForumInv

LEMMA CreateLookInv ==
    ASSUME ForumInv, NEW c \in Clients, NEW key \in Keys \cup {NoKey}, NEW parent \in {0} \cup PostIds,
           NEW b \in Boards, CreateLook(c, key, parent, b)
    PROVE  ForumInv'
<1> DEFINE cmd == [op |-> "create", key |-> key, parent |-> parent, at |-> clock,
                   board |-> IF parent = 0 THEN b ELSE posts[parent].board,
                   root |-> IF parent = 0 THEN 0 ELSE posts[parent].root]
<1>1. posts \in Seq(Row) /\ clock \in Nat
  BY DEF ForumInv, PostsInv
<1>2. parent \in Nat
  BY <1>1 DEF PostIds
<1>3. parent # 0 => posts[parent] \in Row
  BY <1>1 DEF PostIds
<1>4. cmd.board \in Boards /\ cmd.root \in Nat
  BY <1>3 DEF Row
<1>5. CreateHolds(cmd, posts, clock)
  <2>1. cmd.at \in Nat /\ cmd.at <= clock
    BY <1>1
  <2>2. IF cmd.parent = 0 THEN cmd.root = 0
        ELSE cmd.parent \in DOMAIN posts /\ cmd.root = posts[cmd.parent].root
                /\ cmd.board = posts[cmd.parent].board
    BY DEF PostIds
  <2>3. cmd.key \in Keys \cup {NoKey} /\ cmd.parent \in Nat
    BY <1>2
  <2>4. QED
    BY <1>4, <2>1, <2>2, <2>3 DEF CreateHolds
<1>6. CommandHolds(cmd, posts, clock)
  BY <1>5 DEF CommandHolds
<1>7. command' = [command EXCEPT ![c] = cmd]
      /\ UNCHANGED <<clock, posts, boards, fts, seenTo, answered, wasShown>>
  BY DEF CreateLook, Does, NoHistory
<1>8. QED
  BY <1>6, <1>7, CommandStep

LEMMA ChangeLookInv ==
    ASSUME ForumInv, NEW c \in Clients, NEW i \in PostIds, DeleteLook(c, i) \/ EditLook(c, i)
    PROVE  ForumInv'
<1>1. CASE DeleteLook(c, i)
  <2>1. CommandHolds([op |-> "delete", id |-> i], posts, clock)
    BY DEF CommandHolds, PostIds
  <2>2. QED
    BY <1>1, <2>1, CommandStep DEF DeleteLook, Does, NoHistory
<1>2. CASE EditLook(c, i)
  <2> DEFINE cmd == [op |-> "edit", id |-> i, text |-> "second", deleted |-> posts[i].deleted]
  <2>1. EditHolds(cmd, posts)
    BY DEF EditHolds, Texts, PostIds, ReadableIn
  <2>2. CommandHolds(cmd, posts, clock)
    BY <2>1 DEF CommandHolds
  <2>3. command' = [command EXCEPT ![c] = cmd]
        /\ UNCHANGED <<clock, posts, boards, fts, seenTo, answered, wasShown>>
    BY <1>2 DEF EditLook, Does, NoHistory
  <2>4. QED
    BY <2>2, <2>3, CommandStep
<1>3. QED
  BY <1>1, <1>2

LEMMA OtherLooksInv ==
    ASSUME ForumInv, NEW c \in Clients,
           \/ \E b \in Boards, force \in BOOLEAN : BoardRemoveLook(c, b, force)
           \/ \E b \in Scopes : FeedSince(c, b)
           \/ ClientDies(c)
    PROVE  ForumInv'
<1>1. CASE \E b \in Boards, force \in BOOLEAN : BoardRemoveLook(c, b, force)
  <2>1. PICK b \in Boards, force \in BOOLEAN : BoardRemoveLook(c, b, force)
    BY <1>1
  <2>2. CommandHolds([op |-> "remove", board |-> b], posts, clock)
    BY DEF CommandHolds
  <2>3. QED
    BY <2>1, <2>2, CommandStep DEF BoardRemoveLook, Does, NoHistory
<1>2. CASE \E b \in Scopes : FeedSince(c, b)
  <2>1. PICK b \in Scopes : FeedSince(c, b)
    BY <1>2
  <2>2. seenTo[WriterOf[c]][b] \in 0..LastSecond
    BY DEF ForumInv, ReadInv, Handles
  <2>3. CommandHolds([op |-> "since", scope |-> b, since |-> seenTo[WriterOf[c]][b]], posts, clock)
    BY <2>2 DEF CommandHolds
  <2>4. QED
    BY <2>1, <2>3, CommandStep DEF FeedSince, Does, NoHistory
<1>3. CASE ClientDies(c)
  BY <1>3, IdleHolds, CommandStep DEF ClientDies, Returns, NoHistory
<1>4. QED
  BY <1>1, <1>2, <1>3

\* The answers grow by one that is true of the post.
LEMMA AnswerAdds ==
    ASSUME NEW ps, NEW told, AnswersHold(ps, told), NEW c, NEW key, NEW i \in DOMAIN ps,
           key # NoKey, ps[i].author = WriterOf[c], ps[i].key = key
    PROVE  AnswersHold(ps, told \cup {[author |-> WriterOf[c], key |-> key, id |-> i]})
BY DEF AnswersHold

LEMMA CreateAgainInv ==
    ASSUME ForumInv, NEW c \in Clients, NEW key \in Keys \cup {NoKey}, CreateAgain(c, key)
    PROVE  ForumInv'
<1>1. PICK i \in ByKey(WriterOf[c], key) : Answer(c, key, i)
  BY DEF CreateAgain
<1>2. i \in DOMAIN posts /\ key # NoKey /\ posts[i].author = WriterOf[c] /\ posts[i].key = key
  BY <1>1 DEF CreateAgain, ByKey, There, PostIds
<1>3. answered' = answered \cup {[author |-> WriterOf[c], key |-> key, id |-> i]}
  BY <1>1, <1>2 DEF Answer
<1>4. AnswersHold(posts, answered')
  BY <1>2, <1>3, AnswerAdds DEF ForumInv
<1>5. QED
  BY <1>4 DEF CreateAgain, ForumInv

LEMMA BoardPutInv == ASSUME ForumInv, NEW b \in Boards, ForumBoardPut(b) PROVE ForumInv'
<1>1. boards' \subseteq Boards /\ BoardsHold(posts, boards')
  BY DEF ForumInv, ForumBoardPut, BoardsHold
<1>2. QED
  BY <1>1 DEF ForumBoardPut, NoHistory, ForumInv

LEMMA ReindexInv == ASSUME ForumInv, ForumReindex PROVE ForumInv'
<1>1. Indexed(posts, fts')
  BY DEF ForumReindex, Indexed, EntryOf, Readable, There, PostIds, ReadableIn
<1>2. QED
  BY <1>1 DEF ForumReindex, NoHistory, ForumInv

LEMMA SecondInv == ASSUME ForumInv, ForumAssumption, SecondPasses PROVE ForumInv'
<1>1. clock \in Nat /\ clock' \in Nat /\ clock <= clock' /\ clock' \in 1..LastSecond
  BY DEF ForumInv, SecondPasses, ForumAssumption
<1>2. NotAhead(posts, clock')
  <2> SUFFICES ASSUME NEW i \in DOMAIN posts PROVE posts[i].at <= clock'
    BY DEF NotAhead
  <2>1. posts[i] \in Row
    BY DEF ForumInv, PostsInv
  <2>2. posts[i].at \in Nat /\ posts[i].at <= clock
    BY <2>1 DEF ForumInv, NotAhead, Row
  <2>3. QED
    BY <2>2, <1>1
<1>3. CommandsHold(command, posts, clock')
  BY <1>1, CommandsStay, KeepsSame DEF ForumInv
<1>4. QED
  BY <1>1, <1>2, <1>3 DEF SecondPasses, NoHistory, ForumInv

-----------------------------------------------------------------------------
(* The feed. *)

\* A set of numbers below a bound has a latest.
LEMMA BoundedHasLatest ==
    ASSUME NEW n \in Nat, NEW S \in SUBSET (0..n), S # {}
    PROVE  \E t \in S : \A u \in S : u <= t
<1> DEFINE T == {n - u : u \in S}
<1>1. T \subseteq Nat /\ T # {}
  <2>1. \A u \in S : n - u \in Nat
    OBVIOUS
  <2>2. QED
    BY <2>1
<1>2. PICK x \in T : \A y \in T : ~(<<y, x>> \in OpToRel(<, Nat))
  BY <1>1, WFMin, NatLessThanWellFounded
<1>3. \A y \in T : ~(y < x)
  BY <1>1, <1>2 DEF OpToRel
<1>4. PICK t \in S : x = n - t
  BY <1>2
<1>5. ASSUME NEW u \in S PROVE u <= t
  <2>1. ~(n - u < n - t)
    BY <1>3, <1>4
  <2>2. QED
    BY <2>1
<1>6. QED
  BY <1>4, <1>5

LEMMA NewestIsLatest ==
    ASSUME ForumInv, ForumAssumption, NEW found \in SUBSET PostIds, NEW since \in 0..LastSecond
    PROVE  Newest(found, since) \in 0..LastSecond /\ \A i \in found : posts[i].at <= Newest(found, since)
<1> DEFINE S == {since} \cup {posts[i].at : i \in found}
<1>1. ASSUME NEW i \in found PROVE posts[i].at \in 0..LastSecond
  <2>1. posts[i] \in Row /\ i \in DOMAIN posts
    BY DEF ForumInv, PostsInv, PostIds
  <2>2. posts[i].at \in Nat /\ posts[i].at <= clock
    BY <2>1 DEF ForumInv, NotAhead, Row
  <2>3. QED
    BY <2>2 DEF ForumInv, ForumAssumption
<1>2. S \in SUBSET (0..LastSecond) /\ S # {}
  BY <1>1
<1>3. \E t \in S : \A u \in S : u <= t
  BY <1>2, BoundedHasLatest DEF ForumAssumption
<1>4. Newest(found, since) \in S /\ \A u \in S : u <= Newest(found, since)
  BY <1>3 DEF Newest
<1>5. QED
  BY <1>2, <1>4

LEMMA FeedListInv ==
    ASSUME ForumInv, ForumAssumption, NEW c \in Clients, FeedList(c) PROVE ForumInv'
<1> DEFINE old == command[c]
           found == ForumList(old.scope, old.since)
           cmd == [op |-> "listed", scope |-> old.scope, found |-> found,
                   newest |-> Newest(found, old.since)]
<1>1. old.scope \in Scopes /\ old.since \in 0..LastSecond
  BY DEF ForumInv, CommandsHold, CommandHolds, FeedList
<1>2. found \in SUBSET PostIds
  BY DEF ForumList, FirstOf, Readable, There
<1>3. Newest(found, old.since) \in 0..LastSecond
      /\ \A i \in found : posts[i].at <= Newest(found, old.since)
  BY <1>1, <1>2, NewestIsLatest
<1>4. ListedHolds(cmd, posts)
  BY <1>1, <1>2, <1>3 DEF ListedHolds, PostIds
<1>5. CommandHolds(cmd, posts, clock)
  BY <1>4 DEF CommandHolds
<1>6. /\ UNCHANGED <<clock, posts, boards, fts, seenTo, answered, wasShown>>
      /\ command' = [command EXCEPT ![c] = NoCommand] \/ command' = [command EXCEPT ![c] = cmd]
  BY DEF FeedList, NoHistory
<1>7. QED
  BY <1>5, <1>6, IdleHolds, CommandStep

\* A watermark moves forward, to where nothing that is shown now is ahead of it.
LEMMA MarkKeepsShown ==
    ASSUME NEW ps \in Seq(Row), NEW shown, NEW upTo, ReadInv(shown, upTo), ShownIsRead(ps, shown, upTo),
           NEW w \in Handles, NEW b \in Scopes, NEW at \in 0..LastSecond, LastSecond \in Nat,
           NEW more \in SUBSET DOMAIN ps, \A i \in more : ps[i].at <= at
    PROVE  LET up == [upTo EXCEPT ![w][b] = IF at > @ THEN at ELSE @]
               sh == [shown EXCEPT ![w][b] = @ \cup more]
           IN ReadInv(sh, up) /\ ShownIsRead(ps, sh, up)
<1> DEFINE high == IF at > upTo[w][b] THEN at ELSE upTo[w][b]
           up == [upTo EXCEPT ![w][b] = IF at > @ THEN at ELSE @]
           sh == [shown EXCEPT ![w][b] = @ \cup more]
<1>1. upTo[w][b] \in 0..LastSecond /\ high \in 0..LastSecond /\ high >= at /\ high >= upTo[w][b]
  BY DEF ReadInv
<1>2. \A v \in Handles, d \in Scopes :
          /\ up[v][d] = IF v = w /\ d = b THEN high ELSE upTo[v][d]
          /\ sh[v][d] = IF v = w /\ d = b THEN shown[v][d] \cup more ELSE shown[v][d]
  BY DEF ReadInv
<1>3. more \subseteq Nat
  OBVIOUS
<1>4. up \in [Handles -> [Scopes -> 0..LastSecond]]
  BY <1>1 DEF ReadInv
<1>5. sh \in [Handles -> [Scopes -> SUBSET Nat]]
  BY <1>3 DEF ReadInv
<1>6. ASSUME NEW i \in DOMAIN ps PROVE ps[i].at \in Nat
  <2>1. ps[i] \in Row
    OBVIOUS
  <2>2. QED
    BY <2>1 DEF Row
<1>7. ASSUME NEW i \in shown[w][b] PROVE i \in DOMAIN ps /\ ps[i].at <= high
  <2>1. i \in DOMAIN ps /\ ps[i].at <= upTo[w][b]
    BY DEF ShownIsRead
  <2>2. QED
    BY <2>1, <1>1, <1>6
<1>8. ASSUME NEW i \in more PROVE i \in DOMAIN ps /\ ps[i].at <= high
  BY <1>1, <1>6
<1>9. ShownIsRead(ps, sh, up)
  <2> HIDE DEF high, up, sh
  <2> SUFFICES ASSUME NEW v \in Handles, NEW d \in Scopes, NEW i \in sh[v][d]
               PROVE  i \in DOMAIN ps /\ ps[i].at <= up[v][d]
    BY DEF ShownIsRead
  <2>1. CASE v = w /\ d = b
    BY <2>1, <1>2, <1>7, <1>8
  <2>2. CASE ~(v = w /\ d = b)
    BY <2>2, <1>2 DEF ShownIsRead
  <2>3. QED
    BY <2>1, <2>2
<1>10. ReadInv(sh, up)
  BY <1>4, <1>5 DEF ReadInv
<1>11. QED
  BY <1>9, <1>10

LEMMA FeedMarkInv ==
    ASSUME ForumInv, ForumAssumption, NEW c \in Clients, FeedMark(c) PROVE ForumInv'
<1> DEFINE cmd == command[c]
           w == WriterOf[c]
<1>1. ListedHolds(cmd, posts) /\ w \in Handles
  BY DEF ForumInv, CommandsHold, CommandHolds, FeedMark, Handles
<1>2. seenTo' = Marked(w, cmd.scope, cmd.newest)
      /\ wasShown' = [wasShown EXCEPT ![w][cmd.scope] = @ \cup cmd.found]
      /\ command' = [command EXCEPT ![c] = NoCommand]
      /\ UNCHANGED <<clock, posts, boards, fts, answered>>
  BY DEF FeedMark, Returns
<1>3. ReadInv(wasShown', seenTo') /\ ShownIsRead(posts, wasShown', seenTo')
  BY <1>1, <1>2, MarkKeepsShown DEF ListedHolds, Marked, ForumInv, PostsInv, ForumAssumption
<1>4. CommandsHold(command', posts, clock)
  BY <1>2, IdleHolds, CommandSet DEF ForumInv
<1>5. QED
  BY <1>2, <1>3, <1>4 DEF ForumInv

LEMMA MarkReadInv ==
    ASSUME ForumInv, ForumAssumption, NEW w \in Handles, NEW b \in Scopes, ForumMarkRead(w, b)
    PROVE  ForumInv'
<1> DEFINE more == {i \in There : posts[i].at <= clock /\ (b = Everywhere \/ posts[i].board = b)}
<1>1. more \in SUBSET DOMAIN posts /\ \A i \in more : posts[i].at <= clock
  BY DEF There, PostIds
<1>2. seenTo' = Marked(w, b, clock)
      /\ wasShown' = [wasShown EXCEPT ![w][b] = @ \cup more]
      /\ UNCHANGED <<clock, posts, boards, fts, command, answered>>
  BY DEF ForumMarkRead
<1>3. clock \in 0..LastSecond /\ LastSecond \in Nat
  BY DEF ForumInv, ForumAssumption
<1>4. ReadInv(wasShown', seenTo') /\ ShownIsRead(posts, wasShown', seenTo')
  <2> HIDE DEF more
  <2>1. QED
    BY <1>1, <1>2, <1>3, MarkKeepsShown DEF Marked, ForumInv, PostsInv
<1>5. QED
  BY <1>2, <1>4 DEF ForumInv

-----------------------------------------------------------------------------
(* ForumCreate's transaction. *)

\* What Append does to a sequence of rows.
LEMMA RowAdded ==
    ASSUME NEW ps \in Seq(Row), NEW p \in Row
    PROVE  LET qs == Append(ps, p) n == Len(ps) + 1
           IN /\ qs \in Seq(Row) /\ n \notin DOMAIN ps /\ Len(qs) = n /\ n \in Nat \ {0}
              /\ DOMAIN qs = DOMAIN ps \cup {n} /\ qs[n] = p
              /\ \A i \in DOMAIN ps : qs[i] = ps[i]
BY AppendProperties

LEMMA CreateRow ==
    ASSUME ForumInv, ForumAssumption, NEW c \in Clients, command[c].op = "create"
    PROVE  /\ PostOf(c) \in Row
           /\ PostOf(c).board \in Boards /\ PostOf(c).at <= clock
           /\ PostOf(c).author = WriterOf[c] /\ PostOf(c).key = command[c].key
           /\ PostOf(c).there /\ PostOf(c).text = "first"
           /\ PostOf(c).board = command[c].board /\ PostOf(c).parent = command[c].parent
           /\ IF command[c].parent = 0 THEN PostOf(c).root = Len(posts) + 1
              ELSE /\ command[c].parent \in DOMAIN posts
                   /\ PostOf(c).root = posts[command[c].parent].root
                   /\ PostOf(c).board = posts[command[c].parent].board
<1> DEFINE cmd == command[c]
           rt == IF cmd.root = 0 THEN Len(posts) + 1 ELSE cmd.root
<1>1. CreateHolds(cmd, posts, clock)
  BY DEF ForumInv, CommandsHold, CommandHolds
<1>2. posts \in Seq(Row) /\ RootsHold(posts)
  BY DEF ForumInv, PostsInv
<1>3. Len(posts) \in Nat /\ rt \in Nat
  BY <1>1, <1>2 DEF CreateHolds
<1>4. IF cmd.parent = 0 THEN rt = Len(posts) + 1
      ELSE cmd.parent \in DOMAIN posts /\ rt = posts[cmd.parent].root /\ cmd.board = posts[cmd.parent].board
  <2>1. CASE cmd.parent = 0
    BY <2>1, <1>1 DEF CreateHolds
  <2>2. CASE cmd.parent # 0
    <3>1. cmd.parent \in DOMAIN posts /\ cmd.root = posts[cmd.parent].root
          /\ cmd.board = posts[cmd.parent].board
      BY <2>2, <1>1 DEF CreateHolds
    <3>2. cmd.root \in DOMAIN posts
      BY <3>1, <1>2 DEF RootsHold
    <3>3. cmd.root # 0
      BY <3>2, <1>2
    <3>4. QED
      BY <2>2, <3>1, <3>3
  <2>3. QED
    BY <2>1, <2>2
<1> HIDE DEF rt
<1>5. PostOf(c) = [there |-> TRUE, board |-> cmd.board, parent |-> cmd.parent, root |-> rt,
                   author |-> WriterOf[c], text |-> "first", key |-> cmd.key, at |-> cmd.at,
                   deleted |-> FALSE]
  BY DEF PostOf, Post, rt
<1>6. PostOf(c) \in Row
  BY <1>1, <1>3, <1>5 DEF CreateHolds, Row, Texts, Handles
<1>7. QED
  BY <1>1, <1>4, <1>5, <1>6 DEF CreateHolds

LEMMA AddedKeeps ==
    ASSUME NEW ps \in Seq(Row), NEW p \in Row PROVE Keeps(ps, Append(ps, p))
BY RowAdded DEF Keeps, ReadableIn

LEMMA AddedRoots ==
    ASSUME NEW ps \in Seq(Row), NEW p \in Row, RootsHold(ps), p.there,
           IF p.parent = 0 THEN p.root = Len(ps) + 1
           ELSE p.parent \in DOMAIN ps /\ p.root = ps[p.parent].root /\ p.board = ps[p.parent].board
    PROVE  RootsHold(Append(ps, p))
<1> DEFINE qs == Append(ps, p)
           n == Len(ps) + 1
<1>1. /\ n \notin DOMAIN ps /\ DOMAIN qs = DOMAIN ps \cup {n} /\ qs[n] = p
      /\ \A i \in DOMAIN ps : qs[i] = ps[i]
  BY RowAdded
<1> HIDE DEF qs, n
<1> SUFFICES ASSUME NEW i \in DOMAIN qs
    PROVE  /\ qs[i].root \in DOMAIN qs
           /\ qs[qs[i].root].board = qs[i].board
           /\ qs[qs[i].root].there => qs[i].there
           /\ qs[i].parent # 0 => qs[i].parent \in DOMAIN qs /\ qs[qs[i].parent].root = qs[i].root
  BY DEF RootsHold, qs
<1>2. CASE i \in DOMAIN ps
  <2>1. /\ ps[i].root \in DOMAIN ps
        /\ ps[ps[i].root].board = ps[i].board
        /\ ps[ps[i].root].there => ps[i].there
        /\ ps[i].parent # 0 => ps[i].parent \in DOMAIN ps /\ ps[ps[i].parent].root = ps[i].root
    BY <1>2 DEF RootsHold
  <2>2. qs[i] = ps[i] /\ qs[ps[i].root] = ps[ps[i].root]
    BY <1>1, <1>2, <2>1
  <2>3. ps[i].parent # 0 => qs[ps[i].parent] = ps[ps[i].parent]
    BY <1>1, <2>1
  <2>4. QED
    BY <1>1, <2>1, <2>2, <2>3
<1>3. CASE i = n /\ p.parent = 0
  BY <1>1, <1>3 DEF n
<1>4. CASE i = n /\ p.parent # 0
  <2>1. p.parent \in DOMAIN ps /\ p.root = ps[p.parent].root /\ p.board = ps[p.parent].board
    BY <1>4
  <2>2. p.root \in DOMAIN ps /\ ps[p.root].board = p.board
    BY <2>1 DEF RootsHold
  <2>3. QED
    BY <1>1, <1>4, <2>1, <2>2
<1>5. QED
  BY <1>1, <1>2, <1>3, <1>4

LEMMA AddedKeys ==
    ASSUME NEW ps \in Seq(Row), NEW p \in Row, KeysUsedOnce(ps),
           \A i \in DOMAIN ps : (ps[i].there /\ p.key # NoKey) => ~(ps[i].author = p.author /\ ps[i].key = p.key)
    PROVE  KeysUsedOnce(Append(ps, p))
<1> DEFINE qs == Append(ps, p)
           n == Len(ps) + 1
<1>1. /\ n \notin DOMAIN ps /\ DOMAIN qs = DOMAIN ps \cup {n} /\ qs[n] = p
      /\ \A i \in DOMAIN ps : qs[i] = ps[i]
  BY RowAdded
<1> HIDE DEF qs, n
<1>2. QED
  BY <1>1 DEF KeysUsedOnce, qs

LEMMA AddedIndexed ==
    ASSUME NEW ps \in Seq(Row), NEW p \in Row, NEW ft, Indexed(ps, ft)
    PROVE  Indexed(Append(ps, p), ft \cup {EntryOf(Len(Append(ps, p)), p)})
<1> DEFINE qs == Append(ps, p)
           n == Len(ps) + 1
           more == ft \cup {EntryOf(n, p)}
<1>1. /\ n \notin DOMAIN ps /\ DOMAIN qs = DOMAIN ps \cup {n} /\ qs[n] = p
      /\ \A i \in DOMAIN ps : qs[i] = ps[i]
  BY RowAdded
<1>2. Len(qs) = n
  BY RowAdded
<1>3. EntryOf(n, p).id = n /\ EntryOf(n, p).text = p.text
  BY DEF EntryOf
<1> HIDE DEF qs, n
<1>4. ASSUME NEW i \in DOMAIN qs, ReadableIn(qs, i) PROVE EntryOf(i, qs[i]) \in more
  <2>1. CASE i = n
    BY <2>1, <1>1
  <2>2. CASE i \in DOMAIN ps
    BY <2>2, <1>1, <1>4 DEF Indexed, ReadableIn
  <2>3. QED
    BY <2>1, <2>2, <1>1
<1>5. ASSUME NEW e \in more
      PROVE  e.id \in DOMAIN qs /\ (ReadableIn(qs, e.id) => e.text = qs[e.id].text)
  <2>1. CASE e \in ft
    BY <2>1, <1>1 DEF Indexed, ReadableIn
  <2>2. CASE e = EntryOf(n, p)
    BY <2>2, <1>1, <1>3
  <2>3. QED
    BY <2>1, <2>2
<1>6. Indexed(qs, more)
  BY <1>4, <1>5 DEF Indexed
<1>7. QED
  BY <1>2, <1>6 DEF qs

\* The transaction that inserts.
LEMMA InsertInv ==
    ASSUME ForumInv, ForumAssumption, NEW c \in Clients, command[c].op = "create",
           command[c].key = NoKey \/ ByKey(WriterOf[c], command[c].key) = {},
           posts' = Append(posts, PostOf(c)), boards' = boards \cup {command[c].board},
           fts' = fts \cup {EntryOf(Len(posts'), PostOf(c))},
           Answer(c, command[c].key, Len(posts')), Returns(c), UNCHANGED <<clock, seenTo, wasShown>>
    PROVE  ForumInv'
<1> DEFINE p == PostOf(c)
           n == Len(posts) + 1
<1>1. posts \in Seq(Row) /\ KeysUsedOnce(posts) /\ RootsHold(posts) /\ clock \in Nat
  BY DEF ForumInv, PostsInv
<1>2. /\ p \in Row /\ p.board \in Boards /\ p.at <= clock /\ p.there /\ p.board = command[c].board
      /\ p.author = WriterOf[c] /\ p.key = command[c].key
      /\ IF p.parent = 0 THEN p.root = Len(posts) + 1
         ELSE p.parent \in DOMAIN posts /\ p.root = posts[p.parent].root /\ p.board = posts[p.parent].board
  BY CreateRow
<1> HIDE DEF p
<1>3. posts' = Append(posts, p)
  BY DEF p
<1>4. /\ posts' \in Seq(Row) /\ n \notin DOMAIN posts /\ Len(posts') = n
      /\ DOMAIN posts' = DOMAIN posts \cup {n} /\ posts'[n] = p
      /\ \A i \in DOMAIN posts : posts'[i] = posts[i]
  BY <1>1, <1>2, <1>3, RowAdded
<1>5. Keeps(posts, posts')
  BY <1>1, <1>2, <1>3, AddedKeeps
<1>6. KeysUsedOnce(posts')
  <2>1. \A i \in DOMAIN posts : (posts[i].there /\ p.key # NoKey) =>
            ~(posts[i].author = p.author /\ posts[i].key = p.key)
    BY <1>2 DEF ByKey, There, PostIds
  <2>2. QED
    BY <1>1, <1>2, <1>3, <2>1, AddedKeys
<1>7. RootsHold(posts')
  BY <1>1, <1>2, <1>3, AddedRoots
<1>8. boards' \subseteq Boards /\ BoardsHold(posts', boards')
  BY <1>2, <1>4 DEF ForumInv, BoardsHold
<1>9. NotAhead(posts', clock)
  BY <1>2, <1>4 DEF ForumInv, NotAhead
<1>10. Indexed(posts', fts')
  BY <1>1, <1>2, <1>3, AddedIndexed DEF ForumInv, p
<1>11. AnswersHold(posts', answered')
  <2>1. AnswersHold(posts', answered)
    BY <1>5, AnswersStay DEF ForumInv
  <2>2. CASE command[c].key = NoKey
    BY <2>1, <2>2 DEF Answer
  <2>3. CASE command[c].key # NoKey
    <3>1. answered' = answered \cup {[author |-> WriterOf[c], key |-> command[c].key, id |-> n]}
      BY <2>3, <1>4 DEF Answer
    <3>2. QED
      BY <2>1, <2>3, <3>1, <1>2, <1>4, AnswerAdds
  <2>4. QED
    BY <2>2, <2>3
<1>12. ShownIsRead(posts', wasShown, seenTo)
  BY <1>5, ShownStays DEF ForumInv
<1>13. CommandsHold(command', posts', clock)
  <2>1. CommandsHold(command, posts', clock)
    BY <1>1, <1>5, CommandsStay DEF ForumInv
  <2>2. QED
    BY <2>1, IdleHolds, CommandSet DEF Returns
<1>14. QED
  BY <1>4, <1>6, <1>7, <1>8, <1>9, <1>10, <1>11, <1>12, <1>13 DEF ForumInv, PostsInv

LEMMA CreateCommitInv ==
    ASSUME ForumInv, ForumAssumption, NEW c \in Clients, CreateCommit(c) PROVE ForumInv'
<1>1. CASE command[c].key # NoKey
           /\ (\E i \in ByKey(WriterOf[c], command[c].key) : Answer(c, command[c].key, i))
           /\ UNCHANGED <<posts, boards, fts>>
  <2>1. PICK i \in ByKey(WriterOf[c], command[c].key) : Answer(c, command[c].key, i)
    BY <1>1
  <2>2. i \in DOMAIN posts /\ posts[i].author = WriterOf[c] /\ posts[i].key = command[c].key
    BY DEF ByKey, There, PostIds
  <2>3. answered' = answered \cup {[author |-> WriterOf[c], key |-> command[c].key, id |-> i]}
    BY <1>1, <2>1 DEF Answer
  <2>4. AnswersHold(posts, answered')
    BY <1>1, <2>2, <2>3, AnswerAdds DEF ForumInv
  <2>5. CommandsHold(command', posts, clock)
    BY IdleHolds, CommandSet DEF ForumInv, CreateCommit, Returns
  <2>6. QED
    BY <1>1, <2>4, <2>5 DEF CreateCommit, ForumInv
<1>2. CASE /\ command[c].key = NoKey \/ ByKey(WriterOf[c], command[c].key) = {}
           /\ posts' = Append(posts, PostOf(c))
           /\ boards' = boards \cup {command[c].board}
           /\ fts' = fts \cup {EntryOf(Len(posts'), PostOf(c))}
           /\ Answer(c, command[c].key, Len(posts'))
  BY <1>2, InsertInv DEF CreateCommit
<1>3. QED
  BY <1>1, <1>2 DEF CreateCommit

-----------------------------------------------------------------------------
(* Edits, deletes and the removal of a board. *)

LEMMA RetextedRow ==
    ASSUME NEW r \in Row, NEW text \in Texts
    PROVE  LET x == [r EXCEPT !.text = text] IN
           /\ x \in Row /\ x.there = r.there /\ x.board = r.board /\ x.parent = r.parent
           /\ x.root = r.root /\ x.author = r.author /\ x.key = r.key /\ x.at = r.at
           /\ x.deleted = r.deleted /\ x.text = text
BY DEF Row

LEMMA DeletedRow ==
    ASSUME NEW r \in Row, NEW gone \in BOOLEAN
    PROVE  LET x == [r EXCEPT !.deleted = gone] IN
           /\ x \in Row /\ x.there = r.there /\ x.board = r.board /\ x.parent = r.parent
           /\ x.root = r.root /\ x.author = r.author /\ x.key = r.key /\ x.at = r.at
           /\ x.deleted = gone /\ x.text = r.text
BY DEF Row

LEMMA RemovedRow ==
    ASSUME NEW r \in Row, NEW stays \in BOOLEAN
    PROVE  LET x == [r EXCEPT !.there = stays] IN
           /\ x \in Row /\ x.there = stays /\ x.board = r.board /\ x.parent = r.parent
           /\ x.root = r.root /\ x.author = r.author /\ x.key = r.key /\ x.at = r.at
           /\ x.deleted = r.deleted /\ x.text = r.text
BY DEF Row

\* A change of rows that keeps what Keeps says, over the same posts.
Changes(ps, qs) ==
    /\ qs \in Seq(Row) /\ DOMAIN qs = DOMAIN ps /\ Keeps(ps, qs)
    /\ \A i \in DOMAIN ps : qs[i].there => ps[i].there

LEMMA ChangeInv ==
    ASSUME ForumInv, NEW c \in Clients, Changes(posts, posts'), RootsHold(posts'),
           boards' \subseteq Boards, BoardsHold(posts', boards'), Indexed(posts', fts'), Returns(c),
           UNCHANGED <<clock, seenTo, answered, wasShown>>
    PROVE  ForumInv'
<1>1. Keeps(posts, posts') /\ posts' \in Seq(Row) /\ clock \in Nat
  BY DEF Changes, ForumInv
<1>2. KeysUsedOnce(posts')
  BY DEF Changes, Keeps, KeysUsedOnce, ForumInv, PostsInv
<1>3. NotAhead(posts', clock)
  BY DEF Changes, Keeps, NotAhead, ForumInv
<1>4. AnswersHold(posts', answered) /\ ShownIsRead(posts', wasShown, seenTo)
  BY <1>1, AnswersStay, ShownStays DEF ForumInv
<1>5. CommandsHold(command', posts', clock)
  <2>1. CommandsHold(command, posts', clock)
    BY <1>1, CommandsStay DEF ForumInv
  <2>2. QED
    BY <2>1, IdleHolds, CommandSet DEF Returns
<1>6. QED
  BY <1>1, <1>2, <1>3, <1>4, <1>5 DEF ForumInv, PostsInv

\* Rows that stay where they are leave every board and thread as it is.
LEMMA StandingRows ==
    ASSUME NEW ps, NEW qs, NEW bs, Changes(ps, qs), RootsHold(ps), BoardsHold(ps, bs),
           \A i \in DOMAIN ps : qs[i].there = ps[i].there
    PROVE  RootsHold(qs) /\ BoardsHold(qs, bs)
<1>1. BoardsHold(qs, bs)
  BY DEF Changes, Keeps, BoardsHold
<1>2. ASSUME NEW i \in DOMAIN qs
      PROVE  /\ qs[i].root \in DOMAIN qs
             /\ qs[qs[i].root].board = qs[i].board
             /\ qs[qs[i].root].there => qs[i].there
             /\ qs[i].parent # 0 => qs[i].parent \in DOMAIN qs /\ qs[qs[i].parent].root = qs[i].root
  <2>1. /\ ps[i].root \in DOMAIN ps
        /\ ps[ps[i].root].board = ps[i].board
        /\ ps[ps[i].root].there => ps[i].there
        /\ ps[i].parent # 0 => ps[i].parent \in DOMAIN ps /\ ps[ps[i].parent].root = ps[i].root
    BY DEF RootsHold, Changes
  <2>2. qs[i].root = ps[i].root /\ qs[i].board = ps[i].board /\ qs[i].parent = ps[i].parent
    BY DEF Changes, Keeps
  <2>3. qs[ps[i].root].board = ps[ps[i].root].board /\ qs[ps[i].root].there = ps[ps[i].root].there
    BY <2>1 DEF Changes, Keeps
  <2>4. ps[i].parent # 0 => qs[ps[i].parent].root = ps[ps[i].parent].root
    BY <2>1 DEF Changes, Keeps
  <2>5. QED
    BY <2>1, <2>2, <2>3, <2>4 DEF Changes
<1>3. RootsHold(qs)
  BY <1>2 DEF RootsHold
<1>4. QED
  BY <1>1, <1>3

LEMMA EditCommitInv ==
    ASSUME ForumInv, NEW c \in Clients, EditCommit(c) PROVE ForumInv'
<1> DEFINE cmd == command[c]
           row == [posts[cmd.id] EXCEPT !.text = cmd.text]
<1>1. EditHolds(cmd, posts)
  BY DEF ForumInv, CommandsHold, CommandHolds, EditCommit
<1>2. posts \in Seq(Row) /\ cmd.id \in 1..Len(posts) /\ posts[cmd.id] \in Row
  BY <1>1 DEF ForumInv, PostsInv, EditHolds
<1>3. /\ row \in Row /\ row.there = posts[cmd.id].there /\ row.board = posts[cmd.id].board
      /\ row.parent = posts[cmd.id].parent /\ row.root = posts[cmd.id].root
      /\ row.author = posts[cmd.id].author /\ row.key = posts[cmd.id].key /\ row.at = posts[cmd.id].at
      /\ row.deleted = posts[cmd.id].deleted /\ row.text = cmd.text
  BY <1>1, <1>2, RetextedRow DEF EditHolds
<1>4. \/ posts' = [posts EXCEPT ![cmd.id] = row] /\ posts[cmd.id].there
      \/ posts' = posts /\ ~posts[cmd.id].there
  <2>1. posts' = IF posts[cmd.id].there THEN [posts EXCEPT ![cmd.id].text = cmd.text] ELSE posts
    BY DEF EditCommit
  <2>2. CASE posts[cmd.id].there
    BY <2>1, <2>2
  <2>3. CASE ~posts[cmd.id].there
    BY <2>1, <2>3
  <2>4. QED
    BY <2>2, <2>3
<1> HIDE DEF row
<1>5. /\ posts' \in Seq(Row) /\ DOMAIN posts' = DOMAIN posts
      /\ \A i \in DOMAIN posts : posts'[i] = IF i = cmd.id /\ posts[i].there THEN row ELSE posts[i]
  BY <1>2, <1>3, <1>4, ExceptSeq
<1>6. Keeps(posts, posts') /\ \A i \in DOMAIN posts : posts'[i].there = posts[i].there
  <2> SUFFICES ASSUME NEW i \in DOMAIN posts
      PROVE  /\ posts'[i].there = posts[i].there
             /\ i \in DOMAIN posts'
             /\ posts'[i].board = posts[i].board /\ posts'[i].parent = posts[i].parent
             /\ posts'[i].root = posts[i].root /\ posts'[i].author = posts[i].author
             /\ posts'[i].key = posts[i].key /\ posts'[i].at = posts[i].at
             /\ ReadableIn(posts', i) => ReadableIn(posts, i)
    BY DEF Keeps
  <2>1. CASE posts'[i] = posts[i]
    BY <2>1, <1>5 DEF ReadableIn
  <2>2. CASE i = cmd.id /\ posts'[i] = row
    BY <2>2, <1>3, <1>5 DEF ReadableIn
  <2>3. QED
    BY <1>5, <2>1, <2>2
<1>7. Changes(posts, posts')
  BY <1>5, <1>6 DEF Changes
<1>8. RootsHold(posts') /\ BoardsHold(posts', boards)
  BY <1>6, <1>7, StandingRows DEF ForumInv, PostsInv
<1>9. fts' = Reindexed(cmd.id, cmd, cmd.deleted) /\ Returns(c)
      /\ UNCHANGED <<clock, boards, seenTo, answered, wasShown>>
  BY DEF EditCommit, NoHistory
<1>10. Indexed(posts', fts')
  <2>1. \A i \in DOMAIN posts : i # cmd.id => posts'[i] = posts[i]
    BY <1>5
  <2>2. ReadableIn(posts', cmd.id) => ~cmd.deleted /\ posts'[cmd.id].text = cmd.text
    <3>1. ReadableIn(posts', cmd.id) => ReadableIn(posts, cmd.id)
      BY <1>6, <1>2 DEF Keeps
    <3>2. ReadableIn(posts', cmd.id) => posts'[cmd.id] = row
      BY <3>1, <1>5, <1>2 DEF ReadableIn
    <3>3. QED
      BY <3>1, <3>2, <1>1, <1>3 DEF EditHolds
  <2>3. ASSUME NEW i \in DOMAIN posts', ReadableIn(posts', i) PROVE EntryOf(i, posts'[i]) \in fts'
    <3>1. CASE i = cmd.id
      BY <3>1, <2>2, <2>3, <1>9 DEF Reindexed, EntryOf
    <3>2. CASE i # cmd.id
      <4>1. posts'[i] = posts[i] /\ i \in DOMAIN posts /\ ReadableIn(posts, i)
        BY <3>2, <2>1, <2>3, <1>5 DEF ReadableIn
      <4>2. EntryOf(i, posts[i]) \in fts
        BY <4>1 DEF ForumInv, Indexed
      <4>3. QED
        BY <4>1, <4>2, <3>2, <1>9 DEF Reindexed, EntryOf
    <3>3. QED
      BY <3>1, <3>2
  <2>4. ASSUME NEW e \in fts'
        PROVE  e.id \in DOMAIN posts' /\ (ReadableIn(posts', e.id) => e.text = posts'[e.id].text)
    <3>1. CASE e \in fts /\ e.id # cmd.id
      <4>1. e.id \in DOMAIN posts /\ (ReadableIn(posts, e.id) => e.text = posts[e.id].text)
        BY <3>1 DEF ForumInv, Indexed
      <4>2. QED
        BY <4>1, <3>1, <2>1, <1>5 DEF ReadableIn
    <3>2. CASE e = EntryOf(cmd.id, cmd)
      BY <3>2, <2>2, <1>2, <1>5 DEF EntryOf
    <3>3. QED
      BY <3>1, <3>2, <1>9 DEF Reindexed
  <2>5. QED
    BY <2>3, <2>4 DEF Indexed
<1>11. QED
  BY <1>7, <1>8, <1>9, <1>10, ChangeInv DEF ForumInv

LEMMA DeleteCommitInv ==
    ASSUME ForumInv, NEW c \in Clients, DeleteCommit(c) PROVE ForumInv'
<1> DEFINE k == command[c].id
           gone == posts[k].deleted \/ posts[k].there
           row == [posts[k] EXCEPT !.deleted = gone]
<1>1. k \in DOMAIN posts
  BY DEF ForumInv, CommandsHold, CommandHolds, DeleteCommit
<1>2. posts \in Seq(Row) /\ k \in 1..Len(posts) /\ posts[k] \in Row
  BY <1>1 DEF ForumInv, PostsInv
<1>3. /\ row \in Row /\ row.there = posts[k].there /\ row.board = posts[k].board
      /\ row.parent = posts[k].parent /\ row.root = posts[k].root
      /\ row.author = posts[k].author /\ row.key = posts[k].key /\ row.at = posts[k].at
      /\ row.deleted = gone
  <2>1. gone \in BOOLEAN
    OBVIOUS
  <2> HIDE DEF gone
  <2>2. QED
    BY <1>2, <2>1, DeletedRow
<1>4. posts' = [posts EXCEPT ![k] = row] /\ fts' = {e \in fts : e.id # k} /\ Returns(c)
      /\ UNCHANGED <<clock, boards, seenTo, answered, wasShown>>
  BY DEF DeleteCommit, NoHistory
<1>5. ~(row.there /\ ~row.deleted)
  <2>1. row.there = posts[k].there /\ row.deleted = (posts[k].deleted \/ posts[k].there)
    BY <1>3
  <2> HIDE DEF row
  <2>2. QED
    BY <2>1, Zenon
<1> HIDE DEF row, gone
<1>6. /\ posts' \in Seq(Row) /\ DOMAIN posts' = DOMAIN posts /\ posts'[k] = row
      /\ \A i \in DOMAIN posts : i # k => posts'[i] = posts[i]
  BY <1>2, <1>3, <1>4, ExceptSeq
<1>7. Keeps(posts, posts') /\ \A i \in DOMAIN posts : posts'[i].there = posts[i].there
  <2> SUFFICES ASSUME NEW i \in DOMAIN posts
      PROVE  /\ posts'[i].there = posts[i].there
             /\ i \in DOMAIN posts'
             /\ posts'[i].board = posts[i].board /\ posts'[i].parent = posts[i].parent
             /\ posts'[i].root = posts[i].root /\ posts'[i].author = posts[i].author
             /\ posts'[i].key = posts[i].key /\ posts'[i].at = posts[i].at
             /\ ReadableIn(posts', i) => ReadableIn(posts, i)
    BY DEF Keeps
  <2>1. CASE i # k
    BY <2>1, <1>6 DEF ReadableIn
  <2>2. CASE i = k
    BY <2>2, <1>3, <1>5, <1>6 DEF ReadableIn
  <2>3. QED
    BY <2>1, <2>2
<1>8. Changes(posts, posts')
  BY <1>6, <1>7 DEF Changes
<1>9. RootsHold(posts') /\ BoardsHold(posts', boards)
  BY <1>7, <1>8, StandingRows DEF ForumInv, PostsInv
<1>10. Indexed(posts', fts')
  <2>1. ~ReadableIn(posts', k)
    BY <1>5, <1>6 DEF ReadableIn
  <2>2. ASSUME NEW i \in DOMAIN posts', ReadableIn(posts', i) PROVE EntryOf(i, posts'[i]) \in fts'
    <3>1. i # k /\ i \in DOMAIN posts /\ posts'[i] = posts[i]
      BY <2>1, <2>2, <1>6
    <3>2. EntryOf(i, posts[i]) \in fts
      BY <3>1, <2>2 DEF ForumInv, Indexed, ReadableIn
    <3>3. QED
      BY <3>1, <3>2, <1>4 DEF EntryOf
  <2>3. ASSUME NEW e \in fts'
        PROVE  e.id \in DOMAIN posts' /\ (ReadableIn(posts', e.id) => e.text = posts'[e.id].text)
    <3>1. e \in fts /\ e.id # k
      BY <1>4
    <3>2. e.id \in DOMAIN posts /\ (ReadableIn(posts, e.id) => e.text = posts[e.id].text)
      BY <3>1 DEF ForumInv, Indexed
    <3>3. QED
      BY <3>1, <3>2, <1>6 DEF ReadableIn
  <2>4. QED
    BY <2>2, <2>3 DEF Indexed
<1>11. QED
  BY <1>4, <1>8, <1>9, <1>10, ChangeInv DEF ForumInv

LEMMA BoardRemoveInv ==
    ASSUME ForumInv, NEW c \in Clients, BoardRemoveCommit(c) PROVE ForumInv'
<1> DEFINE b == command[c].board
           gone == {i \in There : posts[i].board = b}
           row(i) == [posts[i] EXCEPT !.there = posts[i].there /\ i \notin gone]
<1>1. posts \in Seq(Row) /\ DOMAIN posts = 1..Len(posts) /\ Len(posts) \in Nat
  BY DEF ForumInv, PostsInv
<1>2. ASSUME NEW i \in DOMAIN posts
      PROVE  /\ row(i) \in Row /\ row(i).board = posts[i].board
             /\ row(i).parent = posts[i].parent /\ row(i).root = posts[i].root
             /\ row(i).author = posts[i].author /\ row(i).key = posts[i].key
             /\ row(i).at = posts[i].at /\ row(i).deleted = posts[i].deleted
             /\ row(i).text = posts[i].text
             /\ row(i).there <=> posts[i].there /\ posts[i].board # b
  <2>1. posts[i] \in Row
    BY <1>1
  <2> DEFINE stays == posts[i].there /\ i \notin gone
  <2>2. stays \in BOOLEAN
    OBVIOUS
  <2>3. stays <=> posts[i].there /\ posts[i].board # b
    BY DEF There, PostIds
  <2> HIDE DEF stays
  <2>4. LET x == [posts[i] EXCEPT !.there = stays] IN
        /\ x \in Row /\ x.there = stays /\ x.board = posts[i].board /\ x.parent = posts[i].parent
        /\ x.root = posts[i].root /\ x.author = posts[i].author /\ x.key = posts[i].key
        /\ x.at = posts[i].at /\ x.deleted = posts[i].deleted /\ x.text = posts[i].text
    BY <2>1, <2>2, RemovedRow
  <2>5. row(i) = [posts[i] EXCEPT !.there = stays]
    BY DEF stays
  <2> HIDE DEF row, gone
  <2>6. QED
    BY <2>3, <2>4, <2>5
<1>3. posts' = [i \in DOMAIN posts |-> row(i)]
  BY DEF BoardRemoveCommit, PostIds
<1>4. fts' = {e \in fts : posts[e.id].board # b} /\ boards' = boards \ {b} /\ Returns(c)
      /\ UNCHANGED <<clock, seenTo, answered, wasShown>>
  BY DEF BoardRemoveCommit, NoHistory
<1> HIDE DEF row, gone
<1>5. posts' \in Seq(Row) /\ DOMAIN posts' = DOMAIN posts
      /\ \A i \in DOMAIN posts : posts'[i] = row(i)
  BY <1>1, <1>2, <1>3
<1>6. Keeps(posts, posts')
  <2> SUFFICES ASSUME NEW i \in DOMAIN posts
      PROVE  /\ i \in DOMAIN posts'
             /\ posts'[i].board = posts[i].board /\ posts'[i].parent = posts[i].parent
             /\ posts'[i].root = posts[i].root /\ posts'[i].author = posts[i].author
             /\ posts'[i].key = posts[i].key /\ posts'[i].at = posts[i].at
             /\ ReadableIn(posts', i) => ReadableIn(posts, i)
    BY DEF Keeps
  <2>1. QED
    BY <1>2, <1>5 DEF ReadableIn
<1>7. Changes(posts, posts')
  BY <1>2, <1>5, <1>6 DEF Changes
<1>8. RootsHold(posts')
  <2> SUFFICES ASSUME NEW i \in DOMAIN posts
      PROVE  /\ posts'[i].root \in DOMAIN posts
             /\ posts'[posts'[i].root].board = posts'[i].board
             /\ posts'[posts'[i].root].there => posts'[i].there
             /\ posts'[i].parent # 0 => posts'[i].parent \in DOMAIN posts
                                          /\ posts'[posts'[i].parent].root = posts'[i].root
    BY <1>5 DEF RootsHold
  <2>1. /\ posts[i].root \in DOMAIN posts
        /\ posts[posts[i].root].board = posts[i].board
        /\ posts[posts[i].root].there => posts[i].there
        /\ posts[i].parent # 0 => posts[i].parent \in DOMAIN posts /\ posts[posts[i].parent].root = posts[i].root
    BY DEF ForumInv, PostsInv, RootsHold
  <2>2. posts'[i].root = posts[i].root /\ posts'[i].board = posts[i].board /\ posts'[i].parent = posts[i].parent
        /\ (posts'[i].there <=> posts[i].there /\ posts[i].board # b)
    BY <1>2, <1>5
  <2>3. posts'[posts[i].root].board = posts[posts[i].root].board
        /\ (posts'[posts[i].root].there <=> posts[posts[i].root].there /\ posts[posts[i].root].board # b)
    BY <2>1, <1>2, <1>5
  <2>4. posts[i].parent # 0 => posts'[posts[i].parent].root = posts[posts[i].parent].root
    BY <2>1, <1>2, <1>5
  <2>5. QED
    BY <2>1, <2>2, <2>3, <2>4
<1>9. boards' \subseteq Boards /\ BoardsHold(posts', boards')
  BY <1>2, <1>4, <1>5 DEF ForumInv, BoardsHold
<1>10. Indexed(posts', fts')
  <2>1. ASSUME NEW i \in DOMAIN posts', ReadableIn(posts', i) PROVE EntryOf(i, posts'[i]) \in fts'
    <3>1. ReadableIn(posts, i) /\ posts[i].board # b /\ posts'[i].text = posts[i].text /\ i \in DOMAIN posts
      BY <2>1, <1>2, <1>5 DEF ReadableIn
    <3>2. EntryOf(i, posts[i]) \in fts
      BY <3>1 DEF ForumInv, Indexed
    <3>3. QED
      BY <3>1, <3>2, <1>4 DEF EntryOf
  <2>2. ASSUME NEW e \in fts'
        PROVE  e.id \in DOMAIN posts' /\ (ReadableIn(posts', e.id) => e.text = posts'[e.id].text)
    <3>1. e \in fts
      BY <1>4
    <3>2. e.id \in DOMAIN posts /\ (ReadableIn(posts, e.id) => e.text = posts[e.id].text)
      BY <3>1 DEF ForumInv, Indexed
    <3>3. QED
      BY <3>2, <1>2, <1>5, <1>6 DEF Keeps
  <2>3. QED
    BY <2>1, <2>2 DEF Indexed
<1>11. QED
  BY <1>4, <1>7, <1>8, <1>9, <1>10, ChangeInv

-----------------------------------------------------------------------------
(* The invariant holds, and with it the properties. *)

LEMMA ForumInitInv == ASSUME ForumInit, ForumAssumption PROVE ForumInv
<1>1. clock = 1 /\ clock \in 1..LastSecond /\ posts = <<>> /\ DOMAIN posts = {} /\ boards = {} /\ fts = {} /\ answered = {}
  BY DEF ForumInit, ForumAssumption
<1>2. PostsInv(posts) /\ BoardsHold(posts, boards) /\ NotAhead(posts, clock)
      /\ Indexed(posts, fts) /\ AnswersHold(posts, answered)
  BY <1>1 DEF PostsInv, KeysUsedOnce, RootsHold, BoardsHold, NotAhead, Indexed, AnswersHold
<1>3. ReadInv(wasShown, seenTo) /\ ShownIsRead(posts, wasShown, seenTo)
  BY DEF ForumInit, ForumAssumption, ReadInv, ShownIsRead
<1>4. CommandsHold(command, posts, clock)
  BY IdleHolds DEF ForumInit, CommandsHold
<1>5. QED
  BY <1>1, <1>2, <1>3, <1>4 DEF ForumInv

LEMMA WriteStepInv ==
    ASSUME ForumInv, ForumAssumption, NEW c \in Clients, WriteStep(c) PROVE ForumInv'
<1>1. CASE \E key \in Keys \cup {NoKey} : CreateAgain(c, key)
  BY <1>1, CreateAgainInv
<1>2. CASE \E key \in Keys \cup {NoKey}, parent \in {0} \cup PostIds, b \in Boards : CreateLook(c, key, parent, b)
  BY <1>2, CreateLookInv
<1>3. CASE CreateCommit(c)
  BY <1>3, CreateCommitInv
<1>4. CASE EditCommit(c) \/ DeleteCommit(c) \/ BoardRemoveCommit(c)
  BY <1>4, EditCommitInv, DeleteCommitInv, BoardRemoveInv
<1>5. CASE ClientDies(c) \/ \E b \in Boards, force \in BOOLEAN : BoardRemoveLook(c, b, force)
  BY <1>5, OtherLooksInv
<1>6. CASE \E i \in PostIds : DeleteLook(c, i) \/ EditLook(c, i)
  BY <1>6, ChangeLookInv
<1>7. QED
  BY <1>1, <1>2, <1>3, <1>4, <1>5, <1>6 DEF WriteStep

LEMMA ReadStepInv ==
    ASSUME ForumInv, ForumAssumption, NEW c \in Clients, ReadStep(c) PROVE ForumInv'
BY FeedListInv, FeedMarkInv, OtherLooksInv DEF ReadStep

LEMMA ForumNextInv == ASSUME ForumInv, ForumAssumption, [ForumNext]_forumVars PROVE ForumInv'
<1>1. CASE WritingNext
  BY <1>1, WriteStepInv, BoardPutInv, ReindexInv DEF WritingNext
<1>2. CASE ReadingNext
  <2>1. CASE \E c \in Clients : ReadStep(c)
    BY <2>1, ReadStepInv
  <2>2. CASE \E c \in Clients : CreateCommit(c)
    BY <2>2, CreateCommitInv
  <2>3. CASE \E c \in Clients, b \in Boards : CreateLook(c, NoKey, 0, b)
    BY <2>3, CreateLookInv
  <2>4. CASE (\E w \in Handles, b \in Scopes : ForumMarkRead(w, b)) \/ SecondPasses
    BY <2>4, MarkReadInv, SecondInv
  <2>5. QED
    BY <1>2, <2>1, <2>2, <2>3, <2>4 DEF ReadingNext
<1>3. CASE UNCHANGED forumVars
  BY <1>3 DEF forumVars, ForumInv
<1>4. QED
  BY <1>1, <1>2, <1>3 DEF ForumNext

LEMMA ForumInvHolds == ForumSpec => []ForumInv
BY ForumAssumption, ForumInitInv, ForumNextInv, PTL DEF ForumSpec

\* An agent that repeats a post with one key has one post and is told its id every time, for
\* any number of processes that post at once (ForumCreate, forumByIdem).
THEOREM KeysAreUsedOnce == ForumSpec => []IdemOnce
BY ForumInvHolds, InvIdemOnce, PTL

\* The search index has the text of every readable post and no older one, and no thread that is
\* shown has a reply off a post that is left out, after any race of edits, deletes and
\* removals of boards (forumIndex, ForumThread).
THEOREM SearchAndThreadsAreCurrent == ForumSpec => []ReadersSeeThePosts
BY ForumInvHolds, InvReaders, PTL

\* What a marking feed or mark-read returned stays behind the watermark (ForumMarkRead).
THEOREM ReadStaysRead == ForumSpec => []NothingResurfaces
BY ForumInvHolds, InvShown, PTL
=============================================================================
