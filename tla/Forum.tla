-------------------------------- MODULE Forum --------------------------------
(***************************************************************************)
(* The forum of internal/store/forum.go: boards of posts and replies, the  *)
(* search index kept beside them, idempotent posting, soft deletes, and    *)
(* the watermark of what a name has been shown.                            *)
(*                                                                         *)
(* Each command reads first and writes in a transaction of its own, so     *)
(* commands of several processes interleave between the two.  A title and  *)
(* a body are one of two versions; ids are random in the code and counted  *)
(* here.  Names arrive normalised; metadata and layout are left out.       *)
(***************************************************************************)
EXTENDS Integers, Sequences, FiniteSets

CONSTANTS
    Clients,        \* processes that run a forum command
    WriterOf,       \* per client the name it goes by; two may share one
    Boards,
    Everywhere,     \* the scope of a feed over all boards
    Keys,           \* idempotency keys; NoKey is none
    NoKey,
    FeedLimit,      \* how many posts a feed returns
    MaxPosts,       \* bound: posts ever written
    MaxRoots,       \* bound: a new thread is begun only among so many posts
    LastSecond      \* bound: the clock

ASSUME ForumAssumption ==
    /\ Everywhere \notin Boards /\ NoKey \notin Keys
    /\ FeedLimit \in Nat /\ MaxRoots \in Nat /\ MaxPosts \in Nat /\ LastSecond \in Nat \ {0}

Handles == {WriterOf[c] : c \in Clients}
Scopes == Boards \cup {Everywhere}

VARIABLES
    clock,      \* in whole seconds, as every column is
    posts,      \* forum_posts in the order of rowid; a row may have been removed
    boards,     \* forum_boards
    fts,        \* forum_fts: entries [id, text]
    seenTo,     \* forum_reads: per name and scope the watermark
    command,    \* per client the command it is in, and what it has read
    answered,   \* history: [author, key, id] of the creates that returned
    wasShown       \* history: per name and scope the posts a marking feed returned

forumVars == <<clock, posts, boards, fts, seenTo, command, answered, wasShown>>

NoCommand == [op |-> "idle"]
Post(b, parent, root, author, key, at) ==
    [there |-> TRUE, board |-> b, parent |-> parent, root |-> root, author |-> author,
     text |-> "first", key |-> key, at |-> at, deleted |-> FALSE]

PostIds == DOMAIN posts
There == {i \in PostIds : posts[i].there}
Readable == {i \in There : ~posts[i].deleted}
EntryOf(i, p) == [id |-> i, text |-> p.text]

ForumInit ==
    /\ clock = 1 /\ posts = <<>> /\ boards = {} /\ fts = {}
    /\ seenTo = [w \in Handles |-> [b \in Scopes |-> 0]]
    /\ command = [c \in Clients |-> NoCommand]
    /\ answered = {} /\ wasShown = [w \in Handles |-> [b \in Scopes |-> {}]]

Does(c, cmd) == command[c] = NoCommand /\ command' = [command EXCEPT ![c] = cmd]
Returns(c) == command' = [command EXCEPT ![c] = NoCommand]
NoHistory == UNCHANGED <<answered, wasShown>>

-----------------------------------------------------------------------------
(* ForumCreate. *)

ByKey(author, key) == {i \in There : posts[i].author = author /\ posts[i].key = key}
Answer(c, key, i) == answered' = IF key = NoKey THEN answered
                                 ELSE answered \cup {[author |-> WriterOf[c], key |-> key, id |-> i]}

\* forumByIdem: the author used this key before.
CreateAgain(c, key) ==
    /\ command[c] = NoCommand /\ key # NoKey
    /\ \E i \in ByKey(WriterOf[c], key) : Answer(c, key, i)
    /\ UNCHANGED <<clock, posts, boards, fts, seenTo, command, wasShown>>

\* The key is new, the parent is there; the board, the thread and the second are decided.
CreateLook(c, key, parent, b) ==
    /\ key # NoKey => ByKey(WriterOf[c], key) = {}
    /\ parent # 0 => parent \in There
    /\ Does(c, [op |-> "create", key |-> key, parent |-> parent, at |-> clock,
                board |-> IF parent = 0 THEN b ELSE posts[parent].board,
                root |-> IF parent = 0 THEN 0 ELSE posts[parent].root])
    /\ UNCHANGED <<clock, posts, boards, fts, seenTo>> /\ NoHistory

PostOf(c) == LET cmd == command[c] IN
    Post(cmd.board, cmd.parent, IF cmd.root = 0 THEN Len(posts) + 1 ELSE cmd.root,
         WriterOf[c], cmd.key, cmd.at)

\* An insert that no index on the keys refuses.
CreateCommitVariant(c) ==
    /\ command[c].op = "create" /\ Len(posts) < MaxPosts
    /\ posts' = Append(posts, PostOf(c))
    /\ boards' = boards \cup {command[c].board}
    /\ fts' = fts \cup {EntryOf(Len(posts'), PostOf(c))}
    /\ Answer(c, command[c].key, Len(posts'))
    /\ Returns(c)
    /\ UNCHANGED <<clock, seenTo, wasShown>>

\* The transaction: board, row and index entry; the unique index refuses a key that another
\* process used meanwhile, and the winner's post is the answer.
CreateCommit(c) ==
    /\ command[c].op = "create"
    /\ \/ /\ command[c].key # NoKey
          /\ \E i \in ByKey(WriterOf[c], command[c].key) : Answer(c, command[c].key, i)
          /\ UNCHANGED <<posts, boards, fts>>
       \/ /\ command[c].key = NoKey \/ ByKey(WriterOf[c], command[c].key) = {}
          /\ Len(posts) < MaxPosts
          /\ posts' = Append(posts, PostOf(c))
          /\ boards' = boards \cup {command[c].board}
          /\ fts' = fts \cup {EntryOf(Len(posts'), PostOf(c))}
          /\ Answer(c, command[c].key, Len(posts'))
    /\ Returns(c)
    /\ UNCHANGED <<clock, seenTo, wasShown>>

-----------------------------------------------------------------------------
(* ForumUpdate and ForumDelete: by the author's name only, from a row read before. *)

MayChange(c, i) == i \in There /\ posts[i].author = WriterOf[c]

EditLook(c, i) ==
    /\ MayChange(c, i)
    /\ Does(c, [op |-> "edit", id |-> i, text |-> "second", deleted |-> posts[i].deleted])
    /\ UNCHANGED <<clock, posts, boards, fts, seenTo>> /\ NoHistory

\* forumIndex that adds the new text and leaves the old.
ReindexedVariant(i, p, deleted) == fts \cup (IF deleted THEN {} ELSE {EntryOf(i, p)})

\* forumIndex: the entry of a post is replaced, by none if it was deleted when it was read.
Reindexed(i, p, deleted) == {e \in fts : e.id # i} \cup (IF deleted THEN {} ELSE {EntryOf(i, p)})

EditCommit(c) ==
    /\ command[c].op = "edit"
    /\ LET cmd == command[c] IN
       /\ posts' = IF posts[cmd.id].there
                   THEN [posts EXCEPT ![cmd.id].text = cmd.text] ELSE posts
       /\ fts' = Reindexed(cmd.id, cmd, cmd.deleted)
    /\ Returns(c)
    /\ UNCHANGED <<clock, boards, seenTo>> /\ NoHistory

DeleteLook(c, i) ==
    /\ MayChange(c, i) /\ ~posts[i].deleted
    /\ Does(c, [op |-> "delete", id |-> i])
    /\ UNCHANGED <<clock, posts, boards, fts, seenTo>> /\ NoHistory

DeleteCommit(c) ==
    /\ command[c].op = "delete"
    /\ LET i == command[c].id IN
       /\ posts' = [posts EXCEPT ![i].deleted = @ \/ posts[i].there]
       /\ fts' = {e \in fts : e.id # i}
    /\ Returns(c)
    /\ UNCHANGED <<clock, boards, seenTo>> /\ NoHistory

-----------------------------------------------------------------------------
(* Boards. *)

ForumBoardPut(b) ==
    /\ boards' = boards \cup {b}
    /\ UNCHANGED <<clock, posts, fts, seenTo, command>> /\ NoHistory

\* The count of the board's posts, which only --force may overrule.
BoardRemoveLook(c, b, force) ==
    /\ b \in boards
    /\ force \/ \A i \in There : posts[i].board # b
    /\ Does(c, [op |-> "remove", board |-> b])
    /\ UNCHANGED <<clock, posts, boards, fts, seenTo>> /\ NoHistory

\* The posts and their entries go with the board, those that came since the count too.
BoardRemoveCommit(c) ==
    /\ command[c].op = "remove"
    /\ LET gone == {i \in There : posts[i].board = command[c].board} IN
       /\ posts' = [i \in PostIds |-> [posts[i] EXCEPT !.there = @ /\ i \notin gone]]
       /\ fts' = {e \in fts : posts[e.id].board # command[c].board}
       /\ boards' = boards \ {command[c].board}
    /\ Returns(c)
    /\ UNCHANGED <<clock, seenTo>> /\ NoHistory

\* ForumReindex: the index from the posts, in one transaction.
ForumReindex ==
    /\ fts' = {EntryOf(i, posts[i]) : i \in Readable}
    /\ UNCHANGED <<clock, posts, boards, seenTo, command>> /\ NoHistory

-----------------------------------------------------------------------------
(* ForumFeed and the watermark. *)

Precedes(i, j) == posts[i].at < posts[j].at \/ (posts[i].at = posts[j].at /\ i < j)
FirstOf(S) == {i \in S : Cardinality({j \in S : Precedes(j, i)}) < FeedLimit}
Newest(S, since) == CHOOSE t \in {since} \cup {posts[i].at : i \in S} :
                        \A u \in {since} \cup {posts[i].at : i \in S} : u <= t

\* ForumList as the feed asks it: newer than the watermark, readable, oldest first.
ForumList(b, since) ==
    FirstOf({i \in Readable : (b = Everywhere \/ posts[i].board = b) /\ posts[i].at > since})

FeedSince(c, b) ==
    /\ Does(c, [op |-> "since", scope |-> b, since |-> seenTo[WriterOf[c]][b]])
    /\ UNCHANGED <<clock, posts, boards, fts, seenTo>> /\ NoHistory

FeedList(c) ==
    /\ command[c].op = "since"
    /\ LET found == ForumList(command[c].scope, command[c].since) IN
       command' = [command EXCEPT ![c] =
           IF found = {} THEN NoCommand
           ELSE [op |-> "listed", scope |-> command[c].scope, found |-> found,
                 newest |-> Newest(found, command[c].since)]]
    /\ UNCHANGED <<clock, posts, boards, fts, seenTo>> /\ NoHistory

\* ForumMarkRead that takes the last word.
MarkedVariant(w, b, at) == [seenTo EXCEPT ![w][b] = at]

\* ForumMarkRead: a watermark only moves forward.
Marked(w, b, at) == [seenTo EXCEPT ![w][b] = IF at > @ THEN at ELSE @]

FeedMark(c) ==
    /\ command[c].op = "listed"
    /\ LET cmd == command[c] w == WriterOf[c] IN
       /\ seenTo' = Marked(w, cmd.scope, cmd.newest)
       /\ wasShown' = [wasShown EXCEPT ![w][cmd.scope] = @ \cup cmd.found]
    /\ Returns(c)
    /\ UNCHANGED <<clock, posts, boards, fts, answered>>

\* `forum mark-read`: everything up to now counts as read.
ForumMarkRead(w, b) ==
    /\ seenTo' = Marked(w, b, clock)
    /\ wasShown' = [wasShown EXCEPT ![w][b] = @ \cup
           {i \in There : posts[i].at <= clock /\ (b = Everywhere \/ posts[i].board = b)}]
    /\ UNCHANGED <<clock, posts, boards, fts, command, answered>>

SecondPasses ==
    /\ clock < LastSecond
    /\ clock' = clock + 1
    /\ UNCHANGED <<posts, boards, fts, seenTo, command>> /\ NoHistory

\* A process dies between its read and its transaction.
ClientDies(c) ==
    /\ command[c] # NoCommand
    /\ Returns(c)
    /\ UNCHANGED <<clock, posts, boards, fts, seenTo>> /\ NoHistory

WriteStep(c) ==
    \/ \E key \in Keys \cup {NoKey} :
           \/ CreateAgain(c, key)
           \/ \E parent \in {0} \cup PostIds, b \in Boards :
                  (parent = 0 => Len(posts) < MaxRoots) /\ CreateLook(c, key, parent, b)
    \/ CreateCommit(c) \/ EditCommit(c) \/ DeleteCommit(c) \/ BoardRemoveCommit(c) \/ ClientDies(c)
    \/ \E i \in PostIds : DeleteLook(c, i) \/ EditLook(c, i)
    \/ \E b \in Boards, force \in BOOLEAN : BoardRemoveLook(c, b, force)
ReadStep(c) == FeedList(c) \/ FeedMark(c) \/ \E b \in Scopes : FeedSince(c, b)

\* The parts that a run may look at by themselves: what writers do to the posts and the index,
\* and what readers are shown while others post.
WritingNext ==
    \/ \E c \in Clients : WriteStep(c)
    \/ \E b \in Boards : ForumBoardPut(b)
    \/ ForumReindex
ReadingNext ==
    \/ \E c \in Clients : ReadStep(c) \/ CreateCommit(c) \/ \E b \in Boards : CreateLook(c, NoKey, 0, b)
    \/ \E w \in Handles, b \in Scopes : ForumMarkRead(w, b)
    \/ SecondPasses

ForumNext == WritingNext \/ ReadingNext

ForumSpec == ForumInit /\ [][ForumNext]_forumVars

-----------------------------------------------------------------------------
(* ForumThread: the rows of a thread, walked from its root. *)

Kids(i) == {j \in There : posts[j].root = posts[i].root /\ posts[j].parent = i}

\* The root is always shown, a deleted reply only while something answers it.
InThread(i) == posts[i].root = i \/ ~posts[i].deleted \/ Kids(i) # {}

\* ForumSearch over the index: the readable posts with an entry that has this text.
Search(text) == {i \in Readable : \E e \in fts : e.id = i /\ e.text = text}

-----------------------------------------------------------------------------
(* Properties. *)

\* Every variable has its type, and a row belongs to a board that is listed.
ForumTypeOK ==
    /\ clock \in 1..LastSecond /\ boards \subseteq Boards
    /\ \A i \in There : posts[i].board \in boards /\ posts[i].at <= clock
    /\ \A e \in fts : e.id \in PostIds
    /\ \A w \in Handles, b \in Scopes : seenTo[w][b] \in 0..LastSecond

\* An agent that repeats a post with the same key, from however many processes, has one post
\* and is told the same id every time, while its board is there.
IdemOnce == \A x, y \in answered :
    (x.author = y.author /\ x.key = y.key /\ {x.id, y.id} \subseteq There) => x.id = y.id

\* Search finds every readable post by the text it has now, and by no text it had before,
\* whatever edits and deletes of it raced.
SearchIsCurrent == \A text \in {"first", "second"} :
    Search(text) = {i \in Readable : posts[i].text = text}

\* A post that a marking feed returned to a name is behind that name's watermark for good, so
\* no later feed returns it again, also when two processes read as one name.
NothingResurfaces == \A w \in Handles, b \in Scopes :
    \A i \in wasShown[w][b] : posts[i].at <= seenTo[w][b]

\* In a thread that is shown, no reply hangs off a post that is left out.
ThreadsHangTogether == \A i \in There :
    (posts[i].parent # 0 /\ posts[i].root \in There /\ InThread(i)) =>
        posts[i].parent \in There /\ InThread(posts[i].parent)

\* What a reader gets from search and from a thread agrees with the posts there are, after
\* any race of the writers (forum.go forumIndex, ForumThread).
ReadersSeeThePosts == ForumTypeOK /\ SearchIsCurrent /\ ThreadsHangTogether

\* A readable post that a name's feed will not return any more has been shown to that name.
FeedMissesNothing == \A w \in Handles, b \in Scopes :
    \A i \in Readable : ((b = Everywhere \/ posts[i].board = b) /\ posts[i].at <= seenTo[w][b])
        => i \in wasShown[w][b]
=============================================================================
