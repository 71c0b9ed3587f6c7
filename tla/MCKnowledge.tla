---------------------------- MODULE MCKnowledge ----------------------------
(***************************************************************************)
(* Small instances of what people and agents read and write beside one     *)
(* another: the forum, mentions, a checklist page, the board, the index.   *)
(* A behaviour is one of one part, and `focus' says which; the parts share *)
(* no state.                                                               *)
(***************************************************************************)
EXTENDS Forum, Mention, Checklists, Board, Index, TLC

CONSTANTS ada, bob, dot, w1, w2, p1, p2, p3, buy, call, j1, j2, global, webapp, docs, Foci

VARIABLE focus

knowledgeVars == <<focus, forumVars, mentionVars, listVars, rowVars, talkVars, marqueeVars, indexVars>>

\* Two processes of one name; one agent that took a name and two that only sit somewhere.
TwoAdas == [c \in Clients |-> ada]
ClientsAlike == Permutations(Clients)
OneIsAda == (p1 :> ada) @@ (p2 :> NoName) @@ (p3 :> NoName)
SitAt == (p1 :> {dot}) @@ (p2 :> {dot}) @@ (p3 :> {ada, dot})
InSpace == (p1 :> w1) @@ (p2 :> w1) @@ (p3 :> w2)
SomeBodies == {<<>>, <<ada>>, <<dot>>, <<AllName>>, <<ada, dot>>, <<dot, AllName>>}
SomeSpeakers == {[target |-> p1, name |-> ada], [target |-> p2, name |-> NoName],
                 [target |-> NoName, name |-> ada]}

\* Two items, or one item twice.
FirstPages == {<<With(buy), With(call)>>, <<With(buy), With(buy)>>}
OnlyItself == [s \in Texts |-> {s}]
TwoJobs == <<j1, j2>>

Forum_(A) == A /\ UNCHANGED <<focus, mentionVars, listVars, rowVars, talkVars, marqueeVars, indexVars>>
Mention_(A) == A /\ UNCHANGED <<focus, forumVars, listVars, rowVars, talkVars, marqueeVars, indexVars>>
List_(A) == A /\ UNCHANGED <<focus, forumVars, mentionVars, rowVars, talkVars, marqueeVars, indexVars>>
Rows_(A) == A /\ UNCHANGED <<focus, forumVars, mentionVars, listVars, talkVars, marqueeVars, indexVars>>
Talk_(A) == A /\ UNCHANGED <<focus, forumVars, mentionVars, listVars, rowVars, marqueeVars, indexVars>>
Marquee_(A) == A /\ UNCHANGED <<focus, forumVars, mentionVars, listVars, rowVars, talkVars, indexVars>>
Index_(A) == A /\ UNCHANGED <<focus, forumVars, mentionVars, listVars, rowVars, talkVars, marqueeVars>>

\* The parts out of focus start, and stay, in one of their initial states.
KnowledgeInit ==
    /\ focus \in Foci
    /\ ForumInit /\ MentionInit /\ ChecksInit /\ RowsInit /\ TalkInit /\ MarqueeInit /\ IndexInit
    /\ focus # "mention" => live = {}
    /\ focus \notin {"commands", "desk"} => page = <<With(buy), With(call)>> /\ branched /\ ~slip
    /\ focus = "desk" => slip
    /\ focus # "jobs" => rows[j1].on
    /\ focus # "talk" => talks = TalkIds /\ reading = global
    /\ focus # "marquee" => scrolling

KnowledgeNext ==
    \/ focus = "writing" /\ Forum_(WritingNext)
    \/ focus = "reading" /\ Forum_(ReadingNext)
    \/ focus = "mention" /\ Mention_(MentionNext)
    \/ focus = "commands" /\ List_(CommandsNext)
    \/ focus = "desk" /\ List_(DeskNext)
    \/ focus = "jobs" /\ Rows_(RowsNext)
    \/ focus = "talk" /\ Talk_(TalkNext)
    \/ focus = "marquee" /\ Marquee_(MarqueeNext)
    \/ focus = "index" /\ Index_(IndexNext)

KnowledgeSpec == KnowledgeInit /\ [][KnowledgeNext]_knowledgeVars
=============================================================================
