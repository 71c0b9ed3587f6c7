------------------------------- MODULE Mention -------------------------------
(***************************************************************************)
(* Delivery of the @names of a message to live agents: internal/mention,   *)
(* as thread posts and the board use it after the message is in its        *)
(* thread.  An agent answers to the name it registered and, loosely, to    *)
(* the label of its pane and its directory; what a message says is the     *)
(* sequence of the distinct names it mentions.                             *)
(***************************************************************************)
EXTENDS Integers, Sequences, FiniteSets, SequencesExt

CONSTANTS
    Panes,          \* the agents there may be, by the pane that is prompted
    NameOf,         \* per pane the registered name, or NoName
    AliasesOf,      \* per pane its label and the base of its directory
    SpaceOf,        \* per pane the herdr workspace it sits in
    NoName,
    AllName,        \* "all"
    NoWorkspace,    \* the workspace of a thread that has none
    Bodies,         \* the messages: sequences of distinct names
    Speakers        \* who speaks: [target, name], either may be unknown (NoName)

ASSUME MentionAssumption ==
    /\ AllName # NoName /\ IsFiniteSet(Panes)
    /\ \A b \in Bodies : b \in Seq(ToSet(b)) /\ \A i, j \in DOMAIN b : b[i] = b[j] => i = j

VARIABLES
    live,       \* the panes whose agent exists
    message,    \* the message being delivered, who speaks, and what is left of it
    told,       \* per pane how often this message was submitted to it
    report      \* what became of the mentions: Result

mentionVars == <<live, message, told, report>>

Nothing == [stage |-> "none", names |-> <<>>, from |-> [target |-> NoName, name |-> NoName],
            in |-> NoWorkspace, among |-> {}, rest |-> <<>>, queue |-> <<>>]
NoReport == [failed |-> {}, missed |-> {}, mine |-> {}, refused |-> {}]

\* Agent.AnsweredByName, Agent.Answers.
ByName(name, among) == {p \in among : NameOf[p] = name}
Answers(p, name) == name # NoName /\ (NameOf[p] = name \/ name \in AliasesOf[p])

\* Self.isMe: the speaker's pane, or an agent that answers to the speaker's name.
IsMe(p, from) == p = from.target \/ Answers(p, from.name)

\* Every match, named or not.
PickTargetsVariant(name, among) == {p \in among : Answers(p, name)}

\* pickTargets: those that took the name, and the loose matches only if nobody did.
PickTargets(name, among) ==
    IF ByName(name, among) # {} THEN ByName(name, among) ELSE {p \in among : Answers(p, name)}

\* allScope for @all, pickTargets for every other name.
Candidates(name, space, among) ==
    IF name = AllName THEN {p \in among : SpaceOf[p] = space} ELSE PickTargets(name, among)

MentionInit ==
    /\ live \in SUBSET Panes
    /\ message = Nothing /\ told = [p \in Panes |-> 0] /\ report = NoReport

\* The message is in its thread, and herdr is asked who is live; when it cannot be asked,
\* nobody is told and the message stays where it is.
Announce(body, from, space) ==
    /\ message.stage = "none"
    /\ message' = [stage |-> IF body = <<>> THEN "done" ELSE "resolve", names |-> body, from |-> from,
                   in |-> space, among |-> live, rest |-> body, queue |-> <<>>]
    /\ UNCHANGED <<live, told, report>>

\* Two mentions of one agent are one delivery.
Enqueue(queue, targets) == queue \o SetToSeq(targets \ ToSet(queue))

\* Resolve, one name: refused, missed, mine, or on the queue.
ResolveName ==
    /\ message.stage = "resolve" /\ message.rest # <<>>
    /\ LET name == Head(message.rest)
           refused == name = AllName /\ message.in = NoWorkspace
           found == Candidates(name, message.in, message.among)
           others == {p \in found : ~IsMe(p, message.from)}
       IN
       /\ message' = [message EXCEPT !.rest = Tail(@),
                                     !.queue = IF refused THEN @ ELSE Enqueue(@, others)]
       /\ report' = [report EXCEPT
              !.refused = IF refused THEN @ \cup {name} ELSE @,
              !.missed = IF ~refused /\ found = {} THEN @ \cup {name} ELSE @,
              !.mine = IF ~refused /\ found # {} /\ others = {} THEN @ \cup {name} ELSE @]
    /\ UNCHANGED <<live, told>>

\* Deliver, one target: a refused prompt is reported and the rest is still told.
DeliverNext ==
    /\ message.stage = "resolve" /\ message.rest = <<>> /\ message.queue # <<>>
    /\ LET p == Head(message.queue) IN
       /\ message' = [message EXCEPT !.queue = Tail(@)]
       /\ \/ p \in live /\ told' = [told EXCEPT ![p] = @ + 1] /\ UNCHANGED report
          \/ report' = [report EXCEPT !.failed = @ \cup {p}] /\ UNCHANGED told
    /\ UNCHANGED live

\* Report: the command ends, whatever became of the mentions.
Delivered ==
    /\ message.stage = "resolve" /\ message.rest = <<>> /\ message.queue = <<>>
    /\ message' = [message EXCEPT !.stage = "done"]
    /\ UNCHANGED <<live, told, report>>

AgentExits(p) ==
    /\ p \in live
    /\ live' = live \ {p}
    /\ UNCHANGED <<message, told, report>>

AgentArrives(p) ==
    /\ p \notin live /\ message.stage = "none"
    /\ live' = live \cup {p}
    /\ UNCHANGED <<message, told, report>>

MentionNext ==
    \/ \E body \in Bodies, from \in Speakers, space \in {SpaceOf[p] : p \in Panes} \cup {NoWorkspace} :
           Announce(body, from, space)
    \/ ResolveName \/ DeliverNext \/ Delivered
    \/ \E p \in Panes : AgentExits(p) \/ AgentArrives(p)

MentionSpec == MentionInit /\ [][MentionNext]_mentionVars

-----------------------------------------------------------------------------
(* Properties. *)

Over == message.stage = "done"
Mentioned == ToSet(message.names)

\* However many names of a message an agent answers to, it is told once, and the speaker
\* is not told its own message.
ToldOnce == \A p \in Panes : told[p] <= 1 /\ (told[p] = 1 => p # message.from.target)

\* @all reaches only agents in the workspace of the thread, and nobody from a thread without one.
AllStaysInSpace ==
    (Mentioned = {AllName}) => \A p \in Panes : told[p] > 0 => SpaceOf[p] = message.in

\* A name that somebody registered is that agent's: agents that only sit in a directory or a
\* pane of that name are left alone.
NamesWin == \A name \in Mentioned \ {AllName} :
    (Mentioned = {name} /\ ByName(name, message.among) # {}) =>
        \A p \in Panes : told[p] > 0 => NameOf[p] = name

\* When the command ends, every live agent that goes by a mentioned name was told, could not
\* be told, or is the speaker, and every mention that reached nobody is reported.
MentionsAreAnswered == Over =>
    /\ \A name \in Mentioned \ {AllName} : \A p \in ByName(name, message.among) :
           told[p] = 1 \/ p \in report.failed \/ IsMe(p, message.from)
    /\ \A name \in Mentioned :
           \/ name \in report.refused \cup report.missed \cup report.mine
           \/ \E p \in Candidates(name, message.in, message.among) : told[p] = 1 \/ p \in report.failed

\* Delivery reaches exactly those that are meant: once, within the workspace, by registered
\* name first, and with every mention accounted for.
MentionsReachTheNamed == ToldOnce /\ AllStaysInSpace /\ NamesWin /\ MentionsAreAnswered
=============================================================================
