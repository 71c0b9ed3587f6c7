---------------------------- MODULE ThreadClaims ----------------------------
(***************************************************************************)
(* The thread store of internal/store: an append-only log of messages in   *)
(* several conversations, and the leases on exclusive resources that are   *)
(* derived from it by a fold over the claim and release rows.              *)
(*                                                                         *)
(* Every operation of the store that writes is one action: each runs in    *)
(* one IMMEDIATE SQLite transaction or is a single statement, so the       *)
(* processes that call it (agents, the daemon, the board) interleave       *)
(* between operations and never inside one.  A refused call writes nothing *)
(* and is a stuttering step.                                               *)
(*                                                                         *)
(* Time is the second the store compares, time.Now().Unix().  A lease is   *)
(* the number of whole seconds by which Unix(now + TTL) exceeds Unix(now), *)
(* so 0 is the sub-second TTL that truncation leaves lapsed on arrival.    *)
(*                                                                         *)
(* The definitions named ...Variant are not part of the model: each is the *)
(* definition after it with one plausible slip, and shows that some        *)
(* property would notice.                                                  *)
(***************************************************************************)
EXTENDS Integers, FiniteSets

CONSTANTS
    Identities,     \* the callers: records [name, run, pid]
    Resources,      \* what can be claimed
    Threads,        \* thread ids, GlobalThread among them
    GlobalThread,
    Removable,      \* the threads somebody runs `thread rm` on
    Leases,         \* the lease lengths asked for, in seconds, or NoExpiry
    Waits,          \* the --wait lengths asked for, in seconds
    MaxSeq,         \* bound: rows ever written
    MaxTime         \* bound: the last second of a behaviour

NoPid == ""
NoResource == ""
NoExpiry == -1      \* SQL NULL in expires_at

ASSUME IdentitiesAssumption ==
    \A i \in Identities : DOMAIN i = {"name", "run", "pid"}
ASSUME ResourcesAssumption == NoResource \notin Resources
ASSUME ThreadsAssumption == GlobalThread \in Threads /\ Removable \subseteq Threads
ASSUME LeasesAssumption == Leases \subseteq Nat \cup {NoExpiry}
ASSUME BoundsAssumption == Waits \subseteq Nat /\ MaxSeq \in Nat /\ MaxTime \in Nat

VARIABLES
    now,        \* Unix seconds
    messages,   \* the rows of thread_messages
    lastSeq,    \* the AUTOINCREMENT counter of thread_messages
    threads,    \* the registry: "absent", "open" or "closed"
    waiting,    \* the ThreadClaimWait calls that are polling
    (***********************************************************************)
    (* What the callers know, kept for the properties only.                *)
    (***********************************************************************)
    leases,     \* the latest lease each caller was told it has and did not give back
    heldSince   \* when a ThreadClaim last found the resource free and took it

vars == <<now, messages, lastSeq, threads, waiting, leases, heldSince>>

Row == [seq : Nat, thread : Threads, kind : {"claim", "release", "note"},
        by : Identities, resource : Resources \cup {NoResource},
        expires : Nat \cup {NoExpiry}, created : Nat]

Lease == [by : Identities, resource : Resources, expires : Nat \cup {NoExpiry}]

Wait == [by : Identities, resource : Resources, thread : Threads,
         lease : Leases, deadline : Nat]

(***************************************************************************)
(* Identity.Equal: name, job and run must match, and the pids only when    *)
(* both sides carry one.                                                   *)
(***************************************************************************)
Equal(i, j) ==
    /\ i.name = j.name
    /\ i.run = j.run
    /\ i.pid = NoPid \/ j.pid = NoPid \/ i.pid = j.pid

(***************************************************************************)
(* currentClaims: per resource the last claim or release row, kept when it *)
(* is a claim.  It is read across every thread, and says nothing of expiry.*)
(***************************************************************************)
HoldRows(r) == {m \in messages : m.kind \in {"claim", "release"} /\ m.resource = r}

CurrentClaims(r) ==
    {m \in HoldRows(r) : m.kind = "claim" /\ \A k \in HoldRows(r) : k.seq <= m.seq}

\* A lease lasts through the second it expires in.
UnexpiredVariant(expires, t) == expires = NoExpiry \/ expires >= t

Unexpired(expires, t) == expires = NoExpiry \/ expires > t

\* claimOf: the live claim on a resource at an instant, as an empty or singleton set.
LiveClaims(r, t) == {m \in CurrentClaims(r) : Unexpired(m.expires, t)}

\* refuseWhileAnythingIsHeld: a live lease was taken from this thread.
HeldFrom(t) == \E r \in Resources : \E m \in LiveClaims(r, now) : m.thread = t

Expiry(lease) == IF lease = NoExpiry THEN NoExpiry ELSE now + lease

-----------------------------------------------------------------------------

Init ==
    /\ now = 0
    /\ messages = {}
    /\ lastSeq = 0
    /\ threads = [t \in Threads |-> IF t = GlobalThread THEN "open" ELSE "absent"]
    /\ waiting = {}
    /\ leases = {}
    /\ heldSince = [r \in Resources |-> 0]

\* The INSERT every writer ends in: seq comes from AUTOINCREMENT.
Insert(t, kind, i, r, expires) ==
    /\ lastSeq < MaxSeq
    /\ lastSeq' = lastSeq + 1
    /\ messages' = messages \cup
           {[seq |-> lastSeq + 1, thread |-> t, kind |-> kind, by |-> i,
             resource |-> r, expires |-> expires, created |-> now]}

\* The clock.
Tick ==
    /\ now < MaxTime
    /\ now' = now + 1
    /\ UNCHANGED <<messages, lastSeq, threads, waiting, leases, heldSince>>

\* Whether the thread is open was asked before the transaction.
ThreadPostVariant(i, t) ==
    /\ Insert(t, "note", i, NoResource, NoExpiry)
    /\ UNCHANGED <<now, threads, waiting, leases, heldSince>>

\* ThreadPost: an event, ask or note lands only in a thread that is there and open.
ThreadPost(i, t) ==
    /\ threads[t] = "open"
    /\ Insert(t, "note", i, NoResource, NoExpiry)
    /\ UNCHANGED <<now, threads, waiting, leases, heldSince>>

\* The row of a claim, and what its caller now believes.
WriteClaim(i, r, t, lease) ==
    /\ Insert(t, "claim", i, r, Expiry(lease))
    /\ leases' = {l \in leases : ~(l.by = i /\ l.resource = r)}
                 \cup {[by |-> i, resource |-> r, expires |-> Expiry(lease)]}
    /\ heldSince' = IF LiveClaims(r, now) = {}
                    THEN [heldSince EXCEPT ![r] = now] ELSE heldSince

\* Only the claims of the caller's own thread are looked at.
TakeLeaseVariant(i, r, t, lease) ==
    /\ threads[t] # "absent"
    /\ \A c \in LiveClaims(r, now) : c.thread = t => Equal(c.by, i)
    /\ WriteClaim(i, r, t, lease)

(***************************************************************************)
(* What a ThreadClaim that is not refused does: take a free resource, or   *)
(* extend a lease the caller already has.  The thread has to exist; the    *)
(* code does not ask whether it is closed.                                 *)
(***************************************************************************)
TakeLease(i, r, t, lease) ==
    /\ threads[t] # "absent"
    /\ \A c \in LiveClaims(r, now) : Equal(c.by, i)
    /\ WriteClaim(i, r, t, lease)

ThreadClaim(i, r, t, lease) ==
    /\ TakeLease(i, r, t, lease)
    /\ UNCHANGED <<now, threads, waiting>>

(***************************************************************************)
(* ThreadClaimWait: a first attempt that finds the resource held by        *)
(* somebody else starts a poll against a deadline fixed at that moment.    *)
(***************************************************************************)
WaitStart(i, r, t, lease, wait) ==
    /\ threads[t] # "absent"
    /\ \E c \in LiveClaims(r, now) : ~Equal(c.by, i)
    /\ wait > 0
    /\ now + wait <= MaxTime
    /\ \A w \in waiting : w.by # i
    /\ waiting' = waiting \cup {[by |-> i, resource |-> r, thread |-> t,
                                 lease |-> lease, deadline |-> now + wait]}
    /\ UNCHANGED <<now, messages, lastSeq, threads, leases, heldSince>>

\* A poll that gets the resource.  One that finds it held leaves everything as it is.
WaitTake(w) ==
    /\ TakeLease(w.by, w.resource, w.thread, w.lease)
    /\ waiting' = waiting \ {w}
    /\ UNCHANGED <<now, threads>>

StopWaiting(w) ==
    /\ waiting' = waiting \ {w}
    /\ UNCHANGED <<now, messages, lastSeq, threads, leases, heldSince>>

\* The deadline moves along with the polls.
WaitGiveUpVariant(w) ==
    /\ threads[w.thread] = "absent"
    /\ StopWaiting(w)

\* The waiter gives up: at its deadline, or because the thread was removed meanwhile.
WaitGiveUp(w) ==
    /\ now >= w.deadline \/ threads[w.thread] = "absent"
    /\ StopWaiting(w)

\* The release of a claim, by the caller that gives the resource back.
ReleaseRow(i, r, c) ==
    /\ Insert(c.thread, "release", i, r, NoExpiry)
    /\ leases' = {l \in leases : ~(l.by = i /\ l.resource = r)}
    /\ UNCHANGED <<now, threads, waiting, heldSince>>

\* Anybody may release.
ThreadReleaseVariant(i, r) == \E c \in LiveClaims(r, now) : ReleaseRow(i, r, c)

\* ThreadRelease: written into the thread the current claim was made in.
ThreadRelease(i, r) ==
    \E c \in LiveClaims(r, now) : Equal(c.by, i) /\ ReleaseRow(i, r, c)

\* NewThread: refused for an id that is taken, closed ones included.
NewThread(t) ==
    /\ threads[t] = "absent"
    /\ threads' = [threads EXCEPT ![t] = "open"]
    /\ UNCHANGED <<now, messages, lastSeq, waiting, leases, heldSince>>

DropThread(t) ==
    /\ messages' = {m \in messages : m.thread # t}
    /\ threads' = [threads EXCEPT ![t] = "absent"]
    /\ UNCHANGED <<now, lastSeq, waiting, leases, heldSince>>

\* Forcing a removal overrides the leases too.
RemoveThreadVariant(t, force) ==
    /\ t \in Removable /\ t # GlobalThread /\ threads[t] # "absent"
    /\ force \/ (~HeldFrom(t) /\ \A m \in messages : m.thread # t)
    /\ DropThread(t)

\* RemoveThread: the thread and every row in it, unless a live lease was taken from it.
RemoveThread(t, force) ==
    /\ t \in Removable
    /\ t # GlobalThread
    /\ threads[t] # "absent"
    /\ force \/ \A m \in messages : m.thread # t
    /\ ~HeldFrom(t)
    /\ DropThread(t)

Retire(t) ==
    /\ threads[t] = "open"
    /\ ~HeldFrom(t)
    /\ threads' = [threads EXCEPT ![t] = "closed"]
    /\ UNCHANGED <<now, messages, lastSeq, waiting, leases, heldSince>>

\* CloseThread: retired, its rows kept, unless a live lease was taken from it.
CloseThread(t) == t # GlobalThread /\ Retire(t)

Next ==
    \/ Tick
    \/ \E i \in Identities, t \in Threads : ThreadPost(i, t)
    \/ \E i \in Identities, r \in Resources, t \in Threads, lease \in Leases :
           ThreadClaim(i, r, t, lease)
    \/ \E i \in Identities, r \in Resources, t \in Threads, lease \in Leases, wait \in Waits :
           WaitStart(i, r, t, lease, wait)
    \/ \E w \in waiting : WaitTake(w) \/ WaitGiveUp(w)
    \/ \E i \in Identities, r \in Resources : ThreadRelease(i, r)
    \/ \E t \in Threads : NewThread(t) \/ CloseThread(t)
    \/ \E t \in Threads, force \in BOOLEAN : RemoveThread(t, force)

Spec == Init /\ [][Next]_vars

(***************************************************************************)
(* Time passes, and a process that polls keeps polling: its loop has no    *)
(* exit but the resource, the deadline and an error.  Nobody else owes a   *)
(* step.                                                                   *)
(***************************************************************************)
Polling(i) == \E w \in waiting : w.by = i /\ (WaitTake(w) \/ WaitGiveUp(w))

FairSpec == Spec /\ WF_vars(Tick) /\ \A i \in Identities : WF_vars(Polling(i))

-----------------------------------------------------------------------------
(***************************************************************************)
(* Properties.                                                             *)
(***************************************************************************)

\* Every variable holds values of the store's types, and the global thread stays open.
TypeOK ==
    /\ now \in Nat
    /\ messages \subseteq Row
    /\ lastSeq \in Nat
    /\ threads \in [Threads -> {"absent", "open", "closed"}]
    /\ threads[GlobalThread] = "open"
    /\ waiting \subseteq Wait
    /\ leases \subseteq Lease
    /\ heldSince \in [Resources -> Nat]

\* Two callers that each were told they have the resource, whose leases are
\* both still running and neither of which gave it back, are the same holder:
\* the two-browsers-at-once failure that claims exist to stop.
MutualExclusion ==
    \A l, k \in leases :
        /\ l.resource = k.resource
        /\ Unexpired(l.expires, now)
        /\ Unexpired(k.expires, now)
        => Equal(l.by, k.by)

\* A caller whose lease is still running is the one the fold names: nothing it
\* did not do itself (another thread's claims, a removed thread, a closed one)
\* makes the resource read as free while it is being used.
RunningLeaseIsHeld ==
    \A l \in leases :
        Unexpired(l.expires, now) =>
            \E c \in LiveClaims(l.resource, now) : Equal(c.by, l.by)

\* No row is ever left behind in a thread that is not there, where nothing
\* would list it again.
NoOrphanMessages == \A m \in messages : threads[m.thread] # "absent"

\* Within its lease, the last word on a resource changes only to a row by the
\* same holder: no other agent's claim or release, and no removal of a thread,
\* ends a lease that has not run out.
LeaseKept ==
    \A r \in Resources : \A c \in LiveClaims(r, now) :
        Unexpired(c.expires, now') =>
            \E m \in messages' :
                /\ m.resource = r
                /\ m.kind \in {"claim", "release"}
                /\ m.seq >= c.seq
                /\ Equal(m.by, c.by)
                /\ \A k \in messages' :
                       k.resource = r /\ k.kind \in {"claim", "release"} => k.seq <= m.seq

LeaseIsKept == [][LeaseKept]_vars

\* A resource that nobody holds is taken only by a claim: a hold never comes
\* into being by any other step (the fold derives "what is currently true").
OnlyClaimsTake ==
    [][\A r \in Resources :
           LiveClaims(r, now) = {} /\ LiveClaims(r, now)' # {} => lastSeq' > lastSeq]_vars

(***************************************************************************)
(* fillSince walks back from the current claim while each earlier claim by *)
(* an equal holder covers the one after it.                                *)
(***************************************************************************)
NextRow(r, k) ==
    CHOOSE m \in HoldRows(r) :
        m.seq > k.seq /\ \A o \in HoldRows(r) : o.seq > k.seq => m.seq <= o.seq

\* One step of the walk: row k, before a row taken at start, continues the hold of c.
Covers(r, k, c) ==
    /\ k.kind = "claim"
    /\ Equal(k.by, c.by)
    /\ k.expires = NoExpiry \/ k.expires >= NextRow(r, k).created

\* The current claim's own time.
SinceOfVariant(r, c) == c.created

SinceOf(r, c) ==
    LET reached == {k \in HoldRows(r) :
                      \A o \in HoldRows(r) : k.seq <= o.seq /\ o.seq < c.seq => Covers(r, o, c)}
        first == CHOOSE k \in reached : \A o \in reached : k.seq <= o.seq
    IN  first.created

\* Extending a lease does not make a long hold look new: the reported start is
\* never later than the claim that took the free resource.
SinceSurvivesExtension ==
    \A r \in Resources : \A c \in LiveClaims(r, now) : SinceOf(r, c) <= heldSince[r]

(***************************************************************************)
(* The leases that are running, read from the log, are those of            *)
(* LeaseService.                                                           *)
(***************************************************************************)
HeldNow ==
    {[resource |-> c.resource, by |-> c.by, expires |-> c.expires] :
        c \in UNION {LiveClaims(r, now) : r \in Resources}}

Service == INSTANCE LeaseService WITH held <- HeldNow, Same <- Equal

\* The log and its fold implement the lease service: no step of any caller
\* gives, ends or moves a lease in a way the service does not.
ImplementsLeaseService == Service!Spec

\* Every call that waits for a resource returns: with the lease, or having given up.
WaitsReturn == \A i \in Identities : (\E w \in waiting : w.by = i) ~> (\A w \in waiting : w.by # i)

=============================================================================
