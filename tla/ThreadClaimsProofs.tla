------------------------- MODULE ThreadClaimsProofs -------------------------
(***************************************************************************)
(* Theorems about ThreadClaims, for every set of callers, resources,       *)
(* threads and lease lengths, and for every bound.                         *)
(***************************************************************************)
EXTENDS ThreadClaims, WellFoundedInduction, TLAPS

(***************************************************************************)
(* What every step does to the log and the registry, whichever action it   *)
(* is: it leaves both alone, inserts one row with the next sequence number *)
(* into a thread that is there, or drops the rows of one thread together   *)
(* with the thread.                                                        *)
(***************************************************************************)
LogUnchanged == messages' = messages /\ lastSeq' = lastSeq

RowAdded(m) ==
    /\ m \in Row
    /\ m.seq = lastSeq + 1
    /\ m.created = now
    /\ threads[m.thread] # "absent"
    /\ messages' = messages \cup {m}
    /\ lastSeq' = lastSeq + 1
    /\ threads' = threads
    /\ now' = now

\* What a caller that is not refused by ThreadClaim leaves behind.
Taken(i, r, lease) ==
    /\ \A c \in LiveClaims(r, now) : Equal(c.by, i)
    /\ \E m \in Row : /\ RowAdded(m)
                      /\ m.kind = "claim"
                      /\ m.by = i
                      /\ m.resource = r
                      /\ m.expires = Expiry(lease)

\* A sequence number names one row, and none has been handed out beyond lastSeq.
SeqInv ==
    /\ \A m \in messages : m.seq <= lastSeq
    /\ \A m, k \in messages : m.seq = k.seq => m = k

\* TypeOK holds in every initial state.
LEMMA TypeInit == Init => TypeOK
BY ThreadsAssumption DEF Init, TypeOK

\* The expiry a claim row is written with is a second or NULL.
LEMMA ExpiryType ==
    ASSUME now \in Nat, NEW lease \in Leases
    PROVE  Expiry(lease) \in Nat \cup {NoExpiry}
BY LeasesAssumption DEF Expiry, NoExpiry

\* A claim that is not refused adds one claim row of its caller.
LEMMA TakeLeaseAddsRow ==
    ASSUME TypeOK, NEW i \in Identities, NEW r \in Resources, NEW t \in Threads,
           NEW lease \in Leases, TakeLease(i, r, t, lease), threads' = threads, now' = now
    PROVE  Taken(i, r, lease)
<1> DEFINE m == [seq |-> lastSeq + 1, thread |-> t, kind |-> "claim", by |-> i,
                 resource |-> r, expires |-> Expiry(lease), created |-> now]
<1>1. Expiry(lease) \in Nat \cup {NoExpiry}
  BY ExpiryType DEF TypeOK
<1>2. m \in Row
  BY <1>1 DEF TypeOK, Row
<1>3. RowAdded(m)
  BY <1>2 DEF RowAdded, TakeLease, WriteClaim, Insert
<1>4. QED
  BY <1>2, <1>3 DEF Taken, TakeLease, WriteClaim

\* Every step keeps the types.
LEMMA TypeStep == TypeOK /\ [Next]_vars => TypeOK'
<1> SUFFICES ASSUME TypeOK, [Next]_vars
             PROVE  TypeOK'
  OBVIOUS
<1>1. CASE Tick
  BY <1>1 DEF Tick, TypeOK
<1>2. ASSUME NEW i \in Identities, NEW t \in Threads, ThreadPost(i, t)
      PROVE  TypeOK'
  BY <1>2 DEF ThreadPost, Insert, TypeOK, Row
<1>3. ASSUME NEW i \in Identities, NEW r \in Resources, NEW t \in Threads,
             NEW lease \in Leases, TakeLease(i, r, t, lease),
             threads' = threads, now' = now, waiting' \subseteq waiting
      PROVE  TypeOK'
  <2>1. Expiry(lease) \in Nat \cup {NoExpiry}
    BY ExpiryType DEF TypeOK
  <2>2. PICK m \in Row : RowAdded(m)
    BY <1>3, TakeLeaseAddsRow DEF Taken
  <2>3. leases' \subseteq Lease
    BY <1>3, <2>1 DEF TakeLease, WriteClaim, TypeOK, Lease
  <2>4. heldSince' \in [Resources -> Nat]
    BY <1>3 DEF TakeLease, WriteClaim, TypeOK
  <2>5. QED
    BY <1>3, <2>2, <2>3, <2>4 DEF TypeOK, RowAdded
<1>4. ASSUME NEW i \in Identities, NEW r \in Resources, NEW t \in Threads,
             NEW lease \in Leases, NEW wait \in Waits, WaitStart(i, r, t, lease, wait)
      PROVE  TypeOK'
  <2>1. now + wait \in Nat
    BY BoundsAssumption DEF TypeOK
  <2>2. QED
    BY <1>4, <2>1 DEF WaitStart, TypeOK, Wait
<1>5. ASSUME NEW w \in waiting, WaitTake(w)
      PROVE  TypeOK'
  <2>1. /\ w.by \in Identities
        /\ w.resource \in Resources
        /\ w.thread \in Threads
        /\ w.lease \in Leases
    BY DEF TypeOK, Wait
  <2>2. QED
    BY <1>3, <1>5, <2>1 DEF WaitTake
<1>6. ASSUME NEW w \in waiting, WaitGiveUp(w)
      PROVE  TypeOK'
  BY <1>6 DEF WaitGiveUp, StopWaiting, TypeOK
<1>7. ASSUME NEW i \in Identities, NEW r \in Resources, ThreadRelease(i, r)
      PROVE  TypeOK'
  <2>1. PICK c \in LiveClaims(r, now) : Insert(c.thread, "release", i, r, NoExpiry)
    BY <1>7 DEF ThreadRelease, ReleaseRow
  <2>2. c.thread \in Threads
    BY DEF LiveClaims, CurrentClaims, HoldRows, TypeOK, Row
  <2>3. messages' \subseteq Row /\ lastSeq' \in Nat
    BY <2>1, <2>2 DEF Insert, TypeOK, Row
  <2>4. QED
    BY <1>7, <2>3 DEF ThreadRelease, ReleaseRow, TypeOK
<1>8. ASSUME NEW t \in Threads, NewThread(t)
      PROVE  TypeOK'
  BY <1>8 DEF NewThread, TypeOK
<1>9. ASSUME NEW t \in Threads, CloseThread(t)
      PROVE  TypeOK'
  BY <1>9 DEF CloseThread, Retire, TypeOK
<1>10. ASSUME NEW t \in Threads, NEW force \in BOOLEAN, RemoveThread(t, force)
       PROVE  TypeOK'
  BY <1>10 DEF RemoveThread, DropThread, TypeOK
<1>11. CASE UNCHANGED vars
  BY <1>11 DEF vars, TypeOK
<1>12. QED
  BY <1>1, <1>2, <1>3, <1>4, <1>5, <1>6, <1>7, <1>8, <1>9, <1>10, <1>11
     DEF Next, ThreadClaim

\* The store's variables keep their types in every behaviour.
THEOREM TypeCorrect == Spec => []TypeOK
<1>1. QED
  BY TypeInit, TypeStep, PTL DEF Spec

-----------------------------------------------------------------------------
(***************************************************************************)
(* The log: what one step of the system can do to it.                      *)
(***************************************************************************)

LogInv == SeqInv /\ NoOrphanMessages

\* The new row says nothing about a resource, or comes from whoever has it.
RowAllowed(m) ==
    \/ m.kind = "note"
    \/ \A c \in LiveClaims(m.resource, now) : Equal(c.by, m.by)

\* A thread nothing is held from goes, and its rows with it.
RowsDropped(t) ==
    /\ messages' = {m \in messages : m.thread # t}
    /\ threads' = [threads EXCEPT ![t] = "absent"]
    /\ lastSeq' = lastSeq
    /\ now' = now
    /\ ~HeldFrom(t)

\* Threads come and are closed, and time passes, but no thread disappears.
LogKept ==
    /\ LogUnchanged
    /\ \A t \in Threads : threads[t] # "absent" => threads'[t] # "absent"

LogStep ==
    \/ LogKept
    \/ \E m \in Row : RowAdded(m) /\ RowAllowed(m)
    \/ \E t \in Threads : RowsDropped(t)

\* The fold names at most one live claim for a resource.
LEMMA OneLiveClaim ==
    ASSUME TypeOK, SeqInv, NEW r, NEW t, NEW c \in LiveClaims(r, t), NEW d \in LiveClaims(r, t)
    PROVE  c = d
<1>1. /\ c \in messages /\ d \in messages
      /\ c.seq <= d.seq /\ d.seq <= c.seq
  BY DEF LiveClaims, CurrentClaims, HoldRows
<1>2. c.seq \in Nat /\ d.seq \in Nat
  BY <1>1 DEF TypeOK, Row
<1>3. c.seq = d.seq
  BY <1>1, <1>2
<1>4. QED
  BY <1>1, <1>3 DEF SeqInv

\* Every step of the system treats the log in one of the three ways.
LEMMA StepsOfTheLog ==
    ASSUME TypeOK, LogInv, [Next]_vars
    PROVE  LogStep
<1>1. CASE Tick
  BY <1>1 DEF Tick, LogStep, LogKept, LogUnchanged
<1>2. ASSUME NEW i \in Identities, NEW t \in Threads, ThreadPost(i, t)
      PROVE  LogStep
  <2> DEFINE m == [seq |-> lastSeq + 1, thread |-> t, kind |-> "note", by |-> i,
                   resource |-> NoResource, expires |-> NoExpiry, created |-> now]
  <2>1. m \in Row
    BY DEF TypeOK, Row
  <2>2. RowAdded(m) /\ RowAllowed(m)
    BY <1>2, <2>1 DEF ThreadPost, Insert, RowAdded, RowAllowed
  <2>3. QED
    BY <2>1, <2>2 DEF LogStep
<1>3. ASSUME NEW i \in Identities, NEW r \in Resources, NEW t \in Threads,
             NEW lease \in Leases, TakeLease(i, r, t, lease), threads' = threads, now' = now
      PROVE  LogStep
  <2>1. Taken(i, r, lease)
    BY <1>3, TakeLeaseAddsRow
  <2>2. QED
    BY <2>1 DEF Taken, LogStep, RowAllowed
<1>4. ASSUME NEW i \in Identities, NEW r \in Resources, NEW t \in Threads,
             NEW lease \in Leases, NEW wait \in Waits, WaitStart(i, r, t, lease, wait)
      PROVE  LogStep
  BY <1>4 DEF WaitStart, LogStep, LogKept, LogUnchanged
<1>5. ASSUME NEW w \in waiting, WaitTake(w)
      PROVE  LogStep
  <2>1. /\ w.by \in Identities
        /\ w.resource \in Resources
        /\ w.thread \in Threads
        /\ w.lease \in Leases
    BY DEF TypeOK, Wait
  <2>2. QED
    BY <1>3, <1>5, <2>1 DEF WaitTake
<1>6. ASSUME NEW w \in waiting, WaitGiveUp(w)
      PROVE  LogStep
  BY <1>6 DEF WaitGiveUp, StopWaiting, LogStep, LogKept, LogUnchanged
<1>7. ASSUME NEW i \in Identities, NEW r \in Resources, ThreadRelease(i, r)
      PROVE  LogStep
  <2>1. PICK c \in LiveClaims(r, now) :
            Equal(c.by, i) /\ Insert(c.thread, "release", i, r, NoExpiry)
    BY <1>7 DEF ThreadRelease, ReleaseRow
  <2>2. c \in messages /\ c.thread \in Threads
    BY DEF LiveClaims, CurrentClaims, HoldRows, TypeOK, Row
  <2>3. threads[c.thread] # "absent"
    BY <2>2 DEF LogInv, NoOrphanMessages
  <2> DEFINE m == [seq |-> lastSeq + 1, thread |-> c.thread, kind |-> "release", by |-> i,
                   resource |-> r, expires |-> NoExpiry, created |-> now]
  <2>4. m \in Row
    BY <2>2 DEF TypeOK, Row
  <2>5. RowAdded(m)
    BY <1>7, <2>1, <2>3, <2>4 DEF ThreadRelease, ReleaseRow, Insert, RowAdded
  <2>6. RowAllowed(m)
    BY <2>1, OneLiveClaim DEF RowAllowed, LogInv
  <2>7. QED
    BY <2>4, <2>5, <2>6 DEF LogStep
<1>8. ASSUME NEW t \in Threads, NewThread(t)
      PROVE  LogStep
  BY <1>8 DEF NewThread, LogStep, LogKept, LogUnchanged, TypeOK
<1>9. ASSUME NEW t \in Threads, CloseThread(t)
      PROVE  LogStep
  BY <1>9 DEF CloseThread, Retire, LogStep, LogKept, LogUnchanged, TypeOK
<1>10. ASSUME NEW t \in Threads, NEW force \in BOOLEAN, RemoveThread(t, force)
       PROVE  LogStep
  BY <1>10 DEF RemoveThread, DropThread, LogStep, RowsDropped
<1>11. CASE UNCHANGED vars
  BY <1>11 DEF vars, LogStep, LogKept, LogUnchanged
<1>12. QED
  BY <1>1, <1>2, <1>3, <1>4, <1>5, <1>6, <1>7, <1>8, <1>9, <1>10, <1>11
     DEF Next, ThreadClaim

\* The log is well formed in every initial state, and stays so.
LEMMA LogInit == Init => LogInv
BY DEF Init, LogInv, SeqInv, NoOrphanMessages

LEMMA LogInvStep ==
    ASSUME TypeOK, LogInv, [Next]_vars
    PROVE  LogInv'
<1>1. LogStep
  BY StepsOfTheLog
<1>2. CASE LogKept
  BY <1>2 DEF LogKept, LogUnchanged, LogInv, SeqInv, NoOrphanMessages, TypeOK, Row
<1>3. ASSUME NEW m \in Row, RowAdded(m)
      PROVE  LogInv'
  <2>1. \A k \in messages : k.seq \in Nat /\ k.seq <= lastSeq /\ k.seq # m.seq
    BY <1>3 DEF RowAdded, LogInv, SeqInv, TypeOK, Row
  <2>2. SeqInv'
    BY <1>3, <2>1 DEF RowAdded, LogInv, SeqInv, TypeOK
  <2>3. NoOrphanMessages'
    BY <1>3 DEF RowAdded, LogInv, NoOrphanMessages
  <2>4. QED
    BY <2>2, <2>3 DEF LogInv
<1>4. ASSUME NEW t \in Threads, RowsDropped(t)
      PROVE  LogInv'
  <2>1. SeqInv'
    BY <1>4 DEF RowsDropped, LogInv, SeqInv
  <2>2. NoOrphanMessages'
    BY <1>4 DEF RowsDropped, LogInv, NoOrphanMessages, TypeOK, Row
  <2>3. QED
    BY <2>1, <2>2 DEF LogInv
<1>5. QED
  BY <1>1, <1>2, <1>3, <1>4 DEF LogStep

\* The log is well formed in every state of every behaviour.
LEMMA LogCorrect == Spec => [](TypeOK /\ LogInv)
<1>1. Init => TypeOK /\ LogInv
  BY TypeInit, LogInit
<1>2. TypeOK /\ LogInv /\ [Next]_vars => (TypeOK /\ LogInv)'
  BY TypeStep, LogInvStep
<1>3. QED
  BY <1>1, <1>2, PTL DEF Spec

\* No message is ever left behind in a thread that is not there: the check and
\* the write of ThreadPost, ThreadClaim, ThreadRelease and RemoveThread each
\* share a transaction.
THEOREM NoMessageIsOrphaned == Spec => []NoOrphanMessages
<1>1. TypeOK /\ LogInv => NoOrphanMessages
  BY DEF LogInv
<1>2. QED
  BY <1>1, LogCorrect, PTL

-----------------------------------------------------------------------------
(***************************************************************************)
(* Leases.                                                                 *)
(***************************************************************************)

\* No step ends a lease that is still running except one by its own holder.
LEMMA LeaseKeptStep ==
    ASSUME TypeOK, LogInv, [Next]_vars
    PROVE  LeaseKept
<1> SUFFICES ASSUME NEW r \in Resources, NEW c \in LiveClaims(r, now),
                    Unexpired(c.expires, now')
             PROVE  \E m \in messages' :
                       /\ m.resource = r
                       /\ m.kind \in {"claim", "release"}
                       /\ m.seq >= c.seq
                       /\ Equal(m.by, c.by)
                       /\ \A k \in messages' :
                             k.resource = r /\ k.kind \in {"claim", "release"} => k.seq <= m.seq
  BY DEF LeaseKept
<1>1. LogStep
  BY StepsOfTheLog
<1>2. /\ c \in messages
      /\ c.resource = r
      /\ c.kind = "claim"
      /\ c.seq \in Nat
      /\ \A k \in messages : k.resource = r /\ k.kind \in {"claim", "release"} => k.seq <= c.seq
  BY DEF LiveClaims, CurrentClaims, HoldRows, TypeOK, Row
<1>3. Equal(c.by, c.by)
  BY DEF Equal
<1>4. CASE LogKept
  BY <1>2, <1>3, <1>4 DEF LogKept, LogUnchanged
<1>5. ASSUME NEW m \in Row, RowAdded(m), RowAllowed(m)
      PROVE  \E n \in messages' :
                /\ n.resource = r
                /\ n.kind \in {"claim", "release"}
                /\ n.seq >= c.seq
                /\ Equal(n.by, c.by)
                /\ \A k \in messages' :
                      k.resource = r /\ k.kind \in {"claim", "release"} => k.seq <= n.seq
  <2>1. CASE m.kind \in {"claim", "release"} /\ m.resource = r
    <3>1. Equal(m.by, c.by)
      BY <1>5, <2>1 DEF RowAllowed, Equal
    <3>2. \A k \in messages : k.seq \in Nat /\ k.seq <= lastSeq
      BY DEF LogInv, SeqInv, TypeOK, Row
    <3>3. m \in messages' /\ \A k \in messages' : k.seq <= m.seq
      BY <1>5, <3>2 DEF RowAdded, TypeOK
    <3>4. m.seq >= c.seq
      BY <1>2, <1>5, <3>2 DEF RowAdded, TypeOK
    <3>5. QED
      BY <2>1, <3>1, <3>3, <3>4
  <2>2. CASE ~(m.kind \in {"claim", "release"} /\ m.resource = r)
    <3>1. \A k \in messages' : k.resource = r /\ k.kind \in {"claim", "release"} => k.seq <= c.seq
      BY <1>2, <1>5, <2>2 DEF RowAdded
    <3>2. c \in messages'
      BY <1>2, <1>5 DEF RowAdded
    <3>3. QED
      BY <1>2, <1>3, <3>1, <3>2
  <2>3. QED
    BY <2>1, <2>2
<1>6. ASSUME NEW t \in Threads, RowsDropped(t)
      PROVE  c \in messages' /\ messages' \subseteq messages
  <2>1. c.thread # t
    BY <1>6 DEF RowsDropped, HeldFrom
  <2>2. QED
    BY <1>2, <1>6, <2>1 DEF RowsDropped
<1>7. CASE \E t \in Threads : RowsDropped(t)
  BY <1>2, <1>3, <1>6, <1>7
<1>8. QED
  BY <1>1, <1>4, <1>5, <1>7 DEF LogStep

\* Within its lease, only its holder changes the last word on a resource:
\* ThreadClaim and ThreadRelease refuse everybody else, and RemoveThread
\* refuses to delete the row the lease is.
THEOREM LeasesAreKept == Spec => LeaseIsKept
<1>1. (TypeOK /\ LogInv) /\ [Next]_vars => [LeaseKept]_vars
  BY LeaseKeptStep
<1>2. QED
  BY <1>1, LogCorrect, PTL DEF Spec, LeaseIsKept

(***************************************************************************)
(* Every caller has an identity that no other caller matches: nobody       *)
(* claims by name alone what another one claims by name and pid.           *)
(***************************************************************************)
NoAliases == \A i, j \in Identities : Equal(i, j) => i = j

\* What a caller was told it has, while the lease runs, is exactly what the fold names.
LeasesBacked ==
    \A l \in leases : Unexpired(l.expires, now) =>
        \E c \in LiveClaims(l.resource, now) : c.by = l.by /\ c.expires = l.expires

\* A row that is the newest of its resource is the one the fold names.
LEMMA NewestRowIsCurrent ==
    ASSUME TypeOK, LogInv, NEW m \in Row, RowAdded(m), m.kind = "claim"
    PROVE  m \in CurrentClaims(m.resource)'
<1>1. \A k \in messages : k.seq \in Nat /\ k.seq <= lastSeq
  BY DEF LogInv, SeqInv, TypeOK, Row
<1>2. m \in messages' /\ \A k \in messages' : k.seq <= m.seq
  BY <1>1 DEF RowAdded, TypeOK
<1>3. QED
  BY <1>2 DEF CurrentClaims, HoldRows

\* A row about something else, or about nothing, leaves a live claim as it is.
LEMMA OtherRowsDoNotMatter ==
    ASSUME NEW m \in Row, RowAdded(m), NEW r, NEW c \in LiveClaims(r, now),
           m.kind = "note" \/ m.resource # r
    PROVE  c \in LiveClaims(r, now)'
BY DEF RowAdded, LiveClaims, CurrentClaims, HoldRows, Unexpired

\* Given back leases leave only those of other callers or other resources.
LEMMA BackedByOthers ==
    ASSUME NoAliases, TypeOK, LogInv, LeasesBacked, NEW i \in Identities, NEW r \in Resources,
           NEW m \in Row, RowAdded(m), m.resource = r,
           \A c \in LiveClaims(r, now) : Equal(c.by, i),
           NEW l \in leases, ~(l.by = i /\ l.resource = r), Unexpired(l.expires, now)
    PROVE  \E c \in LiveClaims(l.resource, now)' : c.by = l.by /\ c.expires = l.expires
<1>1. PICK c \in LiveClaims(l.resource, now) : c.by = l.by /\ c.expires = l.expires
  BY DEF LeasesBacked
<1>2. c.by \in Identities
  BY DEF LiveClaims, CurrentClaims, HoldRows, TypeOK, Row
<1>3. l.resource # r
  <2>1. SUFFICES ASSUME l.resource = r
                 PROVE  FALSE
    OBVIOUS
  <2>2. Equal(c.by, i)
    BY <1>1, <2>1
  <2>3. QED
    BY <1>1, <1>2, <2>1, <2>2 DEF NoAliases
<1>4. c \in LiveClaims(l.resource, now)'
  BY <1>3, OtherRowsDoNotMatter
<1>5. QED
  BY <1>1, <1>4

\* Taking a lease keeps every running lease backed by the fold.
LEMMA BackedAfterTake ==
    ASSUME NoAliases, TypeOK, LogInv, LeasesBacked,
           NEW i \in Identities, NEW r \in Resources, NEW t \in Threads,
           NEW lease \in Leases, TakeLease(i, r, t, lease), threads' = threads, now' = now
    PROVE  LeasesBacked'
<1>1. PICK m \in Row : /\ RowAdded(m)
                       /\ m.kind = "claim"
                       /\ m.by = i
                       /\ m.resource = r
                       /\ m.expires = Expiry(lease)
  BY TakeLeaseAddsRow DEF Taken
<1> SUFFICES ASSUME NEW l \in leases', Unexpired(l.expires, now)'
             PROVE  \E c \in LiveClaims(l.resource, now)' : c.by = l.by /\ c.expires = l.expires
  BY DEF LeasesBacked, Unexpired
<1>2. CASE l = [by |-> i, resource |-> r, expires |-> Expiry(lease)]
  <2>1. m \in CurrentClaims(r)'
    BY <1>1, NewestRowIsCurrent
  <2>2. m \in LiveClaims(r, now)'
    BY <1>1, <1>2, <2>1 DEF LiveClaims, Unexpired
  <2>3. QED
    BY <1>1, <1>2, <2>2
<1>3. CASE l \in leases /\ ~(l.by = i /\ l.resource = r)
  <2>1. Unexpired(l.expires, now)
    BY DEF Unexpired
  <2>2. \A c \in LiveClaims(r, now) : Equal(c.by, i)
    BY DEF TakeLease, WriteClaim
  <2>3. QED
    BY <1>1, <1>3, <2>1, <2>2, BackedByOthers
<1>4. QED
  BY <1>2, <1>3 DEF TakeLease, WriteClaim

\* A release by its holder leaves every other running lease backed by the fold.
LEMMA BackedAfterRelease ==
    ASSUME NoAliases, TypeOK, LogInv, LeasesBacked,
           NEW i \in Identities, NEW r \in Resources, ThreadRelease(i, r)
    PROVE  LeasesBacked'
<1>1. PICK c \in LiveClaims(r, now) :
          Equal(c.by, i) /\ Insert(c.thread, "release", i, r, NoExpiry)
  BY DEF ThreadRelease, ReleaseRow
<1>2. c \in messages /\ c.thread \in Threads /\ threads[c.thread] # "absent"
  BY DEF LiveClaims, CurrentClaims, HoldRows, TypeOK, Row, LogInv, NoOrphanMessages
<1> DEFINE m == [seq |-> lastSeq + 1, thread |-> c.thread, kind |-> "release", by |-> i,
                 resource |-> r, expires |-> NoExpiry, created |-> now]
<1>3. m \in Row
  BY <1>2 DEF TypeOK, Row
<1>4. RowAdded(m)
  BY <1>1, <1>2, <1>3 DEF ThreadRelease, ReleaseRow, Insert, RowAdded
<1>5. \A d \in LiveClaims(r, now) : Equal(d.by, i)
  BY <1>1, OneLiveClaim DEF LogInv
<1> SUFFICES ASSUME NEW l \in leases', Unexpired(l.expires, now)'
             PROVE  \E d \in LiveClaims(l.resource, now)' : d.by = l.by /\ d.expires = l.expires
  BY DEF LeasesBacked, Unexpired
<1>6. l \in leases /\ ~(l.by = i /\ l.resource = r) /\ Unexpired(l.expires, now)
  BY DEF ThreadRelease, ReleaseRow, Unexpired
<1>7. QED
  BY <1>3, <1>4, <1>5, <1>6, BackedByOthers

\* A step that leaves the callers' leases alone and does not touch the log of a
\* held resource keeps them backed.
LEMMA BackedWhenKept ==
    ASSUME TypeOK, LogInv, LeasesBacked, leases' = leases, now' \in Nat, now' >= now,
           \A r \in Resources : \A c \in LiveClaims(r, now) :
               /\ c \in messages'
               /\ \A k \in messages' \ messages : k.resource # r
    PROVE  LeasesBacked'
<1> SUFFICES ASSUME NEW l \in leases, Unexpired(l.expires, now')
             PROVE  \E c \in LiveClaims(l.resource, now)' : c.by = l.by /\ c.expires = l.expires
  BY DEF LeasesBacked, Unexpired
<1>1. l.expires \in Nat \cup {NoExpiry} /\ l.resource \in Resources
  BY DEF TypeOK, Lease
<1>2. Unexpired(l.expires, now)
  BY <1>1 DEF Unexpired, TypeOK, NoExpiry
<1>3. PICK c \in LiveClaims(l.resource, now) : c.by = l.by /\ c.expires = l.expires
  BY <1>2 DEF LeasesBacked
<1>4. c \in CurrentClaims(l.resource)'
  BY <1>1 DEF LiveClaims, CurrentClaims, HoldRows
<1>5. c \in LiveClaims(l.resource, now)'
  BY <1>3, <1>4 DEF LiveClaims, Unexpired
<1>6. QED
  BY <1>3, <1>5

\* Every step keeps every running lease backed by the fold.
LEMMA BackedStep ==
    ASSUME NoAliases, TypeOK, LogInv, LeasesBacked, [Next]_vars
    PROVE  LeasesBacked'
<1>0. \A r \in Resources : \A c \in LiveClaims(r, now) : c \in messages /\ c.resource = r
  BY DEF LiveClaims, CurrentClaims, HoldRows
<1>1. CASE Tick
  BY <1>0, <1>1, BackedWhenKept DEF Tick, TypeOK
<1>2. ASSUME NEW i \in Identities, NEW t \in Threads, ThreadPost(i, t)
      PROVE  LeasesBacked'
  BY <1>0, <1>2, BackedWhenKept, ResourcesAssumption DEF ThreadPost, Insert, TypeOK
<1>3. ASSUME NEW i \in Identities, NEW r \in Resources, NEW t \in Threads,
             NEW lease \in Leases, TakeLease(i, r, t, lease), threads' = threads, now' = now
      PROVE  LeasesBacked'
  BY <1>3, BackedAfterTake
<1>4. ASSUME NEW i \in Identities, NEW r \in Resources, NEW t \in Threads,
             NEW lease \in Leases, NEW wait \in Waits, WaitStart(i, r, t, lease, wait)
      PROVE  LeasesBacked'
  BY <1>0, <1>4, BackedWhenKept DEF WaitStart, TypeOK
<1>5. ASSUME NEW w \in waiting, WaitTake(w)
      PROVE  LeasesBacked'
  <2>1. /\ w.by \in Identities
        /\ w.resource \in Resources
        /\ w.thread \in Threads
        /\ w.lease \in Leases
    BY DEF TypeOK, Wait
  <2>2. QED
    BY <1>3, <1>5, <2>1 DEF WaitTake
<1>6. ASSUME NEW w \in waiting, WaitGiveUp(w)
      PROVE  LeasesBacked'
  BY <1>0, <1>6, BackedWhenKept DEF WaitGiveUp, StopWaiting, TypeOK
<1>7. ASSUME NEW i \in Identities, NEW r \in Resources, ThreadRelease(i, r)
      PROVE  LeasesBacked'
  BY <1>7, BackedAfterRelease
<1>8. ASSUME NEW t \in Threads, NewThread(t)
      PROVE  LeasesBacked'
  BY <1>0, <1>8, BackedWhenKept DEF NewThread, TypeOK
<1>9. ASSUME NEW t \in Threads, CloseThread(t)
      PROVE  LeasesBacked'
  BY <1>0, <1>9, BackedWhenKept DEF CloseThread, Retire, TypeOK
<1>10. ASSUME NEW t \in Threads, NEW force \in BOOLEAN, RemoveThread(t, force)
       PROVE  LeasesBacked'
  <2>1. \A r \in Resources : \A c \in LiveClaims(r, now) : c \in messages'
    BY <1>0, <1>10 DEF RemoveThread, DropThread, HeldFrom
  <2>2. QED
    BY <1>10, <2>1, BackedWhenKept DEF RemoveThread, DropThread, TypeOK
<1>11. CASE UNCHANGED vars
  BY <1>0, <1>11, BackedWhenKept DEF vars, TypeOK
<1>12. QED
  BY <1>1, <1>2, <1>3, <1>4, <1>5, <1>6, <1>7, <1>8, <1>9, <1>10, <1>11
     DEF Next, ThreadClaim

\* The inductive invariant of the leases.
LeaseInv == TypeOK /\ LogInv /\ LeasesBacked

LEMMA LeaseInvCorrect == ASSUME NoAliases PROVE Spec => []LeaseInv
<1>1. Init => LeaseInv
  BY TypeInit, LogInit DEF LeaseInv, Init, LeasesBacked
<1>2. LeaseInv /\ [Next]_vars => LeaseInv'
  BY TypeStep, LogInvStep, BackedStep DEF LeaseInv
<1>3. QED
  BY <1>1, <1>2, PTL DEF Spec

\* While the lease a caller was told it has is running and it has not given it
\* back, the fold names that caller: no release, removal or close by anybody
\* else makes the resource read as free.  Holds when no two callers match.
THEOREM RunningLeasesAreHeld == ASSUME NoAliases PROVE Spec => []RunningLeaseIsHeld
<1>1. LeaseInv => RunningLeaseIsHeld
  BY DEF LeaseInv, LeasesBacked, RunningLeaseIsHeld, Equal
<1>2. QED
  BY <1>1, LeaseInvCorrect, PTL

\* No two callers are ever told that they have the same resource at one time,
\* whatever they do in whichever thread.  Holds when no two callers match.
THEOREM LeasesExclude == ASSUME NoAliases PROVE Spec => []MutualExclusion
<1>1. LeaseInv => MutualExclusion
  <2> SUFFICES ASSUME LeaseInv, NEW l \in leases, NEW k \in leases,
                      l.resource = k.resource,
                      Unexpired(l.expires, now), Unexpired(k.expires, now)
               PROVE  Equal(l.by, k.by)
    BY DEF MutualExclusion
  <2>1. PICK c \in LiveClaims(l.resource, now) : c.by = l.by
    BY DEF LeaseInv, LeasesBacked
  <2>2. PICK d \in LiveClaims(l.resource, now) : d.by = k.by
    BY DEF LeaseInv, LeasesBacked
  <2>3. c = d
    BY <2>1, <2>2, OneLiveClaim DEF LeaseInv, LogInv
  <2>4. QED
    BY <2>1, <2>2, <2>3 DEF Equal
<1>2. QED
  BY <1>1, LeaseInvCorrect, PTL

-----------------------------------------------------------------------------
(***************************************************************************)
(* The log implements the lease service, as long as no thread is removed:  *)
(* a removal may take the release of a resource and bring back a claim.    *)
(***************************************************************************)

\* What the service knows of a claim.
Said(c) == [resource |-> c.resource, by |-> c.by, expires |-> c.expires]

\* A lease that will run is running.
LEMMA RunsOn ==
    ASSUME NEW e \in Nat \cup {NoExpiry}, NEW t \in Nat, Unexpired(e, t + 1)
    PROVE  Unexpired(e, t)
BY DEF Unexpired, NoExpiry

\* A live claim is about the resource it is asked for, and its row is one of the log's.
LEMMA LiveClaimIsRow ==
    ASSUME TypeOK, NEW r, NEW t, NEW c \in LiveClaims(r, t)
    PROVE  /\ c \in Row /\ c \in messages
           /\ c.resource = r /\ c.expires \in Nat \cup {NoExpiry} /\ Unexpired(c.expires, t)
BY DEF LiveClaims, CurrentClaims, HoldRows, TypeOK, Row

\* A second that passes leaves the leases that go on.
LEMMA TickPasses ==
    ASSUME TypeOK, Tick
    PROVE  Service!Pass
<1>1. now' = now + 1 /\ messages' = messages /\ now \in Nat
  BY DEF Tick, TypeOK
<1>2. \A r \in Resources : LiveClaims(r, now)' = {c \in LiveClaims(r, now) : Unexpired(c.expires, now')}
  <2> SUFFICES ASSUME NEW r \in Resources
               PROVE  LiveClaims(r, now)' = {c \in LiveClaims(r, now) : Unexpired(c.expires, now')}
    OBVIOUS
  <2>1. LiveClaims(r, now)' = {c \in CurrentClaims(r) : Unexpired(c.expires, now')}
    BY <1>1 DEF LiveClaims, CurrentClaims, HoldRows
  <2>2. \A c \in CurrentClaims(r) : c.expires \in Nat \cup {NoExpiry}
    BY DEF CurrentClaims, HoldRows, TypeOK, Row
  <2>3. \A c \in CurrentClaims(r) : Unexpired(c.expires, now') => Unexpired(c.expires, now)
    BY <1>1, <2>2, RunsOn
  <2>4. QED
    BY <2>1, <2>3 DEF LiveClaims
<1>3. HeldNow' = {h \in HeldNow : Unexpired(h.expires, now')}
  BY <1>2 DEF HeldNow
<1>4. HeldNow' = Service!Running(HeldNow, now')
  BY <1>3 DEF Service!Running, Unexpired
<1>5. QED
  BY <1>1, <1>4 DEF Service!Pass

\* A step that adds no claim and no release changes nothing the service sees.
LEMMA NothingHeldMoves ==
    ASSUME \A r \in Resources : HoldRows(r)' = HoldRows(r), now' = now
    PROVE  HeldNow' = HeldNow
<1>1. \A r \in Resources : LiveClaims(r, now)' = LiveClaims(r, now)
  BY DEF LiveClaims, CurrentClaims
<1>2. QED
  BY <1>1 DEF HeldNow

\* A claim or a release is the last word on its resource, and on no other.
LEMMA LastWord ==
    ASSUME TypeOK, LogInv, NEW m \in Row, RowAdded(m), m.kind \in {"claim", "release"}
    PROVE  /\ \A q \in Resources \ {m.resource} : LiveClaims(q, now)' = LiveClaims(q, now)
           /\ LiveClaims(m.resource, now)' = {x \in {m} : m.kind = "claim" /\ Unexpired(m.expires, now)}
<1>1. \A q \in Resources \ {m.resource} : HoldRows(q)' = HoldRows(q)
  BY DEF HoldRows, RowAdded
<1>2. now' = now /\ HoldRows(m.resource)' = HoldRows(m.resource) \cup {m}
  BY DEF HoldRows, RowAdded
<1>3. \A k \in HoldRows(m.resource) : k.seq \in Nat /\ m.seq \in Nat /\ k.seq < m.seq
  BY DEF HoldRows, RowAdded, LogInv, SeqInv, TypeOK, Row
<1>4. \A k \in HoldRows(m.resource) : k.seq <= m.seq /\ ~(m.seq <= k.seq)
  BY <1>3
<1>5. m.seq <= m.seq
  BY DEF Row
<1>6. CurrentClaims(m.resource)' = {x \in {m} : m.kind = "claim"}
  BY <1>2, <1>4, <1>5 DEF CurrentClaims
<1>7. \A q \in Resources \ {m.resource} : LiveClaims(q, now)' = LiveClaims(q, now)
  BY <1>1, <1>2 DEF LiveClaims, CurrentClaims
<1>8. LiveClaims(m.resource, now)' = {x \in {m} : m.kind = "claim" /\ Unexpired(m.expires, now)}
  BY <1>2, <1>6 DEF LiveClaims
<1>9. QED
  BY <1>7, <1>8

\* What the service sees of such a row.
LEMMA HeldAfter ==
    ASSUME TypeOK, LogInv, NEW m \in Row, RowAdded(m), m.kind \in {"claim", "release"}, m.resource \in Resources
    PROVE  HeldNow' = {h \in HeldNow : h.resource # m.resource}
                      \cup {x \in {Said(m)} : m.kind = "claim" /\ Unexpired(m.expires, now)}
<1>1. \A h : h \in HeldNow <=> \E r \in Resources : \E c \in LiveClaims(r, now) : h = Said(c)
  BY DEF HeldNow, Said
<1>2. \A h : h \in HeldNow' <=> \E r \in Resources : \E c \in LiveClaims(r, now)' : h = Said(c)
  BY DEF HeldNow, Said
<1>3. \A r \in Resources : \A c \in LiveClaims(r, now) : Said(c).resource = r
  BY LiveClaimIsRow DEF Said
<1>4. \A h : h \in HeldNow' =>
          \/ h \in HeldNow /\ h.resource # m.resource
          \/ h = Said(m) /\ m.kind = "claim" /\ Unexpired(m.expires, now)
  BY <1>1, <1>2, <1>3, LastWord
<1>5. \A h \in HeldNow : h.resource # m.resource => h \in HeldNow'
  BY <1>1, <1>2, <1>3, LastWord
<1>6. m.kind = "claim" /\ Unexpired(m.expires, now) => Said(m) \in HeldNow'
  BY <1>2, LastWord
<1>7. QED
  BY <1>4, <1>5, <1>6

\* Whoever is held by the service has the live claim in the log.
LEMMA HeldIsClaimed ==
    ASSUME TypeOK, NEW h \in HeldNow
    PROVE  \E c \in LiveClaims(h.resource, now) : h = Said(c)
<1>1. PICK r \in Resources : \E c \in LiveClaims(r, now) : h = Said(c)
  BY DEF HeldNow, Said
<1>2. h.resource = r
  BY <1>1, LiveClaimIsRow DEF Said
<1>3. QED
  BY <1>1, <1>2

\* A claim that is not refused is one the service allows.
LEMMA ClaimTakes ==
    ASSUME TypeOK, LogInv, NEW i \in Identities, NEW r \in Resources, NEW lease \in Leases,
           Taken(i, r, lease)
    PROVE  Service!Take(i, r, lease)
<1>1. PICK m \in Row : /\ RowAdded(m) /\ m.kind = "claim" /\ m.by = i
                       /\ m.resource = r /\ m.expires = Expiry(lease)
  BY DEF Taken
<1>2. \A h \in HeldNow : h.resource = r => Equal(h.by, i)
  <2> SUFFICES ASSUME NEW h \in HeldNow, h.resource = r PROVE Equal(h.by, i)
    OBVIOUS
  <2>1. PICK c \in LiveClaims(r, now) : h = Said(c)
    BY HeldIsClaimed
  <2>2. Equal(c.by, i)
    BY DEF Taken
  <2>3. QED
    BY <2>1, <2>2 DEF Said
<1>3. Said(m) = [resource |-> r, by |-> i, expires |-> Expiry(lease)]
  BY <1>1 DEF Said
<1>4. HeldNow' = {h \in HeldNow : h.resource # r} \cup {x \in {Said(m)} : Unexpired(m.expires, now)}
  BY <1>1, HeldAfter
<1>5. \A h \in HeldNow : Unexpired(h.expires, now)
  BY LiveClaimIsRow, HeldIsClaimed DEF Said
<1>6. HeldNow' = Service!Running({h \in HeldNow : h.resource # r} \cup {Said(m)}, now)
  BY <1>1, <1>3, <1>4, <1>5 DEF Service!Running, Unexpired
<1>7. now' = now
  BY <1>1 DEF RowAdded
<1>8. QED
  BY <1>2, <1>3, <1>6, <1>7 DEF Service!Take, Expiry

\* A release that is not refused is one the service allows.
LEMMA ReleaseGivesBack ==
    ASSUME TypeOK, LogInv, NEW i \in Identities, NEW r \in Resources, ThreadRelease(i, r)
    PROVE  Service!GiveBack(i, r)
<1>1. PICK c \in LiveClaims(r, now) :
          Equal(c.by, i) /\ Insert(c.thread, "release", i, r, NoExpiry)
  BY DEF ThreadRelease, ReleaseRow
<1>2. c \in messages /\ c.thread \in Threads
  BY LiveClaimIsRow DEF Row
<1>3. threads[c.thread] # "absent"
  BY <1>2 DEF LogInv, NoOrphanMessages
<1> DEFINE m == [seq |-> lastSeq + 1, thread |-> c.thread, kind |-> "release", by |-> i,
                 resource |-> r, expires |-> NoExpiry, created |-> now]
<1>4. m \in Row
  BY <1>2 DEF TypeOK, Row
<1>5. RowAdded(m)
  BY <1>1, <1>3, <1>4 DEF ThreadRelease, ReleaseRow, Insert, RowAdded
<1>6. HeldNow' = {h \in HeldNow : h.resource # r}
  BY <1>4, <1>5, HeldAfter
<1>7. Said(c) \in HeldNow
  BY DEF HeldNow, Said
<1>8. Said(c).resource = r /\ Equal(Said(c).by, i)
  BY <1>1, LiveClaimIsRow DEF Said
<1>9. now' = now
  BY <1>5 DEF RowAdded
<1>10. QED
  BY <1>6, <1>7, <1>8, <1>9 DEF Service!GiveBack

\* Every step is a step of the service or none, if no thread can be removed.
LEMMA ServiceStep ==
    ASSUME TypeOK, LogInv, [Next]_vars, Removable = {}
    PROVE  [Service!Next]_Service!svars
<1>1. CASE Tick
  BY <1>1, TickPasses DEF Service!Next
<1>2. ASSUME \A r \in Resources : HoldRows(r)' = HoldRows(r), now' = now
      PROVE  [Service!Next]_Service!svars
  BY <1>2, NothingHeldMoves DEF Service!svars
<1>3. ASSUME NEW i \in Identities, NEW t \in Threads, ThreadPost(i, t)
      PROVE  [Service!Next]_Service!svars
  <2>1. \A r \in Resources : HoldRows(r)' = HoldRows(r)
    BY <1>3 DEF ThreadPost, Insert, HoldRows
  <2>2. QED
    BY <1>2, <1>3, <2>1 DEF ThreadPost
<1>4. ASSUME NEW i \in Identities, NEW r \in Resources, NEW t \in Threads,
             NEW lease \in Leases, TakeLease(i, r, t, lease), threads' = threads, now' = now
      PROVE  [Service!Next]_Service!svars
  BY <1>4, TakeLeaseAddsRow, ClaimTakes DEF Service!Next
<1>5. ASSUME messages' = messages, now' = now
      PROVE  [Service!Next]_Service!svars
  BY <1>2, <1>5 DEF HoldRows
<1>6. ASSUME NEW w \in waiting, WaitTake(w)
      PROVE  [Service!Next]_Service!svars
  <2>1. /\ w.by \in Identities
        /\ w.resource \in Resources
        /\ w.thread \in Threads
        /\ w.lease \in Leases
    BY DEF TypeOK, Wait
  <2>2. QED
    BY <1>4, <1>6, <2>1 DEF WaitTake
<1>7. ASSUME NEW i \in Identities, NEW r \in Resources, ThreadRelease(i, r)
      PROVE  [Service!Next]_Service!svars
  BY <1>7, ReleaseGivesBack DEF Service!Next
<1>8. ASSUME NEW t \in Threads, NEW force \in BOOLEAN, RemoveThread(t, force)
      PROVE  FALSE
  BY <1>8 DEF RemoveThread
<1>9. QED
  BY <1>1, <1>3, <1>4, <1>5, <1>6, <1>7, <1>8
     DEF Next, vars, ThreadClaim, WaitStart, WaitGiveUp, StopWaiting, NewThread, CloseThread, Retire

\* The log and its fold implement the abstract lease service, whatever callers do at once and
\* however long leases are, in a store whose threads are not removed (currentClaims, claimOf).
THEOREM LogImplementsService ==
    ASSUME Removable = {}
    PROVE  Spec => ImplementsLeaseService
<1>1. Init => Service!Init
  BY DEF Init, Service!Init, HeldNow, LiveClaims, CurrentClaims, HoldRows
<1>2. TypeOK /\ LogInv /\ [Next]_vars => [Service!Next]_Service!svars
  BY ServiceStep
<1>3. QED
  BY <1>1, <1>2, LogCorrect, PTL DEF Spec, ImplementsLeaseService, Service!Spec

-----------------------------------------------------------------------------
(***************************************************************************)
(* How long a resource has been held, in a store whose threads are not     *)
(* removed, where every caller has an identity of its own.                 *)
(***************************************************************************)

\* Rows that a sequence number tells apart.
Numbered(S) == \A m, k \in S : m.seq \in Nat /\ (m.seq = k.seq => m = k)

\* Among such rows some row is the first.
LEMMA FirstRow ==
    ASSUME NEW S, Numbered(S), S # {}
    PROVE  \E m \in S : \A k \in S : m.seq <= k.seq
<1> DEFINE Seqs == {m.seq : m \in S}
<1>1. Seqs \subseteq Nat /\ Seqs # {}
  BY DEF Numbered
<1> HIDE DEF Seqs
<1>2. PICK n \in Seqs : \A x \in Seqs : ~(<<x, n>> \in OpToRel(<, Nat))
  BY <1>1, WFMin, NatLessThanWellFounded
<1>3. \A x \in Seqs : n <= x
  <2> TAKE x \in Seqs
  <2>1. x \in Nat /\ n \in Nat /\ ~(x < n)
    BY <1>1, <1>2 DEF OpToRel
  <2>2. QED
    BY <2>1
<1>4. PICK m \in S : m.seq = n
  BY DEF Seqs
<1>5. \A k \in S : m.seq <= k.seq
  BY <1>3, <1>4 DEF Seqs
<1>6. QED
  BY <1>5

\* The row that comes next to another one.
IsNext(S, n, k) == n \in S /\ n.seq > k.seq /\ \A o \in S : o.seq > k.seq => n.seq <= o.seq

LEMMA NextRowIs ==
    ASSUME NEW S, Numbered(S), NEW k, NEW n, IsNext(S, n, k)
    PROVE  (CHOOSE m \in S : m.seq > k.seq /\ \A o \in S : o.seq > k.seq => m.seq <= o.seq) = n
<1> DEFINE P(m) == m.seq > k.seq /\ \A o \in S : o.seq > k.seq => m.seq <= o.seq
<1>1. n \in S /\ P(n)
  BY DEF IsNext
<1>2. \A m \in S : P(m) => m = n
  <2> TAKE m \in S
  <2> HAVE P(m)
  <2>1. m.seq <= n.seq /\ n.seq <= m.seq
    BY <1>1
  <2>2. m.seq \in Nat /\ n.seq \in Nat
    BY <1>1 DEF Numbered
  <2>3. m.seq = n.seq
    BY <2>1, <2>2
  <2>4. QED
    BY <1>1, <2>3 DEF Numbered
<1> HIDE DEF P
<1>3. (CHOOSE m \in S : P(m)) = n
  BY <1>1, <1>2
<1> USE DEF P
<1>4. QED
  BY <1>3

\* A row before another has a next one.
LEMMA HasNext ==
    ASSUME NEW S, Numbered(S), NEW k \in S, NEW c \in S, k.seq < c.seq
    PROVE  \E n \in S : IsNext(S, n, k)
<1> DEFINE T == {m \in S : m.seq > k.seq}
<1>1. k.seq \in Nat /\ c.seq \in Nat
  BY DEF Numbered
<1>2. c \in T /\ Numbered(T)
  BY <1>1 DEF Numbered
<1>3. PICK n \in T : \A o \in T : n.seq <= o.seq
  BY <1>2, FirstRow
<1>4. QED
  BY <1>3 DEF IsNext

\* Rows of later numbers were written no earlier, and none after now.
InTime ==
    /\ \A m \in messages : m.created <= now
    /\ \A m, k \in messages : m.seq <= k.seq => m.created <= k.created

(***************************************************************************)
(* The inductive invariant: from a claim that is as old as the hold, every *)
(* row up to the live claim continues the hold.                            *)
(***************************************************************************)
Unbroken(r, k, c) ==
    /\ k \in HoldRows(r)
    /\ k.created <= heldSince[r]
    /\ \A o \in HoldRows(r) : k.seq <= o.seq /\ o.seq < c.seq => Covers(r, o, c)

HeldLong == \A r \in Resources : \A c \in LiveClaims(r, now) : \E k \in HoldRows(r) : Unbroken(r, k, c)

SinceInv == InTime /\ HeldLong

LEMMA HoldRowsNumbered ==
    ASSUME TypeOK, LogInv, NEW r
    PROVE  Numbered(HoldRows(r)) /\ HoldRows(r) \subseteq Row /\ HoldRows(r) \subseteq messages
BY DEF Numbered, HoldRows, TypeOK, Row, LogInv, SeqInv

\* The rows on another resource, or on none, do not touch the hold.
LEMMA HoldUntouched ==
    ASSUME HeldLong, NEW r \in Resources, HoldRows(r)' = HoldRows(r), heldSince'[r] = heldSince[r],
           LiveClaims(r, now)' \subseteq LiveClaims(r, now)
    PROVE  \A c \in LiveClaims(r, now)' : \E k \in HoldRows(r)' : Unbroken(r, k, c)'
<1>1. \A k : NextRow(r, k)' = NextRow(r, k)
  BY DEF NextRow
<1>2. \A k, c : Covers(r, k, c)' <=> Covers(r, k, c)
  BY <1>1 DEF Covers
<1>3. \A k, c : Unbroken(r, k, c) => Unbroken(r, k, c)'
  BY <1>2 DEF Unbroken
<1>4. QED
  BY <1>3 DEF HeldLong

\* A first claim begins the hold.
LEMMA HoldBegins ==
    ASSUME TypeOK, LogInv, NEW m \in Row, RowAdded(m), NEW r \in Resources,
           m.resource = r, m.kind = "claim", heldSince'[r] = now
    PROVE  Unbroken(r, m, m)'
<1>1. m \in HoldRows(r)' /\ m.created <= now
  BY DEF RowAdded, HoldRows, TypeOK
<1>2. \A o \in HoldRows(r)' : ~(m.seq <= o.seq /\ o.seq < m.seq)
  <2> TAKE o \in HoldRows(r)'
  <2>1. o.seq \in Nat /\ m.seq \in Nat
    BY DEF RowAdded, HoldRows, TypeOK, Row
  <2>2. QED
    BY <2>1
<1>3. QED
  BY <1>1, <1>2 DEF Unbroken

\* A later claim of the holder continues it.
LEMMA HoldGoesOn ==
    ASSUME NoAliases, TypeOK, LogInv, NEW m \in Row, RowAdded(m), NEW r \in Resources,
           m.resource = r, m.kind = "claim", heldSince'[r] = heldSince[r],
           NEW c \in LiveClaims(r, now), Equal(c.by, m.by),
           NEW k \in HoldRows(r), Unbroken(r, k, c)
    PROVE  Unbroken(r, k, m)'
<1> DEFINE H == HoldRows(r)
<1>1. HoldRows(r)' = H \cup {m} /\ m.created = now /\ c \in H /\ c.kind = "claim"
  BY DEF RowAdded, HoldRows, LiveClaims, CurrentClaims
<1>2. c.by = m.by
  BY LiveClaimIsRow DEF NoAliases, Row
<1>3. Numbered(H) /\ H \subseteq Row /\ H \subseteq messages
  BY HoldRowsNumbered
<1>4. \A o \in H : o.seq \in Nat /\ m.seq \in Nat /\ o.seq < m.seq /\ o.seq <= c.seq /\ c.seq \in Nat
  <2> TAKE o \in H
  <2>1. o \in messages /\ o.seq <= lastSeq /\ m.seq = lastSeq + 1 /\ lastSeq \in Nat
    BY <1>3 DEF RowAdded, LogInv, SeqInv, TypeOK
  <2>2. o.seq \in Nat /\ c.seq \in Nat /\ o.seq <= c.seq
    BY <1>1, <1>3 DEF Row, LiveClaims, CurrentClaims
  <2>3. QED
    BY <2>1, <2>2
<1>5. Numbered(H \cup {m})
  <2>1. \A o \in H : o.seq # m.seq
    BY <1>4
  <2>2. m.seq \in Nat
    BY DEF Row
  <2>3. QED
    BY <1>3, <2>1, <2>2 DEF Numbered
<1> HIDE DEF H
<1>6. NextRow(r, c)' = m
  <2>1. \A o \in H \cup {m} : o.seq > c.seq => m.seq <= o.seq
    <3> TAKE o \in H \cup {m}
    <3> HAVE o.seq > c.seq
    <3>1. o \notin H
      BY <1>4
    <3>2. QED
      BY <1>4, <1>1, <3>1
  <2>2. IsNext(H \cup {m}, m, c)
    BY <1>1, <1>4, <2>1 DEF IsNext
  <2>3. QED
    BY <1>1, <1>5, <2>2, NextRowIs DEF NextRow
<1>7. ASSUME NEW o \in H, o.seq < c.seq
      PROVE  NextRow(r, o)' = NextRow(r, o)
  <2>1. PICK n \in H : IsNext(H, n, o)
    BY <1>1, <1>3, <1>7, HasNext
  <2>2. NextRow(r, o) = n
    BY <1>3, <2>1, NextRowIs DEF NextRow, H
  <2>3. n.seq <= m.seq
    BY <1>4
  <2>4. IsNext(H \cup {m}, n, o)
    BY <2>1, <2>3 DEF IsNext
  <2>5. NextRow(r, o)' = n
    BY <1>1, <1>5, <2>4, NextRowIs DEF NextRow
  <2>6. QED
    BY <2>2, <2>5
<1>8. Covers(r, c, m)'
  <2>1. c.expires = NoExpiry \/ c.expires > now
    BY DEF LiveClaims, Unexpired
  <2>2. c.expires \in Nat \cup {NoExpiry} /\ now \in Nat
    BY <1>1, <1>3 DEF Row, TypeOK
  <2>3. c.expires = NoExpiry \/ c.expires >= m.created
    BY <1>1, <2>1, <2>2
  <2>4. Equal(c.by, m.by)
    BY <1>2 DEF Equal
  <2>5. QED
    BY <1>1, <1>6, <2>3, <2>4 DEF Covers
<1>9. ASSUME NEW o \in H, k.seq <= o.seq
      PROVE  Covers(r, o, m)'
  <2>1. CASE o = c
    BY <1>8, <2>1
  <2>2. CASE o # c
    <3>1. o.seq < c.seq
      BY <1>1, <1>3, <1>4, <2>2 DEF Numbered
    <3>2. Covers(r, o, c)
      BY <1>9, <3>1 DEF Unbroken, H
    <3>3. QED
      BY <1>2, <1>7, <3>1, <3>2 DEF Covers
  <2>3. QED
    BY <2>1, <2>2
<1>10. k \in HoldRows(r)' /\ k.created <= heldSince'[r]
  BY <1>1 DEF Unbroken, H
<1>11. \A o \in HoldRows(r)' : k.seq <= o.seq /\ o.seq < m.seq => Covers(r, o, m)'
  <2>1. ~(m.seq < m.seq)
    BY <1>1, <1>4
  <2>2. QED
    BY <1>1, <1>9, <2>1
<1>12. QED
  BY <1>10, <1>11 DEF Unbroken


\* The hold of the resource that is claimed, and of every other.
LEMMA SinceAfterTake ==
    ASSUME NoAliases, TypeOK, LogInv, SinceInv, NEW i \in Identities, NEW r \in Resources,
           NEW t \in Threads, NEW lease \in Leases, TakeLease(i, r, t, lease), threads' = threads, now' = now
    PROVE  HeldLong'
<1>1. PICK m \in Row : RowAdded(m) /\ m.kind = "claim" /\ m.by = i /\ m.resource = r
  BY TakeLeaseAddsRow DEF Taken
<1>2. /\ \A c \in LiveClaims(r, now) : Equal(c.by, m.by)
      /\ heldSince' = IF LiveClaims(r, now) = {} THEN [heldSince EXCEPT ![r] = now] ELSE heldSince
  BY <1>1 DEF TakeLease, WriteClaim
<1>3. heldSince \in [Resources -> Nat]
  BY DEF TypeOK
<1>4. ASSUME NEW q \in Resources \ {r}
      PROVE  \A c \in LiveClaims(q, now)' : \E k \in HoldRows(q)' : Unbroken(q, k, c)'
  <2>1. HoldRows(q)' = HoldRows(q)
    BY <1>1 DEF HoldRows, RowAdded
  <2>2. LiveClaims(q, now)' \subseteq LiveClaims(q, now)
    BY <1>1, LastWord
  <2>3. heldSince'[q] = heldSince[q]
    BY <1>2, <1>3
  <2>4. QED
    BY <2>1, <2>2, <2>3, HoldUntouched DEF SinceInv
<1>5. \A c \in LiveClaims(r, now)' : c = m
  BY <1>1, LastWord
<1>6. \E k \in HoldRows(r)' : Unbroken(r, k, m)'
  <2>1. CASE LiveClaims(r, now) = {}
    <3>1. heldSince'[r] = now
      BY <1>2, <1>3, <2>1
    <3>2. Unbroken(r, m, m)'
      BY <1>1, <3>1, HoldBegins
    <3>3. QED
      BY <3>2 DEF Unbroken
  <2>2. CASE LiveClaims(r, now) # {}
    <3>1. PICK c \in LiveClaims(r, now) : TRUE
      BY <2>2
    <3>2. PICK k \in HoldRows(r) : Unbroken(r, k, c)
      BY DEF SinceInv, HeldLong
    <3>3. Unbroken(r, k, m)'
      BY <1>1, <1>2, <2>2, <3>2, HoldGoesOn
    <3>4. QED
      BY <3>3 DEF Unbroken
  <2>3. QED
    BY <2>1, <2>2
<1>7. QED
  BY <1>4, <1>5, <1>6 DEF HeldLong

\* A release ends the hold of its resource and no other.
LEMMA SinceAfterRelease ==
    ASSUME TypeOK, LogInv, SinceInv, NEW i \in Identities, NEW r \in Resources, ThreadRelease(i, r)
    PROVE  HeldLong'
<1>1. PICK c \in LiveClaims(r, now) : Insert(c.thread, "release", i, r, NoExpiry)
  BY DEF ThreadRelease, ReleaseRow
<1>2. c \in messages /\ c.thread \in Threads /\ threads[c.thread] # "absent"
  BY LiveClaimIsRow DEF Row, LogInv, NoOrphanMessages
<1> DEFINE m == [seq |-> lastSeq + 1, thread |-> c.thread, kind |-> "release", by |-> i,
                 resource |-> r, expires |-> NoExpiry, created |-> now]
<1>3. m \in Row /\ m.kind = "release" /\ m.resource = r
  BY <1>2 DEF TypeOK, Row
<1>4. RowAdded(m) /\ heldSince' = heldSince
  BY <1>1, <1>2, <1>3 DEF ThreadRelease, ReleaseRow, Insert, RowAdded
<1> HIDE DEF m
<1>5. LiveClaims(r, now)' = {}
  BY <1>3, <1>4, LastWord
<1>6. ASSUME NEW q \in Resources \ {r}
      PROVE  \A d \in LiveClaims(q, now)' : \E k \in HoldRows(q)' : Unbroken(q, k, d)'
  <2>1. HoldRows(q)' = HoldRows(q)
    BY <1>3, <1>4 DEF HoldRows, RowAdded
  <2>2. LiveClaims(q, now)' \subseteq LiveClaims(q, now)
    BY <1>3, <1>4, LastWord
  <2>3. QED
    BY <1>4, <2>1, <2>2, HoldUntouched DEF SinceInv
<1>7. QED
  BY <1>5, <1>6 DEF HeldLong

\* A step that writes no claim and no release.
LEMMA SinceKept ==
    ASSUME TypeOK, SinceInv, \A r \in Resources : HoldRows(r)' = HoldRows(r), heldSince' = heldSince,
           now' = now \/ now' = now + 1
    PROVE  HeldLong'
<1>1. ASSUME NEW r \in Resources
      PROVE  LiveClaims(r, now)' \subseteq LiveClaims(r, now)
  <2>1. \A c \in HoldRows(r) : c.expires \in Nat \cup {NoExpiry}
    BY DEF HoldRows, TypeOK, Row
  <2>2. \A e \in Nat \cup {NoExpiry} : Unexpired(e, now') => Unexpired(e, now)
    <3>1. now \in Nat
      BY DEF TypeOK
    <3>2. CASE now' = now
      BY <3>2
    <3>3. CASE now' = now + 1
      BY <3>1, <3>3, RunsOn
    <3>4. QED
      BY <3>2, <3>3
  <2>3. CurrentClaims(r)' = CurrentClaims(r) /\ CurrentClaims(r) \subseteq HoldRows(r)
    BY DEF CurrentClaims
  <2>4. QED
    BY <2>1, <2>2, <2>3 DEF LiveClaims
<1>2. QED
  BY <1>1, HoldUntouched DEF SinceInv, HeldLong

LEMMA InTimeStep ==
    ASSUME TypeOK, LogInv, InTime, [Next]_vars
    PROVE  InTime'
<1>0. \A m \in messages : m.created \in Nat /\ m.seq \in Nat /\ m.seq <= lastSeq /\ m.created <= now
  BY DEF TypeOK, Row, LogInv, SeqInv, InTime
<1>1. ASSUME NEW m \in Row, RowAdded(m)
      PROVE  InTime'
  <2>1. /\ messages' = messages \cup {m} /\ m.created = now /\ now' = now /\ m.seq = lastSeq + 1
        /\ now \in Nat /\ lastSeq \in Nat
    BY <1>1 DEF RowAdded, TypeOK
  <2>2. \A k \in messages : ~(m.seq <= k.seq) /\ k.created <= m.created
    BY <1>0, <2>1
  <2>3. m.created <= m.created
    BY <2>1
  <2>4. QED
    BY <2>1, <2>2, <2>3 DEF InTime
<1>2. CASE messages' \subseteq messages /\ (now' = now \/ now' = now + 1)
  <2>1. \A m \in messages : m.created <= now'
    BY <1>0, <1>2 DEF TypeOK
  <2>2. QED
    BY <1>2, <2>1 DEF InTime
<1>3. now' = now \/ now' = now + 1
  BY DEF Next, vars, Tick, ThreadPost, ThreadClaim, WaitStart, WaitTake, WaitGiveUp, StopWaiting,
         ThreadRelease, ReleaseRow, NewThread, CloseThread, Retire, RemoveThread, DropThread
<1>4. LogStep
  BY StepsOfTheLog
<1>5. QED
  BY <1>1, <1>2, <1>3, <1>4 DEF LogStep, LogKept, LogUnchanged, RowsDropped

LEMMA SinceStep ==
    ASSUME NoAliases, Removable = {}, TypeOK, LogInv, SinceInv, [Next]_vars
    PROVE  SinceInv'
<1>1. ASSUME \A r \in Resources : HoldRows(r)' = HoldRows(r), heldSince' = heldSince,
             now' = now \/ now' = now + 1
      PROVE  HeldLong'
  BY <1>1, SinceKept
<1>2. ASSUME messages' = messages, heldSince' = heldSince, now' = now \/ now' = now + 1
      PROVE  HeldLong'
  BY <1>1, <1>2 DEF HoldRows
<1>3. ASSUME NEW i \in Identities, NEW t \in Threads, ThreadPost(i, t)
      PROVE  HeldLong'
  <2>1. \A r \in Resources : HoldRows(r)' = HoldRows(r)
    BY <1>3 DEF ThreadPost, Insert, HoldRows
  <2>2. QED
    BY <1>1, <1>3, <2>1 DEF ThreadPost
<1>4. ASSUME NEW i \in Identities, NEW r \in Resources, NEW t \in Threads,
             NEW lease \in Leases, TakeLease(i, r, t, lease), threads' = threads, now' = now
      PROVE  HeldLong'
  BY <1>4, SinceAfterTake
<1>5. ASSUME NEW w \in waiting, WaitTake(w)
      PROVE  HeldLong'
  <2>1. /\ w.by \in Identities
        /\ w.resource \in Resources
        /\ w.thread \in Threads
        /\ w.lease \in Leases
    BY DEF TypeOK, Wait
  <2>2. QED
    BY <1>4, <1>5, <2>1 DEF WaitTake
<1>6. ASSUME NEW i \in Identities, NEW r \in Resources, ThreadRelease(i, r)
      PROVE  HeldLong'
  BY <1>6, SinceAfterRelease
<1>7. ASSUME NEW t \in Threads, NEW force \in BOOLEAN, RemoveThread(t, force)
      PROVE  FALSE
  BY <1>7 DEF RemoveThread
<1>8. HeldLong'
  BY <1>2, <1>3, <1>4, <1>5, <1>6, <1>7
     DEF Next, vars, Tick, ThreadClaim, WaitStart, WaitGiveUp, StopWaiting, NewThread, CloseThread, Retire
<1>9. QED
  BY <1>8, InTimeStep DEF SinceInv

\* The walk back ends at the first row from which the hold is unbroken, and that one is no
\* younger than any other such row.
LEMMA WalkEndsEarly ==
    ASSUME TypeOK, LogInv, InTime, NEW r \in Resources, NEW c, NEW k \in HoldRows(r), Unbroken(r, k, c)
    PROVE  SinceOf(r, c) <= heldSince[r]
<1> DEFINE reached == {o \in HoldRows(r) :
                         \A p \in HoldRows(r) : o.seq <= p.seq /\ p.seq < c.seq => Covers(r, p, c)}
           first == CHOOSE o \in reached : \A p \in reached : o.seq <= p.seq
<1>1. k \in reached
  BY DEF Unbroken
<1>2. reached \subseteq HoldRows(r)
  OBVIOUS
<1> HIDE DEF reached
<1>3. Numbered(reached)
  BY <1>2, HoldRowsNumbered DEF Numbered
<1>4. \E o \in reached : \A p \in reached : o.seq <= p.seq
  BY <1>1, <1>3, FirstRow
<1>5. first \in reached /\ \A p \in reached : first.seq <= p.seq
  BY <1>4
<1>6. first \in messages /\ k \in messages /\ first.seq <= k.seq
  BY <1>1, <1>2, <1>5 DEF HoldRows
<1>7. first.created <= k.created /\ k.created <= heldSince[r]
  BY <1>6 DEF InTime, Unbroken
<1>8. first.created \in Nat /\ k.created \in Nat /\ heldSince[r] \in Nat
  BY <1>6 DEF TypeOK, Row
<1>9. SinceOf(r, c) = first.created
  BY DEF SinceOf, reached
<1> HIDE DEF first
<1>10. QED
  BY <1>7, <1>8, <1>9

\* A hold that its holder extends, however often and from whichever threads, is never
\* reported as younger than it is.  Holds when no two callers match and no thread is removed.
THEOREM HoldsLookTheirAge ==
    ASSUME NoAliases, Removable = {}
    PROVE  Spec => []SinceSurvivesExtension
<1>1. Init => SinceInv
  BY DEF Init, SinceInv, InTime, HeldLong, LiveClaims, CurrentClaims, HoldRows
<1>2. TypeOK /\ LogInv /\ SinceInv /\ [Next]_vars => SinceInv'
  BY SinceStep
<1>3. TypeOK /\ LogInv /\ SinceInv => SinceSurvivesExtension
  BY WalkEndsEarly DEF SinceInv, HeldLong, SinceSurvivesExtension
<1>4. QED
  BY <1>1, <1>2, <1>3, LogCorrect, PTL DEF Spec

=============================================================================
