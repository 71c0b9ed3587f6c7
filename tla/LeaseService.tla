---------------------------- MODULE LeaseService ----------------------------
(***************************************************************************)
(* What the claims of the thread promise, with the log, its rows and its   *)
(* conversations left out: each resource has at most one running lease,    *)
(* whoever may have it takes or extends it, its holder gives it back, and  *)
(* time ends it.  Nothing else changes who holds what.                     *)
(***************************************************************************)
EXTENDS Integers

CONSTANTS Identities, Resources, Leases, NoExpiry,
          Same(_, _)    \* two callers are one holder

VARIABLES
    now,
    held        \* the running leases: records [resource, by, expires]

svars == <<now, held>>

Running(S, t) == {h \in S : h.expires = NoExpiry \/ h.expires > t}

Init == now = 0 /\ held = {}

\* A free resource, or one the caller already holds, is his from now on.
Take(i, r, lease) ==
    /\ \A h \in held : h.resource = r => Same(h.by, i)
    /\ held' = Running({h \in held : h.resource # r} \cup
                       {[resource |-> r, by |-> i,
                         expires |-> IF lease = NoExpiry THEN NoExpiry ELSE now + lease]}, now)
    /\ UNCHANGED now

GiveBack(i, r) ==
    /\ \E h \in held : h.resource = r /\ Same(h.by, i)
    /\ held' = {h \in held : h.resource # r}
    /\ UNCHANGED now

\* A second passes, and ends every lease that runs out with it.
Pass ==
    /\ now' = now + 1
    /\ held' = Running(held, now')

Next ==
    \/ Pass
    \/ \E i \in Identities, r \in Resources :
           \/ GiveBack(i, r)
           \/ \E lease \in Leases : Take(i, r, lease)

Spec == Init /\ [][Next]_svars
=============================================================================
