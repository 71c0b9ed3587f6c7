------------------------------ MODULE Schedule ------------------------------
(***************************************************************************)
(* internal/sched: which fires a job owes.  It is pure: it reads a job and *)
(* the start of its last run.  Times are whole numbers of a unit; a fire   *)
(* of a cron job is a multiple of its period, which stands for what the    *)
(* cron library computes.  Due returns the set of times it owes, and the   *)
(* sweep launches as many runs.                                            *)
(***************************************************************************)
EXTENDS Integers, FiniteSets

CONSTANTS
    MaxCatchup,     \* how many missed fires are looked at, and one more
    MissedAfter,    \* how old a fire may be and still count as now
    FirstRunGrace   \* how old the first fire of a job that never ran may be

ASSUME ScheduleAssumption ==
    MaxCatchup \in Nat \ {0} /\ MissedAfter \in Nat /\ FirstRunGrace \in Nat

Never == -1     \* the zero time: no run, or no creation time

\* The n earliest of a set of times, and the latest of it.
Earliest(n, S) == {t \in S : Cardinality({u \in S : u < t}) < n}
Newest(S) == {t \in S : \A u \in S : u <= t}

StartFrom(created, anchor, now) ==
    IF anchor # Never THEN anchor
    ELSE IF created = Never \/ created > now THEN now ELSE created

\* The fires after from, of an interval that is measured from there or of a cron expression.
FiresAfter(job, from, now) ==
    {t \in (from + 1)..now :
        IF job.schedule = "interval" THEN (t - from) % job.every = 0 ELSE t % job.every = 0}

\* The loop of Due leaves off one past the cap, at the oldest fires.
Owed(job, from, now) == Earliest(MaxCatchup + 1, FiresAfter(job, from, now))

ApplyCatchup(policy, fires, now) ==
    CASE policy = "all" -> fires
      [] policy = "skip" -> {t \in Newest(fires) : now - t <= MissedAfter}
      [] OTHER -> Newest(fires)

FirstRunFilter(first, fires, now) ==
    IF first THEN {t \in fires : now - t <= FirstRunGrace} ELSE fires

\* Due without the anchor of a one-shot that ran.
DueVariant(job, anchor, now) ==
    IF job.schedule = "once" THEN {job.runAt} \cap 0..now
    ELSE FirstRunFilter(anchor = Never,
             ApplyCatchup(job.catchup, Owed(job, StartFrom(job.created, anchor, now), now), now), now)

\* Due.  Whether the job is enabled is the sweep's to know.
Due(job, anchor, now) ==
    CASE job.schedule = "manual" -> {}
      [] job.schedule = "once" ->
            {t \in {job.runAt} : t <= now /\ ~(anchor # Never /\ anchor >= t)}
      [] OTHER ->
            FirstRunFilter(anchor = Never,
                ApplyCatchup(job.catchup, Owed(job, StartFrom(job.created, anchor, now), now), now),
                now)

\* NextFire, for display.
NextFire(job, anchor, now) ==
    CASE job.schedule = "once" -> IF job.runAt > now THEN job.runAt ELSE Never
      [] job.schedule = "interval" ->
            LET from == StartFrom(job.created, anchor, now)
            IN  from + ((now - from) \div job.every + 1) * job.every
      [] job.schedule = "cron" -> (now \div job.every + 1) * job.every
      [] OTHER -> Never
=============================================================================
