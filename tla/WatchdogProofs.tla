--------------------------- MODULE WatchdogProofs ---------------------------
(***************************************************************************)
(* Theorems about Watchdog, for any number of processes, kills and stops:  *)
(* one process has each role, whoever starts, probes, stops or kills it.   *)
(***************************************************************************)
EXTENDS Watchdog, TLAPS

(***************************************************************************)
(* Why one lock suffices: the two lock files are replaced together, a      *)
(* process that has a lock has it on an inode it opened, no process opened *)
(* a later one than there is, and one inode's lock has one holder.         *)
(***************************************************************************)
OnesRole(ps) == \A p \in Procs : ps[p].place # "none" => ps[p].role \in Roles
OpenedFirst(ps) == \A p \in Procs : ps[p].place \in Holding => ps[p].inode # 0
NotAhead(ps, ino) == \A p \in Procs : ps[p].inode <= ino["daemon"]
OnePerInode(ps) == \A p, q \in Procs :
    (ps[p].place \in Holding /\ ps[q].place \in Holding
        /\ ps[p].role = ps[q].role /\ ps[p].inode = ps[q].inode) => p = q
LockInv ==
    /\ inode["daemon"] = inode["sentinel"]
    /\ OnesRole(process) /\ OpenedFirst(process) /\ NotAhead(process, inode)
    /\ OnePerInode(process)

PairInv == PairTypeOK /\ LockInv

\* A step after which every process is where it was, has gone on, or is dead.
Fades(ps, qs) ==
    /\ qs \in [Procs -> Process]
    /\ \A p \in Procs :
        /\ qs[p].role = ps[p].role /\ qs[p].inode = ps[p].inode
        /\ qs[p].place # "none" => ps[p].place # "none"
        /\ qs[p].place \in Holding => ps[p].place \in Holding

LEMMA ProcessRecord ==
    ASSUME NEW r \in Roles \cup {""}, NEW b \in 0..2, NEW i \in 0..2, NEW s \in BOOLEAN, NEW q \in BOOLEAN,
           NEW at \in {"none", "starting", "dead"} \cup Holding
    PROVE  [role |-> r, build |-> b, place |-> at, inode |-> i, seen |-> s, quit |-> q] \in Process
BY DEF Process

LEMMA FadingKeepsLocks ==
    ASSUME NEW ps, NEW qs, NEW ino, Fades(ps, qs),
           OnesRole(ps), OpenedFirst(ps), NotAhead(ps, ino), OnePerInode(ps)
    PROVE  OnesRole(qs) /\ OpenedFirst(qs) /\ NotAhead(qs, ino) /\ OnePerInode(qs)
BY DEF Fades, OnesRole, OpenedFirst, NotAhead, OnePerInode

\* Nothing changes for the processes.
LEMMA StandingFades ==
    ASSUME NEW ps \in [Procs -> Process] PROVE Fades(ps, ps)
BY DEF Fades

\* One process goes on, or dies.
LEMMA OneFades ==
    ASSUME NEW ps \in [Procs -> Process], NEW p \in Procs, NEW x \in Process,
           x.role = ps[p].role, x.inode = ps[p].inode,
           x.place # "none" => ps[p].place # "none",
           x.place \in Holding => ps[p].place \in Holding
    PROVE  Fades(ps, [ps EXCEPT ![p] = x])
BY DEF Fades

LEMMA SignalFades ==
    ASSUME NEW ps \in [Procs -> Process], NEW p \in Procs \cup {0}
    PROVE  Fades(ps, Terminate(p, ps))
<1>1. CASE p = 0
  BY <1>1, StandingFades DEF Terminate
<1>2. CASE p # 0
  <2>1. p \in Procs /\ ps[p] \in Process
    BY <1>2
  <2>2. CASE ps[p].place \in {"starting", "locked"}
    <3> DEFINE x == [ps[p] EXCEPT !.place = "dead"]
    <3>1. Terminate(p, ps) = [ps EXCEPT ![p] = x]
      BY <1>2, <2>1, <2>2 DEF Terminate
    <3>2. x \in Process /\ x.role = ps[p].role /\ x.inode = ps[p].inode /\ x.place = "dead"
      BY <2>1 DEF Process
    <3> HIDE DEF x
    <3>3. /\ x.place # "none" => ps[p].place # "none"
          /\ x.place \in Holding => ps[p].place \in Holding
      BY <2>1, <2>2, <3>2 DEF Holding
    <3>4. Fades(ps, [ps EXCEPT ![p] = x])
      BY <2>1, <3>2, <3>3, OneFades
    <3>5. QED
      BY <3>1, <3>4
  <2>3. CASE ps[p].place \in {"running", "looked"}
    <3> DEFINE x == [ps[p] EXCEPT !.quit = TRUE]
    <3>1. Terminate(p, ps) = [ps EXCEPT ![p] = x]
      BY <1>2, <2>1, <2>3 DEF Terminate
    <3>2. x \in Process /\ x.role = ps[p].role /\ x.inode = ps[p].inode /\ x.place = ps[p].place
      BY <2>1 DEF Process
    <3> HIDE DEF x
    <3>3. /\ x.place # "none" => ps[p].place # "none"
          /\ x.place \in Holding => ps[p].place \in Holding
      BY <2>1, <2>3, <3>2 DEF Holding
    <3>4. Fades(ps, [ps EXCEPT ![p] = x])
      BY <2>1, <3>2, <3>3, OneFades
    <3>5. QED
      BY <3>1, <3>4
  <2>4. CASE ps[p].place \notin {"starting", "locked", "running", "looked"}
    <3>1. Terminate(p, ps) = [ps EXCEPT ![p] = ps[p]]
      BY <1>2, <2>1, <2>4 DEF Terminate
    <3>2. Terminate(p, ps) = ps
      BY <3>1
    <3>3. QED
      BY <3>2, StandingFades
  <2>5. QED
    BY <2>2, <2>3, <2>4
<1>3. QED
  BY <1>1, <1>2

LEMMA FadesOnceMore ==
    ASSUME NEW ps, NEW qs, NEW rs, Fades(ps, qs), Fades(qs, rs)
    PROVE  Fades(ps, rs)
BY DEF Fades
-----------------------------------------------------------------------------
(* The steps. *)

LEMMA FadingStep ==
    ASSUME LockInv, Fades(process, process'), inode' = inode
    PROVE  LockInv'
<1>1. OnesRole(process) /\ OpenedFirst(process) /\ NotAhead(process, inode) /\ OnePerInode(process)
  BY DEF LockInv
<1>2. OnesRole(process') /\ OpenedFirst(process') /\ NotAhead(process', inode) /\ OnePerInode(process')
  BY <1>1, FadingKeepsLocks
<1>3. QED
  BY <1>2 DEF LockInv

\* One process goes on within its role, on the inode it has.
LEMMA GoesOn ==
    ASSUME PairInv, NEW p \in Procs, NEW x \in Process,
           x.role = process[p].role, x.inode = process[p].inode,
           process[p].place # "none",
           x.place \in Holding => process[p].place \in Holding,
           process' = [process EXCEPT ![p] = x], inode' = inode
    PROVE  LockInv' /\ process' \in [Procs -> Process]
<1>1. process \in [Procs -> Process]
  BY DEF PairInv, PairTypeOK
<1>2. Fades(process, process')
  BY <1>1, OneFades
<1>3. QED
  BY <1>2, FadingStep DEF PairInv, Fades

LEMMA StartingInv == PairInit => PairInv
<1> SUFFICES ASSUME PairInit PROVE PairInv
  OBVIOUS
<1>1. PICK down \in BOOLEAN :
        /\ process = [p \in Procs |->
               IF p > 2 \/ (down /\ p = 2) THEN Unborn
               ELSE [role |-> IF p = 1 THEN "daemon" ELSE "sentinel", build |-> 1,
                     place |-> IF down THEN "dead" ELSE "running",
                     inode |-> 1, seen |-> TRUE, quit |-> FALSE]]
        /\ pidFile = [role \in Roles |-> IF down \/ role = "daemon" THEN 1 ELSE 2]
  BY DEF PairInit
<1>2. \A p \in Procs : p \in Nat /\ p >= 1
  BY PairAssumption DEF Procs
<1>3. 1 \in Procs /\ 2 \in Procs
  BY PairAssumption DEF Procs
<1> DEFINE Made(r, at) == [role |-> r, build |-> 1, place |-> at, inode |-> 1,
                           seen |-> TRUE, quit |-> FALSE]
           at == IF down THEN "dead" ELSE "running"
<1>10. \A p \in Procs : \/ process[p] = Unborn
                        \/ p = 1 /\ process[p] = Made("daemon", at)
                        \/ p = 2 /\ process[p] = Made("sentinel", at)
  <2> TAKE p \in Procs
  <2>1. CASE p > 2
    BY <1>1, <2>1
  <2>2. CASE p = 1
    BY <1>1, <2>2
  <2>3. CASE p = 2
    BY <1>1, <2>3
  <2>4. QED
    BY <1>2, <2>1, <2>2, <2>3
<1>4. process \in [Procs -> Process]
  <2>1. Unborn \in Process
    BY DEF Unborn, Process
  <2>2. at \in {"dead", "running"}
    OBVIOUS
  <2>3. \A r \in Roles, b \in {"dead", "running"} : Made(r, b) \in Process
    <3> TAKE r \in Roles, b \in {"dead", "running"}
    <3>1. b \in {"none", "starting", "dead"} \cup Holding
      BY DEF Holding
    <3>2. 1 \in 0..2
      OBVIOUS
    <3>3. QED
      BY <3>1, <3>2, ProcessRecord
  <2> HIDE DEF Made, at
  <2>4. \A p \in Procs : process[p] \in Process
    BY <1>10, <2>1, <2>2, <2>3 DEF Roles
  <2>5. QED
    BY <1>1, <2>4
<1>11. \A p \in Procs : \/ process[p].place = "none" /\ process[p].inode = 0
                        \/ p = 1 /\ process[p].role = "daemon" /\ process[p].inode = 1
                        \/ p = 2 /\ process[p].role = "sentinel" /\ process[p].inode = 1
  <2>1. Unborn.place = "none" /\ Unborn.inode = 0
    BY DEF Unborn
  <2>2. \A r : Made(r, at).role = r /\ Made(r, at).inode = 1
    OBVIOUS
  <2> HIDE DEF Made, at
  <2>3. QED
    BY <1>10, <2>1, <2>2
<1> HIDE DEF Made, at
<1>5. pidFile \in [Roles -> Procs \cup {0}]
  BY <1>1, <1>3
<1>6. PairTypeOK
  <2>1. inode \in [Roles -> 1..2] /\ stamp \in [Roles -> 0..2] /\ spawning \subseteq Roles
        /\ stopper \in Roles \cup {"idle", "waiting", "stopped"}
        /\ ensuring \subseteq [role : Roles, inode : 1..2]
    BY DEF PairInit
  <2>4. present = TRUE /\ stopFile = FALSE /\ busy = FALSE /\ disk = 1 /\ kills = 0 /\ stops = 0
    BY DEF PairInit
  <2>2. disk \in 1..2 /\ kills \in 0..MaxKills /\ stops \in 0..Stops
    BY <2>4, PairAssumption
  <2>5. present \in BOOLEAN /\ stopFile \in BOOLEAN /\ busy \in BOOLEAN
    BY <2>4
  <2>3. QED
    BY <1>4, <1>5, <2>1, <2>2, <2>5 DEF PairTypeOK
<1>7. OnesRole(process) /\ OpenedFirst(process) /\ NotAhead(process, inode)
  <2>1. inode["daemon"] = 1
    BY DEF PairInit, Roles
  <2>2. QED
    BY <1>11, <2>1 DEF OnesRole, OpenedFirst, NotAhead, Roles, Holding
<1>8. OnePerInode(process)
  BY <1>11 DEF OnePerInode, Holding
<1>9. QED
  BY <1>6, <1>7, <1>8 DEF PairInv, LockInv, PairInit, Roles

LEMMA SpawnStartInv == ASSUME PairInv, NEW role \in Roles, SpawnStart(role) PROVE PairInv'
<1>1. PICK p \in Procs : process[p].place = "none" /\ process' = [process EXCEPT ![p] = Child(role)]
  BY DEF SpawnStart
<1>2. Child(role) \in Process
  <2>5. disk \in 1..2
    BY DEF PairInv, PairTypeOK
  <2>6. disk \in 0..2 /\ 0 \in 0..2
    BY <2>5
  <2>1. role \in Roles \cup {""}
    OBVIOUS
  <2>2. "starting" \in {"none", "starting", "dead"} \cup Holding
    OBVIOUS
  <2>3. [role |-> role, build |-> disk, place |-> "starting", inode |-> 0,
         seen |-> FALSE, quit |-> FALSE] \in Process
    BY <2>1, <2>2, <2>6 DEF Process
  <2>4. QED
    BY <2>3 DEF Child
<1>9. process' \in [Procs -> Process] /\ spawning' \subseteq Roles
  BY <1>1, <1>2 DEF PairInv, PairTypeOK, SpawnStart
<1>3. PairTypeOK'
  BY <1>9 DEF PairInv, PairTypeOK, SpawnStart
<1>4. \A q \in Procs : q # p => process'[q] = process[q]
  BY <1>1 DEF PairInv, PairTypeOK
<1>5. process'[p] = Child(role) /\ Child(role).place = "starting" /\ Child(role).inode = 0 /\ Child(role).role = role
  BY <1>1 DEF PairInv, PairTypeOK, Child
<1>6. inode' = inode /\ inode["daemon"] \in 1..2
  BY DEF SpawnStart, PairInv, PairTypeOK, Roles
<1>7. LockInv'
  BY <1>4, <1>5, <1>6 DEF PairInv, LockInv, OnesRole, OpenedFirst, NotAhead, OnePerInode, Holding
<1>8. QED
  BY <1>3, <1>7 DEF PairInv

LEMMA OpenLockInv == ASSUME PairInv, NEW p \in Procs, OpenLock(p) PROVE PairInv'
<1> DEFINE role == process[p].role
<1>1. process[p] \in Process /\ process[p].place = "starting"
  BY DEF PairInv, PairTypeOK, OpenLock
<1>2. role \in Roles /\ inode[role] \in 1..2 /\ inode[role] = inode["daemon"]
  BY <1>1 DEF PairInv, PairTypeOK, LockInv, OnesRole, Roles
<1>3. process' = [process EXCEPT ![p].inode = inode[role]] /\ inode' = inode
  BY DEF OpenLock
<1> HIDE DEF role
<1>11. [process[p] EXCEPT !.inode = inode[role]] \in Process
  <2>1. \A i \in 1..2 : i \in 0..2
    OBVIOUS
  <2> DEFINE i == inode[role]
  <2>2. i \in 0..2
    BY <1>2, <2>1
  <2> HIDE DEF i
  <2>3. [process[p] EXCEPT !.inode = i] \in Process
    BY <1>1, <2>2 DEF Process
  <2>4. QED
    BY <2>3 DEF i
<1>4. process'[p] = [process[p] EXCEPT !.inode = inode[role]] /\ process' \in [Procs -> Process]
  BY <1>3, <1>11 DEF PairInv, PairTypeOK
<1>5. PairTypeOK'
  <2>1. present' \in BOOLEAN
    BY DEF OpenLock
  <2>2. QED
    BY <1>4, <2>1, <1>3 DEF PairInv, PairTypeOK, OpenLock
<1>6. \A q \in Procs : q # p => process'[q] = process[q]
  BY <1>3 DEF PairInv, PairTypeOK
<1>7. process'[p].place = "starting" /\ process'[p].inode = inode["daemon"] /\ process'[p].role = process[p].role
  BY <1>1, <1>2, <1>4 DEF Process
<1>8. inode["daemon"] \in Nat
  BY <1>2
<1>9. LockInv'
  BY <1>1, <1>3, <1>6, <1>7, <1>8 DEF PairInv, LockInv, OnesRole, OpenedFirst, NotAhead, OnePerInode, Holding
<1>10. QED
  BY <1>5, <1>9 DEF PairInv

\* The one step that gives a lock: nobody has it on that inode.
LEMMA TakeLockInv == ASSUME PairInv, NEW p \in Procs, TakeLock(p) PROVE PairInv'
<1>1. process[p] \in Process /\ process[p].place = "starting" /\ process[p].inode # 0
  BY DEF PairInv, PairTypeOK, TakeLock
<1>2. process[p].role \in Roles
  BY <1>1 DEF PairInv, LockInv, OnesRole
<1>3. CASE \E q \in Procs : Holds(q, process[p].role) /\ process[q].inode = process[p].inode
  <2>1. process' = [process EXCEPT ![p].place = "dead"] /\ inode' = inode /\ pidFile' = pidFile
    BY <1>3 DEF TakeLock
  <2> DEFINE x == [process[p] EXCEPT !.place = "dead"]
  <2>2. x \in Process /\ x.role = process[p].role /\ x.inode = process[p].inode /\ x.place = "dead"
    BY <1>1 DEF Process
  <2>3. process' = [process EXCEPT ![p] = x]
    BY <2>1
  <2> HIDE DEF x
  <2>4. process[p].place # "none" /\ (x.place \in Holding => process[p].place \in Holding)
    BY <1>1, <2>2 DEF Holding
  <2>5. LockInv' /\ process' \in [Procs -> Process]
    BY <2>1, <2>2, <2>3, <2>4, GoesOn
  <2>6. PairTypeOK'
    BY <2>1, <2>5 DEF PairInv, PairTypeOK, TakeLock
  <2>7. QED
    BY <2>5, <2>6 DEF PairInv
<1>4. CASE ~\E q \in Procs : Holds(q, process[p].role) /\ process[q].inode = process[p].inode
  <2>1. /\ process' = [process EXCEPT ![p].place = "locked"]
        /\ inode' = inode
        /\ pidFile' = IF process[p].inode = inode[process[p].role]
                      THEN [pidFile EXCEPT ![process[p].role] = 0] ELSE pidFile
    BY <1>4 DEF TakeLock
  <2>10. [process[p] EXCEPT !.place = "locked"] \in Process
    BY <1>1 DEF Process, Holding
  <2>2. process' \in [Procs -> Process] /\ process'[p] = [process[p] EXCEPT !.place = "locked"]
    BY <2>1, <2>10 DEF PairInv, PairTypeOK
  <2>3. pidFile' \in [Roles -> Procs \cup {0}]
    BY <1>2, <2>1 DEF PairInv, PairTypeOK
  <2>4. PairTypeOK'
    BY <2>1, <2>2, <2>3 DEF PairInv, PairTypeOK, TakeLock
  <2>5. \A q \in Procs : q # p => process'[q] = process[q]
    BY <2>1 DEF PairInv, PairTypeOK
  <2>6. process'[p].place = "locked" /\ process'[p].inode = process[p].inode /\ process'[p].role = process[p].role
    BY <1>1, <2>2 DEF Process
  <2>7. OnesRole(process') /\ OpenedFirst(process') /\ NotAhead(process', inode)
    BY <1>1, <1>2, <2>5, <2>6 DEF PairInv, LockInv, OnesRole, OpenedFirst, NotAhead
  <2>8. OnePerInode(process')
    BY <1>4, <2>5, <2>6 DEF PairInv, LockInv, OnePerInode, Holds
  <2>9. QED
    BY <2>1, <2>4, <2>7, <2>8 DEF PairInv, LockInv
<1>5. QED
  BY <1>3, <1>4

LEMMA BeginRoleInv == ASSUME PairInv, NEW p \in Procs, BeginRole(p) PROVE PairInv'
<1>1. process[p] \in Process /\ process[p].place = "locked"
  BY DEF PairInv, PairTypeOK, BeginRole
<1>2. process[p].role \in Roles
  BY <1>1 DEF PairInv, LockInv, OnesRole
<1> DEFINE x == [process[p] EXCEPT !.place = "running", !.seen = TRUE]
<1>3. x \in Process /\ x.role = process[p].role /\ x.inode = process[p].inode /\ x.place = "running"
  BY <1>1 DEF Process, Holding
<1>4. process' = [process EXCEPT ![p] = x] /\ inode' = inode
  BY DEF BeginRole
<1> HIDE DEF x
<1>5. process[p].place # "none" /\ (x.place \in Holding => process[p].place \in Holding)
  BY <1>1, <1>3 DEF Holding
<1>6. LockInv' /\ process' \in [Procs -> Process]
  BY <1>3, <1>4, <1>5, GoesOn
<1>7. pidFile' \in [Roles -> Procs \cup {0}] /\ stamp' \in [Roles -> 0..2]
  BY <1>1, <1>2 DEF BeginRole, PairInv, PairTypeOK, Process
<1>8. PairTypeOK'
  BY <1>4, <1>6, <1>7 DEF PairInv, PairTypeOK, BeginRole
<1>9. QED
  BY <1>6, <1>8 DEF PairInv

\* Steps after which no process holds what it did not hold, and no lock file is replaced.
LEMMA FadingStepInv ==
    ASSUME PairInv, Fades(process, process'), inode' = inode,
           pidFile' \in [Roles -> Procs \cup {0}], stamp' \in [Roles -> 0..2],
           spawning' \subseteq Roles,
           stopper' \in Roles \cup {"idle", "waiting", "stopped"},
           ensuring' \subseteq [role : Roles, inode : 1..2],
           present' \in BOOLEAN, stopFile' \in BOOLEAN, busy' \in BOOLEAN, disk' \in 1..2,
           kills' \in 0..MaxKills, stops' \in 0..Stops
    PROVE  PairInv'
<1>1. LockInv'
  BY FadingStep DEF PairInv
<1>2. process' \in [Procs -> Process] /\ inode' \in [Roles -> 1..2]
  BY DEF Fades, PairInv, PairTypeOK
<1>3. QED
  BY <1>1, <1>2 DEF PairInv, PairTypeOK

LEMMA WatchLookInv == ASSUME PairInv, NEW p \in Procs, WatchLook(p) PROVE PairInv'
<1>1. process \in [Procs -> Process] /\ process[p] \in Process /\ process[p].place = "running"
  BY DEF PairInv, PairTypeOK, WatchLook
<1> DEFINE x == IF process[p].seen /\ ~present THEN [process[p] EXCEPT !.quit = TRUE]
                ELSE [process[p] EXCEPT !.place = "looked", !.seen = @ \/ present]
<1>2. process' = [process EXCEPT ![p] = x]
  BY DEF WatchLook
<1>3. x \in Process /\ x.role = process[p].role /\ x.inode = process[p].inode
      /\ x.place \in {"running", "looked"}
  <2>1. process[p].seen \in BOOLEAN /\ present \in BOOLEAN
    BY <1>1 DEF Process, PairInv, PairTypeOK
  <2>2. (process[p].seen \/ present) \in BOOLEAN
    BY <2>1
  <2>3. CASE process[p].seen /\ ~present
    BY <1>1, <2>3 DEF Process
  <2>4. CASE ~(process[p].seen /\ ~present)
    BY <1>1, <2>2, <2>4 DEF Process, Holding
  <2>5. QED
    BY <2>3, <2>4
<1> HIDE DEF x
<1>4. (x.place # "none" => process[p].place # "none") /\ (x.place \in Holding => process[p].place \in Holding)
  BY <1>1 DEF Holding
<1>5. Fades(process, process')
  BY <1>1, <1>2, <1>3, <1>4, OneFades
<1>6. QED
  BY <1>5, FadingStepInv DEF PairInv, PairTypeOK, WatchLook

LEMMA WatchProbeInv == ASSUME PairInv, NEW p \in Procs, WatchProbe(p) PROVE PairInv'
<1>1. process \in [Procs -> Process] /\ process[p] \in Process /\ process[p].place = "looked"
  BY DEF PairInv, PairTypeOK, WatchProbe
<1> DEFINE x == [process[p] EXCEPT !.place = "running"]
<1>2. process' = [process EXCEPT ![p] = x]
  BY DEF WatchProbe
<1>3. x \in Process /\ x.role = process[p].role /\ x.inode = process[p].inode /\ x.place = "running"
  BY <1>1 DEF Process, Holding
<1> HIDE DEF x
<1>4. (x.place # "none" => process[p].place # "none") /\ (x.place \in Holding => process[p].place \in Holding)
  BY <1>1 DEF Holding
<1>5. Fades(process, process')
  BY <1>1, <1>2, <1>3, <1>4, OneFades
<1>7. process[p].role \in Roles
  BY <1>1 DEF PairInv, LockInv, OnesRole
<1>8. spawning' \subseteq Roles
  BY DEF PairInv, PairTypeOK, WatchProbe, SpawnCheck, PeerOf, Roles
<1>9. present' \in BOOLEAN
  BY DEF WatchProbe
<1>6. QED
  BY <1>5, <1>8, <1>9, FadingStepInv DEF PairInv, PairTypeOK, WatchProbe

LEMMA LeaveInv == ASSUME PairInv, NEW p \in Procs, Leave(p) PROVE PairInv'
<1>1. process \in [Procs -> Process] /\ process[p] \in Process /\ process[p].place \in {"running", "looked"}
  BY DEF PairInv, PairTypeOK, Leave
<1> DEFINE x == [process[p] EXCEPT !.place = "dead"]
<1>2. process' = [process EXCEPT ![p] = x]
  BY DEF Leave
<1>3. x \in Process /\ x.role = process[p].role /\ x.inode = process[p].inode /\ x.place = "dead"
  BY <1>1 DEF Process
<1> HIDE DEF x
<1>4. (x.place # "none" => process[p].place # "none") /\ (x.place \in Holding => process[p].place \in Holding)
  BY <1>1, <1>3 DEF Holding
<1>5. Fades(process, process')
  BY <1>1, <1>2, <1>3, <1>4, OneFades
<1>6. QED
  BY <1>5, FadingStepInv DEF PairInv, PairTypeOK, Leave

LEMMA KillInv == ASSUME PairInv, NEW p \in Procs, Kill(p) PROVE PairInv'
<1>1. process \in [Procs -> Process] /\ process[p] \in Process /\ process[p].place # "none"
  BY DEF PairInv, PairTypeOK, Kill
<1> DEFINE x == [process[p] EXCEPT !.place = "dead"]
<1>2. process' = [process EXCEPT ![p] = x]
  BY DEF Kill
<1>3. x \in Process /\ x.role = process[p].role /\ x.inode = process[p].inode /\ x.place = "dead"
  BY <1>1 DEF Process
<1> HIDE DEF x
<1>4. (x.place # "none" => process[p].place # "none") /\ (x.place \in Holding => process[p].place \in Holding)
  BY <1>1, <1>3 DEF Holding
<1>5. Fades(process, process')
  BY <1>1, <1>2, <1>3, <1>4, OneFades
<1>7. kills' \in 0..MaxKills
  <2>1. kills < MaxKills /\ kills' = kills + 1 /\ kills \in 0..MaxKills
    BY DEF Kill, PairInv, PairTypeOK
  <2>2. QED
    BY <2>1, PairAssumption
<1>6. QED
  BY <1>5, <1>7, FadingStepInv DEF PairInv, PairTypeOK, Kill

\* The pid a signal goes to is read from a file, and a file names a process or nobody.
LEMMA StopSignalsInv == ASSUME PairInv, StopSignals PROVE PairInv'
<1>1. process \in [Procs -> Process] /\ stopper \in Roles /\ pidFile[stopper] \in Procs \cup {0}
  BY DEF PairInv, PairTypeOK, StopSignals
<1>2. Fades(process, process')
  BY <1>1, SignalFades, StandingFades DEF StopSignals
<1>3. present' \in BOOLEAN /\ stopper' \in Roles \cup {"idle", "waiting", "stopped"}
  BY DEF StopSignals, Roles
<1>4. QED
  BY <1>2, <1>3, FadingStepInv DEF PairInv, PairTypeOK, StopSignals

LEMMA RestartStaleInv == ASSUME PairInv, RestartStale PROVE PairInv'
<1> DEFINE one == IF Stale("daemon") THEN Terminate(pidFile["daemon"], process) ELSE process
<1>1. process \in [Procs -> Process] /\ pidFile["daemon"] \in Procs \cup {0} /\ pidFile["sentinel"] \in Procs \cup {0}
  BY DEF PairInv, PairTypeOK, Roles
<1>2. Fades(process, one)
  BY <1>1, SignalFades, StandingFades
<1>3. process' = IF Stale("sentinel") THEN Terminate(pidFile["sentinel"], one) ELSE one
  BY DEF RestartStale
<1> HIDE DEF one
<1>4. one \in [Procs -> Process]
  BY <1>2 DEF Fades
<1>5. Fades(one, process')
  BY <1>1, <1>3, <1>4, SignalFades, StandingFades
<1>6. Fades(process, process')
  BY <1>2, <1>5, FadesOnceMore
<1>7. ensuring' \subseteq [role : Roles, inode : 1..2]
  BY DEF RestartStale, PairInv, PairTypeOK
<1>8. QED
  BY <1>6, <1>7, FadingStepInv DEF PairInv, PairTypeOK, RestartStale

\* Commands and events that leave the processes as they are.
LEMMA StandingStepInv ==
    ASSUME PairInv,
           StopCmd \/ StopReturns \/ StartCmd \/ RestartWaited \/ Upgrade \/ RunStartsOrEnds
               \/ \E role \in Roles : EnsureRunning(role)
    PROVE  PairInv'
<1>1. Fades(process, process)
  BY StandingFades DEF PairInv, PairTypeOK
<1>2. CASE StopCmd
  <2>1. stops < Stops /\ stops' = stops + 1 /\ stops \in 0..Stops
    BY <1>2 DEF StopCmd, PairInv, PairTypeOK
  <2>2. stops' \in 0..Stops
    BY <2>1, PairAssumption
  <2>3. stopFile' \in BOOLEAN /\ present' \in BOOLEAN /\ stopper' \in Roles \cup {"idle", "waiting", "stopped"}
    BY <1>2 DEF StopCmd, Roles
  <2>4. QED
    BY <1>1, <1>2, <2>2, <2>3, FadingStepInv DEF PairInv, PairTypeOK, StopCmd
<1>3. CASE StopReturns
  BY <1>1, <1>3, FadingStepInv DEF PairInv, PairTypeOK, StopReturns
<1>4. CASE StartCmd
  BY <1>1, <1>4, FadingStepInv DEF PairInv, PairTypeOK, StartCmd
<1>5. CASE RestartWaited
  BY <1>1, <1>5, FadingStepInv DEF PairInv, PairTypeOK, RestartWaited
<1>6. CASE Upgrade
  <2>1. disk' \in 1..2
    BY <1>6 DEF Upgrade
  <2>2. QED
    BY <1>1, <1>6, <2>1, FadingStepInv DEF PairInv, PairTypeOK, Upgrade
<1>7. CASE RunStartsOrEnds
  <2>1. busy' \in BOOLEAN
    BY <1>7, PairAssumption DEF RunStartsOrEnds
  <2>2. QED
    BY <1>1, <1>7, <2>1, FadingStepInv DEF PairInv, PairTypeOK, RunStartsOrEnds
<1>8. CASE \E role \in Roles : EnsureRunning(role)
  <2>1. PICK role \in Roles : EnsureRunning(role)
    BY <1>8
  <2>2. spawning' \subseteq Roles /\ present' \in BOOLEAN
    BY <2>1 DEF EnsureRunning, SpawnCheck, PairInv, PairTypeOK
  <2>3. QED
    BY <1>1, <2>1, <2>2, FadingStepInv DEF PairInv, PairTypeOK, EnsureRunning
<1>9. QED
  BY <1>2, <1>3, <1>4, <1>5, <1>6, <1>7, <1>8

\* The directory goes, and the next lock files are new ones, for both roles.
LEMMA RemoveStoreInv == ASSUME PairInv, RemoveStore PROVE PairInv'
<1>1. inode["daemon"] = 1 /\ inode["sentinel"] = 1
  BY DEF RemoveStore, PairInv, LockInv
<1>2. inode' = [role \in Roles |-> inode[role] + 1] /\ process' = process
  BY DEF RemoveStore
<1>3. inode'["daemon"] = 2 /\ inode'["sentinel"] = 2 /\ inode' \in [Roles -> 1..2]
  BY <1>1, <1>2 DEF Roles
<1>4. NotAhead(process', inode')
  <2>1. \A p \in Procs : process[p].inode \in 0..2
    BY DEF PairInv, PairTypeOK, Process
  <2>2. QED
    BY <1>2, <1>3, <2>1 DEF NotAhead
<1>5. LockInv'
  BY <1>2, <1>3, <1>4 DEF PairInv, LockInv
<1>6. pidFile' \in [Roles -> Procs \cup {0}] /\ stamp' \in [Roles -> 0..2]
  BY DEF RemoveStore
<1>8. present' \in BOOLEAN /\ stopFile' \in BOOLEAN
  BY DEF RemoveStore
<1>7. QED
  BY <1>3, <1>5, <1>6, <1>8 DEF RemoveStore, PairInv, PairTypeOK

LEMMA StepInv == ASSUME PairInv, [PairNext]_pairVars PROVE PairInv'
<1>1. CASE \E p \in Procs : Role(p) \/ Kill(p)
  BY <1>1, OpenLockInv, TakeLockInv, BeginRoleInv, WatchLookInv, WatchProbeInv, LeaveInv, KillInv DEF Role
<1>2. CASE \E role \in Roles : SpawnStart(role) \/ EnsureRunning(role)
  BY <1>2, SpawnStartInv, StandingStepInv
<1>3. CASE StopCmd \/ StopReturns \/ StartCmd \/ RestartWaited \/ Upgrade \/ RunStartsOrEnds
  BY <1>3, StandingStepInv
<1>4. CASE StopSignals
  BY <1>4, StopSignalsInv
<1>5. CASE RestartStale
  BY <1>5, RestartStaleInv
<1>6. CASE RemoveStore
  BY <1>6, RemoveStoreInv
<1>7. CASE UNCHANGED pairVars
  BY <1>7 DEF pairVars, PairInv, PairTypeOK, LockInv
<1>8. QED
  BY <1>1, <1>2, <1>3, <1>4, <1>5, <1>6, <1>7 DEF PairNext

-----------------------------------------------------------------------------
(* Theorems. *)

\* lockfile.go: in the lifetime of one store directory, at most one process has each role,
\* whatever starts, probes, signals, kills and upgrades come between.
THEOREM OneProcessPerRole == PairSpec => []PairIsSound
<1>1. PairInv => PairIsSound
  <2> SUFFICES ASSUME PairInv PROVE PairTypeOK /\ OneHolder
    BY DEF PairIsSound
  <2>1. ASSUME inode["daemon"] = 1, NEW role \in Roles, NEW p \in Procs, NEW q \in Procs,
               Holds(p, role), Holds(q, role)
        PROVE  p = q
    <3>1. \A x \in Procs : process[x].inode \in 0..2 /\ process[x].inode <= 1
      BY <2>1 DEF PairInv, PairTypeOK, LockInv, NotAhead, Process
    <3>2. process[p].inode # 0 /\ process[q].inode # 0
      BY <2>1 DEF PairInv, LockInv, OpenedFirst, Holds
    <3>3. process[p].inode = process[q].inode
      BY <3>1, <3>2
    <3>4. QED
      BY <2>1, <3>3 DEF PairInv, LockInv, OnePerInode, Holds
  <2>2. QED
    BY <2>1 DEF PairInv, OneHolder
<1>2. QED
  BY StartingInv, StepInv, <1>1, PTL DEF PairSpec
=============================================================================
