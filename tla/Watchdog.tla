------------------------------ MODULE Watchdog ------------------------------
(***************************************************************************)
(* The pair of background processes of cmd/bermuda: the daemon and the     *)
(* sentinel, each of which holds the lock of its role and starts the other *)
(* when that lock is free; bermuda stop and start; and ensure, which       *)
(* replaces a pair that runs an older build than the one on disk.          *)
(*                                                                         *)
(* A lock is an flock on the inode a process opened, and the kernel drops  *)
(* it when its holder dies.  The store's directory may be removed under    *)
(* the pair.  Log lines, detached sessions and scratch paths are left out. *)
(***************************************************************************)
EXTENDS Integers, FiniteSets

CONSTANTS
    NProcs,         \* bound: the processes there may ever be
    MaxKills,       \* bound: processes killed from outside
    Removals,       \* the store's directory may be removed
    Stops,          \* bound: bermuda stop commands
    MaxOutside,     \* bound: kills, stops, upgrades and removals of the store together
    Busies          \* whether a run may be in flight

ASSUME PairAssumption ==
    /\ NProcs \in Nat /\ NProcs >= 2 /\ MaxKills \in Nat /\ Removals \in BOOLEAN /\ Stops \in Nat
    /\ MaxOutside \in Nat /\ Busies \subseteq BOOLEAN

Procs == 1..NProcs
Roles == {"daemon", "sentinel"}
PeerOf(role) == IF role = "daemon" THEN "sentinel" ELSE "daemon"

VARIABLES
    process,    \* per process its role, build, place, opened inode, and what it knows
    inode,      \* per role the inode its lock's path leads to
    pidFile,    \* per role the pid in its lock file, 0 when it is empty
    stamp,      \* per role the build in its build stamp, 0 when there is none
    present,    \* the store's directory exists
    stopFile,
    disk,       \* the build on disk
    busy,       \* a run is in flight
    spawning,   \* the roles a spawnRole passed its checks for and has not started
    stopper,    \* where bermuda stop is
    ensuring,   \* the stale processes ensure signalled and waits for: [role, inode]
    kills, stops

pairVars == <<process, inode, pidFile, stamp, present, stopFile, disk, busy, spawning,
              stopper, ensuring, kills, stops>>

Unborn == [role |-> "", build |-> 0, place |-> "none", inode |-> 0, seen |-> FALSE, quit |-> FALSE]
Child(role) == [role |-> role, build |-> disk, place |-> "starting", inode |-> 0,
                seen |-> FALSE, quit |-> FALSE]
Holding == {"locked", "running", "looked"}
Holds(p, role) == process[p].role = role /\ process[p].place \in Holding

\* lockfile.Held: somebody has the lock of the inode the path leads to now.
Held(role) == \E p \in Procs : Holds(p, role) /\ process[p].inode = inode[role]

\* A probe makes the directory, and the file, if they are not there.
ProbeMakes == present' = TRUE

\* A pair that runs, or the files a pair left behind when the machine went down.
PairInit ==
    /\ \E down \in BOOLEAN :
        /\ process = [p \in Procs |->
               IF p > 2 \/ (down /\ p = 2) THEN Unborn
               ELSE [role |-> IF p = 1 THEN "daemon" ELSE "sentinel", build |-> 1,
                     place |-> IF down THEN "dead" ELSE "running",
                     inode |-> 1, seen |-> TRUE, quit |-> FALSE]]
        /\ pidFile = [role \in Roles |-> IF down \/ role = "daemon" THEN 1 ELSE 2]
    /\ stamp = [role \in Roles |-> 1]
    /\ inode = [role \in Roles |-> 1]
    /\ present = TRUE /\ stopFile = FALSE /\ disk = 1 /\ busy = FALSE
    /\ spawning = {} /\ stopper = "idle" /\ ensuring = {} /\ kills = 0 /\ stops = 0

\* What came from outside so far; a stop is asked for while there is room for one event more.
Outside == kills + stops + (inode["daemon"] - 1) + (disk - 1)

-----------------------------------------------------------------------------
(* Starting a role. *)

\* spawnRole up to the start of the child: not while stopped, not while the role runs.
SpawnCheck(role) ==
    /\ ~stopFile /\ ~Held(role)
    /\ spawning' = spawning \cup {role}

SpawnStart(role) ==
    /\ role \in spawning
    /\ spawning' = spawning \ {role}
    /\ \E p \in Procs :
           /\ process[p].place = "none" /\ \A q \in Procs : q < p => process[q].place # "none"
           /\ process' = [process EXCEPT ![p] = Child(role)]
    /\ UNCHANGED <<inode, pidFile, stamp, present, stopFile, disk, busy, stopper, ensuring, kills, stops>>

\* Acquire: the path is opened, and made if it is not there.
OpenLock(p) ==
    /\ process[p].place = "starting" /\ process[p].inode = 0
    /\ process' = [process EXCEPT ![p].inode = inode[process[p].role]]
    /\ present' = TRUE
    /\ UNCHANGED <<inode, pidFile, stamp, stopFile, disk, busy, spawning, stopper, ensuring, kills, stops>>

\* The pid in the file is taken for the lock: an empty file is a free role.
TakeLockVariant(p) ==
    /\ process[p].place = "starting" /\ process[p].inode # 0
    /\ LET role == process[p].role IN
       /\ process' = [process EXCEPT ![p].place =
              IF pidFile[role] # 0 /\ Holds(pidFile[role], role) THEN "dead" ELSE "locked"]
       /\ pidFile' = IF pidFile[role] # 0 /\ Holds(pidFile[role], role) THEN pidFile
                     ELSE [pidFile EXCEPT ![role] = 0]
    /\ UNCHANGED <<inode, stamp, present, stopFile, disk, busy, spawning, stopper, ensuring, kills, stops>>

\* The lock of that inode is taken and the file truncated, or somebody has it and the child exits.
TakeLock(p) ==
    /\ process[p].place = "starting" /\ process[p].inode # 0
    /\ LET role == process[p].role IN
       IF \E q \in Procs : Holds(q, role) /\ process[q].inode = process[p].inode
       THEN /\ process' = [process EXCEPT ![p].place = "dead"]
            /\ UNCHANGED pidFile
       ELSE /\ process' = [process EXCEPT ![p].place = "locked"]
            /\ pidFile' = IF process[p].inode = inode[role]
                          THEN [pidFile EXCEPT ![role] = 0] ELSE pidFile
    /\ UNCHANGED <<inode, stamp, present, stopFile, disk, busy, spawning, stopper, ensuring, kills, stops>>

\* The pid, the build stamp, and the first reading of the store.
BeginRole(p) ==
    /\ process[p].place = "locked"
    /\ LET role == process[p].role IN
       /\ process' = [process EXCEPT ![p].place = "running", ![p].seen = TRUE]
       /\ pidFile' = IF process[p].inode = inode[role] THEN [pidFile EXCEPT ![role] = p] ELSE pidFile
       /\ stamp' = [stamp EXCEPT ![role] = process[p].build]
    /\ present' = TRUE
    /\ UNCHANGED <<inode, stopFile, disk, busy, spawning, stopper, ensuring, kills, stops>>

-----------------------------------------------------------------------------
(* peerWatch.run, one tick: first the store, then the peer. *)

\* A look that finds the store gone skips its turn and stays.
WatchLookVariant(p) ==
    /\ process[p].place = "running" /\ ~process[p].quit
    /\ process[p].seen => present
    /\ process' = [process EXCEPT ![p].place = "looked", ![p].seen = @ \/ present]
    /\ UNCHANGED <<inode, pidFile, stamp, present, stopFile, disk, busy, spawning, stopper, ensuring, kills, stops>>

WatchLook(p) ==
    /\ process[p].place = "running" /\ ~process[p].quit
    /\ IF process[p].seen /\ ~present
       THEN process' = [process EXCEPT ![p].quit = TRUE]
       ELSE process' = [process EXCEPT ![p].place = "looked", ![p].seen = @ \/ present]
    /\ UNCHANGED <<inode, pidFile, stamp, present, stopFile, disk, busy, spawning, stopper, ensuring, kills, stops>>

\* The pid file is taken for the lock: a peer that died without a word still seems to run.
WatchProbeVariant(p) ==
    /\ process[p].place = "looked"
    /\ process' = [process EXCEPT ![p].place = "running"]
    /\ \/ pidFile[PeerOf(process[p].role)] = 0 /\ SpawnCheck(PeerOf(process[p].role))
       \/ pidFile[PeerOf(process[p].role)] # 0 /\ UNCHANGED spawning
    /\ present' = TRUE
    /\ UNCHANGED <<inode, pidFile, stamp, stopFile, disk, busy, stopper, ensuring, kills, stops>>

WatchProbe(p) ==
    /\ process[p].place = "looked"
    /\ process' = [process EXCEPT ![p].place = "running"]
    /\ \/ SpawnCheck(PeerOf(process[p].role))
       \/ (stopFile \/ Held(PeerOf(process[p].role))) /\ UNCHANGED spawning
    /\ present' = TRUE
    /\ UNCHANGED <<inode, pidFile, stamp, stopFile, disk, busy, stopper, ensuring, kills, stops>>

\* A process that was told to quit leaves; the daemon once its runs have finished.
Leave(p) ==
    /\ process[p].place \in {"running", "looked"} /\ process[p].quit
    /\ process[p].role = "daemon" => ~busy
    /\ process' = [process EXCEPT ![p].place = "dead"]
    /\ UNCHANGED <<inode, pidFile, stamp, present, stopFile, disk, busy, spawning, stopper, ensuring, kills, stops>>

-----------------------------------------------------------------------------
(* Commands. *)

\* A signal: a process that has not begun its role has no handler for it.
Terminate(p, ps) ==
    IF p = 0 THEN ps
    ELSE [ps EXCEPT ![p] =
        CASE @.place \in {"starting", "locked"} -> [@ EXCEPT !.place = "dead"]
          [] @.place \in {"running", "looked"} -> [@ EXCEPT !.quit = TRUE]
          [] OTHER -> @]

StopCmd ==
    /\ stopper = "idle" /\ stops < Stops /\ Outside + 1 < MaxOutside
    /\ stopFile' = TRUE /\ present' = TRUE
    /\ stopper' = "sentinel" /\ stops' = stops + 1
    /\ UNCHANGED <<process, inode, pidFile, stamp, disk, busy, spawning, ensuring, kills>>

\* The sentinel is signalled first; a role whose file names no pid, or that is free, is passed over.
StopSignals ==
    /\ stopper \in Roles
    /\ process' = IF Held(stopper) THEN Terminate(pidFile[stopper], process) ELSE process
    /\ present' = TRUE
    /\ stopper' = IF stopper = "sentinel" THEN "daemon" ELSE "waiting"
    /\ UNCHANGED <<inode, pidFile, stamp, stopFile, disk, busy, spawning, ensuring, kills, stops>>

\* Both locks are seen free, or the command says that a run is still finishing.
StopReturns ==
    /\ stopper = "waiting"
    /\ stopper' = IF \E role \in Roles : Held(role) THEN "idle" ELSE "stopped"
    /\ UNCHANGED <<process, inode, pidFile, stamp, present, stopFile, disk, busy, spawning, ensuring, kills, stops>>

\* start forgets the stop; the starts are those of EnsureRunning.
StartCmd ==
    /\ stopper \in {"idle", "stopped"} /\ stopFile
    /\ stopFile' = FALSE /\ stopper' = "idle"
    /\ UNCHANGED <<process, inode, pidFile, stamp, present, disk, busy, spawning, ensuring, kills, stops>>

\* ensure, the board and the plugin hook, for one role.
EnsureRunning(role) ==
    /\ SpawnCheck(role)
    /\ present' = TRUE
    /\ UNCHANGED <<process, inode, pidFile, stamp, stopFile, disk, busy, stopper, ensuring, kills, stops>>

\* Only a pair without a stamp counts as old.
StaleVariant(role) == Held(role) /\ stamp[role] = 0

\* staleAgainst, for the build that asks; its path is that of the pair.
Stale(role) == Held(role) /\ stamp[role] # disk

\* restartStaleRoles: not while a run is in flight; both are signalled before either is started.
RestartStale ==
    /\ ensuring = {} /\ present /\ ~busy
    /\ \E role \in Roles : Stale(role)
    /\ ensuring' = {[role |-> role, inode |-> inode[role]] : role \in {x \in Roles : Stale(x)}}
    /\ process' =
        LET one == IF Stale("daemon") THEN Terminate(pidFile["daemon"], process) ELSE process
        IN  IF Stale("sentinel") THEN Terminate(pidFile["sentinel"], one) ELSE one
    /\ UNCHANGED <<inode, pidFile, stamp, present, stopFile, disk, busy, spawning, stopper, kills, stops>>

\* awaitLockFree, or its time-out; what is started then is EnsureRunning's.
RestartWaited ==
    /\ ensuring # {}
    /\ ensuring' = {}
    /\ UNCHANGED <<process, inode, pidFile, stamp, present, stopFile, disk, busy, spawning, stopper, kills, stops>>

-----------------------------------------------------------------------------
(* What happens to the pair from outside. *)

Kill(p) ==
    /\ kills < MaxKills /\ Outside < MaxOutside /\ process[p].place \notin {"none", "dead"}
    /\ process' = [process EXCEPT ![p].place = "dead"]
    /\ kills' = kills + 1
    /\ UNCHANGED <<inode, pidFile, stamp, present, stopFile, disk, busy, spawning, stopper, ensuring, stops>>

Upgrade ==
    /\ disk = 1 /\ disk' = 2 /\ Outside < MaxOutside
    /\ UNCHANGED <<process, inode, pidFile, stamp, present, stopFile, busy, spawning, stopper, ensuring, kills, stops>>

RunStartsOrEnds ==
    /\ busy' \in Busies /\ busy' # busy
    /\ busy' => \E p \in Procs : Holds(p, "daemon") /\ ~process[p].quit
    /\ UNCHANGED <<process, inode, pidFile, stamp, present, stopFile, disk, spawning, stopper, ensuring, kills, stops>>

\* With the directory goes everything in it, the inodes of the locks included.
RemoveStore ==
    /\ Removals /\ present /\ inode["daemon"] = 1 /\ Outside < MaxOutside
    /\ present' = FALSE /\ stopFile' = FALSE
    /\ inode' = [role \in Roles |-> inode[role] + 1]
    /\ pidFile' = [role \in Roles |-> 0] /\ stamp' = [role \in Roles |-> 0]
    /\ UNCHANGED <<process, disk, busy, spawning, stopper, ensuring, kills, stops>>

Role(p) ==
    \/ OpenLock(p) \/ TakeLock(p) \/ BeginRole(p)
    \/ WatchLook(p) \/ WatchProbe(p) \/ Leave(p)

PairNext ==
    \/ \E p \in Procs : Role(p) \/ Kill(p)
    \/ \E role \in Roles : SpawnStart(role) \/ EnsureRunning(role)
    \/ StopCmd \/ StopSignals \/ StopReturns \/ StartCmd
    \/ RestartStale \/ RestartWaited
    \/ Upgrade \/ RunStartsOrEnds \/ RemoveStore

PairSpec == PairInit /\ [][PairNext]_pairVars

\* Processes run, runs end, and ensure comes round on its timer.
PairFairSpec ==
    /\ PairSpec
    /\ \A p \in Procs : WF_pairVars(Role(p))
    /\ \A role \in Roles : WF_pairVars(SpawnStart(role))
    /\ WF_pairVars(busy /\ RunStartsOrEnds)
    /\ SF_pairVars(RestartStale) /\ WF_pairVars(RestartWaited)

-----------------------------------------------------------------------------
(* Properties. *)

Process == [role : Roles \cup {""}, build : 0..2,
            place : {"none", "starting", "dead"} \cup Holding,
            inode : 0..2, seen : BOOLEAN, quit : BOOLEAN]
PairTypeOK ==
    /\ process \in [Procs -> Process]
    /\ inode \in [Roles -> 1..2] /\ pidFile \in [Roles -> Procs \cup {0}]
    /\ stamp \in [Roles -> 0..2] /\ spawning \subseteq Roles
    /\ stopper \in Roles \cup {"idle", "waiting", "stopped"}
    /\ ensuring \subseteq [role : Roles, inode : 1..2]
    /\ present \in BOOLEAN /\ stopFile \in BOOLEAN /\ busy \in BOOLEAN /\ disk \in 1..2
    /\ kills \in 0..MaxKills /\ stops \in 0..Stops

\* lockfile.go: nothing but the lock decides who runs, and no release, probe, crash or
\* double start gives one store two processes of one role.
OneHolder ==
    inode["daemon"] = 1 =>
        \A role \in Roles, p, q \in Procs : Holds(p, role) /\ Holds(q, role) => p = q

\* The files of the pair hold what the code keeps there, and one process has each role.
PairIsSound == PairTypeOK /\ OneHolder

\* stop.go: both roles refuse to start while the stop file exists, so a stop that is not
\* undone leaves nothing running.
StopStops ==
    stopFile ~> (~stopFile \/ \A p \in Procs : process[p].place \notin Holding)

\* Half a pair makes itself whole: a role that is down while its peer serves comes back,
\* unless stop is in force, the store is gone, or the bound on processes is reached.
Spent(role) == process[NProcs].place # "none" /\
    (role \in spawning \/ process[NProcs].role # role \/ process[NProcs].place = "dead")
Serving(role) == \E p \in Procs : Holds(p, role) /\ ~process[p].quit
PairIsWhole ==
    \A role \in Roles :
        Serving(PeerOf(role)) /\ ~Held(role) ~>
            Held(role) \/ stopFile \/ ~Serving(PeerOf(role)) \/ ~present \/ Spent(role)

\* watchdog.go: a pair whose store is gone, and is not made again, leaves.
AbandonedPairLeaves ==
    <>[](~present) => <>[](\A p \in Procs : process[p].place \notin Holding)

\* staleroles.go: an upgrade reaches the pair once the fleet is idle.
Outdated == \E p \in Procs :
    process[p].place = "running" /\ process[p].build < disk /\ ~process[p].quit
UpgradeArrives == Outdated ~> (~Outdated \/ inode["daemon"] # 1 \/ busy)
=============================================================================
