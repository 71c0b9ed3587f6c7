----------------------------- MODULE MCMachine -----------------------------
(***************************************************************************)
(* Small instances of the parts that run on a machine: jobs and their      *)
(* runs, the watching pair, and the workspaces and threads of agents.      *)
(* They share no state, so a behaviour is one of one part: `focus' says    *)
(* which, and the others stay where they began.                            *)
(***************************************************************************)
EXTENDS JobRuns, Watchdog, Spaces

CONSTANTS brief, launch, errand, Foci

VARIABLE focus

machineVars == <<focus, jobVars, pairVars, spaceVars>>

\* A job every second on a kept agent, whose missed fires are replayed; a one-shot;
\* and a job that is only started by hand.
ThreeJobs == {brief, launch, errand}
ThreeSchedules == [j \in ThreeJobs |->
    [schedule |-> CASE j = brief -> "interval" [] j = launch -> "once" [] OTHER -> "manual",
     every |-> 1, runAt |-> 1, catchup |-> "all", created |-> 0]]
OneOfThree == {{brief}, {launch}, {errand}}
Brief == {brief}
Launch1 == {launch}
Errand == {errand}
OnlyOk == {"ok"}
BadThenOk == {"bad", "ok"}
AllLosses == {"start", "sight", "asks", "gone"}
AllTrouble == {"record", "get", "create", "rename", "panes", "tab", "die"}
Nobody == {}

Jobbing(A) == focus = "jobs" /\ A /\ UNCHANGED <<focus, pairVars, spaceVars>>
Pairing(A) == focus = "pair" /\ A /\ UNCHANGED <<focus, jobVars, spaceVars>>
Housing(part, A) == focus = part /\ A /\ UNCHANGED <<focus, jobVars, pairVars>>

MachineInit ==
    /\ focus \in Foci
    /\ JobsInit /\ (focus # "jobs" => enabled[brief] = "on")
    /\ PairInit /\ (focus # "pair" => process[1].place = "running") /\ SpacesInit

MachineNext ==
    \/ Jobbing(JobsNext) \/ Pairing(PairNext)
    \/ Housing("own", OwnNext) \/ Housing("room", RoomNext) \/ Housing("threads", ThreadsNext)

MachineSpec == MachineInit /\ [][MachineNext]_machineVars
=============================================================================
