------------------------------ MODULE MCMachine ------------------------------
(***************************************************************************)
(* The instances of Storage beside those of BouncerClient and              *)
(* ProcessMonitor, the processes a worker runs and how it measures them.   *)
(* No two of these share state: one of them runs.                          *)
(***************************************************************************)
EXTENDS MCStorage, BouncerClient, ProcessMonitor

machineVars == <<vars, clientVars, monitorVars>>

\* The machine of the first two processes is not that of the third.
MCMachineOf == [p \in {"p1", "p2", "p3"} |-> IF p = "p3" THEN "m2" ELSE "m1"]

\* A drawing that is converted first and delivered twice, and a clash detection.
MCRid == [t \in {"draw", "redraw", "clash"} |-> IF t = "clash" THEN "b" ELSE "a"]
MCHandler == [t \in {"draw", "redraw", "clash"} |-> IF t = "clash" THEN "clash" ELSE "drawing"]
MCRunsOf == [t \in {"draw", "redraw", "clash"} |-> IF t = "clash" THEN 1 ELSE 2]

\* When none of its groups runs, Storage rests.
GroupsOrNone == AllGroups \cup {{}}

NoProcess == ClientInit({}, [p \in Processes |-> "test"])

\* One process with any command, two with a short one, or tasks.
ProcessesInit ==
  \/ /\ \E c \in Commands : ClientInit({"p1"}, [p \in Processes |-> c])
     /\ MonitorInit({})
  \/ /\ \E q \in {"p1", "p3"} : ClientInit({"p2", q}, [p \in Processes |-> "test"])
     /\ MonitorInit({})
  \/ /\ NoProcess
     /\ \E delivered \in {{"draw", "redraw"}, {"clash"}} : MonitorInit(delivered)

MachineInit ==
  /\ Init
  /\ IF running = {} THEN ProcessesInit ELSE NoProcess /\ MonitorInit({})

MachineNext ==
  \/ Next /\ UNCHANGED <<clientVars, monitorVars>>
  \/ running = {} /\ ClientNext /\ UNCHANGED <<vars, monitorVars>>
  \/ MonitorStep /\ UNCHANGED <<vars, clientVars>>

MachineSpec == MachineInit /\ [][MachineNext]_machineVars /\ ClientFairness
=============================================================================
