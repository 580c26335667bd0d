---------------------------- MODULE MCCollector ----------------------------
(***************************************************************************)
(* The sections keep their baselines apart, so a behaviour changes what    *)
(* one section reads (one process of the two) and leaves the rest alone,   *)
(* but for the times of the CPUs: they move on before each sample, without *)
(* which no snapshot would be ready.                                       *)
(***************************************************************************)
EXTENDS Collector

VARIABLE scene

Scenes ==
    {{p, "processes"} : p \in Pids} \cup
    {Cpus \cup {"cpu"}, Interfaces \cup {"network", "ifindex"}, Disks \cup {"disk_io"},
     {Cgroup, "memory.current", "cpu.stat"}, PressureFiles, {"memory", "filesystem", "load"}}

MCInit == Init /\ scene \in Scenes

MCNext ==
    /\ \/ Collect \/ Stop
       \/ \E x \in scene : Machine(x)
       \/ pc = "cpu" /\ \E c \in Cpus : Change(c) /\ previous'[c].now = "on"
    /\ UNCHANGED scene

MCSpec == MCInit /\ [][MCNext]_<<vars, scene>> /\ WF_vars(Collect)
=============================================================================
