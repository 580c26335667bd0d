----------------------------- MODULE Collector -----------------------------
(***************************************************************************)
(* The metrics collector (server/src/collectors/metrics_collector.cpp,     *)
(* linux_samples.cpp, system/linux_source.cpp) and the machine it samples. *)
(*                                                                         *)
(* Each read of a file is a step of its own, so the machine changes        *)
(* between any two.  Of a counter only its order to each value that was    *)
(* stored is known: not moved, moved on, or gone back behind it.  A thing  *)
(* that is removed and comes back under the same name starts a new life.   *)
(* What the sections report besides states and rates is left out.          *)
(***************************************************************************)
EXTENDS Integers, FiniteSets

CONSTANTS
    Cpus,        \* the lines of /proc/stat
    Aggregate,   \* the line "cpu", id -1
    Pids,        \* process ids
    Interfaces,  \* names in /proc/net/dev
    Disks,       \* major:minor:name in /proc/diskstats
    Cgroup,      \* the configured cgroup directory
    MaxLives     \* bound: lives of one thing

Entity == Cpus \cup Pids \cup Interfaces \cup Disks \cup {Cgroup}

Sections ==
    {"cpu", "memory", "processes", "network", "disk_io", "filesystem", "load", "psi", "cgroup"}

PressureFiles == {"pressure/cpu", "pressure/memory", "pressure/io"}

\* What can fail: the file a section reads first, a single row or process, the
\* other files.
Breakable == Sections \cup Entity \cup PressureFiles \cup {"ifindex", "memory.current", "cpu.stat"}

ASSUME CollectorAssumption ==
    /\ Aggregate \in Cpus /\ MaxLives \in Nat \ {0}
    /\ Cpus \cap Pids = {} /\ Cpus \cap Interfaces = {} /\ Cpus \cap Disks = {}
    /\ Pids \cap Interfaces = {} /\ Pids \cap Disks = {} /\ Interfaces \cap Disks = {}
    /\ Cgroup \notin Cpus \cup Pids \cup Interfaces \cup Disks

VARIABLES
    present,   \* the things that exist (external)
    life,      \* which life each is in: starttime, ifindex, inode (external)
    broken,    \* what cannot be read or parsed now (external)
    stop,      \* the stop token
    pc,        \* the section Collect is in
    timed,     \* previous_time_ has a value
    previous,  \* cpu_previous_, processes_previous_, network_previous_, disks_previous_, cg_usage_
    cg_identity,
    pids,      \* the PIDs of the list still to be read
    rows,      \* the rows of /proc/net/dev still to be handled
    next,      \* the baselines this section has collected
    valid,     \* nothing of this section was incomplete
    state,     \* telemetry.collectors
    rates      \* the rates of the section last collected

machine == <<present, life, broken>>
section == <<pids, rows, next, valid>>
vars == <<machine, stop, pc, timed, previous, cg_identity, section, state, rates>>

\* The times of a CPU against what was stored: all the same, some ahead and none
\* behind, or one behind.  Of another counter nothing asks whether it has moved on,
\* and "same" stands for that too.
Orders(e) == IF e \in Cpus THEN {"same", "on", "back"} ELSE {"same", "back"}

None == [of |-> 0, identity |-> 0, age |-> 0, now |-> "same"]

\* A stored counter: the life it was read in, the identity stored with it, the
\* number of Collect calls since, and where the counter is against it now.
Sample(of, identity, now) == [of |-> of, identity |-> identity, age |-> 0, now |-> now]

\* A row of a file: the life it describes, where it was against the baseline when
\* it was read, and where the counter is against it now.
Row(e) == [entity |-> e, of |-> life[e], was |-> previous[e].now, since |-> "same"]

Blank == [e \in Entity |-> None]

Init ==
    /\ present = Entity /\ life = [e \in Entity |-> 1] /\ broken = {}
    /\ stop = FALSE /\ pc = "idle" /\ timed = FALSE
    /\ previous = Blank /\ cg_identity = 0
    /\ pids = {} /\ rows = {} /\ next = Blank /\ valid = TRUE
    /\ state = [s \in Sections |-> "none"] /\ rates = {}

----------------------------------------------------------------------------
(***************************************************************************)
(* Baselines.                                                              *)
(***************************************************************************)

\* The baselines of S are replaced as a whole; what was not seen has none.
Replace(S, samples) == [e \in Entity |-> IF e \in S THEN samples[e] ELSE previous[e]]

\* Mutant: a failed sample keeps the baselines of the one before.
ForgetNothing(S) == previous

\* clear(): a section that could not be read has no baselines.
Forget(S) == [e \in Entity |-> IF e \in S THEN None ELSE previous[e]]

\* Mutant: a name that comes back is the same thing.
KnownByName(e, identity) == previous[e] # None

\* There is a baseline, of the same starttime, ifindex or inode.
Known(e, identity) == previous[e] # None /\ previous[e].identity = identity

\* CounterRate: not for a counter that went back, nor without an interval; one that
\* did not move has the rate 0.
HasRate(e, identity, order) == Known(e, identity) /\ order # "back" /\ timed

Rate(e, of, identity) ==
    [entity |-> e, of |-> of, identity |-> identity, from |-> previous[e]]

----------------------------------------------------------------------------
(***************************************************************************)
(* Collect.  A section ends by setting its state; an exception is the      *)
(* state "unavailable".                                                    *)
(***************************************************************************)
Following ==
    [cpu |-> "memory", memory |-> "processes", processes |-> "network", network |-> "disk_io",
     disk_io |-> "filesystem", filesystem |-> "load", load |-> "psi", psi |-> "cgroup",
     cgroup |-> "idle"]

Finish(s, result) ==
    /\ state' = [state EXCEPT ![s] = result]
    /\ pc' = Following[s]
    /\ timed' = (timed \/ s = "cgroup")
    /\ pids' = {} /\ rows' = {} /\ next' = Blank /\ valid' = TRUE

Older(n) == IF n = 0 THEN 1 ELSE 2

\* An interval has passed.
Begin ==
    /\ pc = "idle" /\ ~stop
    /\ pc' = "cpu" /\ rates' = {}
    /\ previous' = [e \in Entity |->
           IF previous[e] = None THEN None
           ELSE [previous[e] EXCEPT !.age = Older(@)]]
    /\ UNCHANGED <<machine, stop, timed, cg_identity, section, state>>

\* Mutant: the baseline is only replaced by a sample in which every rate is valid.
CpuBaselineWhenValid(lines, used) ==
    IF used = lines THEN Replace(Cpus, [e \in Entity |-> IF e \in lines THEN Sample(life[e], 0, "same") ELSE None])
    ELSE previous

CpuBaseline(lines, used) ==
    Replace(Cpus, [e \in Entity |-> IF e \in lines THEN Sample(life[e], 0, "same") ELSE None])

\* A line that is malformed is skipped.
ParseCpu == (Cpus \cap present) \ broken

\* None of the times of the CPU went back, and their sum, idle included, grew.
CpuUsage(c) == Known(c, 0) /\ previous[c].now = "on"

Cpu ==
    /\ pc = "cpu"
    /\ LET lines == ParseCpu
           used  == {c \in lines : CpuUsage(c)}
           cold  == \A c \in Cpus : previous[c] = None
       IN  IF "cpu" \in broken \/ Aggregate \notin lines
             THEN /\ previous' = Forget(Cpus) /\ rates' = {}
                  /\ Finish("cpu", "unavailable")
             ELSE /\ previous' = CpuBaseline(lines, used)
                  /\ rates' = {Rate(c, life[c], 0) : c \in used}
                  /\ Finish("cpu", IF used = lines THEN "ok"
                                   ELSE IF cold THEN "warming_up" ELSE "partial")
    /\ UNCHANGED <<machine, stop, cg_identity>>

\* Memory, Filesystem and Load keep nothing from one sample to the next.
Gauge(s) ==
    /\ pc = s
    /\ Finish(s, IF s \in broken THEN "unavailable" ELSE "ok")
    /\ rates' = {}
    /\ UNCHANGED <<machine, stop, previous, cg_identity>>

Memory == Gauge("memory")

Filesystem == Gauge("filesystem")

Load == Gauge("load")

\* The files in which "some avg10" was found.
ParsePressure == PressureFiles \ broken

Pressure ==
    /\ pc = "psi"
    /\ Finish("psi", CASE ParsePressure = PressureFiles -> "ok"
                       [] ParsePressure = {}            -> "unavailable"
                       [] OTHER                         -> "partial")
    /\ rates' = {}
    /\ UNCHANGED <<machine, stop, previous, cg_identity>>

----------------------------------------------------------------------------
PidList == Pids \cap present

\* Processes: the directory is read first, then one file per PID.
ProcessList ==
    /\ pc = "processes" /\ rates' = {}
    /\ IF "processes" \in broken
         THEN previous' = Forget(Pids) /\ Finish("processes", "unavailable")
         ELSE /\ pids' = PidList
              /\ pc' = "process"
              /\ UNCHANGED <<timed, previous, rows, next, valid, state>>
    /\ UNCHANGED <<machine, stop, cg_identity>>

\* The file of the process can be read and holds what it should.
ParseProcess(p) == p \in present \ broken

\* One process: it may be gone, be unreadable, or be another one by now.
Process(p) ==
    /\ pc = "process" /\ ~stop /\ p \in pids
    /\ pids' = pids \ {p}
    /\ \/ /\ p \notin present
          /\ UNCHANGED <<next, valid, rates>>
       \/ /\ p \in present \cap broken
          /\ valid' = FALSE
          /\ UNCHANGED <<next, rates>>
       \/ /\ ParseProcess(p)
          /\ next' = [next EXCEPT ![p] = Sample(life[p], life[p], "same")]
          /\ rates' = rates \cup {Rate(x, life[x], life[x]) : x \in
                {y \in {p} : HasRate(y, life[y], previous[y].now)}}
          /\ UNCHANGED valid
    /\ UNCHANGED <<machine, stop, pc, timed, previous, cg_identity, rows, state>>

\* The list is done, or the loop was left because of the stop token.
ProcessesDone ==
    /\ pc = "process" /\ (pids = {} \/ stop)
    /\ previous' = Replace(Pids, next)
    /\ Finish("processes", IF valid /\ pids = {} THEN "ok" ELSE "partial")
    /\ UNCHANGED <<machine, stop, cg_identity, rates>>

----------------------------------------------------------------------------
\* Network: /proc/net/dev is read at once, the ifindex of each row after it.
NetworkRead ==
    /\ pc = "network" /\ rates' = {}
    /\ IF "network" \in broken
         THEN previous' = Forget(Interfaces) /\ Finish("network", "unavailable")
         ELSE /\ rows' = {Row(i) : i \in (Interfaces \cap present) \ broken}
              /\ valid' = (Interfaces \cap present \cap broken = {})
              /\ pc' = "interface"
              /\ UNCHANGED <<timed, previous, pids, next, state>>
    /\ UNCHANGED <<machine, stop, cg_identity>>

\* Without an ifindex the name is the identity.
Interface(r) ==
    /\ pc = "interface" /\ r \in rows
    /\ LET i == r.entity
           identity == IF "ifindex" \in broken \/ i \notin present THEN 0 ELSE life[i]
           rated == HasRate(i, identity, r.was)
       IN  /\ next' = [next EXCEPT ![i] = Sample(r.of, identity, r.since)]
           /\ rates' = rates \cup (IF rated THEN {Rate(i, r.of, identity)} ELSE {})
           /\ valid' = (valid /\ rated)
    /\ rows' = rows \ {r}
    /\ UNCHANGED <<machine, stop, pc, timed, previous, cg_identity, pids, state>>

NetworkDone ==
    /\ pc = "interface" /\ rows = {}
    /\ previous' = Replace(Interfaces, next)
    /\ Finish("network", IF valid THEN "ok"
                         ELSE IF \A i \in Interfaces : previous[i] = None THEN "warming_up"
                         ELSE "partial")
    /\ UNCHANGED <<machine, stop, cg_identity, rates>>

----------------------------------------------------------------------------
\* Disk: a row is known by its numbers and name only.
Disk ==
    /\ pc = "disk_io"
    /\ LET lines == (Disks \cap present) \ broken
           cold  == \A d \in Disks : previous[d] = None
       IN  IF "disk_io" \in broken
             THEN previous' = Forget(Disks) /\ rates' = {} /\ Finish("disk_io", "unavailable")
             ELSE /\ previous' = Replace(Disks, [e \in Entity |->
                          IF e \in lines THEN Sample(life[e], 0, "same") ELSE None])
                  /\ rates' = {Rate(d, life[d], 0) : d \in
                          {x \in lines : HasRate(x, 0, previous[x].now)}}
                  /\ Finish("disk_io", IF cold /\ lines # {} THEN "warming_up"
                                       ELSE IF Disks \cap present \cap broken # {} THEN "partial"
                                       ELSE "ok")
    /\ UNCHANGED <<machine, stop, cg_identity>>

----------------------------------------------------------------------------
\* The inode of the directory, zero without one.
DirectoryIdentity == IF Cgroup \in present THEN life[Cgroup] ELSE 0

\* Cgroup: the directory is identified first, its files are read after that.
CgroupIdentity ==
    /\ pc = "cgroup" /\ rates' = {}
    /\ LET identity == DirectoryIdentity IN
        /\ cg_identity' = identity
        /\ previous' = IF identity = 0 \/ identity # cg_identity THEN Forget({Cgroup}) ELSE previous
        /\ IF identity = 0 THEN Finish("cgroup", "unavailable")
           ELSE pc' = "memory.current" /\ UNCHANGED <<timed, section, state>>
    /\ UNCHANGED <<machine, stop>>

\* memory.max, memory.events and cpu.max change no state.
CgroupMemory ==
    /\ pc = "memory.current"
    /\ pc' = "cpu.stat"
    /\ valid' = (Cgroup \in present /\ "memory.current" \notin broken)
    /\ UNCHANGED <<machine, stop, timed, previous, cg_identity, pids, rows, next, state, rates>>

\* cpu.stat may lack its usage_usec; throttled_usec is treated like it.
CgroupCpu ==
    /\ pc = "cpu.stat"
    /\ LET stat  == Cgroup \in present /\ "cpu.stat" \notin broken
           usage == stat /\ Cgroup \notin broken
       IN  /\ previous' = IF usage
                THEN Replace({Cgroup}, [e \in Entity |-> Sample(life[e], cg_identity, "same")])
                ELSE Forget({Cgroup})
           /\ rates' = IF usage /\ HasRate(Cgroup, cg_identity, previous[Cgroup].now)
                         THEN {Rate(Cgroup, life[Cgroup], cg_identity)} ELSE {}
           /\ Finish("cgroup", IF valid /\ stat THEN "ok"
                               ELSE IF valid \/ stat THEN "partial" ELSE "unavailable")
    /\ UNCHANGED <<machine, stop, cg_identity>>

\* The worker returns instead of taking another sample.
Leave ==
    /\ pc = "idle" /\ stop
    /\ pc' = "done"
    /\ UNCHANGED <<machine, stop, timed, previous, cg_identity, section, state, rates>>

Collect ==
    \/ Begin \/ Cpu \/ Memory \/ Filesystem \/ Load \/ Pressure
    \/ ProcessList \/ ProcessesDone \/ \E p \in pids : Process(p)
    \/ NetworkRead \/ NetworkDone \/ \E r \in rows : Interface(r)
    \/ Disk \/ CgroupIdentity \/ CgroupMemory \/ CgroupCpu \/ Leave

----------------------------------------------------------------------------
(***************************************************************************)
(* The machine (external).                                                 *)
(***************************************************************************)

\* The counters of e are anywhere against what is stored of it.
Moves(e) ==
    /\ \E o \in Orders(e) :
         previous' = [previous EXCEPT ![e] = IF @ = None THEN None ELSE [@ EXCEPT !.now = o]]
    /\ \E o \in Orders(e) :
         next' = [next EXCEPT ![e] = IF @ = None THEN None ELSE [@ EXCEPT !.now = o]]
    /\ \E o \in Orders(e) :
         rows' = {[r EXCEPT !.since = IF r.entity = e THEN o ELSE @] : r \in rows}
    /\ UNCHANGED <<stop, pc, timed, cg_identity, pids, valid, state, rates>>

\* Work is done, or the counter wraps or is reset (iowait may also go back).
Change(e) ==
    /\ pc # "done" /\ e \in present
    /\ Moves(e)
    /\ UNCHANGED machine

\* A process exits, an interface, a disk, a CPU or the cgroup is removed.
Vanish(e) ==
    /\ pc # "done" /\ e \in present \ {Aggregate}
    /\ present' = present \ {e}
    /\ UNCHANGED <<life, broken, stop, pc, timed, previous, cg_identity, section, state, rates>>

\* Its name is used again, with counters of its own; a CPU keeps its counters.
Return(e) ==
    /\ pc # "done" /\ e \in Entity \ present
    /\ present' = present \cup {e}
    /\ \/ e \in Cpus /\ life' = life
       \/ e \notin Cpus /\ life[e] < MaxLives /\ life' = [life EXCEPT ![e] = @ + 1]
    /\ Moves(e)
    /\ UNCHANGED broken

\* A file cannot be read or a row not be parsed, until it can again.
Break(x) ==
    /\ pc # "done" /\ x \in Breakable \ broken
    /\ broken' = broken \cup {x}
    /\ UNCHANGED <<present, life, stop, pc, timed, previous, cg_identity, section, state, rates>>

Repair(x) ==
    /\ pc # "done" /\ x \in broken
    /\ broken' = broken \ {x}
    /\ UNCHANGED <<present, life, stop, pc, timed, previous, cg_identity, section, state, rates>>

Machine(x) ==
    \/ x \in Entity /\ (Change(x) \/ Vanish(x) \/ Return(x))
    \/ Break(x) \/ Repair(x)

Stop ==
    /\ ~stop /\ stop' = TRUE
    /\ UNCHANGED <<machine, pc, timed, previous, cg_identity, section, state, rates>>

Next == Collect \/ Stop \/ \E x \in Breakable : Machine(x)

\* The worker thread keeps running.
Spec == Init /\ [][Next]_vars /\ WF_vars(Collect)

----------------------------------------------------------------------------
(***************************************************************************)
(* Properties.                                                             *)
(***************************************************************************)

\* Every rate is a difference over exactly the last interval: a source, row or
\* process that was missing from a sample has no baseline in the next one
\* (the clear() calls, and the maps replaced as a whole).
RateSpansOneInterval == \A r \in rates : r.from.age = 1

\* Two samples that a rate compares are of the same process, interface, cgroup
\* or CPU, unless the row and the identity stored with it come from different
\* lives (the two files were read around a replacement), or there was no
\* identity to read.  Processes have neither exception: one file holds the
\* ticks and the starttime.  A disk row has no identity but its name.
RatesOfOneLife ==
    \A r \in rates : r.of # r.from.of =>
        \/ r.entity \in Disks
        \/ r.entity \in Interfaces \cup {Cgroup}
             /\ (r.identity = 0 \/ r.identity # r.of \/ r.from.identity # r.from.of)

\* What /ready asks of a snapshot (Reactor::Route).
Ready == \A s \in {"cpu", "memory", "processes"} : state[s] = "ok"

\* No CPU comes or goes, and between two samples the times of every CPU grow and
\* none goes back.
CpusWorkOn ==
    /\ present' \cap Cpus = present \cap Cpus
    /\ pc = "cpu" /\ pc' # "cpu" =>
          \A c \in Cpus \cap present : previous[c] # None => previous[c].now = "on"

\* Whatever happened before, once everything can be read again and the CPUs work on,
\* every later snapshot of a worker that is not stopped is ready, though processes,
\* interfaces, disks and the cgroup still come and go: no section stays "partial" or
\* "warming_up" because of an old baseline.
ReadyAgain ==
    [](~stop) /\ <>[](broken = {}) /\ <>[][CpusWorkOn]_vars => <>[](pc = "idle" => Ready)
=============================================================================
