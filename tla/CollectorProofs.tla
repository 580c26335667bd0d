-------------------------- MODULE CollectorProofs --------------------------
(***************************************************************************)
(* For any number of CPUs, processes, interfaces and disks: every rate is  *)
(* a difference over the last interval, between two samples of one thing.  *)
(***************************************************************************)
EXTENDS Collector, TLAPS

Order == {"same", "on", "back"}

Samples == [of : Nat, identity : Nat, age : 0..2, now : Order]

Rows == [entity : Interfaces, of : Nat, was : Order, since : Order]

Places ==
    Sections \cup {"idle", "done", "process", "interface", "memory.current", "cpu.stat"}

TypeOK ==
    /\ life \in [Entity -> Nat]
    /\ previous \in [Entity -> Samples] /\ next \in [Entity -> Samples]
    /\ cg_identity \in Nat /\ pc \in Places
    /\ pids \subseteq Pids /\ rows \subseteq Rows

\* The things whose section is over when Collect is at a place.
Seen(at) ==
    {e \in Entity :
        \/ at \in {"idle", "done"}
        \/ e \in Cpus /\ at # "cpu"
        \/ e \in Pids /\ at \notin {"cpu", "memory", "processes", "process"}
        \/ e \in Interfaces
             /\ at \notin {"cpu", "memory", "processes", "process", "network", "interface"}
        \/ e \in Disks
             /\ at \notin {"cpu", "memory", "processes", "process", "network", "interface",
                           "disk_io"}}

\* A baseline is of this sample if its section is over, and of the last if not.
AgeOK == \A e \in Entity : previous[e] # None => previous[e].age = IF e \in Seen(pc) THEN 0 ELSE 1

NextOK == \A e \in Entity : next[e].age = 0

\* A CPU has one life; what is stored of a process has the identity of its life.
LifeOK ==
    /\ \A c \in Cpus : life[c] = 1 /\ (previous[c] # None => previous[c].of = 1)
    /\ \A p \in Pids : previous[p].identity = previous[p].of /\ next[p].identity = next[p].of

RatesOK == RateSpansOneInterval /\ RatesOfOneLife

IndInv == TypeOK /\ AgeOK /\ NextOK /\ LifeOK /\ RatesOK

LEMMA NoneType == None \in Samples /\ None.age = 0 /\ None.identity = None.of
BY DEF None, Samples, Order

\* What Sample makes.
LEMMA SampleType ==
    ASSUME NEW of \in Nat, NEW identity \in Nat, NEW now \in Order
    PROVE  /\ Sample(of, identity, now) \in Samples
           /\ Sample(of, identity, now).age = 0
           /\ Sample(of, identity, now).of = of
           /\ Sample(of, identity, now).identity = identity
BY DEF Sample, Samples

\* A baseline that is known and of a section not yet over is one interval old.
LEMMA RateAge ==
    ASSUME AgeOK, NEW e \in Entity, e \notin Seen(pc), NEW of, NEW identity, Known(e, identity)
    PROVE  /\ Rate(e, of, identity).from.age = 1
           /\ Rate(e, of, identity).from = previous[e]
           /\ Rate(e, of, identity).from.identity = identity
           /\ Rate(e, of, identity).entity = e
           /\ Rate(e, of, identity).of = of /\ Rate(e, of, identity).identity = identity
BY DEF AgeOK, Known, Rate

\* Rates that are gone or kept are right.
LEMMA RatesKept == ASSUME RatesOK, rates' \in {rates, {}} PROVE RatesOK'
BY DEF RatesOK, RateSpansOneInterval, RatesOfOneLife

\* The baselines of S are of this sample, and so they are seen from the next
\* place on; the others are as they were.
LEMMA AgesReplaced ==
    ASSUME TypeOK, AgeOK, NEW S \in SUBSET Entity, NEW samples \in [Entity -> Samples],
           \A e \in S : samples[e].age = 0,
           previous' = Replace(S, samples),
           Seen(pc') = Seen(pc) \cup S
    PROVE  AgeOK' /\ previous' \in [Entity -> Samples]
<1>1. \A e \in Entity : previous'[e] = IF e \in S THEN samples[e] ELSE previous[e]
  BY DEF Replace
<1>2. previous' \in [Entity -> Samples]
  BY DEF Replace, TypeOK
<1>3. \A e \in Entity : (e \in Seen(pc)') <=> (e \in Seen(pc) \/ e \in S)
  OBVIOUS
<1> QED BY <1>1, <1>2, <1>3 DEF AgeOK

LEMMA AgesForgotten ==
    ASSUME TypeOK, AgeOK, NEW S \in SUBSET Entity,
           previous' = Forget(S),
           Seen(pc') = Seen(pc) \cup S
    PROVE  AgeOK' /\ previous' \in [Entity -> Samples]
<1>1. \A e \in Entity : previous'[e] = IF e \in S THEN None ELSE previous[e]
  BY DEF Forget
<1>2. previous' \in [Entity -> Samples]
  BY NoneType DEF Forget, TypeOK
<1>3. \A e \in Entity : (e \in Seen(pc)') <=> (e \in Seen(pc) \/ e \in S)
  OBVIOUS
<1> QED BY <1>1, <1>2, <1>3 DEF AgeOK

\* The end of a section empties what was collected in it.
LEMMA FinishOK ==
    ASSUME NEW s \in Sections, NEW result, Finish(s, result)
    PROVE  /\ pc' = Following[s] /\ pc' \in Places
           /\ pids' = {} /\ rows' = {}
           /\ next' \in [Entity -> Samples] /\ NextOK'
           /\ \A p \in Pids : next'[p].identity = next'[p].of
<1>1. pc' = Following[s] /\ pids' = {} /\ rows' = {} /\ next' = Blank
  BY DEF Finish
<1>2. pc' \in Places
  BY <1>1 DEF Following, Places, Sections
<1>3. next' \in [Entity -> Samples] /\ \A e \in Entity : next'[e] = None
  BY <1>1, NoneType DEF Blank
<1> QED BY <1>1, <1>2, <1>3, NoneType DEF NextOK, Entity

\* Where the sections end, in terms of what has been seen.
LEMMA SeenNext ==
    /\ Seen("memory") = Seen("cpu") \cup Cpus
    /\ Seen("processes") = Seen("memory") /\ Seen("process") = Seen("processes")
    /\ Seen("network") = Seen("process") \cup Pids /\ Seen("interface") = Seen("network")
    /\ Seen("disk_io") = Seen("interface") \cup Interfaces
    /\ Seen("filesystem") = Seen("disk_io") \cup Disks
    /\ Seen("load") = Seen("filesystem") /\ Seen("psi") = Seen("load")
    /\ Seen("cgroup") = Seen("psi") /\ Seen("memory.current") = Seen("cgroup")
    /\ Seen("cpu.stat") = Seen("memory.current")
    /\ Seen("idle") = Seen("cpu.stat") \cup {Cgroup} /\ Seen("done") = Seen("idle")
    /\ Seen("idle") = Entity /\ Seen("cpu") = {}
BY DEF Seen, Entity

LEMMA NotSeen ==
    /\ Cpus \cap Seen("cpu") = {} /\ Pids \cap Seen("process") = {}
    /\ Interfaces \cap Seen("interface") = {} /\ Disks \cap Seen("disk_io") = {}
    /\ Cgroup \notin Seen("cpu.stat")
BY CollectorAssumption DEF Seen, Entity

LEMMA Subsets ==
    /\ Cpus \subseteq Entity /\ Pids \subseteq Entity /\ Interfaces \subseteq Entity
    /\ Disks \subseteq Entity /\ Cgroup \in Entity
BY DEF Entity
----------------------------------------------------------------------------
LEMMA InitOK == Init => IndInv
<1> SUFFICES ASSUME Init PROVE IndInv
  OBVIOUS
<1>1. TypeOK
  BY NoneType DEF Init, TypeOK, Blank, Places
<1>2. \A e \in Entity : previous[e] = None /\ next[e] = None
  BY DEF Init, Blank
<1>3. AgeOK /\ NextOK
  BY <1>2, NoneType DEF AgeOK, NextOK
<1>4. LifeOK
  BY <1>2, NoneType, Subsets DEF LifeOK, Init
<1>5. RatesOK
  BY DEF Init, RatesOK, RateSpansOneInterval, RatesOfOneLife
<1> QED BY <1>1, <1>3, <1>4, <1>5 DEF IndInv

\* A new sample: what is stored is of the last one now.
LEMMA BeginOK == ASSUME IndInv, Begin PROVE IndInv'
<1> USE DEF IndInv
<1>1. /\ pc = "idle" /\ pc' = "cpu" /\ rates' = {}
      /\ UNCHANGED <<life, next, cg_identity, pids, rows>>
      /\ previous' = [e \in Entity |-> IF previous[e] = None THEN None
                                        ELSE [previous[e] EXCEPT !.age = Older(@)]]
  BY DEF Begin, machine, section
<1>2. \A e \in Entity : previous[e] # None => previous[e].age = 0
  BY <1>1, SeenNext DEF AgeOK
<1>3. \A e \in Entity :
        /\ previous'[e] \in Samples /\ previous'[e].of = previous[e].of
        /\ previous'[e].identity = previous[e].identity
        /\ previous'[e] # None => previous[e] # None /\ previous'[e].age = 1
  <2> TAKE e \in Entity
  <2>1. CASE previous[e] = None
    BY <1>1, <2>1, NoneType
  <2>2. CASE previous[e] # None
    <3>1. previous'[e] = [previous[e] EXCEPT !.age = Older(@)] /\ previous[e] \in Samples
      BY <1>1, <2>2 DEF TypeOK
    <3>2. Older(previous[e].age) = 1
      BY <1>2, <2>2 DEF Older
    <3> QED BY <2>2, <3>1, <3>2 DEF Samples
  <2> QED BY <2>1, <2>2
<1>4. previous' \in [Entity -> Samples]
  BY <1>1, <1>3
<1>5. TypeOK'
  BY <1>1, <1>4 DEF TypeOK, Places, Sections
<1>6. AgeOK' /\ NextOK'
  BY <1>1, <1>3, SeenNext DEF AgeOK, NextOK
<1>7. LifeOK'
  BY <1>1, <1>3, Subsets DEF LifeOK
<1> QED BY <1>1, <1>5, <1>6, <1>7, RatesKept

\* Memory, filesystem, load and pressure have no baselines.
LEMMA GaugeOK == ASSUME IndInv, Memory \/ Filesystem \/ Load \/ Pressure PROVE IndInv'
<1> USE DEF IndInv
<1>1. /\ UNCHANGED <<life, previous, cg_identity>> /\ rates' = {}
      /\ \E s \in {"memory", "filesystem", "load", "psi"} : \E r : pc = s /\ Finish(s, r)
  BY DEF Memory, Filesystem, Load, Pressure, Gauge, machine
<1>2. PICK s \in {"memory", "filesystem", "load", "psi"} : \E r : pc = s /\ Finish(s, r)
  BY <1>1
<1>3. /\ pc = s /\ pc' = Following[s] /\ pc' \in Places /\ pids' = {} /\ rows' = {}
      /\ next' \in [Entity -> Samples] /\ NextOK'
      /\ \A p \in Pids : next'[p].identity = next'[p].of
  BY <1>2, FinishOK DEF Sections
<1>4. Seen(pc') = Seen(pc)
  BY <1>3, SeenNext DEF Following
<1>5. TypeOK' /\ LifeOK'
  BY <1>1, <1>3 DEF TypeOK, LifeOK
<1>6. AgeOK'
  BY <1>1, <1>4 DEF AgeOK
<1> QED BY <1>1, <1>3, <1>5, <1>6, RatesKept

LEMMA CpuOK == ASSUME IndInv, Cpu PROVE IndInv'
<1> USE DEF IndInv
<1>1. pc = "cpu" /\ UNCHANGED <<life, cg_identity>>
  BY DEF Cpu, machine
<1>2. \E r : Finish("cpu", r)
  BY DEF Cpu
<1>3. /\ pc' = "memory" /\ pc' \in Places /\ pids' = {} /\ rows' = {}
      /\ next' \in [Entity -> Samples] /\ NextOK'
      /\ \A p \in Pids : next'[p].identity = next'[p].of
  BY <1>2, FinishOK DEF Sections, Following
<1>4. Seen(pc') = Seen(pc) \cup Cpus
  BY <1>1, <1>3, SeenNext
<1>5. CASE previous' = Forget(Cpus) /\ rates' = {}
  <2>1. AgeOK' /\ previous' \in [Entity -> Samples]
    BY <1>4, <1>5, AgesForgotten, Subsets
  <2>2. \A e \in Entity : previous'[e] = IF e \in Cpus THEN None ELSE previous[e]
    BY <1>5 DEF Forget
  <2>3. TypeOK' /\ LifeOK'
    BY <1>1, <1>3, <2>1, <2>2, Subsets, CollectorAssumption DEF TypeOK, LifeOK
  <2> QED BY <1>3, <1>5, <2>1, <2>3, RatesKept
<1>6. CASE /\ previous' = CpuBaseline(ParseCpu, {c \in ParseCpu : CpuUsage(c)})
           /\ rates' = {Rate(c, life[c], 0) : c \in {d \in ParseCpu : CpuUsage(d)}}
  <2> DEFINE new == [e \in Entity |-> IF e \in ParseCpu THEN Sample(life[e], 0, "same") ELSE None]
  <2>1. \A e \in Entity : Sample(life[e], 0, "same") \in Samples /\ Sample(life[e], 0, "same").age = 0
                         /\ Sample(life[e], 0, "same").of = life[e]
    BY SampleType DEF TypeOK, Order
  <2>2. new \in [Entity -> Samples] /\ \A e \in Entity : new[e].age = 0
    BY <2>1, NoneType
  <2>3. \A e \in Cpus : new[e] # None => new[e].of = 1
    BY <2>1, Subsets DEF LifeOK
  <2>4. previous' = Replace(Cpus, new)
    BY <1>6 DEF CpuBaseline
  <2> HIDE DEF new
  <2>5. AgeOK' /\ previous' \in [Entity -> Samples]
    BY <1>4, <2>2, <2>4, AgesReplaced, Subsets
  <2>6. \A e \in Entity : previous'[e] = IF e \in Cpus THEN new[e] ELSE previous[e]
    BY <2>4 DEF Replace
  <2>7. TypeOK' /\ LifeOK'
    BY <1>1, <1>3, <2>3, <2>5, <2>6, Subsets, CollectorAssumption DEF TypeOK, LifeOK
  <2>8. ASSUME NEW r \in rates'
        PROVE  r.from.age = 1 /\ r.of = r.from.of
    <3>1. PICK c \in ParseCpu : CpuUsage(c) /\ r = Rate(c, life[c], 0)
      BY <1>6, <2>8
    <3>2. c \in Cpus /\ c \in Entity /\ c \notin Seen(pc) /\ Known(c, 0)
      BY <1>1, <3>1, NotSeen, Subsets DEF ParseCpu, CpuUsage
    <3>3. previous[c] # None
      BY <3>2 DEF Known
    <3> QED BY <3>1, <3>2, <3>3, RateAge DEF LifeOK
  <2>9. RatesOK'
    BY <2>8 DEF RatesOK, RateSpansOneInterval, RatesOfOneLife
  <2> QED BY <1>3, <2>5, <2>7, <2>9
<1> QED BY <1>5, <1>6 DEF Cpu
----------------------------------------------------------------------------
LEMMA ProcessListOK == ASSUME IndInv, ProcessList PROVE IndInv'
<1> USE DEF IndInv
<1>1. pc = "processes" /\ rates' = {} /\ UNCHANGED <<life, cg_identity>>
  BY DEF ProcessList, machine
<1>2. CASE previous' = Forget(Pids) /\ Finish("processes", "unavailable")
  <2>1. /\ pc' = "network" /\ pc' \in Places /\ pids' = {} /\ rows' = {}
        /\ next' \in [Entity -> Samples] /\ NextOK'
        /\ \A p \in Pids : next'[p].identity = next'[p].of
    BY <1>2, FinishOK DEF Sections, Following
  <2>2. AgeOK' /\ previous' \in [Entity -> Samples]
    BY <1>1, <1>2, <2>1, AgesForgotten, Subsets, SeenNext
  <2>3. \A e \in Entity : previous'[e] = IF e \in Pids THEN None ELSE previous[e]
    BY <1>2 DEF Forget
  <2>4. TypeOK'
    BY <1>1, <2>1, <2>2 DEF TypeOK
  <2>5. LifeOK'
    BY <1>1, <2>1, <2>3, NoneType, Subsets DEF LifeOK
  <2> QED BY <1>1, <2>1, <2>2, <2>4, <2>5, RatesKept
<1>3. CASE /\ pids' = PidList /\ pc' = "process"
           /\ UNCHANGED <<previous, rows, next>>
  <2>1. TypeOK'
    BY <1>1, <1>3 DEF TypeOK, PidList, Places
  <2>2. AgeOK' /\ NextOK' /\ LifeOK'
    BY <1>1, <1>3, SeenNext DEF AgeOK, NextOK, LifeOK
  <2> QED BY <1>1, <2>1, <2>2, RatesKept
<1> QED BY <1>2, <1>3 DEF ProcessList

\* The ticks and the starttime come from one file.
LEMMA ProcessOK == ASSUME IndInv, NEW p \in pids, Process(p) PROVE IndInv'
<1> USE DEF IndInv
<1>1. /\ pc = "process" /\ pids' = pids \ {p} /\ p \in Pids /\ p \in Entity
      /\ UNCHANGED <<life, cg_identity, pc, previous, rows>>
  BY Subsets DEF Process, machine, TypeOK
<1>2. CASE UNCHANGED <<next, rates>>
  <2>1. TypeOK' /\ AgeOK' /\ NextOK' /\ LifeOK'
    BY <1>1, <1>2 DEF TypeOK, AgeOK, NextOK, LifeOK
  <2> QED BY <1>2, <2>1, RatesKept
<1>3. CASE /\ next' = [next EXCEPT ![p] = Sample(life[p], life[p], "same")]
           /\ rates' = rates \cup {Rate(x, life[x], life[x]) : x \in
                 {y \in {p} : HasRate(y, life[y], previous[y].now)}}
  <2>1. /\ Sample(life[p], life[p], "same") \in Samples
        /\ Sample(life[p], life[p], "same").age = 0
        /\ Sample(life[p], life[p], "same").of = Sample(life[p], life[p], "same").identity
    <3> DEFINE l == life[p]
    <3>1. l \in Nat
      BY <1>1 DEF TypeOK
    <3> HIDE DEF l
    <3>2. /\ Sample(l, l, "same") \in Samples /\ Sample(l, l, "same").age = 0
          /\ Sample(l, l, "same").of = l /\ Sample(l, l, "same").identity = l
      BY <3>1, SampleType DEF Order
    <3> QED BY <3>2 DEF l
  <2>2. /\ next' \in [Entity -> Samples]
        /\ \A e \in Entity : next'[e] = IF e = p THEN Sample(life[p], life[p], "same") ELSE next[e]
    BY <1>1, <1>3, <2>1 DEF TypeOK
  <2>3. TypeOK' /\ AgeOK'
    BY <1>1, <2>2 DEF TypeOK, AgeOK
  <2>4. NextOK' /\ LifeOK'
    BY <1>1, <2>1, <2>2, Subsets DEF NextOK, LifeOK
  <2>5. ASSUME NEW r \in rates' \ rates
        PROVE  r.from.age = 1 /\ r.of = r.from.of
    <3>1. r = Rate(p, life[p], life[p]) /\ Known(p, life[p])
      BY <1>3, <2>5 DEF HasRate
    <3>2. p \notin Seen(pc)
      BY <1>1, NotSeen
    <3> QED BY <1>1, <3>1, <3>2, RateAge DEF LifeOK
  <2>6. RatesOK'
    BY <2>5 DEF RatesOK, RateSpansOneInterval, RatesOfOneLife
  <2> QED BY <2>3, <2>4, <2>6
<1> QED BY <1>2, <1>3 DEF Process

LEMMA ProcessesDoneOK == ASSUME IndInv, ProcessesDone PROVE IndInv'
<1> USE DEF IndInv
<1>1. /\ pc = "process" /\ previous' = Replace(Pids, next)
      /\ UNCHANGED <<life, cg_identity, rates>> /\ \E r : Finish("processes", r)
  BY DEF ProcessesDone, machine
<1>2. /\ pc' = "network" /\ pc' \in Places /\ pids' = {} /\ rows' = {}
      /\ next' \in [Entity -> Samples] /\ NextOK'
      /\ \A p \in Pids : next'[p].identity = next'[p].of
  BY <1>1, FinishOK DEF Sections, Following
<1>3. AgeOK' /\ previous' \in [Entity -> Samples]
  BY <1>1, <1>2, AgesReplaced, Subsets, SeenNext DEF NextOK, TypeOK
<1>4. \A e \in Entity : previous'[e] = IF e \in Pids THEN next[e] ELSE previous[e]
  BY <1>1 DEF Replace
<1>5. TypeOK'
  BY <1>1, <1>2, <1>3 DEF TypeOK
<1>6. LifeOK'
  BY <1>1, <1>2, <1>4, Subsets, CollectorAssumption DEF LifeOK
<1> QED BY <1>1, <1>2, <1>3, <1>5, <1>6, RatesKept

----------------------------------------------------------------------------
LEMMA NetworkReadOK == ASSUME IndInv, NetworkRead PROVE IndInv'
<1> USE DEF IndInv
<1>1. pc = "network" /\ rates' = {} /\ UNCHANGED <<life, cg_identity>>
  BY DEF NetworkRead, machine
<1>2. CASE previous' = Forget(Interfaces) /\ Finish("network", "unavailable")
  <2>1. /\ pc' = "disk_io" /\ pc' \in Places /\ pids' = {} /\ rows' = {}
        /\ next' \in [Entity -> Samples] /\ NextOK'
        /\ \A p \in Pids : next'[p].identity = next'[p].of
    BY <1>2, FinishOK DEF Sections, Following
  <2>2. AgeOK' /\ previous' \in [Entity -> Samples]
    BY <1>1, <1>2, <2>1, AgesForgotten, Subsets, SeenNext
  <2>3. \A e \in Entity : previous'[e] = IF e \in Interfaces THEN None ELSE previous[e]
    BY <1>2 DEF Forget
  <2>4. TypeOK'
    BY <1>1, <2>1, <2>2 DEF TypeOK
  <2>5. LifeOK'
    BY <1>1, <2>1, <2>3, NoneType, Subsets DEF LifeOK
  <2> QED BY <1>1, <2>1, <2>2, <2>4, <2>5, RatesKept
<1>3. CASE /\ rows' = {Row(i) : i \in (Interfaces \cap present) \ broken}
           /\ pc' = "interface" /\ UNCHANGED <<previous, pids, next>>
  <2>1. \A i \in Interfaces : Row(i) \in Rows
    BY Subsets DEF Row, Rows, TypeOK, Samples, Order
  <2>2. TypeOK'
    BY <1>1, <1>3, <2>1 DEF TypeOK, Places
  <2>3. AgeOK' /\ NextOK' /\ LifeOK'
    BY <1>1, <1>3, SeenNext DEF AgeOK, NextOK, LifeOK
  <2> QED BY <1>1, <2>2, <2>3, RatesKept
<1> QED BY <1>2, <1>3 DEF NetworkRead

\* A rate needs the ifindex stored with the baseline.
LEMMA InterfaceOK == ASSUME IndInv, NEW row \in rows, Interface(row) PROVE IndInv'
<1> USE DEF IndInv
<1> DEFINE i == row.entity
           identity == IF "ifindex" \in broken \/ i \notin present THEN 0 ELSE life[i]
<1>1. /\ pc = "interface" /\ rows' = rows \ {row}
      /\ UNCHANGED <<life, cg_identity, pc, previous, pids>>
      /\ next' = [next EXCEPT ![i] = Sample(row.of, identity, row.since)]
      /\ rates' = rates \cup
            (IF HasRate(i, identity, row.was) THEN {Rate(i, row.of, identity)} ELSE {})
  BY DEF Interface, machine
<1>2. row \in Rows /\ i \in Interfaces /\ i \in Entity /\ row.of \in Nat /\ row.since \in Order
  BY Subsets DEF TypeOK, Rows
<1>3. identity \in Nat
  BY <1>2 DEF TypeOK
<1> HIDE DEF i, identity
<1> DEFINE sample == Sample(row.of, identity, row.since)
<1>4. sample \in Samples /\ sample.age = 0
  BY <1>2, <1>3, SampleType
<1> HIDE DEF sample
<1>5. /\ next' \in [Entity -> Samples]
      /\ \A e \in Entity : next'[e] = IF e = i THEN sample ELSE next[e]
  BY <1>1, <1>2, <1>4 DEF TypeOK, sample
<1>6. TypeOK' /\ AgeOK'
  BY <1>1, <1>5 DEF TypeOK, AgeOK
<1>7. NextOK'
  BY <1>4, <1>5 DEF NextOK
<1>8. LifeOK'
  BY <1>1, <1>2, <1>5, Subsets, CollectorAssumption DEF LifeOK
<1>9. ASSUME NEW r \in rates' \ rates
      PROVE  /\ r.from.age = 1 /\ r.entity \in Interfaces
             /\ r.from.identity = r.identity
  <2>1. r = Rate(i, row.of, identity) /\ Known(i, identity)
    BY <1>1, <1>9 DEF HasRate
  <2>2. i \notin Seen(pc)
    BY <1>1, <1>2, NotSeen
  <2> QED BY <1>2, <2>1, <2>2, RateAge
<1>10. RatesOK'
  BY <1>9 DEF RatesOK, RateSpansOneInterval, RatesOfOneLife
<1> QED BY <1>6, <1>7, <1>8, <1>10

LEMMA NetworkDoneOK == ASSUME IndInv, NetworkDone PROVE IndInv'
<1> USE DEF IndInv
<1>1. /\ pc = "interface" /\ previous' = Replace(Interfaces, next)
      /\ UNCHANGED <<life, cg_identity, rates>> /\ \E r : Finish("network", r)
  BY DEF NetworkDone, machine
<1>2. /\ pc' = "disk_io" /\ pc' \in Places /\ pids' = {} /\ rows' = {}
      /\ next' \in [Entity -> Samples] /\ NextOK'
      /\ \A p \in Pids : next'[p].identity = next'[p].of
  BY <1>1, FinishOK DEF Sections, Following
<1>3. AgeOK' /\ previous' \in [Entity -> Samples]
  BY <1>1, <1>2, AgesReplaced, Subsets, SeenNext DEF NextOK, TypeOK
<1>4. \A e \in Entity : previous'[e] = IF e \in Interfaces THEN next[e] ELSE previous[e]
  BY <1>1 DEF Replace
<1>5. TypeOK'
  BY <1>1, <1>2, <1>3 DEF TypeOK
<1>6. LifeOK'
  BY <1>1, <1>2, <1>4, Subsets, CollectorAssumption DEF LifeOK
<1> QED BY <1>1, <1>2, <1>3, <1>5, <1>6, RatesKept
----------------------------------------------------------------------------
\* A disk row is known by its name only: its rates span one interval.
LEMMA DiskOK == ASSUME IndInv, Disk PROVE IndInv'
<1> USE DEF IndInv
<1> DEFINE lines == (Disks \cap present) \ broken
<1>1. pc = "disk_io" /\ UNCHANGED <<life, cg_identity>> /\ \E r : Finish("disk_io", r)
  BY DEF Disk, machine
<1>2. /\ pc' = "filesystem" /\ pc' \in Places /\ pids' = {} /\ rows' = {}
      /\ next' \in [Entity -> Samples] /\ NextOK'
      /\ \A p \in Pids : next'[p].identity = next'[p].of
  BY <1>1, FinishOK DEF Sections, Following
<1>3. Seen(pc') = Seen(pc) \cup Disks
  BY <1>1, <1>2, SeenNext
<1>4. CASE previous' = Forget(Disks) /\ rates' = {}
  <2>1. AgeOK' /\ previous' \in [Entity -> Samples]
    BY <1>3, <1>4, AgesForgotten, Subsets
  <2>2. \A e \in Entity : previous'[e] = IF e \in Disks THEN None ELSE previous[e]
    BY <1>4 DEF Forget
  <2>3. TypeOK' /\ LifeOK'
    BY <1>1, <1>2, <2>1, <2>2, Subsets, CollectorAssumption DEF TypeOK, LifeOK
  <2> QED BY <1>2, <1>4, <2>1, <2>3, RatesKept
<1>5. CASE /\ previous' = Replace(Disks, [e \in Entity |->
                  IF e \in lines THEN Sample(life[e], 0, "same") ELSE None])
           /\ rates' = {Rate(d, life[d], 0) : d \in
                  {x \in lines : HasRate(x, 0, previous[x].now)}}
  <2> DEFINE new == [e \in Entity |-> IF e \in lines THEN Sample(life[e], 0, "same") ELSE None]
  <2>1. \A e \in Entity : Sample(life[e], 0, "same") \in Samples /\ Sample(life[e], 0, "same").age = 0
    BY SampleType DEF TypeOK, Order
  <2>2. new \in [Entity -> Samples] /\ \A e \in Entity : new[e].age = 0
    BY <2>1, NoneType
  <2>3. previous' = Replace(Disks, new)
    BY <1>5
  <2> HIDE DEF new
  <2>4. AgeOK' /\ previous' \in [Entity -> Samples]
    BY <1>3, <2>2, <2>3, AgesReplaced, Subsets
  <2>5. \A e \in Entity : previous'[e] = IF e \in Disks THEN new[e] ELSE previous[e]
    BY <2>3 DEF Replace
  <2>6. TypeOK' /\ LifeOK'
    BY <1>1, <1>2, <2>4, <2>5, Subsets, CollectorAssumption DEF TypeOK, LifeOK
  <2>7. ASSUME NEW r \in rates'
        PROVE  r.from.age = 1 /\ r.entity \in Disks
    <3>1. PICK d \in lines : HasRate(d, 0, previous[d].now) /\ r = Rate(d, life[d], 0)
      BY <1>5, <2>7
    <3>2. d \in Disks /\ d \in Entity /\ d \notin Seen(pc) /\ Known(d, 0)
      BY <1>1, <3>1, NotSeen, Subsets DEF HasRate
    <3> QED BY <3>1, <3>2, RateAge
  <2>8. RatesOK'
    BY <2>7 DEF RatesOK, RateSpansOneInterval, RatesOfOneLife
  <2> QED BY <1>2, <2>4, <2>6, <2>8
<1> QED BY <1>4, <1>5 DEF Disk
----------------------------------------------------------------------------
\* Another directory, or none: what is stored of the old one is gone.
LEMMA CgroupIdentityOK == ASSUME IndInv, CgroupIdentity PROVE IndInv'
<1> USE DEF IndInv
<1>1. /\ pc = "cgroup" /\ rates' = {} /\ life' = life
      /\ cg_identity' = DirectoryIdentity
      /\ previous' \in {Forget({Cgroup}), previous}
      /\ \/ previous' = Forget({Cgroup}) /\ Finish("cgroup", "unavailable")
         \/ pc' = "memory.current" /\ UNCHANGED <<pids, rows, next>>
  <2>1. CASE DirectoryIdentity = 0
    BY <2>1 DEF CgroupIdentity, machine
  <2>2. CASE DirectoryIdentity # 0
    BY <2>2 DEF CgroupIdentity, machine, section
  <2> QED BY <2>1, <2>2
<1>2. cg_identity' \in Nat
  BY <1>1, Subsets DEF DirectoryIdentity, TypeOK
<1>3. Forget({Cgroup}) \in [Entity -> Samples]
      /\ \A e \in Entity : Forget({Cgroup})[e] = IF e = Cgroup THEN None ELSE previous[e]
  BY NoneType DEF Forget, TypeOK
<1>4. previous' \in [Entity -> Samples]
      /\ \A e \in Entity : previous'[e] = previous[e] \/ (e = Cgroup /\ previous'[e] = None)
  <2>1. CASE previous' = previous
    BY <2>1 DEF TypeOK
  <2>2. CASE previous' = Forget({Cgroup})
    <3> DEFINE f == Forget({Cgroup})
    <3>1. previous' = f
      BY <2>2
    <3> HIDE DEF f
    <3> QED BY <1>3, <3>1 DEF f
  <2> QED BY <1>1, <2>1, <2>2
<1>5. \A e \in Cpus \cup Pids : previous'[e] = previous[e]
  BY <1>4, Subsets, CollectorAssumption
<1>6. CASE previous' = Forget({Cgroup}) /\ Finish("cgroup", "unavailable")
  <2>1. /\ pc' = "idle" /\ pc' \in Places /\ pids' = {} /\ rows' = {}
        /\ next' \in [Entity -> Samples] /\ NextOK'
        /\ \A p \in Pids : next'[p].identity = next'[p].of
    BY <1>6, FinishOK DEF Sections, Following
  <2>2. AgeOK'
    BY <1>1, <1>6, <2>1, AgesForgotten, Subsets, SeenNext
  <2>3. TypeOK' /\ LifeOK'
    BY <1>1, <1>2, <1>4, <1>5, <2>1 DEF TypeOK, LifeOK
  <2> QED BY <1>1, <2>1, <2>2, <2>3, RatesKept
<1>7. CASE pc' = "memory.current" /\ UNCHANGED <<pids, rows, next>>
  <2>1. TypeOK' /\ LifeOK' /\ NextOK'
    BY <1>1, <1>2, <1>4, <1>5, <1>7 DEF TypeOK, LifeOK, NextOK, Places
  <2>2. Seen(pc') = Seen(pc)
    BY <1>1, <1>7, SeenNext
  <2>3. AgeOK'
    BY <1>4, <2>2 DEF AgeOK
  <2> QED BY <1>1, <2>1, <2>3, RatesKept
<1> QED BY <1>1, <1>6, <1>7

LEMMA CgroupMemoryOK == ASSUME IndInv, CgroupMemory PROVE IndInv'
<1> USE DEF IndInv
<1>1. /\ pc = "memory.current" /\ pc' = "cpu.stat"
      /\ UNCHANGED <<life, previous, cg_identity, pids, rows, next, rates>>
  BY DEF CgroupMemory, machine
<1>2. TypeOK' /\ LifeOK' /\ NextOK'
  BY <1>1 DEF TypeOK, LifeOK, NextOK, Places
<1>3. AgeOK'
  BY <1>1, SeenNext DEF AgeOK
<1> QED BY <1>1, <1>2, <1>3, RatesKept

\* A rate needs the inode stored with the baseline.
LEMMA CgroupCpuOK == ASSUME IndInv, CgroupCpu PROVE IndInv'
<1> USE DEF IndInv
<1> DEFINE new == [e \in Entity |-> Sample(life[e], cg_identity, "same")]
<1>1. /\ pc = "cpu.stat" /\ UNCHANGED <<life, cg_identity>> /\ \E r : Finish("cgroup", r)
      /\ previous' \in {Replace({Cgroup}, new), Forget({Cgroup})}
      /\ \/ rates' = {}
         \/ /\ HasRate(Cgroup, cg_identity, previous[Cgroup].now)
            /\ rates' = {Rate(Cgroup, life[Cgroup], cg_identity)}
  BY DEF CgroupCpu, machine
<1>2. /\ pc' = "idle" /\ pc' \in Places /\ pids' = {} /\ rows' = {}
      /\ next' \in [Entity -> Samples] /\ NextOK'
      /\ \A p \in Pids : next'[p].identity = next'[p].of
  BY <1>1, FinishOK DEF Sections, Following
<1>3. Seen(pc') = Seen(pc) \cup {Cgroup}
  BY <1>1, <1>2, SeenNext
<1>4. \A e \in Entity : Sample(life[e], cg_identity, "same") \in Samples
                        /\ Sample(life[e], cg_identity, "same").age = 0
  BY SampleType DEF TypeOK, Order
<1>5. new \in [Entity -> Samples] /\ \A e \in Entity : new[e].age = 0
  BY <1>4
<1> HIDE DEF new
<1>6. AgeOK' /\ previous' \in [Entity -> Samples]
  <2> DEFINE S == {Cgroup}
  <2>1. S \in SUBSET Entity /\ \A e \in S : new[e].age = 0
    BY <1>5, Subsets
  <2>2. CASE previous' = Replace(S, new)
    <3> HIDE DEF S
    <3> QED BY <1>3, <1>5, <2>1, <2>2, AgesReplaced DEF S
  <2>3. CASE previous' = Forget(S)
    BY <1>3, <2>1, <2>3, AgesForgotten
  <2> QED BY <1>1, <2>2, <2>3
<1>7. \A e \in Cpus \cup Pids : previous'[e] = previous[e]
  BY <1>1, Subsets, CollectorAssumption DEF Replace, Forget
<1>8. TypeOK' /\ LifeOK'
  BY <1>1, <1>2, <1>6, <1>7 DEF TypeOK, LifeOK
<1>9. CASE rates' = {}
  BY <1>2, <1>6, <1>8, <1>9, RatesKept
<1>10. CASE /\ HasRate(Cgroup, cg_identity, previous[Cgroup].now)
            /\ rates' = {Rate(Cgroup, life[Cgroup], cg_identity)}
  <2>1. ASSUME NEW r \in rates'
        PROVE  r.from.age = 1 /\ r.entity = Cgroup /\ r.from.identity = r.identity
    <3>1. r = Rate(Cgroup, life[Cgroup], cg_identity) /\ Known(Cgroup, cg_identity)
      BY <1>10, <2>1 DEF HasRate
    <3>2. Cgroup \in Entity /\ Cgroup \notin Seen(pc)
      BY <1>1, NotSeen, Subsets
    <3> QED BY <3>1, <3>2, RateAge
  <2>2. RatesOK'
    BY <2>1 DEF RatesOK, RateSpansOneInterval, RatesOfOneLife
  <2> QED BY <1>2, <1>6, <1>8, <2>2
<1> QED BY <1>1, <1>9, <1>10
----------------------------------------------------------------------------
LEMMA LeaveOK == ASSUME IndInv, Leave PROVE IndInv'
<1> USE DEF IndInv
<1>1. /\ pc = "idle" /\ pc' = "done"
      /\ UNCHANGED <<life, previous, cg_identity, pids, rows, next, rates>>
  BY DEF Leave, machine, section
<1>2. TypeOK' /\ LifeOK' /\ NextOK'
  BY <1>1 DEF TypeOK, LifeOK, NextOK, Places
<1>3. AgeOK'
  BY <1>1, SeenNext DEF AgeOK
<1> QED BY <1>1, <1>2, <1>3, RatesKept

\* Where a counter is against what is stored is all that a change tells of it.
LEMMA MovesOK ==
    ASSUME IndInv, NEW e \in Entity, Moves(e), life' \in [Entity -> Nat],
           \A c \in Cpus : life'[c] = life[c]
    PROVE  IndInv'
<1> USE DEF IndInv
<1>1. PICK b1 \in Orders(e) :
        previous' = [previous EXCEPT ![e] = IF @ = None THEN None ELSE [@ EXCEPT !.now = b1]]
  BY DEF Moves
<1>2. PICK b2 \in Orders(e) :
        next' = [next EXCEPT ![e] = IF @ = None THEN None ELSE [@ EXCEPT !.now = b2]]
  BY DEF Moves
<1>3. PICK b3 \in Orders(e) :
        rows' = {[r EXCEPT !.since = IF r.entity = e THEN b3 ELSE @] : r \in rows}
  BY DEF Moves
<1>4. UNCHANGED <<pc, cg_identity, pids, rates>>
  BY DEF Moves
<1>0. Orders(e) \subseteq Order
  BY DEF Orders, Order
<1>5. \A s \in Samples : \A b \in Order :
        /\ [s EXCEPT !.now = b] \in Samples /\ [s EXCEPT !.now = b].of = s.of
        /\ [s EXCEPT !.now = b].identity = s.identity /\ [s EXCEPT !.now = b].age = s.age
  BY DEF Samples
<1>6. \A x \in Entity :
        /\ previous'[x] \in Samples /\ previous'[x].of = previous[x].of
        /\ previous'[x].identity = previous[x].identity /\ previous'[x].age = previous[x].age
        /\ previous'[x] # None => previous[x] # None
  BY <1>0, <1>1, <1>5 DEF TypeOK
<1>7. \A x \in Entity :
        /\ next'[x] \in Samples /\ next'[x].of = next[x].of
        /\ next'[x].identity = next[x].identity /\ next'[x].age = next[x].age
  BY <1>0, <1>2, <1>5 DEF TypeOK
<1>8. previous' \in [Entity -> Samples] /\ next' \in [Entity -> Samples]
  BY <1>1, <1>2, <1>6, <1>7 DEF TypeOK
<1>9. rows' \subseteq Rows
  BY <1>0, <1>3 DEF TypeOK, Rows
<1>10. TypeOK'
  BY <1>4, <1>8, <1>9 DEF TypeOK
<1>11. AgeOK' /\ NextOK'
  BY <1>4, <1>6, <1>7 DEF AgeOK, NextOK
<1>12. LifeOK'
  BY <1>6, <1>7, Subsets DEF LifeOK
<1> QED BY <1>4, <1>10, <1>11, <1>12, RatesKept

LEMMA MachineOK == ASSUME IndInv, NEW x \in Breakable, Machine(x) PROVE IndInv'
<1>1. CASE x \in Entity /\ Change(x)
  <2>1. Moves(x) /\ life' = life
    BY <1>1 DEF Change, machine
  <2> QED BY <1>1, <2>1, MovesOK DEF IndInv, TypeOK
<1>2. CASE x \in Entity /\ Return(x)
  <2>1. /\ Moves(x)
        /\ \/ x \in Cpus /\ life' = life
           \/ x \notin Cpus /\ life' = [life EXCEPT ![x] = @ + 1]
    BY <1>2 DEF Return
  <2>2. life \in [Entity -> Nat]
    BY DEF IndInv, TypeOK
  <2>3. life' \in [Entity -> Nat] /\ \A c \in Cpus : life'[c] = life[c]
    BY <1>2, <2>1, <2>2, Subsets
  <2> QED BY <1>2, <2>1, <2>3, MovesOK
<1>3. CASE Vanish(x) \/ Break(x) \/ Repair(x)
  <2>1. UNCHANGED <<life, previous, cg_identity, pc, pids, rows, next, rates>>
    BY <1>3 DEF Vanish, Break, Repair, section
  <2> QED
    BY <2>1 DEF IndInv, TypeOK, AgeOK, NextOK, LifeOK, RatesOK, RateSpansOneInterval, RatesOfOneLife
<1> QED BY <1>1, <1>2, <1>3 DEF Machine
----------------------------------------------------------------------------
LEMMA StepOK == IndInv /\ [Next]_vars => IndInv'
<1> SUFFICES ASSUME IndInv, [Next]_vars PROVE IndInv'
  OBVIOUS
<1>1. CASE Stop \/ UNCHANGED vars
  <2>1. UNCHANGED <<life, previous, cg_identity, pc, pids, rows, next, rates>>
    BY <1>1 DEF Stop, vars, machine, section
  <2> QED
    BY <2>1 DEF IndInv, TypeOK, AgeOK, NextOK, LifeOK, RatesOK, RateSpansOneInterval, RatesOfOneLife
<1>2. CASE \E x \in Breakable : Machine(x)
  BY <1>2, MachineOK
<1>3. CASE Collect
  BY <1>3, BeginOK, GaugeOK, CpuOK, ProcessListOK, ProcessOK, ProcessesDoneOK, NetworkReadOK,
     InterfaceOK, NetworkDoneOK, DiskOK, CgroupIdentityOK, CgroupMemoryOK, CgroupCpuOK, LeaveOK
     DEF Collect
<1> QED BY <1>1, <1>2, <1>3 DEF Next

\* Every rate the collector reports is a difference over exactly the last
\* interval, however sections fail and things come and go between the reads.
THEOREM RatesSpanOneInterval == Spec => []RateSpansOneInterval
<1>1. IndInv => RateSpansOneInterval
  BY DEF IndInv, RatesOK
<1> QED BY InitOK, StepOK, <1>1, PTL DEF Spec

\* Every rate compares two samples of one process, CPU, interface or cgroup,
\* but for a replacement between the two files of one sample, an interface
\* without an ifindex, and a disk, which has no identity but its name.
THEOREM RatesStayInOneLife == Spec => []RatesOfOneLife
<1>1. IndInv => RatesOfOneLife
  BY DEF IndInv, RatesOK
<1> QED BY InitOK, StepOK, <1>1, PTL DEF Spec
=============================================================================
