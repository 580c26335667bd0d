------------------------- MODULE RunqLatencyProofs -------------------------
(***************************************************************************)
(* For any number of CPUs and threads and any size of the map: a sample of *)
(* the profiler never reaches out of the wait it ends.                     *)
(***************************************************************************)
EXTENDS RunqLatency, TLAPS

Stored == {"none", "old", "now"}

TypeOK ==
    /\ thread \in [Tids -> {"none", "asleep", "waiting", "running"}]
    /\ running \in [Cpus -> Tids \cup {Idle}]
    /\ enqueued \in [Tids -> Stored]
    /\ switch \in [Cpus -> [tid : Tids \cup {Idle}, stamp : Stored]]
    /\ missed \in [Tids -> BOOLEAN]

\* The map holds nothing old of a thread whose wait was recorded.
WaitStamped == \A t \in Tids : thread[t] = "waiting" /\ ~missed[t] => enqueued[t] # "old"

\* The same of the stamp a CPU has looked up; its thread still waits.
LookupStamped ==
    \A c \in Cpus : switch[c].tid # Idle =>
        /\ thread[switch[c].tid] = "waiting"
        /\ missed[switch[c].tid] \/ switch[c].stamp = "now"

\* A CPU runs a running thread.
RunningRuns == \A c \in Cpus : running[c] # Idle => thread[running[c]] = "running"

\* No two CPUs run, or switch to, the same thread.
OnePlace ==
    \A c, d \in Cpus : c # d =>
        /\ running[c] # Idle => running[c] # running[d]
        /\ switch[c].tid # Idle => switch[c].tid # switch[d].tid

IndInv ==
    TypeOK /\ WaitStamped /\ LookupStamped /\ RunningRuns /\ OnePlace /\ SampleWithinWait

(***************************************************************************)
(* What an update of the map leaves behind.                                *)
(***************************************************************************)

\* Whatever is evicted, the thread has its new stamp and no other thread gets one.
LEMMA UpdatedStamps ==
    ASSUME TypeOK, NEW t \in Tids, NEW stamp \in Stored \ {"none"}, NEW e \in Updated(t, stamp)
    PROVE  /\ e \in [Tids -> Stored] /\ e[t] = stamp
           /\ \A u \in Tids \ {t} : e[u] \in {enqueued[u], "none"}
<1>1. CASE enqueued[t] = "none" /\ Cardinality(Entries) >= Capacity
  <2>1. PICK u \in Entries : e = [enqueued EXCEPT ![t] = stamp, ![u] = "none"]
    BY <1>1 DEF Updated
  <2>2. u \in Tids /\ u # t
    BY <1>1, <2>1 DEF Entries
  <2> QED BY <2>1, <2>2 DEF TypeOK, Stored
<1>2. CASE ~(enqueued[t] = "none" /\ Cardinality(Entries) >= Capacity)
  <2>1. e = [enqueued EXCEPT ![t] = stamp]
    BY <1>2 DEF Updated
  <2> QED BY <2>1 DEF TypeOK, Stored
<1> QED BY <1>1, <1>2

\* A wait that begins is stamped or known to be missed, and the stamps and
\* waits of the other threads are as they were, or gone.
LEMMA TracedStamps ==
    ASSUME TypeOK, NEW program, NEW t \in Tids, NEW begins \in BOOLEAN,
           Traced(program, t, begins)
    PROVE  /\ enqueued' \in [Tids -> Stored] /\ missed' \in [Tids -> BOOLEAN]
           /\ begins => missed'[t] \/ enqueued'[t] = "now"
           /\ ~begins => missed'[t] = missed[t]
           /\ ~begins /\ thread[t] = "waiting" => enqueued'[t] \in {enqueued[t], "now"}
           /\ \A u \in Tids \ {t} :
                 missed'[u] = missed[u] /\ enqueued'[u] \in {enqueued[u], "none"}
           /\ outcome'.kind # "sample"
<1> DEFINE stamp == IF begins \/ thread[t] = "waiting" THEN "now" ELSE "old"
<1>1. CASE /\ enqueued' \in Updated(t, stamp)
           /\ missed' = IF begins THEN [missed EXCEPT ![t] = FALSE] ELSE missed
           /\ outcome' = Counted("none")
  <2>1. stamp \in Stored \ {"none"}
    BY DEF Stored
  <2>2. /\ enqueued' \in [Tids -> Stored] /\ enqueued'[t] = stamp
        /\ \A u \in Tids \ {t} : enqueued'[u] \in {enqueued[u], "none"}
    <3> HIDE DEF stamp
    <3> QED BY <1>1, <2>1, UpdatedStamps
  <2>3. missed' \in [Tids -> BOOLEAN] /\ \A u \in Tids \ {t} : missed'[u] = missed[u]
    BY <1>1 DEF TypeOK
  <2>4. ~begins => missed'[t] = missed[t]
    BY <1>1
  <2>5. outcome'.kind # "sample"
    BY <1>1 DEF Counted
  <2> QED BY <2>2, <2>3, <2>4, <2>5
<1>2. CASE /\ enqueued' = [enqueued EXCEPT ![t] = IF begins /\ @ # "none" THEN "old" ELSE @]
           /\ missed' = IF begins THEN [missed EXCEPT ![t] = TRUE] ELSE missed
           /\ outcome' = Counted("update_failure") \/ outcome' = Counted("none")
  <2>1. enqueued' \in [Tids -> Stored] /\ \A u \in Tids \ {t} : enqueued'[u] = enqueued[u]
    BY <1>2 DEF TypeOK, Stored
  <2>2. ~begins => enqueued'[t] = enqueued[t]
    BY <1>2 DEF TypeOK
  <2>3. missed' \in [Tids -> BOOLEAN] /\ \A u \in Tids \ {t} : missed'[u] = missed[u]
    BY <1>2 DEF TypeOK
  <2>4. (begins => missed'[t]) /\ (~begins => missed'[t] = missed[t])
    BY <1>2 DEF TypeOK
  <2>5. outcome'.kind # "sample"
    BY <1>2 DEF Counted
  <2> QED BY <2>1, <2>2, <2>3, <2>4, <2>5
<1> QED BY <1>1, <1>2 DEF Traced, Enqueue, NotEnqueued

----------------------------------------------------------------------------
LEMMA InitOK == Init => IndInv
<1> SUFFICES ASSUME Init PROVE IndInv
  OBVIOUS
<1>1. TypeOK
  BY DEF Init, TypeOK, Stored, NoSwitch
<1>2. WaitStamped /\ LookupStamped /\ RunningRuns /\ OnePlace
  BY RunqAssumption DEF Init, WaitStamped, LookupStamped, RunningRuns, OnePlace, NoSwitch
<1>3. SampleWithinWait
  BY DEF Init, SampleWithinWait, Counted
<1> QED BY <1>1, <1>2, <1>3 DEF IndInv

\* The wakeup of a sleeping thread begins a wait; of any other it only stores a
\* stamp, which is of the present wait if there is one.
LEMMA WakeupOK == ASSUME IndInv, NEW t \in Tids, on_wakeup(t) PROVE IndInv'
<1> USE DEF IndInv
<1> DEFINE begins == thread[t] = "asleep"
<1>1. Traced("on_wakeup", t, begins) /\ begins \in BOOLEAN
  BY DEF on_wakeup
<1>2. /\ thread' = [thread EXCEPT ![t] = IF @ = "asleep" THEN "waiting" ELSE @]
      /\ running' = running /\ switch' = switch
      /\ \A c \in Cpus : switch[c].tid # t
  BY DEF on_wakeup, SwitchedIn
<1> HIDE DEF begins
<1>3. /\ enqueued' \in [Tids -> Stored] /\ missed' \in [Tids -> BOOLEAN]
      /\ begins => missed'[t] \/ enqueued'[t] = "now"
      /\ ~begins => missed'[t] = missed[t]
      /\ ~begins /\ thread[t] = "waiting" => enqueued'[t] \in {enqueued[t], "now"}
      /\ \A u \in Tids \ {t} :
            missed'[u] = missed[u] /\ enqueued'[u] \in {enqueued[u], "none"}
      /\ outcome'.kind # "sample"
  BY <1>1, TracedStamps
<1>4. TypeOK'
  BY <1>2, <1>3 DEF TypeOK
<1>5. WaitStamped'
  BY <1>2, <1>3 DEF WaitStamped, TypeOK, begins
<1>6. LookupStamped'
  BY <1>2, <1>3 DEF LookupStamped, TypeOK
<1>7. RunningRuns' /\ OnePlace'
  BY <1>2 DEF RunningRuns, OnePlace, TypeOK
<1>8. SampleWithinWait'
  BY <1>3 DEF SampleWithinWait
<1> QED BY <1>4, <1>5, <1>6, <1>7, <1>8

\* A new thread overwrites what an earlier thread of its id has left.
LEMMA NewTaskOK == ASSUME IndInv, NEW t \in Tids, on_new_task(t) PROVE IndInv'
<1> USE DEF IndInv
<1>1. /\ thread[t] = "none" /\ thread' = [thread EXCEPT ![t] = "waiting"]
      /\ running' = running /\ switch' = switch
  BY DEF on_new_task
<1>2. /\ enqueued' \in [Tids -> Stored] /\ missed' \in [Tids -> BOOLEAN]
      /\ missed'[t] \/ enqueued'[t] = "now"
      /\ \A u \in Tids \ {t} :
            missed'[u] = missed[u] /\ enqueued'[u] \in {enqueued[u], "none"}
      /\ outcome'.kind # "sample"
  BY TracedStamps DEF on_new_task
<1>3. TypeOK'
  BY <1>1, <1>2 DEF TypeOK
<1>4. WaitStamped'
  BY <1>1, <1>2 DEF WaitStamped, TypeOK
<1>5. LookupStamped'
  BY <1>1, <1>2 DEF LookupStamped, TypeOK
<1>6. RunningRuns' /\ OnePlace'
  BY <1>1 DEF RunningRuns, OnePlace, TypeOK
<1>7. SampleWithinWait'
  BY <1>2 DEF SampleWithinWait
<1> QED BY <1>3, <1>4, <1>5, <1>6, <1>7

\* Removing a stamp makes none wrong.
LEMMA ExitOK == ASSUME IndInv, NEW t \in Tids, on_exit(t) PROVE IndInv'
<1> USE DEF IndInv
<1>1. /\ enqueued' \in [Tids -> Stored]
      /\ \A u \in Tids : enqueued'[u] \in {enqueued[u], "none"}
      /\ UNCHANGED <<thread, running, switch, missed, outcome>>
  BY DEF on_exit, TypeOK, Stored
<1>2. TypeOK'
  BY <1>1 DEF TypeOK
<1>3. WaitStamped'
  BY <1>1 DEF WaitStamped
<1>4. LookupStamped' /\ RunningRuns' /\ OnePlace' /\ SampleWithinWait'
  BY <1>1 DEF LookupStamped, RunningRuns, OnePlace, SampleWithinWait
<1> QED BY <1>2, <1>3, <1>4

----------------------------------------------------------------------------
\* The thread that leaves the CPU begins a wait and is stamped, or does not wait.
LEMMA SwitchFromOK ==
    ASSUME IndInv, NEW c \in Cpus, NEW preempt \in BOOLEAN, SwitchFrom(c, preempt) PROVE IndInv'
<1> USE DEF IndInv
<1> DEFINE prev == running[c]
<1>1. prev \in Tids /\ prev # Idle /\ thread[prev] = "running"
  BY DEF SwitchFrom, RunningRuns, TypeOK
<1>2. PICK place \in Leaves(prev, preempt) :
        /\ thread' = [thread EXCEPT ![prev] = place]
        /\ IF EnqueuedAgain(prev, preempt) THEN Traced("on_switch", prev, TRUE)
           ELSE /\ enqueued' = Aged(prev) /\ missed' = [missed EXCEPT ![prev] = FALSE]
                /\ outcome' = Counted("none")
  BY DEF SwitchFrom
<1>3. running' = [running EXCEPT ![c] = Idle] /\ switch' = switch
  BY DEF SwitchFrom
<1>4. place \in {"none", "asleep", "waiting"} /\ (place = "waiting" => EnqueuedAgain(prev, preempt))
  BY DEF Leaves, EnqueuedAgain
<1> HIDE DEF prev
<1>5. /\ enqueued' \in [Tids -> Stored] /\ missed' \in [Tids -> BOOLEAN]
      /\ place = "waiting" => missed'[prev] \/ enqueued'[prev] = "now"
      /\ \A u \in Tids \ {prev} :
            missed'[u] = missed[u] /\ enqueued'[u] \in {enqueued[u], "none"}
      /\ outcome'.kind # "sample"
  <2>1. CASE EnqueuedAgain(prev, preempt)
    BY <1>1, <1>2, <2>1, TracedStamps
  <2>2. CASE ~EnqueuedAgain(prev, preempt)
    <3>1. /\ enqueued' = Aged(prev) /\ missed' = [missed EXCEPT ![prev] = FALSE]
          /\ outcome' = Counted("none") /\ place # "waiting"
      BY <1>2, <1>4, <2>2
    <3>2. enqueued' \in [Tids -> Stored] /\ \A u \in Tids \ {prev} : enqueued'[u] = enqueued[u]
      BY <1>1, <3>1 DEF Aged, TypeOK, Stored
    <3>3. missed' \in [Tids -> BOOLEAN] /\ \A u \in Tids \ {prev} : missed'[u] = missed[u]
      BY <1>1, <3>1 DEF TypeOK
    <3>4. outcome'.kind # "sample"
      BY <3>1 DEF Counted
    <3> QED BY <3>1, <3>2, <3>3, <3>4
  <2> QED BY <2>1, <2>2
<1>6. TypeOK'
  BY <1>1, <1>2, <1>3, <1>4, <1>5 DEF TypeOK
<1>7. WaitStamped'
  BY <1>1, <1>2, <1>4, <1>5 DEF WaitStamped, TypeOK
<1>8. LookupStamped'
  BY <1>1, <1>2, <1>3, <1>5 DEF LookupStamped, TypeOK
<1>9. RunningRuns' /\ OnePlace'
  BY <1>1, <1>2, <1>3 DEF RunningRuns, OnePlace, TypeOK, prev
<1>10. SampleWithinWait'
  BY <1>5 DEF SampleWithinWait
<1> QED BY <1>6, <1>7, <1>8, <1>9, <1>10

\* The stamp that is looked up is of the wait, for the thread waits.
LEMMA SwitchToOK ==
    ASSUME IndInv, NEW c \in Cpus, NEW t \in Tids, SwitchTo(c, t) PROVE IndInv'
<1> USE DEF IndInv
<1>1. /\ thread[t] = "waiting" /\ t # Idle /\ \A d \in Cpus : switch[d].tid # t
      /\ missed' = missed
  BY RunqAssumption DEF SwitchTo, SwitchedIn
<1>2. CASE Attached("on_switch") /\ enqueued[t] # "none"
  <2>1. /\ switch' = [switch EXCEPT ![c] = [tid |-> t, stamp |-> enqueued[t]]]
        /\ UNCHANGED <<thread, running, enqueued, missed, outcome>>
    BY <1>1, <1>2 DEF SwitchTo
  <2>2. TypeOK'
    BY <2>1 DEF TypeOK
  <2>3. missed[t] \/ enqueued[t] = "now"
    BY <1>1, <1>2 DEF WaitStamped, TypeOK, Stored
  <2>4. LookupStamped'
    BY <1>1, <2>1, <2>3 DEF LookupStamped, TypeOK
  <2>5. OnePlace'
    BY <1>1, <2>1 DEF OnePlace, TypeOK
  <2> QED BY <2>1, <2>2, <2>4, <2>5 DEF WaitStamped, RunningRuns, SampleWithinWait
<1>3. CASE ~(Attached("on_switch") /\ enqueued[t] # "none")
  <2>1. /\ running' = [running EXCEPT ![c] = t]
        /\ thread' = [thread EXCEPT ![t] = "running"]
        /\ enqueued' = Aged(t) /\ switch' = switch
        /\ outcome'.kind # "sample"
    BY <1>3 DEF SwitchTo, Counted
  <2>2. TypeOK'
    BY <1>1, <2>1 DEF TypeOK, Aged, Stored
  <2>3. WaitStamped'
    BY <1>1, <2>1 DEF WaitStamped, TypeOK, Aged
  <2>4. LookupStamped'
    BY <1>1, <2>1 DEF LookupStamped, TypeOK
  <2>5. RunningRuns' /\ OnePlace'
    BY <1>1, <2>1 DEF RunningRuns, OnePlace, TypeOK
  <2> QED BY <2>1, <2>2, <2>3, <2>4, <2>5 DEF SampleWithinWait
<1> QED BY <1>2, <1>3

\* What is read is the stamp looked up, a newer one of the same wait, or the
\* one just stored in a reused entry.
LEMMA SwitchReadOK == ASSUME IndInv, NEW c \in Cpus, SwitchRead(c) PROVE IndInv'
<1> USE DEF IndInv
<1> DEFINE t == switch[c].tid
<1>1. /\ t \in Tids /\ t # Idle /\ thread[t] = "waiting"
      /\ missed[t] \/ switch[c].stamp = "now"
  BY DEF SwitchRead, LookupStamped, TypeOK
<1>2. PICK stamp \in Stamps(t, switch[c].stamp) :
        outcome' = [kind |-> "sample", stamp |-> stamp, missed |-> missed[t]]
  BY DEF SwitchRead
<1>3. /\ enqueued' = [enqueued EXCEPT ![t] = "none"]
      /\ running' = [running EXCEPT ![c] = t]
      /\ thread' = [thread EXCEPT ![t] = "running"]
      /\ switch' = [switch EXCEPT ![c] = NoSwitch]
      /\ missed' = missed
  BY DEF SwitchRead
<1>4. missed[t] \/ stamp = "now"
  BY <1>1, <1>2 DEF Stamps, WaitStamped, TypeOK, Stored
<1>5. SampleWithinWait'
  BY <1>2, <1>4 DEF SampleWithinWait
<1>6. OnePlace /\ RunningRuns /\ \A d \in Cpus \ {c} : switch[d].tid # t /\ running[d] # t
  BY <1>1 DEF OnePlace, RunningRuns, TypeOK
<1> HIDE DEF t
<1>7. TypeOK'
  BY <1>1, <1>3 DEF TypeOK, Stored, NoSwitch
<1>8. WaitStamped'
  BY <1>1, <1>3 DEF WaitStamped, TypeOK
<1>9. LookupStamped'
  BY <1>1, <1>3, <1>6 DEF LookupStamped, TypeOK, NoSwitch
<1>10. RunningRuns' /\ OnePlace'
  BY <1>1, <1>3, <1>6 DEF RunningRuns, OnePlace, TypeOK, NoSwitch
<1> QED BY <1>5, <1>7, <1>8, <1>9, <1>10

----------------------------------------------------------------------------
LEMMA NextOK == IndInv /\ [Next]_vars => IndInv'
<1> SUFFICES ASSUME IndInv, [Next]_vars PROVE IndInv'
  OBVIOUS
<1> USE DEF IndInv
<1>1. CASE UNCHANGED <<thread, running, enqueued, switch, missed, outcome>>
  BY <1>1 DEF TypeOK, WaitStamped, LookupStamped, RunningRuns, OnePlace, SampleWithinWait
<1>2. CASE Attach \/ UNCHANGED vars \/ \E t \in Tids : SetState(t)
  BY <1>1, <1>2 DEF Attach, SetState, vars, kernel
<1>3. ASSUME NEW t \in Tids, on_wakeup(t) \/ on_new_task(t) \/ on_exit(t)
      PROVE  IndInv'
  BY <1>3, WakeupOK, NewTaskOK, ExitOK
<1>4. ASSUME NEW c \in Cpus,
             \/ \E preempt \in BOOLEAN : SwitchFrom(c, preempt)
             \/ \E t \in Tids : SwitchTo(c, t)
             \/ SwitchRead(c)
      PROVE  IndInv'
  BY <1>4, SwitchFromOK, SwitchToOK, SwitchReadOK
<1> QED BY <1>2, <1>3, <1>4 DEF Next

\* Every sample that on_switch counts lies within one wait of one thread, or
\* the beginning of that wait was not recorded, for any number of CPUs and
\* threads and any capacity of the map.
THEOREM SamplesWithinWaits == Spec => []SampleWithinWait
<1>1. IndInv => SampleWithinWait
  BY DEF IndInv
<1> QED BY InitOK, NextOK, <1>1, PTL DEF Spec
=============================================================================
