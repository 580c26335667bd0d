---------------------------- MODULE RunqLatency ----------------------------
(***************************************************************************)
(* The scheduler latency profiler (tools/scheduler/runqlat.bpf.c and the   *)
(* attachment in main.cpp) on a kernel (external) that schedules threads.  *)
(*                                                                         *)
(* A time stamp is known by one thing: whether it was taken in the wait    *)
(* its thread is in ("now") or before it ("old").  The kernel's rules are  *)
(* those of the scheduler: a wakeup of a thread that still runs, or that   *)
(* was preempted on its way to sleep, is traced as well; the lock of a run *)
(* queue keeps a thread from being woken while it is switched in.          *)
(***************************************************************************)
EXTENDS Naturals, FiniteSets, Sequences

CONSTANTS
    Cpus,
    Tids,      \* thread ids other than 0
    Idle,      \* thread id 0
    Capacity   \* 16384, entries of the map

ASSUME RunqAssumption == Idle \notin Tids /\ Capacity \in Nat \ {0}

VARIABLES
    thread,    \* where each thread is: "none", "asleep", "waiting", "running" (external)
    state,     \* __state is not TASK_RUNNING (external)
    exiting,   \* past sched_process_exit (external)
    running,   \* the thread on each CPU (external)
    attached,  \* programs attached so far, in the order of the object
    enqueued,  \* the LRU map: "none", "old" or "now"
    switch,    \* per CPU: the thread whose stamp on_switch has looked up
    missed,    \* the present wait began without a stamp (history)
    outcome    \* what was counted last

kernel == <<thread, state, exiting, running>>
vars == <<kernel, attached, enqueued, switch, missed, outcome>>

NoSwitch == [tid |-> Idle, stamp |-> "none"]

Counted(kind) == [kind |-> kind, stamp |-> "none", missed |-> FALSE]

Programs == <<"on_wakeup", "on_new_task", "on_switch", "on_exit">>

Attached(program) == \E i \in 1..attached : Programs[i] = program

Init ==
    /\ thread \in [Tids -> {"none", "asleep", "waiting"}]
    /\ state = [t \in Tids |-> thread[t] = "asleep"]
    /\ exiting = {}
    /\ running = [c \in Cpus |-> Idle]
    /\ attached = 0
    /\ enqueued = [t \in Tids |-> "none"]
    /\ switch = [c \in Cpus |-> NoSwitch]
    /\ missed = [t \in Tids |-> thread[t] = "waiting"]
    /\ outcome = Counted("none")

----------------------------------------------------------------------------
(***************************************************************************)
(* enqueue.                                                                *)
(***************************************************************************)
Entries == {t \in Tids : enqueued[t] # "none"}

\* The map holds a stamp of t, in the place of another entry when it is full.
Updated(t, stamp) ==
    IF enqueued[t] = "none" /\ Cardinality(Entries) >= Capacity
    THEN {[enqueued EXCEPT ![t] = stamp, ![u] = "none"] : u \in Entries}
    ELSE {[enqueued EXCEPT ![t] = stamp]}

\* enqueue(t): the update may also fail.  A wait that begins makes what was
\* stored before old.
Enqueue(t, begins) ==
    LET stamp == IF begins \/ thread[t] = "waiting" THEN "now" ELSE "old" IN
    \/ /\ enqueued' \in Updated(t, stamp)
       /\ missed' = IF begins THEN [missed EXCEPT ![t] = FALSE] ELSE missed
       /\ outcome' = Counted("none")
    \/ /\ enqueued' = [enqueued EXCEPT ![t] = IF begins /\ @ # "none" THEN "old" ELSE @]
       /\ missed' = IF begins THEN [missed EXCEPT ![t] = TRUE] ELSE missed
       /\ outcome' = Counted("update_failure")

\* The tracepoint is not traced.
NotEnqueued(t, begins) ==
    /\ enqueued' = [enqueued EXCEPT ![t] = IF begins /\ @ # "none" THEN "old" ELSE @]
    /\ missed' = IF begins THEN [missed EXCEPT ![t] = TRUE] ELSE missed
    /\ outcome' = Counted("none")

Traced(program, t, begins) ==
    IF Attached(program) THEN Enqueue(t, begins) ELSE NotEnqueued(t, begins)

----------------------------------------------------------------------------
Attach ==
    /\ attached < Len(Programs) /\ attached' = attached + 1
    /\ UNCHANGED <<kernel, enqueued, switch, missed, outcome>>

SwitchedIn(t) == \E c \in Cpus : switch[c].tid = t

\* A thread that is to sleep is woken: asleep, or still running or preempted.
on_wakeup(t) ==
    /\ thread[t] # "none" /\ state[t] /\ ~SwitchedIn(t)
    /\ Traced("on_wakeup", t, thread[t] = "asleep")
    /\ thread' = [thread EXCEPT ![t] = IF @ = "asleep" THEN "waiting" ELSE @]
    /\ state' = [state EXCEPT ![t] = FALSE]
    /\ UNCHANGED <<exiting, running, attached, switch>>

\* A new thread, under an id that may have been used before.
on_new_task(t) ==
    /\ thread[t] = "none"
    /\ Traced("on_new_task", t, TRUE)
    /\ thread' = [thread EXCEPT ![t] = "waiting"]
    /\ state' = [state EXCEPT ![t] = FALSE]
    /\ UNCHANGED <<exiting, running, attached, switch>>

\* A running thread is about to sleep, or changes its mind.
SetState(t) ==
    /\ thread[t] = "running"
    /\ state' = [state EXCEPT ![t] = ~@]
    /\ UNCHANGED <<thread, exiting, running, attached, enqueued, switch, missed, outcome>>

\* do_exit: the thread may sleep and be woken a few times more before it is gone.
on_exit(t) ==
    /\ thread[t] = "running" /\ t \notin exiting
    /\ exiting' = exiting \cup {t}
    /\ enqueued' = IF Attached("on_exit") THEN [enqueued EXCEPT ![t] = "none"] ELSE enqueued
    /\ UNCHANGED <<thread, state, running, attached, switch, missed, outcome>>

----------------------------------------------------------------------------
(***************************************************************************)
(* on_switch: the thread that leaves the CPU is enqueued, then the stamp   *)
(* of the one that comes is looked up, read and deleted.                   *)
(***************************************************************************)

\* Mutant: a thread preempted on its way to sleep is not enqueued.
EnqueuedByState(t, preempt) == ~state[t]

EnqueuedAgain(t, preempt) == preempt \/ ~state[t]

\* Where a thread that leaves the CPU goes (external).
Leaves(t, preempt) ==
    IF preempt \/ ~state[t] THEN {"waiting"}
    ELSE {"asleep"} \cup (IF t \in exiting THEN {"none"} ELSE {})

\* What the map holds of a thread whose wait is over is old.
Aged(t) == [enqueued EXCEPT ![t] = IF @ = "none" THEN @ ELSE "old"]

SwitchFrom(c, preempt) ==
    LET prev == running[c] IN
    /\ switch[c] = NoSwitch /\ prev # Idle
    /\ \E place \in Leaves(prev, preempt) :
         /\ thread' = [thread EXCEPT ![prev] = place]
         /\ exiting' = IF place = "none" THEN exiting \ {prev} ELSE exiting
         /\ IF EnqueuedAgain(prev, preempt) THEN Traced("on_switch", prev, TRUE)
            ELSE /\ enqueued' = Aged(prev) /\ missed' = [missed EXCEPT ![prev] = FALSE]
                 /\ outcome' = Counted("none")
    /\ running' = [running EXCEPT ![c] = Idle]
    /\ UNCHANGED <<state, attached, switch>>

\* The next thread: without a stamp it is unmatched.
SwitchTo(c, next) ==
    /\ switch[c] = NoSwitch /\ running[c] = Idle
    /\ thread[next] = "waiting" /\ ~SwitchedIn(next)
    /\ IF Attached("on_switch") /\ enqueued[next] # "none"
         THEN /\ switch' = [switch EXCEPT ![c] = [tid |-> next, stamp |-> enqueued[next]]]
              /\ UNCHANGED <<thread, running, enqueued, outcome>>
         ELSE /\ running' = [running EXCEPT ![c] = next]
              /\ thread' = [thread EXCEPT ![next] = "running"]
              /\ enqueued' = Aged(next)
              /\ outcome' = Counted(IF Attached("on_switch") THEN "unmatched" ELSE "none")
              /\ UNCHANGED switch
    /\ UNCHANGED <<state, exiting, attached, missed>>

\* The stamp is read through the pointer of the lookup.  An entry evicted since
\* may hold the stamp another CPU has just stored there.
Stamps(t, seen) == IF enqueued[t] # "none" THEN {enqueued[t]} ELSE {seen, "now"}

\* The clock is read after the stamp; that it would still be behind it (now < begin,
\* counted as unmatched) is left out, so the model counts a sample in every case.
SwitchRead(c) ==
    LET next == switch[c].tid IN
    /\ next # Idle
    /\ \E stamp \in Stamps(next, switch[c].stamp) :
         outcome' = [kind |-> "sample", stamp |-> stamp, missed |-> missed[next]]
    /\ enqueued' = [enqueued EXCEPT ![next] = "none"]
    /\ running' = [running EXCEPT ![c] = next]
    /\ thread' = [thread EXCEPT ![next] = "running"]
    /\ switch' = [switch EXCEPT ![c] = NoSwitch]
    /\ UNCHANGED <<state, exiting, attached, missed>>

Next ==
    \/ Attach
    \/ \E t \in Tids : on_wakeup(t) \/ on_new_task(t) \/ SetState(t) \/ on_exit(t)
    \/ \E c \in Cpus :
          \/ \E preempt \in BOOLEAN : SwitchFrom(c, preempt)
          \/ \E t \in Tids : SwitchTo(c, t)
          \/ SwitchRead(c)

Spec == Init /\ [][Next]_vars

----------------------------------------------------------------------------
\* Every sample measures time of one wait of one thread: its stamp was taken in
\* the wait that ends, never while the thread ran or slept, nor for an earlier
\* thread of the same id, unless the beginning of that wait was not recorded
\* (the map refused the update, or the programs were not all attached yet).
\* Wakeups of running threads, evictions and threads that exit leave stamps
\* behind, and each is overwritten before it could be used (on_switch,
\* on_wakeup, on_new_task).
SampleWithinWait ==
    outcome.kind = "sample" => outcome.stamp = "now" \/ outcome.missed
=============================================================================
