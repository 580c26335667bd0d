---------------------------- MODULE WorkerProofs ----------------------------
(***************************************************************************)
(* For every sampling interval: the worker accounts for every point of its *)
(* grid, never sleeps towards a past deadline, numbers generations once,   *)
(* and publishes nothing once it was told to stop.                         *)
(***************************************************************************)
EXTENDS Worker, TLAPS

\* The number about to be taken is within the bound, the one taken is not 0.
NumberOK ==
    /\ step = "number" => sequence < MaxGen
    /\ step = "publish" => sequence # 0

IndInv == TypeOK /\ GridAccounted /\ NeverEarly /\ LatestIsNewest /\ NumberOK

(***************************************************************************)
(* The arithmetic of a late worker: stepping over the missed points lands  *)
(* on the first point after now.                                           *)
(***************************************************************************)
LEMMA MissedLands ==
    ASSUME TypeOK, NEW due \in Nat, due - Interval <= now
    PROVE  /\ Missed(due) \in Nat
           /\ due + Missed(due) * Interval > now
           /\ due + Missed(due) * Interval - Interval <= now
           /\ due + Missed(due) * Interval \in Nat
<1>0. Interval \in Nat \ {0} /\ now \in Nat
  BY WorkerAssumption DEF TypeOK
<1>1. CASE due <= now
  <2> DEFINE a == now - due
             d == a \div Interval
             r == a % Interval
  <2>1. a \in Nat /\ due + a = now
    BY <1>0, <1>1
  <2>2. d \in Nat /\ r \in 0..(Interval - 1) /\ a = Interval * d + r
    BY <1>0, <2>1
  <2>3. Missed(due) = d + 1
    BY <1>1 DEF Missed
  <2> HIDE DEF a, d, r
  <2>4. (d + 1) * Interval = Interval * d + Interval /\ Interval * d \in Nat
    BY <1>0, <2>2
  <2>5. due + (d + 1) * Interval > now /\ due + (d + 1) * Interval - Interval <= now
    BY <1>0, <2>1, <2>2, <2>4
  <2>6. due + (d + 1) * Interval \in Nat
    BY <1>0, <2>2, <2>4
  <2> QED BY <2>2, <2>3, <2>5, <2>6
<1>2. CASE ~(due <= now)
  <2>1. Missed(due) = 0
    BY <1>2 DEF Missed
  <2> QED BY <1>0, <1>2, <2>1
<1> QED BY <1>1, <1>2

\* A worker that schedules is on or after its point, so the lemma applies.
LEMMA ScheduleLands ==
    ASSUME IndInv, Schedule
    PROVE  /\ next' > now /\ next' - Interval <= now /\ next' \in Nat
           /\ skipped' \in Nat
           /\ next' = Interval * (cycles' + skipped')
<1> DEFINE due == next + Interval
           m == Missed(due)
<1>0. next \in Nat /\ Interval \in Nat \ {0} /\ now \in Nat /\ skipped \in Nat /\ cycles \in Nat
  BY WorkerAssumption DEF IndInv, TypeOK
<1>1. next <= now
  BY DEF IndInv, NeverEarly, Schedule
<1>2. due \in Nat /\ due - Interval <= now
  BY <1>0, <1>1
<1>3. /\ m \in Nat /\ due + m * Interval > now
      /\ due + m * Interval - Interval <= now /\ due + m * Interval \in Nat
  BY <1>2, MissedLands DEF IndInv
<1>4. /\ next' = due + m * Interval /\ skipped' = skipped + m /\ cycles' = cycles + 1
  BY DEF Schedule
<1>5. next = Interval * (cycles + skipped)
  BY DEF IndInv, GridAccounted
<1> HIDE DEF m
<1>6. next' = Interval * (cycles' + skipped')
  <2> DEFINE k == cycles + skipped
  <2>1. k \in Nat /\ cycles' + skipped' = k + 1 + m
    BY <1>0, <1>3, <1>4
  <2>2. next' = Interval * k + Interval + m * Interval
    BY <1>4, <1>5
  <2> HIDE DEF k
  <2>3. Interval * (k + 1 + m) = Interval * k + Interval + m * Interval
    BY <1>0, <1>3, <2>1
  <2> QED BY <2>1, <2>2, <2>3
<1> QED BY <1>0, <1>3, <1>4, <1>6

\* The worker starts consistent.
LEMMA InitInv == Init => IndInv
<1> SUFFICES ASSUME Init PROVE IndInv
  OBVIOUS
<1>1. Interval * (0 + 0) = 0
  BY WorkerAssumption
<1>2. TypeOK
  <2>1. 0 \in Nat /\ 0 \in 0..MaxGen /\ {} \subseteq 1..MaxGen
    BY WorkerAssumption
  <2> QED BY <2>1, Zenon DEF Init, TypeOK
<1>3. GridAccounted /\ NeverEarly
  BY <1>1 DEF Init, GridAccounted, NeverEarly
<1>4. LatestIsNewest /\ NumberOK
  BY DEF Init, LatestIsNewest, NumberOK
<1> QED BY <1>2, <1>3, <1>4 DEF IndInv

\* Scheduling the next sample keeps the invariant.
LEMMA ScheduleInv == ASSUME IndInv, Schedule PROVE IndInv'
<1>1. TypeOK'
  BY ScheduleLands DEF IndInv, TypeOK, Schedule
<1>2. GridAccounted'
  BY ScheduleLands DEF GridAccounted
<1>3. NeverEarly' /\ LatestIsNewest' /\ NumberOK'
  BY DEF IndInv, NeverEarly, LatestIsNewest, NumberOK, Schedule
<1> QED BY <1>1, <1>2, <1>3 DEF IndInv

\* Numbering and publishing keep the invariant: the number taken is new.
LEMMA PublishInv == ASSUME IndInv, Number \/ Publish \/ PublishThrows PROVE IndInv'
<1> USE WorkerAssumption
<1>1. CASE Number
  <2>1. sequence' \in 0..MaxGen /\ step' \in {"publish", "done"} /\ sequence' >= sequence
    BY <1>1 DEF IndInv, TypeOK, Number, NumberOK
  <2>2. TypeOK'
    BY <1>1, <2>1 DEF IndInv, TypeOK, Number
  <2>3. GridAccounted' /\ NeverEarly'
    BY <1>1 DEF IndInv, GridAccounted, NeverEarly, Number
  <2>4. step' = "publish" => sequence' = sequence + 1
    BY <1>1 DEF Number
  <2>5. LatestIsNewest' /\ NumberOK'
    BY <1>1, <2>1, <2>4 DEF IndInv, TypeOK, LatestIsNewest, NumberOK, Number
  <2> QED BY <2>2, <2>3, <2>5 DEF IndInv
<1>2. CASE Publish
  <2>1. TypeOK'
    BY <1>2 DEF IndInv, TypeOK, NumberOK, Publish
  <2>2. GridAccounted' /\ NeverEarly' /\ NumberOK'
    BY <1>2 DEF IndInv, GridAccounted, NeverEarly, NumberOK, Publish
  <2>3. LatestIsNewest'
    BY <1>2 DEF IndInv, TypeOK, LatestIsNewest, Publish
  <2> QED BY <2>1, <2>2, <2>3 DEF IndInv
<1>3. CASE PublishThrows
  <2>1. TypeOK'
    BY <1>3 DEF IndInv, TypeOK, PublishThrows
  <2>2. GridAccounted' /\ NeverEarly' /\ NumberOK' /\ LatestIsNewest'
    BY <1>3 DEF IndInv, GridAccounted, NeverEarly, NumberOK, LatestIsNewest, PublishThrows
  <2> QED BY <2>1, <2>2 DEF IndInv
<1> QED BY <1>1, <1>2, <1>3

\* The other steps change neither numbers nor the grid.
LEMMA OtherInv ==
    ASSUME IndInv,
           \/ Check \/ Collect \/ CollectThrows \/ Notify \/ Wake
           \/ RequestStop \/ Join \/ Time \/ Drain \/ UNCHANGED vars
    PROVE  IndInv'
<1>1. TypeOK'
  <2>1. CASE Check \/ Collect \/ CollectThrows \/ Wake
    BY <2>1 DEF IndInv, TypeOK, Check, Collect, CollectThrows, Wake
  <2>2. CASE Notify
    BY <2>2 DEF IndInv, TypeOK, Notify
  <2>3. CASE RequestStop \/ Join
    BY <2>3 DEF IndInv, TypeOK, RequestStop, Join
  <2>4. CASE Time
    BY <2>4 DEF IndInv, TypeOK, Time
  <2>5. CASE Drain
    BY <2>5 DEF IndInv, TypeOK, Drain, private
  <2>6. CASE UNCHANGED vars
    BY <2>6 DEF IndInv, TypeOK, private, vars
  <2> QED BY <2>1, <2>2, <2>3, <2>4, <2>5, <2>6
<1>2. GridAccounted'
  BY DEF IndInv, GridAccounted, Check, Collect, CollectThrows, Notify, Wake, RequestStop, Join,
         Time, Drain, private, vars
<1>3. NeverEarly'
  BY WorkerAssumption
     DEF IndInv, TypeOK, NeverEarly, Check, Collect, CollectThrows, Notify, Wake, RequestStop,
         Join, Time, Drain, private, vars
<1>4. LatestIsNewest'
  BY DEF IndInv, LatestIsNewest, Check, Collect, CollectThrows, Notify, Wake, RequestStop, Join,
         Time, Drain, private, vars
<1>5. NumberOK'
  BY DEF IndInv, NumberOK, Check, Collect, CollectThrows, Notify, Wake, RequestStop, Join,
         Time, Drain, private, vars
<1> QED BY <1>1, <1>2, <1>3, <1>4, <1>5 DEF IndInv

\* The inductive invariant holds in every reachable state of the worker.
THEOREM Inductive == Spec => []IndInv
<1>1. IndInv /\ [Next]_vars => IndInv'
  BY ScheduleInv, PublishInv, OtherInv DEF Next, Thread
<1> QED BY InitInv, <1>1, PTL DEF Spec

\* Every variable of the worker keeps its type.
THEOREM TypeCorrect == Spec => []TypeOK
  BY Inductive, PTL DEF IndInv

\* next = Interval * (cycles + skipped): no point of the sampling grid is lost,
\* for every interval and every duration of the collections.
THEOREM GridExact == Spec => []GridAccounted
  BY Inductive, PTL DEF IndInv

\* Stored generations are published ones, newest last, and no number is used twice.
THEOREM NumbersUsedOnce == Spec => []LatestIsNewest
  BY Inductive, PTL DEF IndInv

\* The arithmetic at the end of the loop always lands on the first grid point
\* that is still ahead.
THEOREM SleepsTowardsTheFuture == Spec => NextPointAhead
<1>1. IndInv /\ [Next]_vars => [Schedule => next' > now /\ next' - Interval <= now]_vars
  BY ScheduleLands
<1> QED BY <1>1, Inductive, PTL DEF Spec, NextPointAhead

\* The worker samples at or after its point of the grid, also when a stop wakes
\* it early: then the loop condition ends it.
THEOREM SamplesNeverEarly == Spec => []NeverEarly
  BY Inductive, PTL DEF IndInv

\* The two tests of the stop token leave nothing to be published once a stop
\* was requested, except by a worker that had already passed the second one.
THEOREM StopEndsPublishing == Spec => NothingPublishedAfterStop
<1> DEFINE Quiet == stop /\ step \in {"check", "collect", "number", "wait"} =>
                      published' = published /\ step' \notin {"publish", "notify"}
<1>1. [Next]_vars => [Quiet]_vars
  <2> SUFFICES ASSUME Next, stop, step \in {"check", "collect", "number", "wait"}
               PROVE  published' = published /\ step' \notin {"publish", "notify"}
    OBVIOUS
  <2>1. CASE Thread
    BY <2>1 DEF Thread, Check, Collect, CollectThrows, Number, Publish, PublishThrows, Notify,
                Schedule, Wake
  <2>2. CASE RequestStop \/ Join \/ Time \/ Drain
    BY <2>2 DEF RequestStop, Join, Time, Drain, private
  <2> QED BY <2>1, <2>2 DEF Next
<1> QED BY <1>1, PTL DEF Spec, NothingPublishedAfterStop
============================================================================
