---------------------------- MODULE ServerProofs ----------------------------
(***************************************************************************)
(* The two threads of the server, composed: each is a behaviour of its own *)
(* module, whatever the other does.  What is proved of the reactor and of  *)
(* the worker alone is therefore a theorem of the process, and so is what  *)
(* needs both: clients get nothing that was not published.                 *)
(***************************************************************************)
EXTENDS Server, ReactorProofs

\* What the worker knows of the number it took and of the one it published.
SharedOK ==
    /\ notification \in BOOLEAN
    /\ sequence \in 0..MaxGen /\ latest \in 0..sequence
    /\ step = "number" => sequence < MaxGen
    /\ step = "publish" => latest < sequence
    /\ step = "notify" => latest # 0

\* The reactor only reads the published snapshot, and only clears the eventfd.
LEMMA ReactorKeeps ==
    ASSUME Thread \/ Fail \/ Tick \/ Signal
    PROVE  latest' = latest /\ (notification' = notification \/ notification' = FALSE)
<1>1. CASE Fail \/ Tick \/ Signal
  BY <1>1 DEF Fail, Tick, Signal, environment
<1>2. CASE Thread
  <2>1. CASE \E e \in batch : \/ HandleListener(e) \/ HandleSession(e)
                              \/ HandleNotification(e) \/ HandleTimer(e)
    BY <2>1 DEF HandleListener, HandleSession, HandleNotification, HandleTimer, environment
  <2>2. CASE \/ EpollWait \/ Shutdown
             \/ AcceptNothing \/ AcceptExhausted \/ AcceptSkipped \/ AcceptSession
    BY <2>2 DEF EpollWait, Shutdown, AcceptNothing, AcceptExhausted, AcceptSkipped,
                AcceptSession, environment
  <2>3. CASE \/ ReadNothing \/ ReadInterrupted
             \/ \E n \in 1..RecvSize : ReadPart(n)
             \/ \E size \in ResponseSizes : ReadRequest(size)
    BY <2>3 DEF ReadNothing, ReadInterrupted, ReadPart, ReadRequest, environment
  <2>4. CASE \/ \E n \in 1..WriteBudget : WriteSome(n)
             \/ WriteNothing \/ WriteEnds \/ Settle
    BY <2>4 DEF WriteSome, WriteNothing, WriteEnds, Settle, environment
  <2>5. CASE \/ \E t \in todo : SweepClose(t) \/ BroadcastTo(t)
             \/ SweepDone \/ BroadcastDone
    BY <2>5 DEF SweepClose, BroadcastTo, SweepDone, BroadcastDone, environment
  <2> QED BY <1>2, <2>1, <2>2, <2>3, <2>4, <2>5 DEF Thread
<1> QED BY <1>1, <1>2

\* What a step of the worker does to the shared state.
LEMMA WorkerShares ==
    ASSUME W!Thread \/ W!Time
    PROVE  \/ W!Publish \/ W!Notify
           \/ latest' = latest /\ notification' = notification
  BY DEF W!Thread, W!Time, W!Check, W!Collect, W!CollectThrows, W!Number, W!PublishThrows,
         W!Schedule, W!Wake

LEMMA InitShared == ServerInit => SharedOK
<1> SUFFICES ASSUME ServerInit PROVE SharedOK
  OBVIOUS
<1>1. notification \in BOOLEAN
  BY DEF ServerInit, W!Init
<1>2. sequence = 0 /\ latest = 0 /\ step = "check"
  BY DEF ServerInit, W!Init
<1> QED BY <1>1, <1>2, LimitsAssumption, ServerAssumption DEF SharedOK

LEMMA NextShared == ASSUME SharedOK, [ServerNext]_ServerVars PROVE SharedOK'
<1> USE LimitsAssumption, ServerAssumption DEF SharedOK
<1>1. CASE ReactorStep
  BY <1>1, ReactorKeeps DEF ReactorStep, WorkerOwn
<1>2. CASE WorkerStep
  <2>1. CASE W!Check \/ W!CollectThrows \/ W!PublishThrows \/ W!Schedule \/ W!Wake \/ W!Time
    BY <2>1 DEF W!Check, W!CollectThrows, W!PublishThrows, W!Schedule, W!Wake, W!Time
  <2>2. CASE W!Collect
    BY <2>2 DEF W!Collect
  <2>3. CASE W!Number
    BY <2>3 DEF W!Number
  <2>4. CASE W!Publish
    BY <2>4 DEF W!Publish
  <2>5. CASE W!Notify
    BY <2>5 DEF W!Notify
  <2> QED BY <1>2, <2>1, <2>2, <2>3, <2>4, <2>5 DEF WorkerStep, W!Thread
<1>3. CASE StopWorker \/ JoinWorker
  BY <1>3 DEF StopWorker, JoinWorker, W!RequestStop, W!Join
<1>4. CASE UNCHANGED ServerVars
  BY <1>4 DEF ServerVars, WorkerOwn
<1> QED BY <1>1, <1>2, <1>3, <1>4 DEF ServerNext

\* It holds in every reachable state of the server.
THEOREM SharedHolds == ServerSpec => []SharedOK
<1>1. SharedOK /\ [ServerNext]_ServerVars => SharedOK'
  BY NextShared
<1> QED BY InitShared, <1>1, PTL DEF ServerSpec

\* Each step of the server is one of the reactor, of its environment, or none.
LEMMA StepOfReactor == ASSUME SharedOK, [ServerNext]_ServerVars PROVE [Next]_vars
<1>1. CASE ReactorStep
  BY <1>1 DEF ReactorStep, Next, World
<1>2. ASSUME UNCHANGED <<ReactorOwn, latest, notification>> PROVE UNCHANGED vars
  BY <1>2 DEF ReactorOwn, vars, control, server, environment
<1>3. CASE WorkerStep
  <2>1. CASE W!Publish
    <3>1. latest' \in (latest + 1)..MaxGen
      BY <2>1, LimitsAssumption, ServerAssumption DEF W!Publish, SharedOK
    <3>2. Publish
      BY <1>3, <2>1, <3>1 DEF WorkerStep, W!Publish, Publish, ReactorOwn, control, server
    <3> QED BY <3>2 DEF Next, World
  <2>2. CASE W!Notify
    <3>1. Notify
      BY <1>3, <2>2 DEF WorkerStep, W!Notify, Notify, ReactorOwn, control, server, SharedOK
    <3> QED BY <3>1 DEF Next, World
  <2>3. CASE latest' = latest /\ notification' = notification
    BY <1>2, <1>3, <2>3 DEF WorkerStep
  <2> QED BY <1>3, <2>1, <2>2, <2>3, WorkerShares DEF WorkerStep
<1>4. CASE StopWorker \/ JoinWorker
  BY <1>2, <1>4 DEF StopWorker, JoinWorker, W!RequestStop, W!Join
<1>5. CASE UNCHANGED ServerVars
  BY <1>2, <1>5 DEF ServerVars
<1> QED BY <1>1, <1>3, <1>4, <1>5 DEF ServerNext

\* The worker is as general an environment as Reactor assumes (Publish after
\* the number is taken, Notify after Publish).
THEOREM ServerImplementsReactor == ServerSpec => ReactorSpec
<1>1. ServerInit => Init
  BY DEF ServerInit
<1>2. SharedOK /\ [ServerNext]_ServerVars => [Next]_vars
  BY StepOfReactor
<1> QED BY <1>1, <1>2, SharedHolds, PTL DEF ServerSpec, ReactorSpec, Spec

\* Each step of the server is one of the worker, of its environment, or none:
\* all the reactor does to it is to read the eventfd and, in the end, to stop it.
LEMMA StepOfWorker == ASSUME SharedOK, [ServerNext]_ServerVars PROVE [W!Next]_(W!vars)
<1>1. CASE ReactorStep
  <2>1. UNCHANGED <<W!private, latest>>
    BY <1>1, ReactorKeeps DEF ReactorStep, WorkerOwn, W!private
  <2>2. CASE notification' = notification
    BY <2>1, <2>2 DEF W!vars
  <2>3. CASE notification' # notification
    <3>1. notification' = FALSE
      BY <1>1, <2>3, ReactorKeeps DEF ReactorStep
    <3>2. notification = TRUE
      BY <2>3, <3>1, Zenon DEF SharedOK
    <3> QED BY <2>1, <3>1, <3>2 DEF W!Drain, W!Next
  <2> QED BY <2>2, <2>3
<1>2. CASE WorkerStep
  BY <1>2 DEF WorkerStep, W!Next
<1>3. CASE StopWorker \/ JoinWorker
  BY <1>3 DEF StopWorker, JoinWorker, W!Next
<1>4. CASE UNCHANGED ServerVars
  BY <1>4 DEF ServerVars, WorkerOwn, W!vars, W!private
<1> QED BY <1>1, <1>2, <1>3, <1>4 DEF ServerNext

\* The reactor is as general an environment as Worker assumes: in the whole
\* server it clears the eventfd, and its return requests the stop.
THEOREM ServerImplementsWorker == ServerSpec => W!Spec
<1>1. ServerInit => W!Init
  BY DEF ServerInit
<1>2. SharedOK /\ [ServerNext]_ServerVars => [W!Next]_(W!vars)
  BY StepOfWorker
<1> QED BY <1>1, <1>2, SharedHolds, PTL DEF ServerSpec, W!Spec

----------------------------------------------------------------------------
(***************************************************************************)
(* What is proved of the reactor alone and of the worker alone, for the    *)
(* process they make.                                                      *)
(***************************************************************************)

\* The reactor's guarantees do not depend on how the worker is scheduled, on
\* publications that fail or on when the process is told to stop.
THEOREM ProcessServesClients ==
    ServerSpec => /\ [](TypeOK /\ QueueAccounting /\ BudgetHeld)
                  /\ [](InterestMatches /\ NoClientLeftBehind /\ StreamsIntact)
                  /\ StaleEventsAreInert
                  /\ OnlyProgressExtendsDeadline
                  /\ SubscribersGetLatest
<1>1. Spec => [](TypeOK /\ QueueAccounting /\ BudgetHeld)
  BY TypeCorrect, AccountingExact, BudgetNeverExceeded, PTL
<1>2. Spec => [](InterestMatches /\ NoClientLeftBehind /\ StreamsIntact)
  BY NoLostWakeup, NobodyLeftBehind, StreamsAreIntact, PTL
<1>3. ServerSpec => Spec
  BY ServerImplementsReactor DEF ReactorSpec
<1> QED BY <1>1, <1>2, <1>3, TokensAreNeverReused, DeadlinesMoveByProgress, SubscribersAreServed

\* The worker's theorems, about the variables it has in the process.
WP == INSTANCE WorkerProofs

LEMMA SameWorker ==
    /\ (W!Init <=> WP!Init)
    /\ [W!Next]_(W!vars) <=> [WP!Next]_(WP!vars)
<1>1. (W!Init <=> WP!Init)
  BY DEF W!Init, WP!Init
<1>2. /\ (W!Check <=> WP!Check) /\ (W!Collect <=> WP!Collect)
      /\ (W!CollectThrows <=> WP!CollectThrows)
  BY DEF W!Check, WP!Check, W!Collect, WP!Collect, W!CollectThrows, WP!CollectThrows
<1>3. /\ (W!Number <=> WP!Number) /\ (W!Publish <=> WP!Publish)
      /\ (W!PublishThrows <=> WP!PublishThrows) /\ (W!Notify <=> WP!Notify)
  BY DEF W!Number, WP!Number, W!Publish, WP!Publish, W!PublishThrows, WP!PublishThrows,
         W!Notify, WP!Notify
<1>4. (W!Schedule <=> WP!Schedule)
  BY DEF W!Schedule, WP!Schedule, W!Missed, WP!Missed
<1>5. (W!Wake <=> WP!Wake) /\ (W!RequestStop <=> WP!RequestStop)
  BY DEF W!Wake, WP!Wake, W!RequestStop, WP!RequestStop
<1>6. (W!Join <=> WP!Join) /\ (W!Time <=> WP!Time) /\ (W!Drain <=> WP!Drain)
  BY DEF W!Join, WP!Join, W!Time, WP!Time, W!Drain, WP!Drain, W!private, WP!private
<1>7. UNCHANGED W!vars <=> UNCHANGED WP!vars
  BY DEF W!vars, WP!vars, W!private, WP!private
<1>8. W!Thread <=> WP!Thread
  BY <1>2, <1>3, <1>4, <1>5 DEF W!Thread, WP!Thread
<1>9. W!Next <=> WP!Next
  BY <1>5, <1>6, <1>8 DEF W!Next, WP!Next
<1> QED BY <1>1, <1>7, <1>9

\* The worker's guarantees hold whatever the reactor does with the snapshots and
\* whenever it returns; its numbers stay unique and its grid complete.
LEMMA WorkerInductive == ServerSpec => []WP!IndInv
<1>1. WP!Init => WP!IndInv
  BY LimitsAssumption, ServerAssumption, WP!InitInv
<1>2. WP!IndInv /\ [WP!Next]_(WP!vars) => WP!IndInv'
  BY LimitsAssumption, ServerAssumption, WP!ScheduleInv, WP!PublishInv, WP!OtherInv
     DEF WP!Next, WP!Thread
<1>3. ServerSpec => WP!Init /\ [][WP!Next]_(WP!vars)
  BY SameWorker, ServerImplementsWorker, PTL DEF W!Spec
<1> QED BY <1>1, <1>2, <1>3, PTL

\* What the run of the worker alone checks holds in the process: the sampling grid,
\* the numbers and the silence after a stop.
THEOREM ProcessKeepsSampling ==
    ServerSpec => /\ [](W!GridAccounted /\ W!NeverEarly /\ W!LatestIsNewest)
                  /\ W!NextPointAhead
                  /\ W!NothingPublishedAfterStop
<1>1. WP!IndInv => W!GridAccounted /\ W!NeverEarly /\ W!LatestIsNewest
  <2>1. WP!GridAccounted => W!GridAccounted
    BY DEF WP!GridAccounted, W!GridAccounted
  <2>2. WP!NeverEarly => W!NeverEarly
    BY DEF WP!NeverEarly, W!NeverEarly
  <2>3. WP!LatestIsNewest => W!LatestIsNewest
    BY DEF WP!LatestIsNewest, W!LatestIsNewest
  <2> QED BY <2>1, <2>2, <2>3 DEF WP!IndInv
<1>2. WP!IndInv /\ [W!Next]_(W!vars) =>
        [W!Schedule => next' > now /\ next' - Interval <= now]_(W!vars)
  <2>1. W!Schedule => WP!Schedule
    BY DEF W!Schedule, WP!Schedule, W!Missed, WP!Missed
  <2> QED BY <2>1, LimitsAssumption, ServerAssumption, WP!ScheduleLands
<1>3. [W!Next]_(W!vars) =>
        [stop /\ step \in {"check", "collect", "number", "wait"} =>
            published' = published /\ step' \notin {"publish", "notify"}]_(W!vars)
  <2> SUFFICES ASSUME W!Next, stop, step \in {"check", "collect", "number", "wait"}
               PROVE  published' = published /\ step' \notin {"publish", "notify"}
    OBVIOUS
  <2>1. CASE W!Thread
    BY <2>1 DEF W!Thread, W!Check, W!Collect, W!CollectThrows, W!Number, W!Publish,
       W!PublishThrows, W!Notify, W!Schedule, W!Wake
  <2>2. CASE W!RequestStop \/ W!Join \/ W!Time \/ W!Drain
    BY <2>2 DEF W!RequestStop, W!Join, W!Time, W!Drain, W!private
  <2> QED BY <2>1, <2>2 DEF W!Next
<1> QED BY <1>1, <1>2, <1>3, WorkerInductive, ServerImplementsWorker, PTL
        DEF W!Spec, W!NextPointAhead, W!NothingPublishedAfterStop

----------------------------------------------------------------------------
(***************************************************************************)
(* Only what was published is sent.  A stream takes its generations from   *)
(* the shared state when it is accepted and from the broadcast afterwards; *)
(* sending adds none.                                                      *)
(***************************************************************************)
GensOf(q, p) == {q.current.gen, q.pending.gen, p.gen, p.last}

LEMMA GivenGens ==
    ASSUME NEW q, NEW p, StreamOK(q, p), NEW g, NEW r, NEW o, Given(q, p, r, o, g)
    PROVE  GensOf(r, o) \subseteq GensOf(q, p) \cup {g}
<1> DEFINE b == Frame(g)
<1>1. r = Push(q, b) /\ o = p /\ b.gen = g
  BY DEF Given, Frame
<1> HIDE DEF b
<1>2. \/ r = [current |-> b, pending |-> q.pending, offset |-> 0]
      \/ r = [current |-> q.current, pending |-> b, offset |-> q.offset]
  BY <1>1, PushCases
<1> QED BY <1>1, <1>2 DEF GensOf

LEMMA TakenGens ==
    ASSUME NEW q, NEW p, StreamOK(q, p), NEW n \in Nat \ {0}, NEW r, NEW o, Taken(q, p, r, o, n)
    PROVE  GensOf(r, o) \subseteq GensOf(q, p) \cup {0}
<1>1. CASE /\ r = [current |-> q.pending, pending |-> NoBuffer, offset |-> 0]
           /\ o = [gen |-> q.current.gen, got |-> 0, last |-> q.current.gen, torn |-> FALSE]
  BY <1>1 DEF GensOf, NoBuffer
<1>2. CASE /\ r = [current |-> q.current, pending |-> q.pending, offset |-> q.offset + n]
           /\ o = [gen |-> q.current.gen, got |-> q.offset + n, last |-> p.last, torn |-> FALSE]
  BY <1>2 DEF GensOf
<1> QED BY <1>1, <1>2, TakenCases

\* Together with the generation a broadcast works on.
PublishedOK == OnlyPublishedIsSent /\ last_sequence \in published \cup {0}

\* The reactor only ever broadcasts what it loaded from the shared state.
LEMMA BroadcastLoads ==
    ASSUME [Next]_vars
    PROVE  last_sequence' \in {last_sequence, latest}
<1>1. CASE \E e \in batch : \/ HandleListener(e) \/ HandleSession(e)
                            \/ HandleNotification(e) \/ HandleTimer(e)
  BY <1>1 DEF HandleListener, HandleSession, HandleNotification, HandleTimer, StartBroadcast, server
<1>2. CASE SweepDone
  BY <1>2 DEF SweepDone, StartBroadcast
<1> QED BY <1>1, <1>2
        DEF Next, Thread, World, EpollWait, Shutdown, AcceptNothing, AcceptExhausted,
            AcceptSkipped, AcceptSession, ReadNothing, ReadInterrupted, ReadPart, ReadRequest,
            WriteSome, WriteNothing, WriteEnds, Settle, SweepClose, BroadcastTo,
            BroadcastDone, Fail, Publish, Notify, Tick, Signal, vars, server

\* What was published stays published, and is all the shared state ever holds.
LEMMA PublishedGrows ==
    ASSUME WP!IndInv, [ServerNext]_ServerVars
    PROVE  published \subseteq published' /\ latest \in published \cup {0}
<1>1. latest \in published \cup {0}
  BY DEF WP!IndInv, WP!LatestIsNewest
<1>2. CASE ReactorStep \/ UNCHANGED ServerVars
  BY <1>1, <1>2 DEF ReactorStep, ServerVars, WorkerOwn
<1>3. CASE WorkerStep
  BY <1>1, <1>3 DEF WorkerStep, W!Thread, W!Time, W!Check, W!Collect, W!CollectThrows, W!Number,
     W!Publish, W!PublishThrows, W!Notify, W!Schedule, W!Wake
<1>4. CASE StopWorker \/ JoinWorker
  BY <1>1, <1>4 DEF StopWorker, JoinWorker, W!RequestStop, W!Join
<1> QED BY <1>1, <1>2, <1>3, <1>4 DEF ServerNext

LEMMA NextPublished ==
    ASSUME SharedOK, WP!IndInv, IndInv, ClientsOK, StreamsOK, PublishedOK,
           [ServerNext]_ServerVars
    PROVE  PublishedOK'
<1>1. [Next]_vars
  BY StepOfReactor
<1>2. published \subseteq published' /\ latest \in published \cup {0}
  BY PublishedGrows
<1>3. last_sequence' \in published' \cup {0}
  BY <1>1, <1>2, BroadcastLoads DEF PublishedOK
<1>4. ASSUME NEW t \in DOMAIN sessions', sessions'[t].streaming
      PROVE  GensOf(sessions'[t].output, sessions'[t].peer) \subseteq published' \cup {0}
  <2> DEFINE r == sessions'[t].output
             o == sessions'[t].peer
  <2>1. CASE t \notin Tokens
    <3>1. GensOf(EmptyQueue, NewPeer) = {0}
      BY DEF GensOf, EmptyQueue, NoBuffer, NewPeer
    <3>2. \/ Kept(EmptyQueue, NewPeer, r, o)
          \/ Given(EmptyQueue, NewPeer, r, o, latest)
      BY <1>1, <1>4, <2>1, StreamStepsOK DEF StreamSteps
    <3> HIDE DEF r, o
    <3>3. GensOf(r, o) \subseteq {0, latest}
      <4>1. CASE Kept(EmptyQueue, NewPeer, r, o)
        BY <3>1, <4>1 DEF Kept
      <4>2. CASE Given(EmptyQueue, NewPeer, r, o, latest)
        BY <3>1, <4>2, NewStream, GivenGens
      <4> QED BY <3>2, <4>1, <4>2
    <3>4. GensOf(r, o) \subseteq published' \cup {0}
      BY <1>2, <3>3
    <3> QED BY <3>4 DEF r, o
  <2>2. CASE t \in Tokens
    <3> DEFINE q == sessions[t].output
               p == sessions[t].peer
    <3>1. /\ sessions[t].streaming
          /\ \/ Kept(q, p, r, o)
             \/ Given(q, p, r, o, last_sequence)
             \/ \E n \in Nat \ {0} : Taken(q, p, r, o, n)
      BY <1>1, <1>4, <2>2, StreamStepsOK DEF StreamSteps
    <3>2. StreamOK(q, p)
      BY <2>2, <3>1 DEF StreamsOK
    <3>3. GensOf(q, p) \subseteq published \cup {0}
      BY <2>2, <3>1 DEF PublishedOK, OnlyPublishedIsSent, GensOf
    <3> HIDE DEF q, p, r, o
    <3>4. GensOf(r, o) \subseteq GensOf(q, p) \cup {0, last_sequence}
      <4>1. CASE Kept(q, p, r, o)
        BY <4>1 DEF Kept
      <4>2. CASE Given(q, p, r, o, last_sequence)
        BY <3>2, <4>2, GivenGens
      <4>3. CASE \E n \in Nat \ {0} : Taken(q, p, r, o, n)
        BY <3>2, <4>3, TakenGens
      <4> QED BY <3>1, <4>1, <4>2, <4>3
    <3>5. GensOf(r, o) \subseteq published' \cup {0}
      BY <1>2, <3>3, <3>4 DEF PublishedOK
    <3> QED BY <3>5 DEF r, o
  <2> QED BY <2>1, <2>2
<1> QED BY <1>3, <1>4 DEF PublishedOK, OnlyPublishedIsSent, GensOf, Tokens

\* No generation reaches a subscriber, or waits to, that the worker did not
\* publish, for every number of clients, failed publications and schedules.
THEOREM ClientsGetPublished == ServerSpec => []OnlyPublishedIsSent
<1>1. ServerInit => PublishedOK
  <2> SUFFICES ASSUME ServerInit PROVE PublishedOK
    OBVIOUS
  <2>1. DOMAIN sessions = {} /\ last_sequence = 0
    BY DEF ServerInit, Init
  <2> QED BY <2>1 DEF PublishedOK, OnlyPublishedIsSent, Tokens
<1>2. /\ SharedOK /\ WP!IndInv /\ IndInv /\ ClientsOK /\ StreamsOK /\ PublishedOK
      /\ [ServerNext]_ServerVars
      => PublishedOK'
  BY NextPublished
<1>3. ServerSpec => [](IndInv /\ ClientsOK /\ StreamsOK)
  BY ServerImplementsReactor, Inductive, ClientsInductive, StreamsInductive, PTL DEF ReactorSpec
<1>4. PublishedOK => OnlyPublishedIsSent
  BY DEF PublishedOK
<1> QED BY <1>1, <1>2, <1>3, <1>4, SharedHolds, WorkerInductive, PTL DEF ServerSpec
============================================================================
