--------------------------- MODULE ReactorProofs ---------------------------
(***************************************************************************)
(* For every number of clients, connections and generations, every budget, *)
(* timeout and frame size: the reactor's state keeps its type, its byte    *)
(* total equals the sum over the sessions, and the total stays in budget;  *)
(* what is queued is waited for, nobody misses the newest generation, no   *)
(* event reaches a later session, and deadlines move by progress alone;    *)
(* every stream stays whole and is an implementation of LatestWins.        *)
(*                                                                         *)
(* The sum is the cardinality of Outstanding(sessions), so that a change   *)
(* of one session's queue is a union of disjoint finite sets.              *)
(***************************************************************************)
EXTENDS Reactor, FiniteSetTheorems, TLAPS

----------------------------------------------------------------------------
(***************************************************************************)
(* Queues.                                                                 *)
(***************************************************************************)

\* The byte count of a well-formed queue is a number.
LEMMA BytesType ==
    ASSUME NEW q, WellFormed(q)
    PROVE  Bytes(q) \in Nat /\ FrontSize(q) \in Nat /\ q \in Queue
  BY DEF WellFormed, Bytes, FrontSize, Queue, Buffer

\* The empty queue is well formed and holds no byte.
LEMMA EmptyQueueOK == WellFormed(EmptyQueue) /\ Bytes(EmptyQueue) = 0
  BY DEF WellFormed, EmptyQueue, NoBuffer, Bytes, FrontSize, Queue, Buffer

\* Push keeps a queue well formed.
LEMMA PushOK ==
    ASSUME NEW q, WellFormed(q), NEW b \in Buffer, b.size # 0
    PROVE  WellFormed(Push(q, b))
<1>1. q \in Queue /\ b.size \in Nat
  BY DEF WellFormed, Buffer
<1>2. CASE Empty(q) \/ q.offset = 0
  <2>1. Push(q, b) = [current |-> b, pending |-> q.pending, offset |-> 0]
    BY <1>1, <1>2 DEF Push, Queue
  <2> QED BY <1>1, <1>2, <2>1 DEF WellFormed, Queue, Buffer, Empty
<1>3. CASE ~(Empty(q) \/ q.offset = 0)
  <2>1. Push(q, b) = [current |-> q.current, pending |-> b, offset |-> q.offset]
    BY <1>1, <1>3 DEF Push, Queue
  <2> QED BY <1>1, <1>3, <2>1 DEF WellFormed, Queue, Buffer, Empty
<1> QED BY <1>2, <1>3

\* Consume keeps a queue well formed and takes n bytes off it.
LEMMA ConsumeOK ==
    ASSUME NEW q, WellFormed(q), NEW n \in Nat \ {0}, CanConsume(q, n)
    PROVE  WellFormed(Consume(q, n)) /\ Bytes(Consume(q, n)) = Bytes(q) - n
<1>1. q \in Queue /\ n <= q.current.size - q.offset
  BY DEF WellFormed, CanConsume, FrontSize
<1>2. CASE q.offset + n = q.current.size
  <2>1. Consume(q, n) = [current |-> q.pending, pending |-> NoBuffer, offset |-> 0]
    BY <1>2 DEF Consume
  <2> QED BY <1>1, <1>2, <2>1 DEF WellFormed, Queue, Buffer, NoBuffer, Bytes, FrontSize
<1>3. CASE q.offset + n # q.current.size
  <2>1. Consume(q, n) = [current |-> q.current, pending |-> q.pending, offset |-> q.offset + n]
    BY <1>1, <1>3 DEF Consume, Queue
  <2> QED BY <1>1, <1>3, <2>1 DEF WellFormed, Queue, Buffer, Bytes, FrontSize
<1> QED BY <1>2, <1>3

----------------------------------------------------------------------------
(***************************************************************************)
(* The sum over the sessions.                                              *)
(***************************************************************************)

\* The bytes of session t in S, none if there is no such session.
Own(S, t) == IF t \in DOMAIN S THEN Bytes(S[t].output) ELSE 0

\* Changing one session's queue changes the sum by the difference of its bytes.
LEMMA SumUpdate ==
    ASSUME NEW S, NEW T, NEW t,
           IsFiniteSet(Outstanding(S)),
           DOMAIN T \ {t} = DOMAIN S \ {t},
           \A x \in DOMAIN S \ {t} : T[x].output = S[x].output,
           Own(S, t) \in Nat, Own(T, t) \in Nat
    PROVE  /\ IsFiniteSet(Outstanding(T))
           /\ Cardinality(Outstanding(T)) = Cardinality(Outstanding(S)) - Own(S, t) + Own(T, t)
           /\ Cardinality(Outstanding(S)) \in Nat
           /\ Cardinality(Outstanding(T)) \in Nat
<1> DEFINE Rest == UNION {{x} \X (1..Bytes(S[x].output)) : x \in DOMAIN S \ {t}}
           OwnS == {t} \X (1..Own(S, t))
           OwnT == {t} \X (1..Own(T, t))
<1>0. ASSUME NEW n \in Nat, n = 0 PROVE {t} \X (1..n) = {}
  <2>1. 1..n = {}
    BY <1>0
  <2> QED BY <2>1
<1>1. Outstanding(S) = Rest \cup OwnS
  <2>1. CASE t \in DOMAIN S
    <3>1. Own(S, t) = Bytes(S[t].output)
      BY <2>1 DEF Own
    <3>2. DOMAIN S = (DOMAIN S \ {t}) \cup {t}
      BY <2>1
    <3> QED BY <3>1, <3>2, Zenon DEF Outstanding
  <2>2. CASE t \notin DOMAIN S
    <3>1. OwnS = {}
      BY <1>0, <2>2 DEF Own
    <3>2. DOMAIN S \ {t} = DOMAIN S
      BY <2>2
    <3> QED BY <3>1, <3>2 DEF Outstanding
  <2> QED BY <2>1, <2>2
<1>2. Outstanding(T) = Rest \cup OwnT
  <2> DEFINE RestT == UNION {{x} \X (1..Bytes(T[x].output)) : x \in DOMAIN T \ {t}}
  <2>0. Rest = RestT
    OBVIOUS
  <2>1. CASE t \in DOMAIN T
    <3>1. Own(T, t) = Bytes(T[t].output)
      BY <2>1 DEF Own
    <3>2. DOMAIN T = (DOMAIN T \ {t}) \cup {t}
      BY <2>1
    <3>3. Outstanding(T) = RestT \cup OwnT
      BY <3>1, <3>2, Zenon DEF Outstanding
    <3> QED BY <2>0, <3>3
  <2>2. CASE t \notin DOMAIN T
    <3>1. OwnT = {}
      BY <1>0, <2>2 DEF Own
    <3>2. DOMAIN T \ {t} = DOMAIN T
      BY <2>2
    <3> QED BY <2>0, <3>1, <3>2 DEF Outstanding
  <2> QED BY <2>1, <2>2
<1>3. Rest \cap OwnS = {} /\ Rest \cap OwnT = {}
  <2>1. ASSUME NEW p \in Rest PROVE p[1] # t
    <3>1. PICK x \in DOMAIN S \ {t} : p \in {x} \X (1..Bytes(S[x].output))
      OBVIOUS
    <3> QED BY <3>1
  <2>2. ASSUME NEW n \in Nat, NEW p \in {t} \X (1..n) PROVE p[1] = t
    OBVIOUS
  <2> QED BY <2>1, <2>2
<1>4. IsFiniteSet(Rest)
  <2>1. Rest \in SUBSET Outstanding(S)
    BY <1>1
  <2> HIDE DEF Rest
  <2> QED BY <2>1, FS_Subset
<1>5. ASSUME NEW n \in Nat
      PROVE  IsFiniteSet({t} \X (1..n)) /\ Cardinality({t} \X (1..n)) = n
  <2>1. /\ IsFiniteSet(1..n)
        /\ Cardinality(1..n) = IF 1 > n THEN 0 ELSE n - 1 + 1
    <3>1. 1 \in Int /\ n \in Int
      OBVIOUS
    <3> QED BY <3>1, FS_Interval, Zenon
  <2>2. Cardinality(1..n) = n
    BY <2>1
  <2>3. IsFiniteSet({t}) /\ Cardinality({t}) = 1
    BY FS_Singleton, Zenon
  <2>4. /\ IsFiniteSet({t} \X (1..n))
        /\ Cardinality({t} \X (1..n)) = Cardinality({t}) * Cardinality(1..n)
    BY <2>1, <2>3, FS_Product, Zenon
  <2> QED BY <2>2, <2>3, <2>4
<1>6. IsFiniteSet(OwnS) /\ Cardinality(OwnS) = Own(S, t)
  BY <1>5
<1>7. IsFiniteSet(OwnT) /\ Cardinality(OwnT) = Own(T, t)
  BY <1>5
<1>8. Cardinality(Rest) \in Nat
  BY <1>4, FS_CardinalityType
<1> HIDE DEF Rest, OwnS, OwnT
<1>e. Cardinality({}) = 0
  BY FS_EmptySet, Zenon
<1>9. /\ IsFiniteSet(Rest \cup OwnS)
      /\ Cardinality(Rest \cup OwnS) = Cardinality(Rest) + Own(S, t)
  <2>1. /\ IsFiniteSet(Rest \cup OwnS)
        /\ Cardinality(Rest \cup OwnS) =
             Cardinality(Rest) + Cardinality(OwnS) - Cardinality(Rest \cap OwnS)
    BY <1>4, <1>6, FS_Union, Zenon
  <2>2. Cardinality(Rest \cap OwnS) = 0
    BY <1>3, <1>e, Zenon
  <2>3. Own(S, t) \in Nat
    OBVIOUS
  <2> HIDE DEF Own
  <2> QED BY <1>6, <1>8, <2>1, <2>2, <2>3
<1>10. /\ IsFiniteSet(Rest \cup OwnT)
       /\ Cardinality(Rest \cup OwnT) = Cardinality(Rest) + Own(T, t)
  <2>1. /\ IsFiniteSet(Rest \cup OwnT)
        /\ Cardinality(Rest \cup OwnT) =
             Cardinality(Rest) + Cardinality(OwnT) - Cardinality(Rest \cap OwnT)
    BY <1>4, <1>7, FS_Union, Zenon
  <2>2. Cardinality(Rest \cap OwnT) = 0
    BY <1>3, <1>e, Zenon
  <2>3. Own(T, t) \in Nat
    OBVIOUS
  <2> HIDE DEF Own
  <2> QED BY <1>7, <1>8, <2>1, <2>2, <2>3
<1> QED BY <1>1, <1>2, <1>8, <1>9, <1>10

----------------------------------------------------------------------------
(***************************************************************************)
(* The inductive invariant.                                                *)
(***************************************************************************)

\* The session table, its queues and the byte total.
StoreOK ==
    /\ DOMAIN sessions \subseteq FirstToken..(next_token - 1)
    /\ sessions \in [DOMAIN sessions -> Session]
    /\ next_token \in Nat /\ next_token >= FirstToken
    /\ \A t \in DOMAIN sessions : WellFormed(sessions[t].output)
    /\ IsFiniteSet(Outstanding(sessions))
    /\ QueueAccounting

\* The locals of the loops and the descriptors.
LocalOK ==
    /\ pc \in Program
    /\ batch \subseteq Event
    /\ event \in Event
    /\ alive \in BOOLEAN
    /\ left \in Nat
    /\ todo \subseteq DOMAIN sessions
    /\ last_sequence \in 0..MaxGen /\ latest \in 0..MaxGen
    /\ listeners_paused \in BOOLEAN /\ notification \in BOOLEAN
    /\ timer \in BOOLEAN /\ signal \in BOOLEAN
    /\ pc \in {"read", "write", "settle"} => event.token \in DOMAIN sessions
    /\ pc \notin {"sweep", "broadcast"} => todo = {}
    /\ pc = "broadcast" => last_sequence # 0

IndInv == StoreOK /\ LocalOK /\ BudgetHeld

\* The byte total of a consistent store is a number.
LEMMA QueuedType == StoreOK => queued_bytes \in Nat
  BY FS_CardinalityType DEF StoreOK, QueueAccounting

\* The inductive invariant contains the type invariant.
LEMMA IndInvType == IndInv => TypeOK
  BY QueuedType DEF IndInv, StoreOK, LocalOK, TypeOK

\* The reactor starts with an empty, consistent store.
LEMMA InitInv == Init => IndInv
<1> SUFFICES ASSUME Init PROVE IndInv
  OBVIOUS
<1>1. DOMAIN sessions = {}
  BY DEF Init
<1>2. Outstanding(sessions) = {}
  BY <1>1 DEF Outstanding
<1>3. IsFiniteSet(Outstanding(sessions)) /\ Cardinality(Outstanding(sessions)) = 0
  BY <1>2, FS_EmptySet, Zenon
<1>4. StoreOK
  BY <1>1, <1>3 DEF Init, StoreOK, QueueAccounting, FirstToken
<1>5. LocalOK
  <2>1. event \in Event
    BY DEF Init, NoEvent, Event
  <2>2. last_sequence \in 0..MaxGen /\ latest \in 0..MaxGen
    BY LimitsAssumption DEF Init
  <2> QED BY <1>1, <2>1, <2>2 DEF Init, LocalOK, Program
<1>6. BudgetHeld
  BY LimitsAssumption DEF Init, BudgetHeld
<1> QED BY <1>4, <1>5, <1>6 DEF IndInv

\* A session is added or replaced and the total follows.
LEMMA StoreUpdate ==
    ASSUME StoreOK, NEW t \in Nat, NEW s \in Session, WellFormed(s.output),
           sessions' = With(t, s),
           next_token' \in Nat, next_token' >= next_token, t \in FirstToken..(next_token' - 1),
           queued_bytes' = queued_bytes - Own(sessions, t) + Bytes(s.output)
    PROVE  StoreOK' /\ DOMAIN sessions' = DOMAIN sessions \cup {t}
<1>1. /\ DOMAIN sessions' = DOMAIN sessions \cup {t}
      /\ sessions'[t] = s
      /\ \A x \in DOMAIN sessions \ {t} : sessions'[x] = sessions[x]
  BY DEF With, Tokens
<1>2. sessions' \in [DOMAIN sessions' -> Session]
  BY <1>1 DEF StoreOK, With, Tokens
<1>3. \A x \in DOMAIN sessions' : WellFormed(sessions'[x].output)
  BY <1>1 DEF StoreOK
<1>4. Own(sessions, t) \in Nat /\ Own(sessions', t) = Bytes(s.output) /\ Bytes(s.output) \in Nat
  BY <1>1, BytesType DEF Own, StoreOK
<1>5. /\ DOMAIN sessions' \ {t} = DOMAIN sessions \ {t}
      /\ \A x \in DOMAIN sessions \ {t} : sessions'[x].output = sessions[x].output
  BY <1>1
<1>6. /\ IsFiniteSet(Outstanding(sessions'))
      /\ Cardinality(Outstanding(sessions')) =
           Cardinality(Outstanding(sessions)) - Own(sessions, t) + Own(sessions', t)
  BY <1>4, <1>5, SumUpdate, Zenon DEF StoreOK
<1>7. QueueAccounting'
  BY <1>4, <1>6 DEF StoreOK, QueueAccounting
<1>8. DOMAIN sessions' \subseteq FirstToken..(next_token' - 1)
  BY <1>1 DEF StoreOK, FirstToken
<1> QED BY <1>1, <1>2, <1>3, <1>6, <1>7, <1>8 DEF StoreOK, FirstToken

\* A session is removed together with its bytes.
LEMMA StoreRemove ==
    ASSUME StoreOK, NEW t \in DOMAIN sessions,
           sessions' = Without(t), next_token' = next_token,
           queued_bytes' = queued_bytes - Bytes(sessions[t].output)
    PROVE  StoreOK' /\ DOMAIN sessions' = DOMAIN sessions \ {t}
<1>1. /\ DOMAIN sessions' = DOMAIN sessions \ {t}
      /\ \A x \in DOMAIN sessions \ {t} : sessions'[x] = sessions[x]
  BY DEF Without, Tokens
<1>2. sessions' \in [DOMAIN sessions' -> Session]
  BY <1>1 DEF StoreOK, Without, Tokens
<1>3. \A x \in DOMAIN sessions' : WellFormed(sessions'[x].output)
  BY <1>1 DEF StoreOK
<1>4. /\ Own(sessions, t) = Bytes(sessions[t].output) /\ Own(sessions, t) \in Nat
      /\ Own(sessions', t) = 0
  BY <1>1, BytesType DEF Own, StoreOK
<1>5. /\ DOMAIN sessions' \ {t} = DOMAIN sessions \ {t}
      /\ \A x \in DOMAIN sessions \ {t} : sessions'[x].output = sessions[x].output
  BY <1>1
<1>6. Own(sessions', t) \in Nat
  BY <1>4
<1>7. /\ IsFiniteSet(Outstanding(sessions'))
      /\ Cardinality(Outstanding(sessions')) =
           Cardinality(Outstanding(sessions)) - Own(sessions, t) + Own(sessions', t)
      /\ Cardinality(Outstanding(sessions)) \in Nat
  BY <1>4, <1>5, <1>6, SumUpdate, Zenon DEF StoreOK
<1>8. QueueAccounting'
  BY <1>4, <1>7 DEF StoreOK, QueueAccounting
<1> QED BY <1>1, <1>2, <1>3, <1>7, <1>8 DEF StoreOK

\* All sessions are dropped at once.
LEMMA StoreCleared ==
    ASSUME StoreOK, sessions' = [t \in {} |-> {}], queued_bytes' = 0, next_token' = next_token
    PROVE  StoreOK' /\ DOMAIN sessions' = {}
<1>1. DOMAIN sessions' = {}
  OBVIOUS
<1>2. Outstanding(sessions') = {}
  BY <1>1 DEF Outstanding
<1>3. IsFiniteSet(Outstanding(sessions')) /\ Cardinality(Outstanding(sessions')) = 0
  BY <1>2, FS_EmptySet, Zenon
<1> QED BY <1>1, <1>3 DEF StoreOK, QueueAccounting

\* Nothing of the store changes.
LEMMA StoreSame ==
    ASSUME StoreOK, UNCHANGED <<sessions, next_token, queued_bytes>>
    PROVE  StoreOK' /\ DOMAIN sessions' = DOMAIN sessions
  BY DEF StoreOK, QueueAccounting, Outstanding

\* The clocks of the sessions move, their queues do not.
LEMMA StoreAged ==
    ASSUME StoreOK, sessions' = [t \in Tokens |-> Aged(sessions[t])],
           UNCHANGED <<next_token, queued_bytes>>
    PROVE  StoreOK' /\ DOMAIN sessions' = DOMAIN sessions
<1>1. DOMAIN sessions' = DOMAIN sessions
  BY DEF Tokens
<1>2. ASSUME NEW t \in DOMAIN sessions
      PROVE  sessions'[t] \in Session /\ sessions'[t].output = sessions[t].output
  <2>1. sessions[t] \in Session /\ sessions'[t] = Aged(sessions[t])
    BY <1>2 DEF StoreOK, Tokens
  <2> DEFINE r == sessions[t]
             a == IF r.streaming \/ r.responding \/ r.age > RequestTimeout THEN r.age ELSE r.age + 1
             i == IF Empty(r.output) \/ r.idle > WriteTimeout THEN r.idle ELSE r.idle + 1
  <2>2. a \in Nat /\ i \in Nat
    BY <2>1 DEF Session
  <2>3. Aged(r) = [r EXCEPT !.age = a, !.idle = i]
    BY DEF Aged
  <2> HIDE DEF a, i
  <2> QED BY <2>1, <2>2, <2>3 DEF Session
<1>3. Outstanding(sessions') = Outstanding(sessions)
  BY <1>1, <1>2 DEF Outstanding
<1>4. sessions' \in [DOMAIN sessions' -> Session]
  BY <1>1, <1>2 DEF Tokens
<1> QED BY <1>1, <1>2, <1>3, <1>4 DEF StoreOK, QueueAccounting

----------------------------------------------------------------------------
(***************************************************************************)
(* The helpers of the handlers.                                            *)
(***************************************************************************)

\* Modify changes the registered mask only.
LEMMA ModifyOK ==
    ASSUME NEW s \in Session
    PROVE  /\ Modify(s) \in Session /\ Modify(s).output = s.output
           /\ Modify(s).streaming = s.streaming
<1>1. Interest(s) \in SUBSET Flags
  BY DEF Interest, Flags
<1> QED BY <1>1 DEF Modify, Session

\* A session starts with an empty queue.
LEMMA NewSessionOK ==
    ASSUME NEW b \in BOOLEAN
    PROVE  NewSession(b) \in Session /\ NewSession(b).output = EmptyQueue
<1>1. EmptyQueue \in Queue /\ NewPeer \in Peer
  BY DEF EmptyQueue, NoBuffer, Queue, Buffer, NewPeer, Peer
<1> QED BY <1>1 DEF NewSession, Session

\* A published generation has a non-empty frame.
LEMMA FrameOK ==
    ASSUME NEW g \in 1..MaxGen
    PROVE  Frame(g) \in Buffer /\ Frame(g).size # 0
<1>1. FrameSizes[g] \in Nat \ {0} /\ g \in Nat
  BY LimitsAssumption
<1> QED BY <1>1 DEF Frame, Buffer

(***************************************************************************)
(* Enqueue: whether the buffer fits or is rolled back, the total follows   *)
(* the queue of the session and stays in budget.                           *)
(***************************************************************************)
LEMMA EnqueueOK ==
    ASSUME StoreOK, BudgetHeld, NEW s \in Session, WellFormed(s.output),
           NEW b \in Buffer, b.size # 0
    PROVE  /\ Enqueued(s, b) \in Session
           /\ WellFormed(Enqueued(s, b).output)
           /\ BytesEnqueued(s, b) = queued_bytes - Bytes(s.output) + Bytes(Enqueued(s, b).output)
           /\ BytesEnqueued(s, b) <= QueueBudget
           /\ ~Fits(s, b) => BytesEnqueued(s, b) = queued_bytes - Bytes(s.output)
<1>1. /\ WellFormed(Push(s.output, b)) /\ Push(s.output, b) \in Queue
      /\ Bytes(Push(s.output, b)) \in Nat /\ Bytes(s.output) \in Nat
  BY PushOK, BytesType
<1>2. queued_bytes \in Nat /\ queued_bytes <= QueueBudget /\ QueueBudget \in Nat
  BY QueuedType, LimitsAssumption DEF BudgetHeld
<1>3. Pushed(s, b) \in Session /\ Pushed(s, b).output = Push(s.output, b)
  <2> DEFINE i == IF Empty(s.output) THEN 0 ELSE s.idle
             q == Push(s.output, b)
  <2>1. i \in Nat /\ q \in Queue
    BY <1>1 DEF Session
  <2>2. Pushed(s, b) = [s EXCEPT !.output = q, !.idle = i]
    BY DEF Pushed
  <2> HIDE DEF i, q
  <2>3. [s EXCEPT !.output = q, !.idle = i] \in Session
    BY <2>1 DEF Session
  <2>4. [s EXCEPT !.output = q, !.idle = i].output = q
    BY DEF Session
  <2> QED BY <2>2, <2>3, <2>4 DEF q
<1>4. CASE Fits(s, b)
  <2>1. Enqueued(s, b) = Pushed(s, b) /\ BytesEnqueued(s, b) = BytesAfterPush(s, b)
    BY <1>4 DEF Enqueued, BytesEnqueued
  <2> QED BY <1>1, <1>2, <1>3, <1>4, <2>1 DEF Fits, BytesAfterPush
<1>5. CASE ~Fits(s, b)
  <2>0. EmptyQueue \in Queue /\ WellFormed(EmptyQueue) /\ Bytes(EmptyQueue) = 0
    BY EmptyQueueOK, BytesType
  <2>1. /\ Enqueued(s, b) \in Session /\ Enqueued(s, b).output = EmptyQueue
    BY <1>3, <1>5, <2>0 DEF Enqueued, Session
  <2>2. BytesEnqueued(s, b) = queued_bytes - Bytes(s.output)
    BY <1>1, <1>2, <1>5 DEF BytesEnqueued, BytesAfterPush
  <2> QED BY <1>1, <1>2, <1>5, <2>0, <2>1, <2>2
<1> QED BY <1>4, <1>5

\* A session of the table has the type and the queue the lemmas above need.
LEMMA SessionOK ==
    ASSUME StoreOK, NEW t \in DOMAIN sessions
    PROVE  /\ sessions[t] \in Session /\ WellFormed(sessions[t].output)
           /\ Bytes(sessions[t].output) \in Nat
           /\ Own(sessions, t) = Bytes(sessions[t].output)
           /\ t \in Nat /\ t \in FirstToken..(next_token - 1)
  BY BytesType DEF StoreOK, Own, FirstToken

\* A session of the table is replaced and the total follows.
LEMMA StoreReplace ==
    ASSUME StoreOK, NEW t \in DOMAIN sessions, NEW s \in Session, WellFormed(s.output),
           sessions' = With(t, s), next_token' = next_token,
           queued_bytes' = queued_bytes - Bytes(sessions[t].output) + Bytes(s.output)
    PROVE  StoreOK' /\ DOMAIN sessions' = DOMAIN sessions
<1>1. /\ Own(sessions, t) = Bytes(sessions[t].output)
      /\ t \in Nat /\ t \in FirstToken..(next_token - 1)
  BY SessionOK
<1>2. /\ next_token' \in Nat /\ next_token' >= next_token
      /\ t \in FirstToken..(next_token' - 1)
      /\ queued_bytes' = queued_bytes - Own(sessions, t) + Bytes(s.output)
  BY <1>1 DEF StoreOK
<1>3. StoreOK' /\ DOMAIN sessions' = DOMAIN sessions \cup {t}
  BY <1>1, <1>2, StoreUpdate
<1> QED BY <1>3

\* Closing a session keeps the budget.
LEMMA CloseOK ==
    ASSUME IndInv, NEW t \in DOMAIN sessions, Close(t), next_token' = next_token
    PROVE  StoreOK' /\ BudgetHeld' /\ DOMAIN sessions' = DOMAIN sessions \ {t}
<1>1. StoreOK' /\ DOMAIN sessions' = DOMAIN sessions \ {t}
  BY StoreRemove DEF IndInv, Close
<1>2. Bytes(sessions[t].output) \in Nat /\ queued_bytes \in Nat
  BY SessionOK, QueuedType DEF IndInv
<1>3. BudgetHeld'
  BY <1>2, LimitsAssumption DEF IndInv, BudgetHeld, Close
<1> QED BY <1>1, <1>3

----------------------------------------------------------------------------
(***************************************************************************)
(* The actions, one lemma for each.                                        *)
(***************************************************************************)

\* Waiting for events keeps the invariant.
LEMMA EpollWaitInv == ASSUME IndInv, EpollWait PROVE IndInv'
<1>1. StoreOK' /\ DOMAIN sessions' = DOMAIN sessions /\ BudgetHeld'
  BY StoreSame DEF IndInv, EpollWait, server, BudgetHeld
<1>2. PICK ready \in SUBSET (ControlReady \cup ListenerReady \cup SessionReady) :
         batch' = ready
  BY DEF EpollWait
<1>3. ControlReady \subseteq Event
  BY DEF ControlReady, Event, Flags, kSignal, kNotification, kTimer
<1>4. ListenerReady \subseteq Event
  BY DEF ListenerReady, Event, Flags, kHttp, kStream
<1>5. SessionReady \subseteq Event
  <2> SUFFICES ASSUME NEW e \in SessionReady PROVE e \in Event
    OBVIOUS
  <2>1. PICK t \in DOMAIN sessions :
           e \in {[token |-> t, flags |-> f] :
                     f \in {{"ERR"}} \cup (SUBSET (sessions[t].interest \cup {"HUP"}) \ {{}})}
    BY DEF SessionReady, Tokens
  <2>2. sessions[t].interest \in SUBSET Flags /\ t \in Nat
    BY SessionOK DEF IndInv, Session
  <2>3. PICK f \in {{"ERR"}} \cup (SUBSET (sessions[t].interest \cup {"HUP"}) \ {{}}) :
           e = [token |-> t, flags |-> f]
    BY <2>1
  <2>4. f \in SUBSET Flags
    BY <2>2 DEF Flags
  <2> QED BY <2>2, <2>3, <2>4 DEF Event
<1>6. batch' \subseteq Event
  BY <1>2, <1>3, <1>4, <1>5
<1>7. LocalOK'
  BY <1>1, <1>6 DEF IndInv, LocalOK, EpollWait, server, environment
<1> QED BY <1>1, <1>7 DEF IndInv

\* Shutdown leaves an empty store.
LEMMA ShutdownInv == ASSUME IndInv, Shutdown PROVE IndInv'
<1>1. StoreOK' /\ DOMAIN sessions' = {}
  BY StoreCleared DEF IndInv, Shutdown
<1>2. BudgetHeld'
  BY LimitsAssumption DEF Shutdown, BudgetHeld
<1>3. LocalOK'
  BY <1>1 DEF IndInv, LocalOK, Shutdown, Program
<1> QED BY <1>1, <1>2, <1>3 DEF IndInv

\* Dispatching a listener event keeps the invariant.
LEMMA HandleListenerInv ==
    ASSUME IndInv, NEW e \in batch, HandleListener(e) PROVE IndInv'
<1>1. StoreOK' /\ DOMAIN sessions' = DOMAIN sessions /\ BudgetHeld'
  BY StoreSame DEF IndInv, HandleListener, server, BudgetHeld
<1>2. batch' \subseteq Event /\ event' \in Event /\ left' \in Nat /\ pc' \in {"loop", "accept"}
  BY LimitsAssumption DEF IndInv, LocalOK, HandleListener, Take
<1>3. LocalOK'
  BY <1>1, <1>2 DEF IndInv, LocalOK, HandleListener, Take, Program, server, environment
<1> QED BY <1>1, <1>3 DEF IndInv

\* Dispatching a session event keeps the invariant; a stale one changes nothing.
LEMMA HandleSessionInv ==
    ASSUME IndInv, NEW e \in batch, HandleSession(e) PROVE IndInv'
<1>1. StoreOK' /\ DOMAIN sessions' = DOMAIN sessions /\ BudgetHeld'
  BY StoreSame DEF IndInv, HandleSession, server, BudgetHeld
<1>2. batch' \subseteq Event /\ pc = "loop"
  BY DEF IndInv, LocalOK, HandleSession, Take
<1>3. CASE e.token \notin Tokens
  <2>1. UNCHANGED <<pc, event, alive, left, todo, last_sequence, listeners_paused, latest,
                    notification, timer, signal>>
    BY <1>3 DEF HandleSession, server, environment
  <2> QED BY <1>1, <1>2, <2>1 DEF IndInv, LocalOK
<1>4. CASE e.token \in Tokens
  <2>1. event' = e /\ e \in Event /\ e.token \in DOMAIN sessions'
    BY <1>1, <1>4 DEF IndInv, LocalOK, HandleSession, Tokens
  <2>2. alive' \in BOOLEAN
    BY <1>4, Zenon DEF HandleSession
  <2>3. left' \in Nat /\ pc' \in {"read", "write", "settle"}
    BY <1>4, LimitsAssumption DEF HandleSession, EnterWrite, EnterSettle
  <2>4. UNCHANGED <<todo, last_sequence, listeners_paused, latest, notification, timer, signal>>
    BY DEF HandleSession, server, environment
  <2> QED BY <1>1, <1>2, <2>1, <2>2, <2>3, <2>4 DEF IndInv, LocalOK, Program
<1> QED BY <1>3, <1>4

\* Dispatching a notification keeps the invariant.
LEMMA HandleNotificationInv ==
    ASSUME IndInv, NEW e \in batch, HandleNotification(e) PROVE IndInv'
<1>1. StoreOK' /\ DOMAIN sessions' = DOMAIN sessions /\ BudgetHeld'
  BY StoreSame DEF IndInv, HandleNotification, BudgetHeld
<1>2. LocalOK'
  BY <1>1 DEF IndInv, LocalOK, HandleNotification, StartBroadcast, Take, Program, Tokens
<1> QED BY <1>1, <1>2 DEF IndInv

\* Dispatching the timer keeps the invariant.
LEMMA HandleTimerInv ==
    ASSUME IndInv, NEW e \in batch, HandleTimer(e) PROVE IndInv'
<1>1. StoreOK' /\ DOMAIN sessions' = DOMAIN sessions /\ BudgetHeld'
  BY StoreSame DEF IndInv, HandleTimer, server, BudgetHeld
<1>2. Expired \subseteq DOMAIN sessions
  BY DEF Expired, Tokens
<1>3. LocalOK'
  BY <1>1, <1>2 DEF IndInv, LocalOK, HandleTimer, Take, Program, server
<1> QED BY <1>1, <1>3 DEF IndInv

\* Returning to the event loop is a well-typed step of the locals.
LEMMA ReturnOK ==
    ASSUME IndInv, pc \notin {"sweep", "broadcast"}, Return
    PROVE  /\ pc' = "loop" /\ batch' = batch /\ event' \in Event /\ alive' \in BOOLEAN
           /\ left' \in Nat /\ todo' = {}
<1>1. NoEvent \in Event
  BY DEF NoEvent, Event
<1>2. alive' \in BOOLEAN
  BY DEF Return
<1> QED BY <1>1, <1>2 DEF IndInv, LocalOK, Return

\* The same for one turn of an accept loop.
LEMMA AcceptTurnOK ==
    ASSUME IndInv, pc = "accept", NextTurn(Return)
    PROVE  /\ pc' \in {"loop", "accept"} /\ batch' = batch /\ event' \in Event
           /\ alive' \in BOOLEAN /\ left' \in Nat /\ todo' = {}
<1>1. CASE left > 1
  BY <1>1 DEF IndInv, LocalOK, NextTurn
<1>2. CASE ~(left > 1)
  <2>1. Return
    BY <1>2 DEF NextTurn
  <2> QED BY <2>1, ReturnOK
<1> QED BY <1>1, <1>2

\* The calls of accept4 that open no session keep the invariant.
LEMMA AcceptOtherInv ==
    ASSUME IndInv, AcceptNothing \/ AcceptExhausted \/ AcceptSkipped PROVE IndInv'
<1>1. StoreOK' /\ DOMAIN sessions' = DOMAIN sessions /\ BudgetHeld'
  BY StoreSame DEF IndInv, AcceptNothing, AcceptExhausted, AcceptSkipped, server, BudgetHeld
<1>2. /\ pc' \in {"loop", "accept"} /\ batch' = batch /\ event' \in Event
      /\ alive' \in BOOLEAN /\ left' \in Nat /\ todo' = {}
  BY ReturnOK, AcceptTurnOK DEF AcceptNothing, AcceptExhausted, AcceptSkipped
<1>3. listeners_paused' \in BOOLEAN
  BY DEF IndInv, LocalOK, AcceptNothing, AcceptExhausted, AcceptSkipped, server
<1>4. UNCHANGED <<last_sequence, latest, notification, timer, signal>>
  BY DEF AcceptNothing, AcceptExhausted, AcceptSkipped, server, environment
<1> QED BY <1>1, <1>2, <1>3, <1>4 DEF IndInv, LocalOK, Program

\* Opening a session keeps the invariant, greeted or not, in budget or not.
LEMMA AcceptSessionInv == ASSUME IndInv, AcceptSession PROVE IndInv'
<1> DEFINE s == NewSession(event.token = kStream)
           b == Frame(latest)
<1>1. s \in Session /\ s.output = EmptyQueue /\ WellFormed(s.output) /\ Bytes(s.output) = 0
  <2>1. (event.token = kStream) \in BOOLEAN
    OBVIOUS
  <2> QED BY <2>1, NewSessionOK, EmptyQueueOK
<1>2. /\ next_token \in Nat /\ next_token >= FirstToken /\ next_token' = next_token + 1
      /\ next_token \in FirstToken..(next_token' - 1) /\ next_token' \in Nat
      /\ next_token' >= next_token
  BY DEF IndInv, StoreOK, AcceptSession, FirstToken
<1>3. Own(sessions, next_token) = 0
  BY <1>2 DEF IndInv, StoreOK, Own
<1>4. queued_bytes \in Nat
  BY QueuedType DEF IndInv
<1>5. /\ pc' \in {"loop", "accept"} /\ batch' = batch /\ event' \in Event
      /\ alive' \in BOOLEAN /\ left' \in Nat /\ todo' = {}
  BY AcceptTurnOK DEF AcceptSession
<1>6. UNCHANGED <<last_sequence, listeners_paused, latest, notification, timer, signal>>
  BY DEF AcceptSession, environment
<1>7. StoreOK' /\ BudgetHeld'
  <2>1. CASE ~Greeted(s)
    <3>1. sessions' = With(next_token, Modify(s)) /\ queued_bytes' = queued_bytes
      BY <2>1 DEF AcceptSession, NewToken
    <3>2. Modify(s) \in Session /\ Modify(s).output = s.output
      BY <1>1, ModifyOK
    <3>3. queued_bytes' = queued_bytes - Own(sessions, next_token) + Bytes(Modify(s).output)
      BY <1>1, <1>3, <1>4, <3>1, <3>2
    <3>4. StoreOK'
      BY <1>1, <1>2, <3>1, <3>2, <3>3, StoreUpdate DEF IndInv
    <3> QED BY <3>1, <3>4 DEF IndInv, BudgetHeld
  <2>2. CASE Greeted(s)
    <3>1. latest \in 1..MaxGen
      BY <2>2 DEF Greeted, IndInv, LocalOK
    <3>2. b \in Buffer /\ b.size # 0
      BY <3>1, FrameOK
    <3>3. /\ sessions' = IF Fits(s, b) THEN With(next_token, Modify(Enqueued(s, b))) ELSE sessions
          /\ queued_bytes' = BytesEnqueued(s, b)
      BY <2>2 DEF AcceptSession, NewToken
    <3> HIDE DEF s, b
    <3>4. /\ Enqueued(s, b) \in Session
          /\ WellFormed(Enqueued(s, b).output)
          /\ BytesEnqueued(s, b) = queued_bytes - Bytes(s.output) + Bytes(Enqueued(s, b).output)
          /\ BytesEnqueued(s, b) <= QueueBudget
          /\ ~Fits(s, b) => BytesEnqueued(s, b) = queued_bytes - Bytes(s.output)
      BY <1>1, <3>2, EnqueueOK DEF IndInv
    <3>5. /\ Modify(Enqueued(s, b)) \in Session
          /\ Modify(Enqueued(s, b)).output = Enqueued(s, b).output
      BY <3>4, ModifyOK
    <3>6. BudgetHeld'
      BY <3>3, <3>4 DEF BudgetHeld
    <3>7. CASE Fits(s, b)
      <4>1. Bytes(Enqueued(s, b).output) \in Nat
        BY <3>4, BytesType
      <4>2. queued_bytes' =
               queued_bytes - Own(sessions, next_token) + Bytes(Modify(Enqueued(s, b)).output)
        BY <1>1, <1>3, <1>4, <3>3, <3>4, <3>5
      <4> QED BY <1>2, <3>3, <3>4, <3>5, <3>6, <3>7, <4>2, StoreUpdate DEF IndInv
    <3>8. CASE ~Fits(s, b)
      <4>1. sessions' = sessions /\ queued_bytes' = queued_bytes
        BY <1>1, <1>4, <3>3, <3>4, <3>8
      <4> QED BY <1>2, <3>6, <4>1 DEF IndInv, StoreOK, QueueAccounting, FirstToken
    <3> QED BY <3>7, <3>8
  <2> QED BY <2>1, <2>2
<1>8. todo' \subseteq DOMAIN sessions'
  BY <1>5
<1> QED BY <1>5, <1>6, <1>7, <1>8 DEF IndInv, LocalOK, Program

\* What Read leaves of the locals.
LEMMA ReadReturnsOK ==
    ASSUME IndInv, NEW ok \in BOOLEAN, ReadReturns(ok)
    PROVE  /\ pc' \in {"write", "settle"} /\ batch' = batch /\ event' = event
           /\ alive' \in BOOLEAN /\ left' \in Nat /\ todo' = todo
  BY LimitsAssumption DEF ReadReturns, EnterWrite, EnterSettle

\* The same for one turn of the read loop.
LEMMA ReadTurnOK ==
    ASSUME IndInv, pc = "read", NextTurn(ReadReturns(TRUE))
    PROVE  /\ pc' \in {"read", "write", "settle"} /\ batch' = batch /\ event' = event
           /\ alive' \in BOOLEAN /\ left' \in Nat /\ todo' = todo
<1>1. CASE left > 1
  BY <1>1 DEF IndInv, LocalOK, NextTurn
<1>2. CASE ~(left > 1)
  <2>1. ReadReturns(TRUE)
    BY <1>2 DEF NextTurn
  <2> QED BY <2>1, ReadReturnsOK
<1> QED BY <1>1, <1>2

\* A recv that brought nothing keeps the invariant.
LEMMA ReadNothingInv ==
    ASSUME IndInv, ReadNothing \/ ReadInterrupted PROVE IndInv'
<1>1. StoreOK' /\ DOMAIN sessions' = DOMAIN sessions /\ BudgetHeld'
  BY StoreSame DEF IndInv, ReadNothing, ReadInterrupted, server, BudgetHeld
<1>2. /\ pc' \in {"read", "write", "settle"} /\ batch' = batch /\ event' = event
      /\ alive' \in BOOLEAN /\ left' \in Nat /\ todo' = todo /\ pc = "read"
  BY ReadReturnsOK, ReadTurnOK DEF ReadNothing, ReadInterrupted
<1>3. UNCHANGED <<last_sequence, listeners_paused, latest, notification, timer, signal>>
  BY DEF ReadNothing, ReadInterrupted, server, environment
<1> QED BY <1>1, <1>2, <1>3 DEF IndInv, LocalOK, Program

\* A part of a request keeps the invariant.
LEMMA ReadPartInv ==
    ASSUME IndInv, NEW n \in 1..RecvSize, ReadPart(n) PROVE IndInv'
<1> DEFINE t == event.token
           s == [Current EXCEPT !.request = @ + n]
<1>1. t \in DOMAIN sessions /\ pc = "read"
  BY DEF IndInv, LocalOK, ReadPart
<1>2. n \in Nat
  BY LimitsAssumption
<1>3. s \in Session /\ s.output = sessions[t].output
  BY <1>1, <1>2, SessionOK DEF IndInv, Current, Session
<1>4. /\ sessions' = With(t, s) /\ queued_bytes' = queued_bytes /\ next_token' = next_token
      /\ UNCHANGED <<last_sequence, listeners_paused, latest, notification, timer, signal>>
  BY DEF ReadPart, environment
<1> HIDE DEF s, t
<1>5. queued_bytes' = queued_bytes - Bytes(sessions[t].output) + Bytes(s.output)
  BY <1>1, <1>3, <1>4, SessionOK, QueuedType DEF IndInv
<1>6. StoreOK' /\ DOMAIN sessions' = DOMAIN sessions
  <2>1. WellFormed(s.output)
    BY <1>1, <1>3, SessionOK DEF IndInv
  <2> QED BY <1>1, <1>3, <1>4, <1>5, <2>1, StoreReplace DEF IndInv
<1>7. BudgetHeld'
  BY <1>4 DEF IndInv, BudgetHeld
<1>8. /\ pc' \in {"read", "write", "settle"} /\ batch' = batch /\ event' = event
      /\ alive' \in BOOLEAN /\ left' \in Nat /\ todo' = todo
  BY ReadTurnOK DEF ReadPart
<1> QED BY <1>1, <1>4, <1>6, <1>7, <1>8 DEF IndInv, LocalOK, Program, t

\* Queueing a response keeps the invariant, in budget or not.
LEMMA ReadRequestInv ==
    ASSUME IndInv, NEW size \in ResponseSizes, ReadRequest(size) PROVE IndInv'
<1> DEFINE t == event.token
           s == [Current EXCEPT !.responding = TRUE, !.request = 0]
           b == Response(size)
<1>1. t \in DOMAIN sessions /\ pc = "read"
  BY DEF IndInv, LocalOK, ReadRequest
<1>2. b \in Buffer /\ b.size # 0
  BY LimitsAssumption DEF Response, Buffer
<1>3. s \in Session /\ s.output = sessions[t].output /\ WellFormed(s.output)
  BY <1>1, SessionOK DEF IndInv, Current, Session
<1>4. /\ sessions' = With(t, Enqueued(s, b)) /\ queued_bytes' = BytesEnqueued(s, b)
      /\ next_token' = next_token
      /\ UNCHANGED <<last_sequence, listeners_paused, latest, notification, timer, signal>>
  BY DEF ReadRequest, environment
<1>5. ReadReturns(Fits(s, b)) /\ Fits(s, b) \in BOOLEAN
  BY DEF ReadRequest, Fits
<1> HIDE DEF s, b, t
<1>6. /\ Enqueued(s, b) \in Session
      /\ WellFormed(Enqueued(s, b).output)
      /\ BytesEnqueued(s, b) = queued_bytes - Bytes(s.output) + Bytes(Enqueued(s, b).output)
      /\ BytesEnqueued(s, b) <= QueueBudget
  BY <1>2, <1>3, EnqueueOK DEF IndInv
<1>7. StoreOK' /\ DOMAIN sessions' = DOMAIN sessions
  BY <1>1, <1>3, <1>4, <1>6, StoreReplace DEF IndInv
<1>8. BudgetHeld'
  BY <1>4, <1>6 DEF BudgetHeld
<1>9. /\ pc' \in {"write", "settle"} /\ batch' = batch /\ event' = event
      /\ alive' \in BOOLEAN /\ left' \in Nat /\ todo' = todo
  BY <1>5, ReadReturnsOK
<1> QED BY <1>1, <1>4, <1>7, <1>8, <1>9 DEF IndInv, LocalOK, Program, t

\* Sent bytes leave the queue and the total.
LEMMA WriteSomeInv ==
    ASSUME IndInv, NEW n \in 1..WriteBudget, WriteSome(n) PROVE IndInv'
<1> DEFINE t == event.token
           s == Sent(Current, n)
<1>1. t \in DOMAIN sessions /\ pc = "write" /\ Current = sessions[t]
  BY DEF IndInv, LocalOK, WriteSome, Current
<1>2. n \in Nat \ {0} /\ left >= n /\ left \in Nat /\ left' = left - n
  BY LimitsAssumption DEF WriteSome, IndInv, LocalOK
<1>3. Current \in Session /\ WellFormed(Current.output) /\ CanConsume(Current.output, n)
  BY <1>1, SessionOK DEF IndInv, WriteSome
<1>4. /\ WellFormed(Consume(Current.output, n))
      /\ Bytes(Consume(Current.output, n)) = Bytes(Current.output) - n
      /\ Consume(Current.output, n) \in Queue
  BY <1>2, <1>3, ConsumeOK, BytesType
<1>5. s \in Session /\ s.output = Consume(Current.output, n)
  <2> DEFINE q == Consume(Current.output, n)
             r == Receive(Current.peer, Current.output.current, Current.output.offset, n)
             p == IF Current.streaming THEN r ELSE Current.peer
  <2>1. r \in Peer
    BY <1>2, <1>3 DEF Receive, Peer, Session, Queue, Buffer
  <2>2. p \in Peer
    BY <1>3, <2>1 DEF Session
  <2>3. s = [Current EXCEPT !.output = q, !.idle = 0, !.peer = p]
    BY DEF Sent
  <2>4. q \in Queue
    BY <1>4
  <2> HIDE DEF q, p, r, s
  <2>5. s \in Session /\ s.output = q
    BY <1>3, <2>2, <2>3, <2>4 DEF Session
  <2> QED BY <2>5 DEF q
<1>6. /\ sessions' = With(t, s) /\ queued_bytes' = queued_bytes - n /\ next_token' = next_token
      /\ UNCHANGED <<pc, batch, event, alive, todo, last_sequence, listeners_paused, latest,
                     notification, timer, signal>>
  BY DEF WriteSome, environment
<1> HIDE DEF s, t
<1>7. queued_bytes' = queued_bytes - Bytes(sessions[t].output) + Bytes(s.output)
  BY <1>1, <1>2, <1>4, <1>5, <1>6, SessionOK, QueuedType DEF IndInv
<1>8. StoreOK' /\ DOMAIN sessions' = DOMAIN sessions
  BY <1>1, <1>4, <1>5, <1>6, <1>7, StoreReplace DEF IndInv
<1>9. BudgetHeld'
  BY <1>2, <1>6, QueuedType, LimitsAssumption DEF IndInv, BudgetHeld
<1> QED BY <1>1, <1>2, <1>6, <1>8, <1>9 DEF IndInv, LocalOK, Program, t

\* The end of a write keeps the invariant.
LEMMA WriteEndsInv ==
    ASSUME IndInv, WriteNothing \/ WriteEnds PROVE IndInv'
<1>1. StoreOK' /\ DOMAIN sessions' = DOMAIN sessions /\ BudgetHeld'
  BY StoreSame DEF IndInv, WriteNothing, WriteEnds, server, BudgetHeld
<1>2. /\ pc = "write" /\ pc' = "settle" /\ left' = 0
      /\ UNCHANGED <<batch, event, todo, last_sequence, listeners_paused, latest,
                     notification, timer, signal>>
  BY DEF WriteNothing, WriteEnds, WriteReturns, EnterSettle, server, environment
<1>3. alive' \in BOOLEAN
  <2>1. CASE WriteNothing
    BY <2>1 DEF WriteNothing, WriteReturns
  <2>2. CASE WriteEnds
    <3>1. alive' = (Current.streaming \/ ~Empty(Current.output))
      BY <2>2 DEF WriteEnds, WriteReturns
    <3> QED BY <3>1, Zenon
  <2> QED BY <2>1, <2>2
<1> QED BY <1>1, <1>2, <1>3 DEF IndInv, LocalOK, Program

\* Close or Modify at the end of a session event keeps the invariant.
LEMMA SettleInv == ASSUME IndInv, Settle PROVE IndInv'
<1> DEFINE t == event.token
<1>1. t \in DOMAIN sessions /\ pc = "settle"
  BY DEF IndInv, LocalOK, Settle
<1>2. /\ next_token' = next_token
      /\ UNCHANGED <<last_sequence, listeners_paused, latest, notification, timer, signal>>
  BY DEF Settle, environment
<1>3. /\ pc' = "loop" /\ batch' = batch /\ event' \in Event /\ alive' \in BOOLEAN
      /\ left' \in Nat /\ todo' = {}
  BY <1>1, ReturnOK DEF Settle
<1>4. StoreOK' /\ BudgetHeld'
  <2>1. CASE alive /\ "HUP" \notin event.flags
    <3>1. sessions' = With(t, Modify(sessions[t])) /\ queued_bytes' = queued_bytes
      BY <2>1 DEF Settle, Current
    <3>2. /\ Modify(sessions[t]) \in Session
          /\ Modify(sessions[t]).output = sessions[t].output
      BY <1>1, SessionOK, ModifyOK DEF IndInv
    <3>3. queued_bytes' = queued_bytes - Bytes(sessions[t].output) + Bytes(Modify(sessions[t]).output)
      BY <1>1, <3>1, <3>2, SessionOK, QueuedType DEF IndInv
    <3>4. StoreOK'
      <4>1. WellFormed(Modify(sessions[t]).output)
        BY <1>1, <3>2, SessionOK DEF IndInv
      <4> QED BY <1>1, <1>2, <3>1, <3>2, <3>3, <4>1, StoreReplace DEF IndInv
    <3> QED BY <3>1, <3>4 DEF IndInv, BudgetHeld
  <2>2. CASE ~(alive /\ "HUP" \notin event.flags)
    BY <1>1, <1>2, <2>2, CloseOK DEF Settle
  <2> QED BY <2>1, <2>2
<1> QED BY <1>2, <1>3, <1>4 DEF IndInv, LocalOK, Program

\* Closing an expired session keeps the invariant.
LEMMA SweepCloseInv ==
    ASSUME IndInv, NEW t \in todo, SweepClose(t) PROVE IndInv'
<1>1. t \in DOMAIN sessions /\ pc = "sweep"
  BY DEF IndInv, LocalOK, SweepClose
<1>2. /\ Close(t) /\ next_token' = next_token /\ todo' = todo \ {t}
      /\ UNCHANGED <<pc, batch, event, alive, left, last_sequence, listeners_paused, latest,
                     notification, timer, signal>>
  BY DEF SweepClose, environment
<1>3. StoreOK' /\ BudgetHeld' /\ DOMAIN sessions' = DOMAIN sessions \ {t}
  BY <1>1, <1>2, CloseOK
<1> QED BY <1>1, <1>2, <1>3 DEF IndInv, LocalOK

\* The end of a sweep keeps the invariant.
LEMMA SweepDoneInv == ASSUME IndInv, SweepDone PROVE IndInv'
<1>1. StoreOK' /\ DOMAIN sessions' = DOMAIN sessions /\ BudgetHeld'
  BY StoreSame DEF IndInv, SweepDone, BudgetHeld
<1>2. LocalOK'
  BY <1>1 DEF IndInv, LocalOK, SweepDone, StartBroadcast, Program, Tokens, environment
<1> QED BY <1>1, <1>2 DEF IndInv

\* One session of a broadcast, kept or closed for want of budget.
LEMMA BroadcastToInv ==
    ASSUME IndInv, NEW t \in todo, BroadcastTo(t) PROVE IndInv'
<1> DEFINE s == sessions[t]
           b == Frame(last_sequence)
<1>1. t \in DOMAIN sessions /\ pc = "broadcast" /\ last_sequence \in 1..MaxGen
  BY DEF IndInv, LocalOK, BroadcastTo
<1>2. b \in Buffer /\ b.size # 0
  BY <1>1, FrameOK
<1>3. s \in Session /\ WellFormed(s.output) /\ Bytes(s.output) \in Nat
  BY <1>1, SessionOK DEF IndInv
<1>4. /\ sessions' = IF Fits(s, b) THEN With(t, Modify(Enqueued(s, b))) ELSE Without(t)
      /\ queued_bytes' = BytesEnqueued(s, b) /\ next_token' = next_token /\ todo' = todo \ {t}
      /\ UNCHANGED <<pc, batch, event, alive, left, last_sequence, listeners_paused, latest,
                     notification, timer, signal>>
  BY DEF BroadcastTo, environment
<1> HIDE DEF b
<1>5. /\ Enqueued(s, b) \in Session
      /\ WellFormed(Enqueued(s, b).output)
      /\ BytesEnqueued(s, b) = queued_bytes - Bytes(s.output) + Bytes(Enqueued(s, b).output)
      /\ BytesEnqueued(s, b) <= QueueBudget
      /\ ~Fits(s, b) => BytesEnqueued(s, b) = queued_bytes - Bytes(s.output)
  BY <1>2, <1>3, EnqueueOK DEF IndInv
<1>6. BudgetHeld'
  BY <1>4, <1>5 DEF BudgetHeld
<1>7. StoreOK' /\ todo' \subseteq DOMAIN sessions'
  <2>1. CASE Fits(s, b)
    <3>1. /\ Modify(Enqueued(s, b)) \in Session
          /\ Modify(Enqueued(s, b)).output = Enqueued(s, b).output
      BY <1>5, ModifyOK
    <3>2. StoreOK' /\ DOMAIN sessions' = DOMAIN sessions
      BY <1>1, <1>4, <1>5, <2>1, <3>1, StoreReplace DEF IndInv
    <3> QED BY <1>4, <3>2 DEF IndInv, LocalOK
  <2>2. CASE ~Fits(s, b)
    <3>1. sessions' = Without(t) /\ queued_bytes' = queued_bytes - Bytes(sessions[t].output)
      BY <1>4, <1>5, <2>2
    <3>2. StoreOK' /\ DOMAIN sessions' = DOMAIN sessions \ {t}
      BY <1>1, <1>4, <3>1, StoreRemove DEF IndInv
    <3> QED BY <1>4, <3>2 DEF IndInv, LocalOK
  <2> QED BY <2>1, <2>2
<1> QED BY <1>1, <1>4, <1>6, <1>7 DEF IndInv, LocalOK

\* The end of a broadcast keeps the invariant.
LEMMA BroadcastDoneInv == ASSUME IndInv, BroadcastDone PROVE IndInv'
<1>1. StoreOK' /\ DOMAIN sessions' = DOMAIN sessions /\ BudgetHeld'
  BY StoreSame DEF IndInv, BroadcastDone, server, BudgetHeld
<1>2. LocalOK'
  BY <1>1 DEF IndInv, LocalOK, BroadcastDone, Program, server, environment
<1> QED BY <1>1, <1>2 DEF IndInv

\* An exception leaves an empty store.
LEMMA FailInv == ASSUME IndInv, Fail PROVE IndInv'
<1>1. StoreOK' /\ DOMAIN sessions' = {}
  BY StoreCleared DEF IndInv, Fail
<1>2. BudgetHeld'
  BY LimitsAssumption DEF Fail, BudgetHeld
<1>3. LocalOK'
  BY <1>1 DEF IndInv, LocalOK, Fail, Program, environment
<1> QED BY <1>1, <1>2, <1>3 DEF IndInv

\* Nothing the worker, the clock or the user does breaks the invariant.
LEMMA WorldInv == ASSUME IndInv, World PROVE IndInv'
<1>1. CASE Publish \/ Notify \/ Signal
  <2>1. StoreOK' /\ DOMAIN sessions' = DOMAIN sessions /\ BudgetHeld'
    BY <1>1, StoreSame DEF IndInv, Publish, Notify, Signal, server, BudgetHeld
  <2>2. latest' \in 0..MaxGen /\ last_sequence' = last_sequence
    BY <1>1, LimitsAssumption DEF IndInv, LocalOK, Publish, Notify, Signal, server
  <2>3. notification' \in BOOLEAN /\ timer' \in BOOLEAN /\ signal' \in BOOLEAN
    BY <1>1 DEF IndInv, LocalOK, Publish, Notify, Signal
  <2>4. UNCHANGED <<pc, batch, event, alive, left, todo, listeners_paused>>
    BY <1>1 DEF Publish, Notify, Signal, control, server
  <2> QED BY <2>1, <2>2, <2>3, <2>4 DEF IndInv, LocalOK
<1>2. CASE Tick
  <2>1. StoreOK' /\ DOMAIN sessions' = DOMAIN sessions
    BY <1>2, StoreAged DEF IndInv, Tick
  <2>2. BudgetHeld'
    BY <1>2 DEF IndInv, Tick, BudgetHeld
  <2>3. LocalOK'
    BY <1>2, <2>1 DEF IndInv, LocalOK, Tick, control
  <2> QED BY <2>1, <2>2, <2>3 DEF IndInv
<1> QED BY <1>1, <1>2 DEF World

\* A stuttering step keeps the invariant.
LEMMA StutterInv == ASSUME IndInv, UNCHANGED vars PROVE IndInv'
<1>1. StoreOK' /\ DOMAIN sessions' = DOMAIN sessions /\ BudgetHeld'
  BY StoreSame DEF IndInv, vars, server, BudgetHeld
<1>2. LocalOK'
  BY <1>1 DEF IndInv, LocalOK, vars, control, server, environment
<1> QED BY <1>1, <1>2 DEF IndInv

----------------------------------------------------------------------------
(***************************************************************************)
(* The theorems.                                                           *)
(***************************************************************************)

\* Every step of the reactor thread keeps the invariant.
LEMMA ThreadInv == ASSUME IndInv, Thread PROVE IndInv'
  BY EpollWaitInv, ShutdownInv, HandleListenerInv, HandleSessionInv, HandleNotificationInv,
     HandleTimerInv, AcceptOtherInv, AcceptSessionInv, ReadNothingInv, ReadPartInv,
     ReadRequestInv, WriteSomeInv, WriteEndsInv, SettleInv, SweepCloseInv, SweepDoneInv,
     BroadcastToInv, BroadcastDoneInv
  DEF Thread

\* The inductive invariant holds in every reachable state of the reactor.
THEOREM Inductive == Spec => []IndInv
<1>1. IndInv /\ [Next]_vars => IndInv'
  BY ThreadInv, FailInv, WorldInv, StutterInv DEF Next
<1> QED BY InitInv, <1>1, PTL DEF Spec

\* Every variable of the reactor keeps its type; the byte total, which the code
\* computes by unsigned subtraction, never goes below zero.
THEOREM TypeCorrect == Spec => []TypeOK
  BY Inductive, IndInvType, PTL

\* queued_bytes_ is the sum of the sessions' outstanding bytes in every state.
THEOREM AccountingExact == Spec => []QueueAccounting
  BY Inductive, PTL DEF IndInv, StoreOK

\* The server never holds more unsent bytes than kQueueBudget.
THEOREM BudgetNeverExceeded == Spec => []BudgetHeld
  BY Inductive, PTL DEF IndInv

----------------------------------------------------------------------------
(***************************************************************************)
(* What the clients are owed.  The second invariant says of every session, *)
(* in the middle of a handler too, what it is registered for and what it   *)
(* will have read.                                                         *)
(***************************************************************************)
Handling == pc \in {"read", "write", "settle"}

\* Tokens only grow, so an event is of a session that has been opened.
EventsAreOld == \A e \in batch : e.token < next_token

\* Only a request is read.
ReadsRequest == pc = "read" => ~sessions[event.token].streaming

\* Only the session being handled may wait for its Modify.
Registered ==
    \A t \in Tokens : \/ Handling /\ t = event.token
                      \/ sessions[t].interest = Interest(sessions[t])

\* Only the clients that a broadcast has still to visit may be behind it.
Served ==
    \A t \in Tokens : sessions[t].streaming =>
        \/ pc = "broadcast" /\ t \in todo
        \/ NewestFor(sessions[t]) >= last_sequence

ClientsOK == EventsAreOld /\ ReadsRequest /\ Registered /\ Served /\ last_sequence <= latest

\* What a queue ends with after a Push is the buffer pushed.
LEMMA NewestPushed ==
    ASSUME NEW q, WellFormed(q), NEW b \in Buffer, b.size # 0
    PROVE  ~Empty(Push(q, b)) /\ Newest(Push(q, b)) = b.gen
<1>1. q \in Queue /\ b.size \in Nat
  BY DEF WellFormed, Buffer
<1>2. CASE Empty(q) \/ q.offset = 0
  <2>1. Push(q, b) = [current |-> b, pending |-> q.pending, offset |-> 0]
    BY <1>1, <1>2 DEF Push, Queue
  <2>2. q.pending.size = 0
    BY <1>1, <1>2 DEF WellFormed, Empty, Queue, Buffer
  <2> QED BY <2>1, <2>2 DEF Empty, Newest
<1>3. CASE ~(Empty(q) \/ q.offset = 0)
  <2>1. Push(q, b) = [current |-> q.current, pending |-> b, offset |-> q.offset]
    BY <1>1, <1>3 DEF Push, Queue
  <2> QED BY <1>3, <2>1 DEF Empty, Newest
<1> QED BY <1>2, <1>3

\* What Enqueue leaves alone: the idle clock too, unless the queue was empty.
LEMMA EnqueuedFields ==
    ASSUME NEW s \in Session, NEW b
    PROVE  /\ Enqueued(s, b).streaming = s.streaming /\ Enqueued(s, b).peer = s.peer
           /\ Empty(s.output) \/ Enqueued(s, b).idle = s.idle
           /\ Fits(s, b) => Enqueued(s, b).output = Push(s.output, b)
<1> DEFINE i == IF Empty(s.output) THEN 0 ELSE s.idle
           q == Push(s.output, b)
           p == [s EXCEPT !.output = q, !.idle = i]
<1>1. Pushed(s, b) = p
  BY DEF Pushed
<1>2. Empty(s.output) \/ i = s.idle
  OBVIOUS
<1> HIDE DEF i, q
<1>3. /\ p.streaming = s.streaming /\ p.peer = s.peer /\ p.idle = i /\ p.output = q
      /\ [p EXCEPT !.output = EmptyQueue].streaming = s.streaming
      /\ [p EXCEPT !.output = EmptyQueue].peer = s.peer
      /\ [p EXCEPT !.output = EmptyQueue].idle = i
  BY DEF Session
<1> HIDE DEF p
<1>4. CASE Fits(s, b)
  BY <1>1, <1>2, <1>3, <1>4 DEF Enqueued, q
<1>5. CASE ~Fits(s, b)
  BY <1>1, <1>2, <1>3, <1>5 DEF Enqueued
<1> QED BY <1>4, <1>5

\* Modify registers a session for what it needs and changes nothing else.
LEMMA ModifyFields ==
    ASSUME NEW s \in Session
    PROVE  /\ Modify(s).interest = Interest(Modify(s))
           /\ Modify(s).streaming = s.streaming /\ Modify(s).output = s.output
           /\ Modify(s).peer = s.peer /\ Modify(s).idle = s.idle
<1> DEFINE f == Interest(s)
           m == [s EXCEPT !.interest = f]
<1>1. Modify(s) = m
  BY DEF Modify
<1> HIDE DEF f
<1>2. /\ m.interest = f /\ m.streaming = s.streaming /\ m.responding = s.responding
      /\ m.output = s.output /\ m.peer = s.peer /\ m.idle = s.idle
  BY DEF Session
<1> HIDE DEF m
<1>3. Interest(m) = f
  BY <1>2 DEF Interest, f
<1> QED BY <1>1, <1>2, <1>3

\* Sending moves a generation from the queue to the peer and loses none.
LEMMA SentFields ==
    ASSUME NEW s \in Session, WellFormed(s.output), NEW n \in Nat \ {0}, CanConsume(s.output, n)
    PROVE  /\ Sent(s, n).streaming = s.streaming
           /\ s.streaming => NewestFor(Sent(s, n)) = NewestFor(s)
<1> DEFINE q == s.output
           c == Consume(q, n)
           r == Receive(s.peer, q.current, q.offset, n)
           p == IF s.streaming THEN r ELSE s.peer
           a == [s EXCEPT !.output = c, !.idle = 0, !.peer = p]
<1>1. Sent(s, n) = a
  BY DEF Sent
<1>2. q \in Queue /\ ~Empty(q) /\ q.current.size # 0
  BY DEF WellFormed, CanConsume, Empty
<1>3. s.streaming => p = r
  OBVIOUS
<1>4. r.last = IF q.offset + n = q.current.size THEN q.current.gen ELSE s.peer.last
  BY DEF Receive
<1> HIDE DEF c, p, r
<1>5. a.streaming = s.streaming /\ a.output = c /\ a.peer = p
  BY DEF Session
<1> HIDE DEF a
<1>6. NewestFor(s) = Newest(q)
  BY <1>2 DEF NewestFor
<1>7. CASE q.offset + n = q.current.size
  <2>1. c = [current |-> q.pending, pending |-> NoBuffer, offset |-> 0]
    BY <1>7 DEF Consume, c
  <2>2. CASE q.pending.size = 0
    <3>1. Empty(c) /\ Newest(q) = q.current.gen
      BY <1>2, <2>1, <2>2 DEF Empty, Newest
    <3> QED BY <1>1, <1>3, <1>4, <1>5, <1>6, <1>7, <3>1 DEF NewestFor
  <2>3. CASE q.pending.size # 0
    <3>1. ~Empty(c) /\ Newest(q) = q.pending.gen /\ Newest(c) = q.pending.gen
      BY <2>1, <2>3 DEF Empty, Newest, NoBuffer
    <3> QED BY <1>1, <1>5, <1>6, <3>1 DEF NewestFor
  <2> QED BY <2>2, <2>3
<1>8. CASE q.offset + n # q.current.size
  <2>1. c = [current |-> q.current, pending |-> q.pending, offset |-> q.offset + n]
    BY <1>2, <1>8 DEF Consume, Queue, c
  <2>2. ~Empty(c) /\ Newest(c) = Newest(q)
    BY <1>2, <2>1 DEF Empty, Newest
  <2> QED BY <1>1, <1>5, <1>6, <2>2 DEF NewestFor
<1> QED BY <1>7, <1>8

\* The clock moves nothing but the clocks, and those forward.
LEMMA AgedFields ==
    ASSUME NEW s \in Session
    PROVE  /\ Aged(s).streaming = s.streaming /\ Aged(s).output = s.output
           /\ Aged(s).peer = s.peer /\ Aged(s).interest = s.interest
           /\ Aged(s).responding = s.responding /\ Aged(s).idle >= s.idle
<1> DEFINE a == IF s.streaming \/ s.responding \/ s.age > RequestTimeout THEN s.age ELSE s.age + 1
           i == IF Empty(s.output) \/ s.idle > WriteTimeout THEN s.idle ELSE s.idle + 1
<1>1. i >= s.idle
  BY DEF Session
<1>2. Aged(s) = [s EXCEPT !.age = a, !.idle = i]
  BY DEF Aged
<1> HIDE DEF a, i
<1> QED BY <1>1, <1>2 DEF Session

\* A session of the table has numbers to compare.
LEMMA NewestType ==
    ASSUME NEW s \in Session PROVE NewestFor(s) \in Nat
  BY DEF NewestFor, Newest, Session, Queue, Buffer, Peer

\* The table, and what it holds, after one session is written.
LEMMA WithFields ==
    ASSUME NEW t, NEW s, sessions' = With(t, s)
    PROVE  /\ DOMAIN sessions' = DOMAIN sessions \cup {t} /\ sessions'[t] = s
           /\ \A x \in DOMAIN sessions \ {t} : sessions'[x] = sessions[x]
  BY DEF With, Tokens

LEMMA WithoutFields ==
    ASSUME NEW t, sessions' = Without(t)
    PROVE  /\ DOMAIN sessions' = DOMAIN sessions \ {t}
           /\ \A x \in DOMAIN sessions' : sessions'[x] = sessions[x]
  BY DEF Without, Tokens

LEMMA SequenceTypes == IndInv => latest \in Nat /\ last_sequence \in Nat
  BY LimitsAssumption DEF IndInv, LocalOK

\* Steps that leave the sessions alone.
LEMMA ClientsSame ==
    ASSUME IndInv, ClientsOK, UNCHANGED <<sessions, last_sequence, next_token>>,
           batch' \subseteq batch, latest' >= latest, latest' \in Nat,
           Handling => Handling' /\ event' = event,
           pc = "broadcast" => todo = {} \/ (pc' = "broadcast" /\ todo' = todo),
           pc' = "read" => (pc = "read" /\ event' = event) \/ ~sessions[event'.token].streaming
    PROVE  ClientsOK'
<1>1. EventsAreOld' /\ ReadsRequest'
  BY DEF ClientsOK, EventsAreOld, ReadsRequest
<1>2. Registered'
  BY DEF ClientsOK, Registered, Tokens, Interest
<1>3. Served'
  BY DEF ClientsOK, Served, Tokens, NewestFor
<1>4. last_sequence' <= latest'
  BY SequenceTypes DEF ClientsOK
<1> QED BY <1>1, <1>2, <1>3, <1>4 DEF ClientsOK

\* Steps that write one session of the table.
LEMMA ClientsReplaced ==
    ASSUME IndInv, ClientsOK, NEW t \in Tokens, NEW s, sessions' = With(t, s),
           UNCHANGED <<last_sequence, latest, next_token, batch>>,
           s.streaming = sessions[t].streaming,
           s.streaming => NewestFor(s) >= last_sequence \/ (pc' = "broadcast" /\ t \in todo'),
           s.interest = Interest(s) \/ (Handling' /\ t = event'.token),
           Handling => t = event.token,
           pc' = "read" => pc = "read" /\ event' = event,
           pc = "broadcast" => pc' = "broadcast" /\ todo \ {t} \subseteq todo'
    PROVE  ClientsOK'
<1>1. /\ DOMAIN sessions' = DOMAIN sessions /\ sessions'[t] = s
      /\ \A x \in DOMAIN sessions \ {t} : sessions'[x] = sessions[x]
  BY WithFields DEF Tokens
<1>2. EventsAreOld'
  BY DEF ClientsOK, EventsAreOld
<1>3. ReadsRequest'
  <2> SUFFICES ASSUME pc' = "read" PROVE ~sessions'[event'.token].streaming
    BY DEF ReadsRequest
  <2>1. pc = "read" /\ event' = event /\ t = event.token
    BY DEF Handling
  <2> QED BY <1>1, <2>1 DEF ClientsOK, ReadsRequest
<1>4. Registered'
  <2> SUFFICES ASSUME NEW x \in DOMAIN sessions
               PROVE  (Handling' /\ x = event'.token) \/ sessions'[x].interest = Interest(sessions'[x])
    BY <1>1 DEF Registered, Tokens
  <2>1. CASE x = t
    BY <1>1, <2>1
  <2>2. CASE x # t
    <3>1. sessions[x].interest = Interest(sessions[x])
      BY <2>2 DEF ClientsOK, Registered, Tokens
    <3> QED BY <1>1, <2>2, <3>1
  <2> QED BY <2>1, <2>2
<1>5. Served'
  <2> SUFFICES ASSUME NEW x \in DOMAIN sessions, sessions'[x].streaming
               PROVE  (pc' = "broadcast" /\ x \in todo') \/ NewestFor(sessions'[x]) >= last_sequence
    BY <1>1 DEF Served, Tokens
  <2>1. CASE x = t
    BY <1>1, <2>1
  <2>2. CASE x # t
    BY <1>1, <2>2 DEF ClientsOK, Served, Tokens
  <2> QED BY <2>1, <2>2
<1> QED BY <1>2, <1>3, <1>4, <1>5 DEF ClientsOK

\* Steps that close one session.
LEMMA ClientsRemoved ==
    ASSUME IndInv, ClientsOK, NEW t \in Tokens, sessions' = Without(t),
           UNCHANGED <<last_sequence, latest, next_token, batch>>,
           Handling => t = event.token, pc' # "read",
           pc = "broadcast" => pc' = "broadcast" /\ todo \ {t} \subseteq todo'
    PROVE  ClientsOK'
<1>1. /\ DOMAIN sessions' = DOMAIN sessions \ {t}
      /\ \A x \in DOMAIN sessions' : sessions'[x] = sessions[x]
  BY WithoutFields
<1>2. EventsAreOld' /\ ReadsRequest'
  BY DEF ClientsOK, EventsAreOld, ReadsRequest
<1>3. Registered'
  <2> SUFFICES ASSUME NEW x \in DOMAIN sessions'
               PROVE  sessions'[x].interest = Interest(sessions'[x])
    BY DEF Registered, Tokens
  <2>1. sessions[x].interest = Interest(sessions[x])
    BY <1>1 DEF ClientsOK, Registered, Tokens
  <2> QED BY <1>1, <2>1
<1>4. Served'
  <2> SUFFICES ASSUME NEW x \in DOMAIN sessions', sessions'[x].streaming
               PROVE  (pc' = "broadcast" /\ x \in todo') \/ NewestFor(sessions'[x]) >= last_sequence
    BY DEF Served, Tokens
  <2> QED BY <1>1 DEF ClientsOK, Served, Tokens
<1> QED BY <1>2, <1>3, <1>4 DEF ClientsOK

\* Shutdown and an exception.
LEMMA ClientsCleared ==
    ASSUME IndInv, ClientsOK, sessions' = [t \in {} |-> {}], batch' = {}, pc' # "read",
           UNCHANGED <<last_sequence, latest>>
    PROVE  ClientsOK'
<1>1. DOMAIN sessions' = {}
  OBVIOUS
<1> QED BY <1>1 DEF ClientsOK, EventsAreOld, ReadsRequest, Registered, Served, Tokens

\* epoll reports the descriptors of the program and sessions of the table.
LEMMA EpollWaitClients == ASSUME IndInv, ClientsOK, EpollWait PROVE ClientsOK'
<1>1. next_token \in Nat /\ next_token >= 16
  BY DEF IndInv, StoreOK, FirstToken
<1>2. \A e \in ControlReady \cup ListenerReady : e.token < next_token
  BY <1>1 DEF ControlReady, ListenerReady, kHttp, kStream, kSignal, kNotification, kTimer
<1>3. ASSUME NEW e \in SessionReady PROVE e.token < next_token
  <2>1. PICK t \in DOMAIN sessions :
           e \in {[token |-> t, flags |-> f] :
                     f \in {{"ERR"}} \cup (SUBSET (sessions[t].interest \cup {"HUP"}) \ {{}})}
    BY DEF SessionReady, Tokens
  <2>2. e.token = t
    BY <2>1
  <2>3. t \in FirstToken..(next_token - 1)
    BY SessionOK DEF IndInv
  <2> QED BY <1>1, <2>2, <2>3 DEF FirstToken
<1>4. EventsAreOld'
  BY <1>2, <1>3 DEF EpollWait, EventsAreOld, server
<1>5. UNCHANGED <<pc, event, todo, sessions, last_sequence, latest>>
  BY DEF EpollWait, server, environment
<1>6. ReadsRequest' /\ Registered' /\ Served'
  BY <1>5 DEF ClientsOK, ReadsRequest, Registered, Served, Handling, Tokens
<1> QED BY <1>4, <1>5, <1>6 DEF ClientsOK

\* A broadcast starts: every stream client is behind it and on its list.
LEMMA StartBroadcastClients ==
    ASSUME IndInv, ClientsOK, StartBroadcast, ~Handling, pc # "broadcast", batch' \subseteq batch,
           UNCHANGED <<sessions, next_token, latest>>
    PROVE  ClientsOK'
<1>1. EventsAreOld' /\ ReadsRequest'
  BY DEF ClientsOK, EventsAreOld, ReadsRequest, StartBroadcast
<1>2. Registered'
  BY DEF ClientsOK, Registered, Tokens
<1>3. Served' /\ last_sequence' <= latest'
  <2>1. CASE latest \in {0, last_sequence}
    <3>1. last_sequence' = last_sequence
      BY <2>1 DEF StartBroadcast
    <3> QED BY <3>1 DEF ClientsOK, Served, Tokens
  <2>2. CASE latest \notin {0, last_sequence}
    <3>1. /\ pc' = "broadcast" /\ last_sequence' = latest
          /\ todo' = {t \in Tokens : sessions[t].streaming}
      BY <2>2 DEF StartBroadcast
    <3> QED BY <3>1, SequenceTypes DEF Served, Tokens
  <2> QED BY <2>1, <2>2
<1> QED BY <1>1, <1>2, <1>3 DEF ClientsOK

\* A new client is given the latest generation, or there is none yet.
LEMMA AcceptClients == ASSUME IndInv, ClientsOK, AcceptSession PROVE ClientsOK'
<1> DEFINE s == NewSession(event.token = kStream)
           b == Frame(latest)
<1>1. /\ s \in Session /\ s.output = EmptyQueue /\ WellFormed(s.output)
      /\ s.peer.last = 0
  <2>1. (event.token = kStream) \in BOOLEAN
    OBVIOUS
  <2> QED BY <2>1, NewSessionOK, EmptyQueueOK DEF NewSession, NewPeer
<1>2. /\ next_token \in Nat /\ next_token' = next_token + 1 /\ next_token \notin DOMAIN sessions
      /\ pc = "accept"
  BY DEF IndInv, StoreOK, AcceptSession, FirstToken
<1>3. pc' \in {"loop", "accept"} /\ batch' = batch
  BY AcceptTurnOK DEF AcceptSession
<1>4. UNCHANGED <<last_sequence, latest>>
  BY DEF AcceptSession, environment
<1>5. EventsAreOld' /\ ReadsRequest'
  <2>1. \A e \in batch : e.token \in Nat
    BY DEF IndInv, LocalOK, Event
  <2> QED BY <1>2, <1>3, <2>1 DEF ClientsOK, EventsAreOld, ReadsRequest
<1>6. ASSUME NEW m, sessions' = With(next_token, m), m.interest = Interest(m),
             m.streaming => NewestFor(m) >= last_sequence
      PROVE  Registered' /\ Served'
  <2>1. /\ DOMAIN sessions' = DOMAIN sessions \cup {next_token} /\ sessions'[next_token] = m
        /\ \A x \in DOMAIN sessions \ {next_token} : sessions'[x] = sessions[x]
    BY <1>6, WithFields
  <2>2. ASSUME NEW x \in DOMAIN sessions
        PROVE  /\ sessions'[x] = sessions[x] /\ sessions[x].interest = Interest(sessions[x])
               /\ sessions[x].streaming => NewestFor(sessions[x]) >= last_sequence
    BY <1>2, <2>1 DEF ClientsOK, Registered, Served, Handling, Tokens
  <2>3. Registered'
    <3> SUFFICES ASSUME NEW x \in DOMAIN sessions' PROVE sessions'[x].interest = Interest(sessions'[x])
      BY DEF Registered, Tokens
    <3> QED BY <1>6, <2>1, <2>2
  <2>4. Served'
    <3> SUFFICES ASSUME NEW x \in DOMAIN sessions', sessions'[x].streaming
                 PROVE  NewestFor(sessions'[x]) >= last_sequence'
      BY DEF Served, Tokens
    <3> QED BY <1>4, <1>6, <2>1, <2>2
  <2> QED BY <2>3, <2>4
<1>7. CASE ~Greeted(s)
  <2>1. sessions' = With(next_token, Modify(s))
    BY <1>7 DEF AcceptSession, NewToken
  <2>2. s.streaming => last_sequence = 0
    BY <1>7, SequenceTypes DEF Greeted, ClientsOK
  <2> HIDE DEF s
  <2>3. /\ Modify(s).interest = Interest(Modify(s)) /\ Modify(s).streaming = s.streaming
        /\ Modify(s).output = s.output /\ Modify(s).peer = s.peer
    BY <1>1, ModifyFields
  <2>4. NewestFor(Modify(s)) = 0
    BY <1>1, <2>3 DEF NewestFor, Empty, EmptyQueue, NoBuffer
  <2> QED BY <1>4, <1>5, <1>6, <2>1, <2>2, <2>3, <2>4 DEF ClientsOK
<1>8. CASE Greeted(s)
  <2>1. latest \in 1..MaxGen
    BY <1>8 DEF Greeted, IndInv, LocalOK
  <2>2. b \in Buffer /\ b.size # 0 /\ b.gen = latest
    BY <2>1, FrameOK DEF Frame
  <2>3. sessions' = IF Fits(s, b) THEN With(next_token, Modify(Enqueued(s, b))) ELSE sessions
    BY <1>8 DEF AcceptSession, NewToken
  <2> HIDE DEF s, b
  <2>4. CASE Fits(s, b)
    <3> DEFINE e == Enqueued(s, b)
               m == Modify(e)
    <3>1. e \in Session
      BY <1>1, <2>2, EnqueueOK DEF IndInv
    <3>2. e.output = Push(s.output, b)
      BY <1>1, <2>4, EnqueuedFields
    <3> HIDE DEF e
    <3>3. m.interest = Interest(m) /\ m.output = e.output
      BY <3>1, ModifyFields
    <3>4. NewestFor(m) = latest
      BY <1>1, <2>2, <3>2, <3>3, NewestPushed DEF NewestFor
    <3>5. sessions' = With(next_token, m)
      BY <2>3, <2>4 DEF e
    <3> HIDE DEF m
    <3> QED BY <1>4, <1>5, <1>6, <3>3, <3>4, <3>5 DEF ClientsOK
  <2>5. CASE ~Fits(s, b)
    <3>1. sessions' = sessions
      BY <2>3, <2>5
    <3>2. Registered' /\ Served'
      BY <1>2, <1>3, <1>4, <3>1 DEF ClientsOK, Registered, Served, Handling, Tokens
    <3> QED BY <1>4, <1>5, <3>2 DEF ClientsOK
  <2> QED BY <2>4, <2>5
<1> QED BY <1>7, <1>8

\* The dispatch of an event that starts no broadcast.
LEMMA DispatchClients ==
    ASSUME IndInv, ClientsOK, NEW e \in batch,
           HandleListener(e) \/ HandleSession(e) \/ HandleTimer(e)
    PROVE  ClientsOK'
<1>1. /\ pc = "loop" /\ batch' \subseteq batch
      /\ UNCHANGED <<sessions, last_sequence, next_token, latest>>
  BY DEF HandleListener, HandleSession, HandleTimer, Take, server, environment
<1>2. pc' = "read" => ~sessions[event'.token].streaming
  BY <1>1 DEF HandleListener, HandleSession, HandleTimer, EnterWrite, EnterSettle
<1> QED BY <1>1, <1>2, ClientsSame, SequenceTypes DEF Handling

\* The steps of the loops that change no session.
LEMMA QuietClients ==
    ASSUME IndInv, ClientsOK,
           \/ AcceptNothing \/ AcceptExhausted \/ AcceptSkipped \/ ReadNothing \/ ReadInterrupted
           \/ WriteNothing \/ WriteEnds \/ BroadcastDone
    PROVE  ClientsOK'
<1>1. UNCHANGED <<sessions, last_sequence, next_token, latest>> /\ latest \in Nat
  BY SequenceTypes DEF AcceptNothing, AcceptExhausted, AcceptSkipped, ReadNothing, ReadInterrupted,
     WriteNothing, WriteEnds, BroadcastDone, server, environment
<1>2. CASE AcceptNothing \/ AcceptExhausted \/ AcceptSkipped
  <2>1. pc = "accept" /\ pc' \in {"loop", "accept"} /\ batch' = batch
    BY <1>2, ReturnOK, AcceptTurnOK DEF AcceptNothing, AcceptExhausted, AcceptSkipped
  <2> QED BY <1>1, <2>1, ClientsSame DEF Handling
<1>3. CASE ReadNothing \/ ReadInterrupted
  <2>1. /\ pc = "read" /\ pc' \in {"read", "write", "settle"}
        /\ batch' = batch /\ event' = event /\ todo' = todo
    BY <1>3, ReadReturnsOK, ReadTurnOK DEF ReadNothing, ReadInterrupted
  <2> QED BY <1>1, <2>1, ClientsSame DEF Handling
<1>4. CASE WriteNothing \/ WriteEnds
  <2>1. pc = "write" /\ pc' = "settle" /\ UNCHANGED <<batch, event, todo>>
    BY <1>4 DEF WriteNothing, WriteEnds, WriteReturns, EnterSettle
  <2> QED BY <1>1, <2>1, ClientsSame DEF Handling
<1>5. CASE BroadcastDone
  <2>1. pc = "broadcast" /\ todo = {} /\ pc' = "loop" /\ batch' = batch
    BY <1>5 DEF BroadcastDone
  <2> QED BY <1>1, <2>1, ClientsSame DEF Handling
<1> QED BY <1>2, <1>3, <1>4, <1>5

\* A request is read, a response queued: its session is no stream.
LEMMA ReadClients ==
    ASSUME IndInv, ClientsOK,
           \/ \E n \in 1..RecvSize : ReadPart(n)
           \/ \E size \in ResponseSizes : ReadRequest(size)
    PROVE  ClientsOK'
<1> DEFINE t == event.token
<1>1. /\ pc = "read" /\ t \in Tokens /\ Current = sessions[t] /\ Current \in Session
      /\ ~Current.streaming
  BY SessionOK DEF IndInv, LocalOK, ClientsOK, ReadsRequest, ReadPart, ReadRequest, Current, Tokens
<1>2. ASSUME NEW s, sessions' = With(t, s), s.streaming = Current.streaming,
             pc' \in {"read", "write", "settle"}, batch' = batch, event' = event,
             UNCHANGED <<last_sequence, latest, next_token>>
      PROVE  ClientsOK'
  BY <1>1, <1>2, ClientsReplaced DEF Handling
<1>3. ASSUME NEW n \in 1..RecvSize, ReadPart(n) PROVE ClientsOK'
  <2> DEFINE r == Current.request + n
             s == [Current EXCEPT !.request = r]
  <2>1. sessions' = With(t, s) /\ UNCHANGED <<last_sequence, latest, next_token>>
    BY <1>3 DEF ReadPart, environment
  <2>2. pc' \in {"read", "write", "settle"} /\ batch' = batch /\ event' = event
    BY <1>3, ReadTurnOK DEF ReadPart
  <2> HIDE DEF r
  <2>3. s.streaming = Current.streaming
    BY <1>1 DEF Session
  <2> HIDE DEF s
  <2> QED BY <1>2, <2>1, <2>2, <2>3
<1>4. ASSUME NEW size \in ResponseSizes, ReadRequest(size) PROVE ClientsOK'
  <2> DEFINE s == [Current EXCEPT !.responding = TRUE, !.request = 0]
             b == Response(size)
  <2>1. /\ sessions' = With(t, Enqueued(s, b)) /\ UNCHANGED <<last_sequence, latest, next_token>>
        /\ ReadReturns(Fits(s, b)) /\ Fits(s, b) \in BOOLEAN
    BY <1>4 DEF ReadRequest, environment, Fits
  <2>2. s \in Session /\ s.streaming = Current.streaming
    BY <1>1 DEF Session
  <2> HIDE DEF s, b
  <2>3. Enqueued(s, b).streaming = Current.streaming
    BY <2>2, EnqueuedFields
  <2>4. pc' \in {"read", "write", "settle"} /\ batch' = batch /\ event' = event
    BY <2>1, ReadReturnsOK
  <2> QED BY <1>2, <2>1, <2>3, <2>4
<1> QED BY <1>3, <1>4

\* Bytes that leave take no generation away from their client.
LEMMA WriteClients ==
    ASSUME IndInv, ClientsOK, NEW n \in 1..WriteBudget, WriteSome(n) PROVE ClientsOK'
<1> DEFINE t == event.token
           s == Sent(Current, n)
<1>1. /\ t \in Tokens /\ pc = "write" /\ Current = sessions[t]
      /\ Current \in Session /\ WellFormed(Current.output) /\ CanConsume(Current.output, n)
  BY SessionOK DEF IndInv, LocalOK, WriteSome, Current, Tokens
<1>2. n \in Nat \ {0}
  BY LimitsAssumption
<1>3. /\ sessions' = With(t, s)
      /\ UNCHANGED <<pc, batch, event, todo, last_sequence, latest, next_token>>
  BY DEF WriteSome, environment
<1>4. s.streaming = Current.streaming /\ (s.streaming => NewestFor(s) = NewestFor(Current))
  BY <1>1, <1>2, SentFields
<1>5. Current.streaming => NewestFor(Current) >= last_sequence
  BY <1>1 DEF ClientsOK, Served
<1> HIDE DEF s
<1> QED BY <1>1, <1>3, <1>4, <1>5, ClientsReplaced DEF Handling

\* The end of a session event registers the session or closes it.
LEMMA SettleClients == ASSUME IndInv, ClientsOK, Settle PROVE ClientsOK'
<1> DEFINE t == event.token
           s == Modify(Current)
<1>1. /\ t \in Tokens /\ pc = "settle" /\ Current = sessions[t] /\ Current \in Session
  BY SessionOK DEF IndInv, LocalOK, Settle, Current, Tokens
<1>2. UNCHANGED <<batch, last_sequence, latest, next_token>> /\ pc' = "loop"
  BY DEF Settle, Return, environment
<1>3. CASE alive /\ "HUP" \notin event.flags
  <2>1. sessions' = With(t, s)
    BY <1>3 DEF Settle
  <2>2. /\ s.interest = Interest(s) /\ s.streaming = Current.streaming
        /\ s.output = Current.output /\ s.peer = Current.peer
    BY <1>1, ModifyFields
  <2>3. s.streaming => NewestFor(s) >= last_sequence
    BY <1>1, <2>2 DEF ClientsOK, Served, NewestFor
  <2> HIDE DEF s
  <2> QED BY <1>1, <1>2, <2>1, <2>2, <2>3, ClientsReplaced DEF Handling
<1>4. CASE ~(alive /\ "HUP" \notin event.flags)
  <2>1. sessions' = Without(t)
    BY <1>4 DEF Settle, Close
  <2> QED BY <1>1, <1>2, <2>1, ClientsRemoved DEF Handling
<1> QED BY <1>3, <1>4

\* A client of the broadcast gets its generation or is closed.
LEMMA BroadcastClients ==
    ASSUME IndInv, ClientsOK, NEW t \in todo, BroadcastTo(t) PROVE ClientsOK'
<1> DEFINE s == sessions[t]
           b == Frame(last_sequence)
           e == Enqueued(s, b)
           m == Modify(e)
<1>1. t \in Tokens /\ pc = "broadcast" /\ last_sequence \in 1..MaxGen
  BY DEF IndInv, LocalOK, BroadcastTo, Tokens
<1>2. b \in Buffer /\ b.size # 0 /\ b.gen = last_sequence
  BY <1>1, FrameOK DEF Frame
<1>3. s \in Session /\ WellFormed(s.output)
  BY <1>1, SessionOK DEF IndInv, Tokens
<1>4. /\ sessions' = IF Fits(s, b) THEN With(t, m) ELSE Without(t)
      /\ todo' = todo \ {t}
      /\ UNCHANGED <<pc, batch, event, last_sequence, latest, next_token>>
  BY DEF BroadcastTo, environment
<1> HIDE DEF b
<1>5. CASE Fits(s, b)
  <2>1. e \in Session /\ e.output = Push(s.output, b) /\ e.streaming = s.streaming
    BY <1>2, <1>3, <1>5, EnqueueOK, EnqueuedFields DEF IndInv
  <2> HIDE DEF e
  <2>2. m.interest = Interest(m) /\ m.output = e.output /\ m.streaming = s.streaming
    BY <2>1, ModifyFields
  <2>3. NewestFor(m) = last_sequence
    BY <1>2, <1>3, <2>1, <2>2, NewestPushed DEF NewestFor
  <2>4. last_sequence >= last_sequence
    BY SequenceTypes
  <2>5. sessions' = With(t, m)
    BY <1>4, <1>5
  <2> HIDE DEF m
  <2> QED BY <1>1, <1>4, <2>2, <2>3, <2>4, <2>5, ClientsReplaced DEF Handling
<1>6. CASE ~Fits(s, b)
  BY <1>1, <1>4, <1>6, ClientsRemoved DEF Handling
<1> QED BY <1>5, <1>6

\* Time passes for every session at once.
LEMMA TickClients == ASSUME IndInv, ClientsOK, Tick PROVE ClientsOK'
<1>1. /\ DOMAIN sessions' = DOMAIN sessions
      /\ UNCHANGED <<pc, batch, event, todo, next_token, last_sequence, latest>>
  BY DEF Tick, Tokens, control
<1>2. ASSUME NEW t \in DOMAIN sessions
      PROVE  /\ sessions'[t].streaming = sessions[t].streaming
             /\ sessions'[t].interest = sessions[t].interest
             /\ Interest(sessions'[t]) = Interest(sessions[t])
             /\ NewestFor(sessions'[t]) = NewestFor(sessions[t])
  <2>1. sessions[t] \in Session /\ sessions'[t] = Aged(sessions[t])
    BY SessionOK DEF IndInv, Tick, Tokens
  <2> QED BY <2>1, AgedFields DEF Interest, NewestFor
<1>3. EventsAreOld'
  BY <1>1 DEF ClientsOK, EventsAreOld
<1>4. ReadsRequest'
  BY <1>1, <1>2 DEF ClientsOK, ReadsRequest, IndInv, LocalOK
<1>5. Registered'
  BY <1>1, <1>2 DEF ClientsOK, Registered, Handling, Tokens
<1>6. Served'
  BY <1>1, <1>2 DEF ClientsOK, Served, Tokens
<1> QED BY <1>1, <1>3, <1>4, <1>5, <1>6 DEF ClientsOK

LEMMA InitClients == Init => ClientsOK
<1> SUFFICES ASSUME Init PROVE ClientsOK
  OBVIOUS
<1>1. DOMAIN sessions = {}
  BY DEF Init
<1> QED BY <1>1 DEF Init, ClientsOK, EventsAreOld, ReadsRequest, Registered, Served, Tokens

LEMMA NextClients == ASSUME IndInv, ClientsOK, [Next]_vars PROVE ClientsOK'
<1>1. CASE Shutdown \/ Fail
  BY <1>1, ClientsCleared DEF Shutdown, Fail, environment
<1>2. ASSUME NEW e \in batch, HandleNotification(e) PROVE ClientsOK'
  BY <1>2, StartBroadcastClients DEF HandleNotification, Take, Handling
<1>3. CASE SweepDone
  BY <1>3, StartBroadcastClients DEF SweepDone, Handling, environment
<1>4. ASSUME NEW t \in todo, SweepClose(t) PROVE ClientsOK'
  <2>1. t \in Tokens
    BY DEF IndInv, LocalOK, Tokens
  <2> QED BY <1>4, <2>1, ClientsRemoved DEF SweepClose, Close, Handling, environment
<1>5. CASE Publish \/ Notify \/ Signal \/ UNCHANGED vars
  <2>1. UNCHANGED <<pc, batch, event, todo, sessions, last_sequence, next_token>>
    BY <1>5 DEF Publish, Notify, Signal, vars, control, server
  <2>2. latest' >= latest /\ latest' \in Nat
    <3>1. latest \in Nat /\ MaxGen \in Nat
      BY SequenceTypes, LimitsAssumption
    <3> QED BY <1>5, <3>1 DEF Publish, Notify, Signal, vars, environment
  <2> QED BY <2>1, <2>2, ClientsSame DEF Handling
<1> QED BY <1>1, <1>2, <1>3, <1>4, <1>5, EpollWaitClients, DispatchClients, QuietClients,
           AcceptClients, ReadClients, WriteClients, SettleClients, BroadcastClients, TickClients
        DEF Next, Thread, World

\* The clients' invariant holds in every reachable state of the reactor.
THEOREM ClientsInductive == Spec => []ClientsOK
<1>1. IndInv /\ ClientsOK /\ [Next]_vars => ClientsOK'
  BY NextClients
<1> QED BY InitClients, <1>1, Inductive, PTL DEF Spec

\* Every session is registered for what it needs whenever the reactor goes back
\* to epoll (Modify): no wakeup is lost and none is spurious.
THEOREM NoLostWakeup == Spec => []InterestMatches
<1>1. ClientsOK => InterestMatches
  BY DEF ClientsOK, Registered, Handling, InterestMatches
<1> QED BY <1>1, ClientsInductive, PTL

\* Accept and Broadcast leave no stream client behind, in whatever order a
\* generation is published, a client accepted and the notification read.
THEOREM NobodyLeftBehind == Spec => []NoClientLeftBehind
<1>1. ClientsOK => NoClientLeftBehind
  BY DEF ClientsOK, Served, NoClientLeftBehind
<1> QED BY <1>1, ClientsInductive, PTL

----------------------------------------------------------------------------
(***************************************************************************)
(* What one step may do to a session.                                      *)
(***************************************************************************)

\* A session after a step is a new one, or an old one whose write deadline is
\* where it was, unless its queue was empty or bytes of it were sent.
SessionSteps ==
    \A t \in DOMAIN sessions' :
        \/ t = next_token /\ t \notin Tokens
        \/ t \in Tokens /\ \/ ~(sessions'[t].idle < sessions[t].idle)
                           \/ Empty(sessions[t].output)
                           \/ queued_bytes' < queued_bytes /\ pc = "write" /\ t = event.token

LEMMA StepReplaces ==
    ASSUME IndInv, NEW t \in Tokens, NEW s, sessions' = With(t, s),
           \/ s.idle = sessions[t].idle
           \/ Empty(sessions[t].output)
           \/ queued_bytes' < queued_bytes /\ pc = "write" /\ t = event.token
    PROVE  SessionSteps
<1>1. /\ DOMAIN sessions' = DOMAIN sessions /\ sessions'[t] = s
      /\ \A x \in DOMAIN sessions \ {t} : sessions'[x] = sessions[x]
  BY WithFields DEF Tokens
<1>2. \A x \in DOMAIN sessions : sessions[x].idle \in Nat
  BY SessionOK DEF IndInv, Session
<1> QED BY <1>1, <1>2 DEF SessionSteps, Tokens

LEMMA StepRemoves ==
    ASSUME IndInv, DOMAIN sessions' \subseteq DOMAIN sessions,
           \A x \in DOMAIN sessions' : sessions'[x] = sessions[x]
    PROVE  SessionSteps
<1>1. \A x \in DOMAIN sessions : sessions[x].idle \in Nat
  BY SessionOK DEF IndInv, Session
<1> QED BY <1>1 DEF SessionSteps, Tokens

LEMMA SessionStepsOK == ASSUME IndInv, [Next]_vars PROVE SessionSteps
<1>1. CASE UNCHANGED sessions
  BY <1>1, StepRemoves
<1>2. CASE Shutdown \/ Fail
  <2>1. sessions' = [t \in {} |-> {}]
    BY <1>2 DEF Shutdown, Fail
  <2>2. DOMAIN sessions' = {}
    BY <2>1
  <2> QED BY <2>2, StepRemoves
<1>3. CASE AcceptSession
  <2>1. next_token \notin Tokens /\ \A x \in Tokens : sessions[x].idle \in Nat
    <3>1. \A x \in Tokens : sessions[x].idle \in Nat
      BY SessionOK DEF IndInv, Session, Tokens
    <3>2. next_token \notin Tokens
      BY DEF IndInv, StoreOK, Tokens, FirstToken
    <3> QED BY <3>1, <3>2
  <2>2. CASE sessions' = sessions
    BY <2>2, StepRemoves
  <2>3. ASSUME NEW s, sessions' = With(next_token, s) PROVE SessionSteps
    <3>1. /\ DOMAIN sessions' = DOMAIN sessions \cup {next_token}
          /\ \A x \in DOMAIN sessions \ {next_token} : sessions'[x] = sessions[x]
      BY <2>3, WithFields
    <3> QED BY <2>1, <3>1 DEF SessionSteps, Tokens
  <2> QED BY <1>3, <2>2, <2>3 DEF AcceptSession, NewToken
<1>4. ASSUME NEW n \in 1..RecvSize, ReadPart(n) PROVE SessionSteps
  <2> DEFINE r == Current.request + n
             s == [Current EXCEPT !.request = r]
  <2>1. event.token \in Tokens /\ Current = sessions[event.token] /\ Current \in Session
    BY <1>4, SessionOK DEF IndInv, LocalOK, ReadPart, Current, Tokens
  <2>2. sessions' = With(event.token, s)
    BY <1>4 DEF ReadPart
  <2> HIDE DEF r
  <2>3. s.idle = Current.idle
    BY <2>1 DEF Session
  <2> HIDE DEF s
  <2> QED BY <2>1, <2>2, <2>3, StepReplaces
<1>5. ASSUME NEW size \in ResponseSizes, ReadRequest(size) PROVE SessionSteps
  <2> DEFINE s == [Current EXCEPT !.responding = TRUE, !.request = 0]
             b == Response(size)
  <2>1. event.token \in Tokens /\ Current = sessions[event.token] /\ Current \in Session
    BY <1>5, SessionOK DEF IndInv, LocalOK, ReadRequest, Current, Tokens
  <2>2. sessions' = With(event.token, Enqueued(s, b))
    BY <1>5 DEF ReadRequest
  <2>3. s \in Session /\ s.idle = Current.idle /\ s.output = Current.output
    BY <2>1 DEF Session
  <2> HIDE DEF s, b
  <2>4. Empty(s.output) \/ Enqueued(s, b).idle = s.idle
    BY <2>3, EnqueuedFields
  <2> QED BY <2>1, <2>2, <2>3, <2>4, StepReplaces
<1>6. ASSUME NEW n \in 1..WriteBudget, WriteSome(n) PROVE SessionSteps
  <2>1. event.token \in Tokens /\ pc = "write"
    BY <1>6 DEF IndInv, LocalOK, WriteSome, Tokens
  <2>2. sessions' = With(event.token, Sent(Current, n))
    BY <1>6 DEF WriteSome
  <2>3. queued_bytes' < queued_bytes
    BY <1>6, QueuedType, LimitsAssumption DEF WriteSome, IndInv
  <2> QED BY <2>1, <2>2, <2>3, StepReplaces
<1>7. CASE Settle
  <2>1. event.token \in Tokens /\ Current = sessions[event.token] /\ Current \in Session
    BY <1>7, SessionOK DEF IndInv, LocalOK, Settle, Current, Tokens
  <2>2. CASE sessions' = With(event.token, Modify(Current))
    BY <2>1, <2>2, ModifyFields, StepReplaces
  <2>3. CASE sessions' = Without(event.token)
    BY <2>3, WithoutFields, StepRemoves
  <2> QED BY <1>7, <2>2, <2>3 DEF Settle, Close
<1>8. ASSUME NEW t \in todo, SweepClose(t) PROVE SessionSteps
  BY <1>8, WithoutFields, StepRemoves DEF SweepClose, Close
<1>9. ASSUME NEW t \in todo, BroadcastTo(t) PROVE SessionSteps
  <2> DEFINE s == sessions[t]
             b == Frame(last_sequence)
  <2>1. t \in Tokens /\ pc = "broadcast" /\ last_sequence \in 1..MaxGen
    BY <1>9 DEF IndInv, LocalOK, BroadcastTo, Tokens
  <2>2. s \in Session /\ WellFormed(s.output) /\ b \in Buffer /\ b.size # 0
    BY <2>1, SessionOK, FrameOK DEF IndInv, Tokens
  <2>3. sessions' = IF Fits(s, b) THEN With(t, Modify(Enqueued(s, b))) ELSE Without(t)
    BY <1>9 DEF BroadcastTo
  <2> HIDE DEF b
  <2>4. CASE Fits(s, b)
    <3>1. Enqueued(s, b) \in Session /\ (Empty(s.output) \/ Enqueued(s, b).idle = s.idle)
      BY <2>2, EnqueueOK, EnqueuedFields DEF IndInv
    <3>2. Modify(Enqueued(s, b)).idle = Enqueued(s, b).idle
      BY <3>1, ModifyFields
    <3> QED BY <2>1, <2>3, <2>4, <3>1, <3>2, StepReplaces
  <2>5. CASE ~Fits(s, b)
    BY <2>3, <2>5, WithoutFields, StepRemoves
  <2> QED BY <2>4, <2>5
<1>10. CASE Tick
  <2>1. DOMAIN sessions' = DOMAIN sessions
    BY <1>10 DEF Tick, Tokens
  <2>2. ASSUME NEW t \in DOMAIN sessions PROVE ~(sessions'[t].idle < sessions[t].idle)
    <3>1. sessions[t] \in Session /\ sessions'[t] = Aged(sessions[t])
      BY <1>10, SessionOK DEF IndInv, Tick, Tokens
    <3>2. sessions'[t] \in Session
      BY <1>10, <2>1, StoreAged DEF IndInv, Tick, StoreOK
    <3> QED BY <3>1, <3>2, AgedFields DEF Session
  <2> QED BY <2>1, <2>2 DEF SessionSteps, Tokens
<1>11. \/ UNCHANGED sessions \/ Shutdown \/ Fail \/ AcceptSession \/ Settle \/ Tick
       \/ \E n \in 1..RecvSize : ReadPart(n)
       \/ \E size \in ResponseSizes : ReadRequest(size)
       \/ \E n \in 1..WriteBudget : WriteSome(n)
       \/ \E t \in todo : SweepClose(t) \/ BroadcastTo(t)
  BY DEF Next, Thread, World, EpollWait, HandleListener, HandleSession, HandleNotification,
         HandleTimer, AcceptNothing, AcceptExhausted, AcceptSkipped, ReadNothing, ReadInterrupted,
         WriteNothing, WriteEnds, SweepDone, BroadcastDone, Publish, Notify, Signal, server, vars
<1> QED BY <1>1, <1>2, <1>3, <1>4, <1>5, <1>6, <1>7, <1>8, <1>9, <1>10, <1>11

\* A token is never used again (next_token_), so that an event left in the batch
\* cannot reach a session opened after epoll_wait returned it.
THEOREM TokensAreNeverReused == Spec => StaleEventsAreInert
<1>1. IndInv /\ ClientsOK /\ [Next]_vars =>
        [\A t \in DOMAIN sessions' \ Tokens : \A e \in batch : e.token # t]_vars
  <2> SUFFICES ASSUME IndInv, ClientsOK, [Next]_vars, NEW t \in DOMAIN sessions' \ Tokens,
                      NEW e \in batch
               PROVE  e.token # t
    OBVIOUS
  <2>1. t = next_token
    BY SessionStepsOK DEF SessionSteps
  <2>2. e.token < next_token /\ e.token \in Nat /\ next_token \in Nat
    BY DEF ClientsOK, EventsAreOld, IndInv, LocalOK, StoreOK, Event
  <2> QED BY <2>1, <2>2
<1> QED BY <1>1, Inductive, ClientsInductive, PTL DEF Spec, StaleEventsAreInert

\* last_progress is reset by Write and by Enqueue into an empty queue, and by
\* nothing else: a client that stops reading cannot be kept by new generations.
THEOREM DeadlinesMoveByProgress == Spec => OnlyProgressExtendsDeadline
<1>1. IndInv /\ [Next]_vars =>
        [\A t \in Tokens : t \in DOMAIN sessions' /\ sessions'[t].idle < sessions[t].idle =>
            \/ Empty(sessions[t].output)
            \/ queued_bytes' < queued_bytes /\ pc = "write" /\ t = event.token]_vars
  BY SessionStepsOK DEF SessionSteps
<1> QED BY <1>1, Inductive, PTL DEF Spec, OnlyProgressExtendsDeadline

----------------------------------------------------------------------------
(***************************************************************************)
(* What a stream client reads.  A step gives its queue the generation of   *)
(* the broadcast, or moves bytes from the queue to the client, or leaves   *)
(* both alone; the rest is about one queue q and its reader p.             *)
(***************************************************************************)
NewestOf(q, p) == IF Empty(q) THEN p.last ELSE Newest(q)

Numbered(b) == b.size # 0 <=> b.gen # 0

\* The reader is where the queue's offset says, and the generations it has, is
\* being sent and will be sent are in order.
StreamOK(q, p) ==
    /\ WellFormed(q) /\ p \in Peer
    /\ Numbered(q.current) /\ Numbered(q.pending)
    /\ ~p.torn /\ p.got = q.offset
    /\ p.got # 0 => p.gen = q.current.gen
    /\ q.current.size # 0 => p.last <= q.current.gen
    /\ q.pending.size # 0 => q.current.gen <= q.pending.gen

Kept(q, p, r, o) == r = q /\ o = p

Given(q, p, r, o, g) == o = p /\ r = Push(q, Frame(g))

Taken(q, p, r, o, n) ==
    CanConsume(q, n) /\ r = Consume(q, n) /\ o = Receive(p, q.current, q.offset, n)

StreamSteps ==
    \A t \in DOMAIN sessions' :
        /\ t \in Tokens => sessions'[t].streaming = sessions[t].streaming
        /\ sessions'[t].streaming =>
            \/ /\ t \notin Tokens /\ pc = "accept"
               /\ \/ Kept(EmptyQueue, NewPeer, sessions'[t].output, sessions'[t].peer)
                  \/ latest # 0 /\ Given(EmptyQueue, NewPeer, sessions'[t].output,
                                         sessions'[t].peer, latest)
            \/ /\ t \in Tokens /\ sessions[t].streaming
               /\ LET q == sessions[t].output
                      p == sessions[t].peer
                      r == sessions'[t].output
                      o == sessions'[t].peer
                  IN  \/ Kept(q, p, r, o)
                      \/ pc = "broadcast" /\ Given(q, p, r, o, last_sequence)
                      \/ \E n \in Nat \ {0} : Taken(q, p, r, o, n)

\* A session that is written keeps its stream, is given a generation, or sends.
LEMMA StreamReplaced ==
    ASSUME NEW t \in Tokens, NEW s, sessions' = With(t, s), s.streaming = sessions[t].streaming,
           s.streaming =>
              \/ Kept(sessions[t].output, sessions[t].peer, s.output, s.peer)
              \/ /\ pc = "broadcast"
                 /\ Given(sessions[t].output, sessions[t].peer, s.output, s.peer, last_sequence)
              \/ \E n \in Nat \ {0} : Taken(sessions[t].output, sessions[t].peer, s.output, s.peer, n)
    PROVE  StreamSteps
<1>1. /\ DOMAIN sessions' = DOMAIN sessions /\ sessions'[t] = s
      /\ \A x \in DOMAIN sessions \ {t} : sessions'[x] = sessions[x]
  BY WithFields DEF Tokens
<1> SUFFICES ASSUME NEW x \in DOMAIN sessions
             PROVE  /\ sessions'[x].streaming = sessions[x].streaming
                    /\ sessions[x].streaming =>
                       \/ Kept(sessions[x].output, sessions[x].peer, sessions'[x].output, sessions'[x].peer)
                       \/ /\ pc = "broadcast"
                          /\ Given(sessions[x].output, sessions[x].peer, sessions'[x].output,
                                   sessions'[x].peer, last_sequence)
                       \/ \E n \in Nat \ {0} : Taken(sessions[x].output, sessions[x].peer,
                                                     sessions'[x].output, sessions'[x].peer, n)
  BY <1>1 DEF StreamSteps, Tokens
<1>2. CASE x = t
  BY <1>1, <1>2
<1>3. CASE x # t
  BY <1>1, <1>3 DEF Kept
<1> QED BY <1>2, <1>3

LEMMA StreamRemoved ==
    ASSUME DOMAIN sessions' \subseteq DOMAIN sessions,
           \A x \in DOMAIN sessions' : sessions'[x] = sessions[x]
    PROVE  StreamSteps
  BY DEF StreamSteps, Tokens, Kept

\* A new stream is empty or holds the generation of Accept.
LEMMA StreamAccepted == ASSUME IndInv, AcceptSession PROVE StreamSteps
<1> DEFINE s == NewSession(event.token = kStream)
           b == Frame(latest)
<1>1. s \in Session /\ s.output = EmptyQueue /\ s.peer = NewPeer
  <2>1. (event.token = kStream) \in BOOLEAN
    OBVIOUS
  <2> QED BY <2>1, NewSessionOK DEF NewSession
<1>2. next_token \notin Tokens
  BY DEF IndInv, StoreOK, Tokens, FirstToken
<1>3. ASSUME NEW m, sessions' = With(next_token, m),
             \/ Kept(EmptyQueue, NewPeer, m.output, m.peer)
             \/ latest # 0 /\ Given(EmptyQueue, NewPeer, m.output, m.peer, latest)
      PROVE  StreamSteps
  <2>1. /\ DOMAIN sessions' = DOMAIN sessions \cup {next_token} /\ sessions'[next_token] = m
        /\ \A x \in DOMAIN sessions \ {next_token} : sessions'[x] = sessions[x]
    BY <1>3, WithFields
  <2>2. \A x \in DOMAIN sessions : sessions'[x] = sessions[x]
    BY <1>2, <2>1 DEF Tokens
  <2>3. \A x \in DOMAIN sessions' : x = next_token \/ x \in Tokens
    BY <2>1 DEF Tokens
  <2>4. pc = "accept"
    BY DEF AcceptSession
  <2> QED BY <1>2, <1>3, <2>1, <2>2, <2>3, <2>4 DEF StreamSteps, Kept, Tokens
<1>4. CASE ~Greeted(s)
  <2>1. sessions' = With(next_token, Modify(s))
    BY <1>4 DEF AcceptSession, NewToken
  <2> HIDE DEF s
  <2>2. Modify(s).output = s.output /\ Modify(s).peer = s.peer
    BY <1>1, ModifyFields
  <2> QED BY <1>1, <1>3, <2>1, <2>2 DEF Kept
<1>5. CASE Greeted(s)
  <2>1. latest \in 1..MaxGen /\ latest # 0
    BY <1>5 DEF Greeted, IndInv, LocalOK
  <2>2. b \in Buffer /\ b.size # 0
    BY <2>1, FrameOK
  <2>3. sessions' = IF Fits(s, b) THEN With(next_token, Modify(Enqueued(s, b))) ELSE sessions
    BY <1>5 DEF AcceptSession, NewToken
  <2>4. WellFormed(s.output)
    BY <1>1, EmptyQueueOK
  <2> HIDE DEF s
  <2>5. CASE Fits(s, b)
    <3>1. /\ Enqueued(s, b) \in Session /\ Enqueued(s, b).peer = s.peer
          /\ Enqueued(s, b).output = Push(s.output, b)
      BY <1>1, <2>2, <2>4, <2>5, EnqueueOK, EnqueuedFields DEF IndInv
    <3>2. /\ Modify(Enqueued(s, b)).output = Push(EmptyQueue, b)
          /\ Modify(Enqueued(s, b)).peer = NewPeer
      BY <1>1, <3>1, ModifyFields
    <3>3. sessions' = With(next_token, Modify(Enqueued(s, b)))
      BY <2>3, <2>5
    <3> QED BY <1>3, <2>1, <3>2, <3>3 DEF Given
  <2>6. CASE ~Fits(s, b)
    BY <2>3, <2>6, StreamRemoved
  <2> QED BY <2>5, <2>6
<1> QED BY <1>4, <1>5

\* Sending leaves the kind of the session alone and feeds the reader.
LEMMA SentStream ==
    ASSUME NEW s \in Session, NEW n
    PROVE  /\ Sent(s, n).streaming = s.streaming /\ Sent(s, n).output = Consume(s.output, n)
           /\ s.streaming => Sent(s, n).peer = Receive(s.peer, s.output.current, s.output.offset, n)
<1> DEFINE c == Consume(s.output, n)
           p == IF s.streaming THEN Receive(s.peer, s.output.current, s.output.offset, n) ELSE s.peer
           a == [s EXCEPT !.output = c, !.idle = 0, !.peer = p]
<1>1. Sent(s, n) = a
  BY DEF Sent
<1>2. s.streaming => p = Receive(s.peer, s.output.current, s.output.offset, n)
  OBVIOUS
<1> HIDE DEF c, p
<1>3. a.streaming = s.streaming /\ a.output = c /\ a.peer = p
  BY DEF Session
<1> HIDE DEF a
<1> QED BY <1>1, <1>2, <1>3 DEF c

\* Every step of the reactor treats every stream in one of these ways.
LEMMA StreamStepsOK == ASSUME IndInv, ClientsOK, [Next]_vars PROVE StreamSteps
<1>1. CASE UNCHANGED sessions
  BY <1>1, StreamRemoved
<1>2. CASE Shutdown \/ Fail
  <2>1. sessions' = [t \in {} |-> {}]
    BY <1>2 DEF Shutdown, Fail
  <2>2. DOMAIN sessions' = {}
    BY <2>1
  <2> QED BY <2>2, StreamRemoved
<1>3. ASSUME NEW n \in 1..RecvSize, ReadPart(n) PROVE StreamSteps
  <2> DEFINE r == Current.request + n
             s == [Current EXCEPT !.request = r]
  <2>1. event.token \in Tokens /\ Current = sessions[event.token] /\ Current \in Session
    BY <1>3, SessionOK DEF IndInv, LocalOK, ReadPart, Current, Tokens
  <2>2. sessions' = With(event.token, s)
    BY <1>3 DEF ReadPart
  <2> HIDE DEF r
  <2>3. s.streaming = Current.streaming /\ s.output = Current.output /\ s.peer = Current.peer
    BY <2>1 DEF Session
  <2> HIDE DEF s
  <2> QED BY <2>1, <2>2, <2>3, StreamReplaced DEF Kept
<1>4. ASSUME NEW size \in ResponseSizes, ReadRequest(size) PROVE StreamSteps
  <2> DEFINE s == [Current EXCEPT !.responding = TRUE, !.request = 0]
             b == Response(size)
  <2>1. /\ event.token \in Tokens /\ Current = sessions[event.token] /\ Current \in Session
        /\ ~Current.streaming
    BY <1>4, SessionOK
       DEF IndInv, LocalOK, ClientsOK, ReadsRequest, ReadRequest, Current, Tokens
  <2>2. sessions' = With(event.token, Enqueued(s, b))
    BY <1>4 DEF ReadRequest
  <2>3. s \in Session /\ s.streaming = Current.streaming
    BY <2>1 DEF Session
  <2> HIDE DEF s, b
  <2>4. Enqueued(s, b).streaming = s.streaming
    BY <2>3, EnqueuedFields
  <2> QED BY <2>1, <2>2, <2>3, <2>4, StreamReplaced
<1>5. ASSUME NEW n \in 1..WriteBudget, WriteSome(n) PROVE StreamSteps
  <2>1. /\ event.token \in Tokens /\ Current = sessions[event.token] /\ Current \in Session
        /\ CanConsume(Current.output, n) /\ n \in Nat \ {0}
    <3>1. n \in Nat \ {0}
      BY LimitsAssumption
    <3> QED BY <1>5, <3>1, SessionOK DEF IndInv, LocalOK, WriteSome, Current, Tokens
  <2>2. sessions' = With(event.token, Sent(Current, n))
    BY <1>5 DEF WriteSome
  <2> DEFINE s == Sent(Current, n)
  <2>3. /\ s.streaming = Current.streaming
        /\ s.streaming => Taken(Current.output, Current.peer, s.output, s.peer, n)
    BY <2>1, SentStream DEF Taken
  <2> HIDE DEF s
  <2>4. s.streaming => \E k \in Nat \ {0} : Taken(Current.output, Current.peer, s.output, s.peer, k)
    BY <2>1, <2>3
  <2> QED BY <2>1, <2>2, <2>3, <2>4, StreamReplaced DEF s
<1>6. CASE Settle
  <2>1. event.token \in Tokens /\ Current = sessions[event.token] /\ Current \in Session
    BY <1>6, SessionOK DEF IndInv, LocalOK, Settle, Current, Tokens
  <2>2. CASE sessions' = With(event.token, Modify(Current))
    BY <2>1, <2>2, ModifyFields, StreamReplaced DEF Kept
  <2>3. CASE sessions' = Without(event.token)
    BY <2>3, WithoutFields, StreamRemoved
  <2> QED BY <1>6, <2>2, <2>3 DEF Settle, Close
<1>7. ASSUME NEW t \in todo, SweepClose(t) PROVE StreamSteps
  BY <1>7, WithoutFields, StreamRemoved DEF SweepClose, Close
<1>8. ASSUME NEW t \in todo, BroadcastTo(t) PROVE StreamSteps
  <2> DEFINE s == sessions[t]
             b == Frame(last_sequence)
             m == Modify(Enqueued(s, b))
  <2>1. t \in Tokens /\ pc = "broadcast" /\ last_sequence \in 1..MaxGen
    BY <1>8 DEF IndInv, LocalOK, BroadcastTo, Tokens
  <2>2. s \in Session /\ WellFormed(s.output) /\ b \in Buffer /\ b.size # 0
    BY <2>1, SessionOK, FrameOK DEF IndInv, Tokens
  <2>3. sessions' = IF Fits(s, b) THEN With(t, m) ELSE Without(t)
    BY <1>8 DEF BroadcastTo
  <2>4. CASE Fits(s, b)
    <3>1. /\ Enqueued(s, b) \in Session /\ Enqueued(s, b).streaming = s.streaming
          /\ Enqueued(s, b).peer = s.peer /\ Enqueued(s, b).output = Push(s.output, b)
      BY <2>2, <2>4, EnqueueOK, EnqueuedFields DEF IndInv
    <3>2. m.streaming = s.streaming /\ Given(s.output, s.peer, m.output, m.peer, last_sequence)
      BY <3>1, ModifyFields DEF Given
    <3>3. sessions' = With(t, m)
      BY <2>3, <2>4
    <3> HIDE DEF m
    <3> QED BY <2>1, <3>2, <3>3, StreamReplaced
  <2>5. CASE ~Fits(s, b)
    BY <2>3, <2>5, WithoutFields, StreamRemoved
  <2> QED BY <2>4, <2>5
<1>9. CASE Tick
  <2>1. DOMAIN sessions' = DOMAIN sessions
    BY <1>9 DEF Tick, Tokens
  <2>2. ASSUME NEW t \in DOMAIN sessions
        PROVE  /\ sessions'[t].streaming = sessions[t].streaming
               /\ Kept(sessions[t].output, sessions[t].peer, sessions'[t].output, sessions'[t].peer)
    <3>1. sessions[t] \in Session /\ sessions'[t] = Aged(sessions[t])
      BY <1>9, SessionOK DEF IndInv, Tick, Tokens
    <3> QED BY <3>1, AgedFields DEF Kept
  <2> QED BY <2>1, <2>2 DEF StreamSteps, Tokens
<1>10. \/ UNCHANGED sessions \/ Shutdown \/ Fail \/ AcceptSession \/ Settle \/ Tick
       \/ \E n \in 1..RecvSize : ReadPart(n)
       \/ \E size \in ResponseSizes : ReadRequest(size)
       \/ \E n \in 1..WriteBudget : WriteSome(n)
       \/ \E t \in todo : SweepClose(t) \/ BroadcastTo(t)
  BY DEF Next, Thread, World, EpollWait, HandleListener, HandleSession, HandleNotification,
         HandleTimer, AcceptNothing, AcceptExhausted, AcceptSkipped, ReadNothing, ReadInterrupted,
         WriteNothing, WriteEnds, SweepDone, BroadcastDone, Publish, Notify, Signal, server, vars
<1> QED BY <1>1, <1>2, <1>3, <1>4, <1>5, <1>6, <1>7, <1>8, <1>9, <1>10, StreamAccepted

----------------------------------------------------------------------------
\* The fields of a stream that is in order.
LEMMA StreamTypes ==
    ASSUME NEW q, NEW p, StreamOK(q, p)
    PROVE  /\ q \in Queue /\ q.current \in Buffer /\ q.pending \in Buffer /\ q.offset \in Nat
           /\ q.current.gen \in Nat /\ q.current.size \in Nat
           /\ q.pending.gen \in Nat /\ q.pending.size \in Nat
           /\ p.gen \in Nat /\ p.got \in Nat /\ p.last \in Nat /\ NewestOf(q, p) \in Nat
<1>1. q \in Queue /\ p \in Peer
  BY DEF StreamOK, WellFormed
<1>2. /\ q.current \in Buffer /\ q.pending \in Buffer /\ q.offset \in Nat
      /\ p.gen \in Nat /\ p.got \in Nat /\ p.last \in Nat
  BY <1>1 DEF Queue, Peer
<1>3. /\ q.current.gen \in Nat /\ q.current.size \in Nat
      /\ q.pending.gen \in Nat /\ q.pending.size \in Nat
  BY <1>2 DEF Buffer
<1> QED BY <1>1, <1>2, <1>3 DEF NewestOf, Newest

LEMMA NewStream == StreamOK(EmptyQueue, NewPeer) /\ NewestOf(EmptyQueue, NewPeer) = 0
<1>1. NewPeer \in Peer
  BY DEF NewPeer, Peer
<1> QED BY <1>1, EmptyQueueOK
        DEF StreamOK, NewestOf, EmptyQueue, NoBuffer, NewPeer, Numbered, Empty

\* Where a pushed generation goes.
LEMMA PushCases ==
    ASSUME NEW q, NEW p, StreamOK(q, p), NEW b
    PROVE  \/ /\ q.offset = 0 /\ q.pending.size = 0
              /\ Push(q, b) = [current |-> b, pending |-> q.pending, offset |-> 0]
           \/ /\ q.offset # 0 /\ q.current.size # 0
              /\ Push(q, b) = [current |-> q.current, pending |-> b, offset |-> q.offset]
<1>1. q \in Queue /\ q.offset \in Nat /\ q.current.size \in Nat
  BY StreamTypes
<1>2. CASE Empty(q) \/ q.offset = 0
  <2>1. q.offset = 0 /\ q.pending.size = 0
    BY <1>1, <1>2 DEF StreamOK, WellFormed, Empty
  <2>2. Push(q, b) = [current |-> b, pending |-> q.pending, offset |-> 0]
    BY <1>1, <1>2 DEF Push, Queue
  <2> QED BY <2>1, <2>2
<1>3. CASE ~(Empty(q) \/ q.offset = 0)
  <2>1. Push(q, b) = [current |-> q.current, pending |-> b, offset |-> q.offset]
    BY <1>1, <1>3 DEF Push, Queue
  <2> QED BY <1>3, <2>1 DEF Empty
<1> QED BY <1>2, <1>3

\* A generation that is not older than any before keeps a stream in order.
LEMMA GivenOK ==
    ASSUME NEW q, NEW p, StreamOK(q, p), NEW g \in 1..MaxGen, g >= NewestOf(q, p),
           NEW r, NEW o, Given(q, p, r, o, g)
    PROVE  StreamOK(r, o) /\ NewestOf(r, o) = g
<1> DEFINE b == Frame(g)
<1>1. b \in Buffer /\ b.size # 0 /\ b.gen = g /\ g \in Nat \ {0} /\ b.size \in Nat
  BY FrameOK, LimitsAssumption DEF Frame, Buffer
<1>2. r = Push(q, b) /\ o = p /\ WellFormed(r)
  BY <1>1, PushOK DEF Given, StreamOK
<1> HIDE DEF b
<1>3. /\ q.current.gen \in Nat /\ q.current.size \in Nat /\ q.pending.size \in Nat
      /\ p.last \in Nat /\ q.offset \in Nat
  BY StreamTypes
<1>4. CASE /\ q.offset = 0 /\ q.pending.size = 0
           /\ r = [current |-> b, pending |-> q.pending, offset |-> 0]
  <2>1. r.current = b /\ r.pending = q.pending /\ r.offset = 0
    BY <1>4
  <2>2. p.last <= g
    BY <1>1, <1>3, <1>4 DEF StreamOK, NewestOf, Newest, Empty
  <2> QED BY <1>1, <1>2, <1>4, <2>1, <2>2 DEF StreamOK, Numbered, NewestOf, Newest, Empty
<1>5. CASE /\ q.offset # 0 /\ q.current.size # 0
           /\ r = [current |-> q.current, pending |-> b, offset |-> q.offset]
  <2>1. r.current = q.current /\ r.pending = b /\ r.offset = q.offset
    BY <1>5
  <2>2. q.current.gen <= g
    <3>1. q.pending.size # 0 => q.pending.gen \in Nat /\ q.current.gen <= q.pending.gen
      BY StreamTypes DEF StreamOK
    <3> QED BY <1>1, <1>3, <1>5, <3>1 DEF NewestOf, Newest, Empty
  <2> QED BY <1>1, <1>2, <1>5, <2>1, <2>2 DEF StreamOK, Numbered, NewestOf, Newest, Empty
<1> QED BY <1>2, <1>4, <1>5, PushCases

\* What a send does to the queue and to the reader.
LEMMA TakenCases ==
    ASSUME NEW q, NEW p, StreamOK(q, p), NEW n \in Nat \ {0}, NEW r, NEW o, Taken(q, p, r, o, n)
    PROVE  /\ q.current.size # 0 /\ q.current.gen # 0 /\ q.offset + n <= q.current.size
           /\ \/ /\ q.offset + n = q.current.size
                 /\ r = [current |-> q.pending, pending |-> NoBuffer, offset |-> 0]
                 /\ o = [gen |-> q.current.gen, got |-> 0, last |-> q.current.gen, torn |-> FALSE]
              \/ /\ q.offset + n < q.current.size
                 /\ r = [current |-> q.current, pending |-> q.pending, offset |-> q.offset + n]
                 /\ o = [gen |-> q.current.gen, got |-> q.offset + n, last |-> p.last,
                         torn |-> FALSE]
<1>1. /\ q \in Queue /\ q.current.size \in Nat /\ q.current.gen \in Nat /\ q.offset \in Nat
      /\ p.got \in Nat
  BY StreamTypes
<1>2. q.current.size # 0 /\ q.current.gen # 0 /\ q.offset + n <= q.current.size
  BY <1>1 DEF Taken, CanConsume, Empty, FrontSize, StreamOK, Numbered
<1>3. (p.torn \/ p.got # q.offset \/ (p.got # 0 /\ p.gen # q.current.gen)) = FALSE
  BY Zenon DEF StreamOK
<1>4. r = Consume(q, n) /\ o = Receive(p, q.current, q.offset, n)
  BY DEF Taken
<1>5. CASE q.offset + n = q.current.size
  BY <1>1, <1>2, <1>3, <1>4, <1>5 DEF Consume, Receive
<1>6. CASE q.offset + n # q.current.size
  <2>1. r = [current |-> q.current, pending |-> q.pending, offset |-> q.offset + n]
    BY <1>1, <1>4, <1>6 DEF Consume, Queue
  <2>2. o = [gen |-> q.current.gen, got |-> q.offset + n, last |-> p.last, torn |-> FALSE]
    BY <1>3, <1>4, <1>6 DEF Receive
  <2> QED BY <1>1, <1>2, <1>6, <2>1, <2>2
<1> QED BY <1>5, <1>6

\* Sending keeps a stream in order and takes no generation from it.
LEMMA TakenOK ==
    ASSUME NEW q, NEW p, StreamOK(q, p), NEW n \in Nat \ {0}, NEW r, NEW o, Taken(q, p, r, o, n)
    PROVE  StreamOK(r, o) /\ NewestOf(r, o) = NewestOf(q, p)
<1>1. /\ q.current \in Buffer /\ q.pending \in Buffer /\ q.offset \in Nat
      /\ q.current.gen \in Nat /\ q.current.size \in Nat
      /\ q.pending.gen \in Nat /\ q.pending.size \in Nat /\ p.last \in Nat
  BY StreamTypes
<1>2. q.current.size # 0 /\ q.current.gen # 0
  BY TakenCases
<1>3. WellFormed(r)
  BY ConsumeOK DEF Taken, StreamOK
<1>4. CASE /\ q.offset + n = q.current.size
           /\ r = [current |-> q.pending, pending |-> NoBuffer, offset |-> 0]
           /\ o = [gen |-> q.current.gen, got |-> 0, last |-> q.current.gen, torn |-> FALSE]
  <2>1. /\ r.current = q.pending /\ r.pending = NoBuffer /\ r.offset = 0
        /\ o.got = 0 /\ o.last = q.current.gen /\ o.torn = FALSE
    BY <1>4
  <2>2. o \in Peer
    BY <1>1, <1>4 DEF Peer
  <2>3. StreamOK(r, o)
    BY <1>1, <1>2, <1>3, <2>1, <2>2 DEF StreamOK, Numbered, NoBuffer
  <2>4. NewestOf(r, o) = NewestOf(q, p)
    BY <1>2, <2>1 DEF NewestOf, Newest, Empty, NoBuffer
  <2> QED BY <2>3, <2>4
<1>5. CASE /\ q.offset + n < q.current.size
           /\ r = [current |-> q.current, pending |-> q.pending, offset |-> q.offset + n]
           /\ o = [gen |-> q.current.gen, got |-> q.offset + n, last |-> p.last, torn |-> FALSE]
  <2>1. /\ r.current = q.current /\ r.pending = q.pending /\ r.offset = q.offset + n
        /\ o.got = q.offset + n /\ o.last = p.last /\ o.torn = FALSE /\ o.gen = q.current.gen
    BY <1>5
  <2>2. o \in Peer
    BY <1>1, <1>5 DEF Peer
  <2>3. StreamOK(r, o)
    BY <1>3, <2>1, <2>2 DEF StreamOK, Numbered
  <2>4. NewestOf(r, o) = NewestOf(q, p)
    BY <1>2, <2>1 DEF NewestOf, Newest, Empty
  <2> QED BY <2>3, <2>4
<1> QED BY <1>4, <1>5, TakenCases

----------------------------------------------------------------------------
(***************************************************************************)
(* The third invariant: every stream is in order, and no stream is ahead   *)
(* of what is published, nor of the broadcast that is on its way to it.    *)
(***************************************************************************)
StreamsOK ==
    \A t \in Tokens : sessions[t].streaming =>
        LET q == sessions[t].output
            p == sessions[t].peer
        IN  /\ StreamOK(q, p)
            /\ NewestOf(q, p) <= latest
            /\ pc = "broadcast" => NewestOf(q, p) <= last_sequence

\* A broadcast begins with the generation that is published, and no session changes.
LEMMA BroadcastStarts ==
    ASSUME IndInv, [Next]_vars
    PROVE  /\ latest' \in 0..MaxGen /\ latest' >= latest
           /\ pc' = "broadcast" => \/ pc = "broadcast" /\ last_sequence' = last_sequence
                                   \/ last_sequence' = latest /\ sessions' = sessions
<1>1. latest \in Nat /\ MaxGen \in Nat /\ latest <= MaxGen
  BY LimitsAssumption DEF IndInv, LocalOK
<1>2. latest' = latest \/ Publish
  <2>1. CASE \E e \in batch : \/ HandleListener(e) \/ HandleSession(e)
                              \/ HandleNotification(e) \/ HandleTimer(e)
    BY <2>1 DEF HandleListener, HandleSession, HandleNotification, HandleTimer, environment
  <2> QED BY <2>1 DEF Next, Thread, World, EpollWait, Shutdown, AcceptNothing, AcceptExhausted,
             AcceptSkipped, AcceptSession, ReadNothing, ReadInterrupted, ReadPart, ReadRequest,
             WriteSome, WriteNothing, WriteEnds, Settle, SweepClose, BroadcastTo, SweepDone,
             BroadcastDone, Fail, Notify, Tick, Signal, vars, environment
<1>3. latest' \in 0..MaxGen /\ latest' >= latest
  BY <1>1, <1>2 DEF Publish
<1>4. ASSUME pc' = "broadcast"
      PROVE  \/ pc = "broadcast" /\ last_sequence' = last_sequence
             \/ last_sequence' = latest /\ sessions' = sessions
  <2>1. CASE \E e \in batch : \/ HandleListener(e) \/ HandleSession(e) \/ HandleTimer(e)
    BY <1>4, <2>1 DEF HandleListener, HandleSession, HandleTimer, Take, EnterWrite, EnterSettle
  <2>2. CASE (\E e \in batch : HandleNotification(e)) \/ SweepDone
    BY <1>4, <2>2 DEF HandleNotification, SweepDone, StartBroadcast
  <2>3. CASE EpollWait \/ Shutdown \/ AcceptNothing \/ AcceptExhausted \/ AcceptSkipped \/ AcceptSession
    BY <1>4, <2>3 DEF EpollWait, Shutdown, AcceptNothing, AcceptExhausted, AcceptSkipped,
       AcceptSession, Return, NextTurn
  <2>4. CASE \/ ReadNothing \/ ReadInterrupted
             \/ \E n \in 1..RecvSize : ReadPart(n)
             \/ \E size \in ResponseSizes : ReadRequest(size)
    BY <1>4, <2>4 DEF ReadNothing, ReadInterrupted, ReadPart, ReadRequest, NextTurn, ReadReturns,
       EnterWrite, EnterSettle
  <2>5. CASE \/ \E n \in 1..WriteBudget : WriteSome(n)
             \/ WriteNothing \/ WriteEnds \/ Settle
    BY <1>4, <2>5 DEF WriteSome, WriteNothing, WriteEnds, Settle, WriteReturns, EnterSettle, Return
  <2>6. CASE \/ \E t \in todo : SweepClose(t) \/ BroadcastTo(t)
             \/ BroadcastDone \/ Fail \/ World \/ UNCHANGED vars
    BY <1>4, <2>6 DEF SweepClose, BroadcastTo, BroadcastDone, Fail, World, Publish, Notify, Tick,
       Signal, vars, control, server
  <2> QED BY <2>1, <2>2, <2>3, <2>4, <2>5, <2>6 DEF Next, Thread
<1> QED BY <1>3, <1>4

LEMMA NextStreams == ASSUME IndInv, ClientsOK, StreamsOK, [Next]_vars PROVE StreamsOK'
<1>0. /\ latest \in Nat /\ last_sequence \in Nat /\ last_sequence <= latest
      /\ latest' \in Nat /\ latest' >= latest
  BY SequenceTypes, BroadcastStarts DEF ClientsOK
<1> SUFFICES ASSUME NEW t \in DOMAIN sessions', sessions'[t].streaming
             PROVE  /\ StreamOK(sessions'[t].output, sessions'[t].peer)
                    /\ NewestOf(sessions'[t].output, sessions'[t].peer) <= latest'
                    /\ pc' = "broadcast" =>
                          NewestOf(sessions'[t].output, sessions'[t].peer) <= last_sequence'
  BY DEF StreamsOK, Tokens
<1> DEFINE r == sessions'[t].output
           o == sessions'[t].peer
           q == sessions[t].output
           p == sessions[t].peer
<1>1. CASE t \notin Tokens
  <2>1. \/ Kept(EmptyQueue, NewPeer, r, o)
        \/ latest # 0 /\ Given(EmptyQueue, NewPeer, r, o, latest)
    BY <1>1, StreamStepsOK DEF StreamSteps
  <2>2. pc' = "broadcast" => FALSE
    <3> SUFFICES ASSUME pc' = "broadcast" PROVE FALSE
      OBVIOUS
    <3>1. sessions' # sessions
      BY <1>1 DEF Tokens
    <3>2. pc = "broadcast"
      BY <3>1, BroadcastStarts
    <3> QED BY <1>1, <3>2, StreamStepsOK DEF StreamSteps
  <2>3. StreamOK(r, o) /\ NewestOf(r, o) <= latest
    <3>1. CASE Kept(EmptyQueue, NewPeer, r, o)
      BY <1>0, <3>1, NewStream DEF Kept
    <3>2. CASE latest # 0 /\ Given(EmptyQueue, NewPeer, r, o, latest)
      <4>1. latest \in 1..MaxGen /\ latest >= NewestOf(EmptyQueue, NewPeer)
        BY <1>0, <3>2, NewStream DEF IndInv, LocalOK
      <4> HIDE DEF r, o
      <4>2. StreamOK(r, o) /\ NewestOf(r, o) = latest
        BY <3>2, <4>1, NewStream, GivenOK
      <4> QED BY <1>0, <4>2
    <3> QED BY <2>1, <3>1, <3>2
  <2>4. NewestOf(r, o) \in Nat
    BY <2>3, StreamTypes
  <2> QED BY <1>0, <2>2, <2>3, <2>4
<1>2. CASE t \in Tokens
  <2>1. /\ sessions[t].streaming
        /\ \/ Kept(q, p, r, o)
           \/ pc = "broadcast" /\ Given(q, p, r, o, last_sequence)
           \/ \E n \in Nat \ {0} : Taken(q, p, r, o, n)
    BY <1>2, StreamStepsOK DEF StreamSteps
  <2>2. /\ StreamOK(q, p) /\ NewestOf(q, p) <= latest
        /\ pc = "broadcast" => NewestOf(q, p) <= last_sequence
    BY <1>2, <2>1 DEF StreamsOK
  <2>3. /\ StreamOK(r, o)
        /\ \/ NewestOf(r, o) = NewestOf(q, p)
           \/ pc = "broadcast" /\ NewestOf(r, o) = last_sequence
    <3> HIDE DEF q, p, r, o
    <3>1. CASE Kept(q, p, r, o)
      BY <2>2, <3>1 DEF Kept
    <3>2. CASE pc = "broadcast" /\ Given(q, p, r, o, last_sequence)
      <4>1. last_sequence \in 1..MaxGen /\ last_sequence >= NewestOf(q, p)
        <5>1. last_sequence \in 1..MaxGen
          BY <3>2 DEF IndInv, LocalOK
        <5>2. NewestOf(q, p) \in Nat
          BY <2>2, StreamTypes
        <5> QED BY <1>0, <2>2, <3>2, <5>1, <5>2
      <4> QED BY <2>2, <3>2, <4>1, GivenOK
    <3>3. ASSUME NEW n \in Nat \ {0}, Taken(q, p, r, o, n)
          PROVE  StreamOK(r, o) /\ NewestOf(r, o) = NewestOf(q, p)
      BY <2>2, <3>3, TakenOK
    <3> QED BY <2>1, <3>1, <3>2, <3>3
  <2>4. NewestOf(q, p) \in Nat /\ NewestOf(r, o) \in Nat
    BY <2>2, <2>3, StreamTypes
  <2>5. NewestOf(r, o) <= latest'
    <3> HIDE DEF q, p, r, o
    <3> QED BY <1>0, <2>2, <2>3, <2>4
  <2>6. pc' = "broadcast" => NewestOf(r, o) <= last_sequence'
    <3>1. CASE pc = "broadcast" /\ last_sequence' = last_sequence
      <4> HIDE DEF q, p, r, o
      <4> QED BY <1>0, <2>2, <2>3, <2>4, <3>1
    <3>2. CASE last_sequence' = latest /\ sessions' = sessions
      BY <2>2, <3>2
    <3> QED BY <3>1, <3>2, BroadcastStarts
  <2> QED BY <2>3, <2>5, <2>6
<1> QED BY <1>1, <1>2

\* Every stream is in order in every reachable state of the reactor.
THEOREM StreamsInductive == Spec => []StreamsOK
<1>1. Init => StreamsOK
  <2> SUFFICES ASSUME Init PROVE StreamsOK
    OBVIOUS
  <2>1. DOMAIN sessions = {}
    BY DEF Init
  <2> QED BY <2>1 DEF StreamsOK, Tokens
<1>2. IndInv /\ ClientsOK /\ StreamsOK /\ [Next]_vars => StreamsOK'
  BY NextStreams
<1> QED BY <1>1, <1>2, Inductive, ClientsInductive, PTL DEF Spec

\* No stream client is ever sent bytes that do not continue its frame, although
\* Enqueue may throw a partly sent frame away: Broadcast closes that session.
THEOREM StreamsAreIntact == Spec => []StreamsIntact
<1>1. StreamsOK => StreamsIntact
  BY DEF StreamsOK, StreamOK, StreamsIntact
<1> QED BY <1>1, StreamsInductive, PTL

\* A step of the reactor is a step of LatestWins for every subscriber, or none.
LEMMA SubscriberStep ==
    ASSUME IndInv, ClientsOK, StreamsOK, [Next]_vars,
           NEW t \in Tokens \cap DOMAIN sessions', sessions[t].streaming
    PROVE  [Subscriber(t)!Next]_(Subscriber(t)!vars)
<1> DEFINE r == sessions'[t].output
           o == sessions'[t].peer
           q == sessions[t].output
           p == sessions[t].peer
<1>1. /\ StreamOK(q, p) /\ (pc = "broadcast" => NewestOf(q, p) <= last_sequence)
  BY DEF StreamsOK
<1>2. /\ q.current.gen \in Nat /\ q.current.size \in Nat /\ q.offset \in Nat
      /\ q.pending.gen \in Nat /\ q.pending.size \in Nat /\ p.last \in Nat
      /\ NewestOf(q, p) \in Nat
  BY <1>1, StreamTypes
<1>3. /\ Numbered(q.current) /\ Numbered(q.pending)
      /\ q.offset = 0 => q.pending.size = 0
  BY <1>1 DEF StreamOK, WellFormed
<1>4. CASE Kept(q, p, r, o)
  BY <1>4 DEF Kept, Subscriber!vars
<1>5. CASE pc = "broadcast" /\ Given(q, p, r, o, last_sequence)
  <2> DEFINE g == last_sequence
             b == Frame(g)
  <2>1. g \in 1..MaxGen /\ g >= NewestOf(q, p) /\ b.gen = g /\ r = Push(q, b) /\ o = p
    BY <1>1, <1>2, <1>5, SequenceTypes DEF IndInv, LocalOK, Frame, Given
  <2> HIDE DEF b, g
  <2>2. CASE /\ q.offset = 0 /\ q.pending.size = 0
             /\ r = [current |-> b, pending |-> q.pending, offset |-> 0]
    <3>1. r.current.gen = g /\ r.offset = 0
      BY <2>1, <2>2
    <3>2. g >= Subscriber(t)!Newest
      BY <1>3, <2>1, <2>2 DEF Subscriber!Newest, NewestOf, Newest, Empty, Numbered
    <3>3. Subscriber(t)!Offer(g)
      BY <2>1, <2>2, <3>1, <3>2 DEF Subscriber!Offer
    <3> QED BY <2>1, <3>3 DEF Subscriber!Next
  <2>3. CASE /\ q.offset # 0 /\ q.current.size # 0
             /\ r = [current |-> q.current, pending |-> b, offset |-> q.offset]
    <3>1. r.current.gen = q.current.gen /\ r.pending.gen = g /\ r.offset = q.offset
      BY <2>1, <2>3
    <3>2. g >= Subscriber(t)!Newest
      BY <1>3, <2>1, <2>3 DEF Subscriber!Newest, NewestOf, Newest, Empty, Numbered
    <3>3. Subscriber(t)!Offer(g)
      BY <2>1, <2>3, <3>1, <3>2 DEF Subscriber!Offer
    <3> QED BY <2>1, <3>3 DEF Subscriber!Next
  <2> QED BY <1>1, <2>1, <2>2, <2>3, PushCases
<1>6. ASSUME NEW n \in Nat \ {0}, Taken(q, p, r, o, n)
      PROVE  [Subscriber(t)!Next]_(Subscriber(t)!vars)
  <2>1. q.current.size # 0 /\ q.current.gen # 0
    BY <1>1, <1>6, TakenCases
  <2>2. CASE /\ q.offset + n = q.current.size
             /\ r = [current |-> q.pending, pending |-> NoBuffer, offset |-> 0]
             /\ o = [gen |-> q.current.gen, got |-> 0, last |-> q.current.gen, torn |-> FALSE]
    <3>1. r.current = q.pending /\ r.offset = 0 /\ o.last = q.current.gen
      BY <2>2
    <3>2. CASE q.offset = 0
      <4>1. q.pending.gen = 0
        BY <1>3, <3>2 DEF Numbered
      <4>2. Subscriber(t)!CommitAndDeliver
        BY <2>1, <3>1, <3>2, <4>1 DEF Subscriber!CommitAndDeliver
      <4> QED BY <4>2 DEF Subscriber!Next
    <3>3. CASE q.offset # 0
      <4>1. Subscriber(t)!Deliver
        BY <2>1, <3>1, <3>3 DEF Subscriber!Deliver
      <4> QED BY <4>1 DEF Subscriber!Next
    <3> QED BY <3>2, <3>3
  <2>3. CASE /\ q.offset + n < q.current.size
             /\ r = [current |-> q.current, pending |-> q.pending, offset |-> q.offset + n]
             /\ o = [gen |-> q.current.gen, got |-> q.offset + n, last |-> p.last, torn |-> FALSE]
    <3>1. /\ r.current = q.current /\ r.pending = q.pending /\ r.offset # 0 /\ o.last = p.last
      BY <1>2, <2>3
    <3>2. CASE q.offset = 0
      <4>1. q.pending.gen = 0
        BY <1>3, <3>2 DEF Numbered
      <4>2. Subscriber(t)!Commit
        BY <2>1, <3>1, <3>2, <4>1 DEF Subscriber!Commit
      <4> QED BY <4>2 DEF Subscriber!Next
    <3>3. CASE q.offset # 0
      BY <3>1, <3>3 DEF Subscriber!vars
    <3> QED BY <3>2, <3>3
  <2>4. \/ /\ q.offset + n = q.current.size
           /\ r = [current |-> q.pending, pending |-> NoBuffer, offset |-> 0]
           /\ o = [gen |-> q.current.gen, got |-> 0, last |-> q.current.gen, torn |-> FALSE]
        \/ /\ q.offset + n < q.current.size
           /\ r = [current |-> q.current, pending |-> q.pending, offset |-> q.offset + n]
           /\ o = [gen |-> q.current.gen, got |-> q.offset + n, last |-> p.last, torn |-> FALSE]
    <3> HIDE DEF q, p, r, o
    <3> QED BY <1>1, <1>6, TakenCases
  <2> QED BY <2>2, <2>3, <2>4
<1>7. \/ Kept(q, p, r, o)
      \/ pc = "broadcast" /\ Given(q, p, r, o, last_sequence)
      \/ \E n \in Nat \ {0} : Taken(q, p, r, o, n)
  BY StreamStepsOK DEF StreamSteps
<1> QED BY <1>4, <1>5, <1>6, <1>7

\* Every stream session implements LatestWins for as long as it lasts, for every
\* number of clients, frame sizes, budgets and interleavings of the worker.
THEOREM SubscribersAreServed == Spec => SubscribersGetLatest
<1>1. IndInv /\ ClientsOK /\ StreamsOK /\ [Next]_vars =>
        [\A t \in Tokens \cap DOMAIN sessions' :
            sessions[t].streaming => [Subscriber(t)!Next]_(Subscriber(t)!vars)]_vars
  BY SubscriberStep
<1> QED BY <1>1, Inductive, ClientsInductive, StreamsInductive, PTL DEF Spec, SubscribersGetLatest
============================================================================
