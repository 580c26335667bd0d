------------------------ MODULE StreamSessionProofs ------------------------
(***************************************************************************)
(* For every number of generations and every frame size: the output queue  *)
(* never tears a frame, counts every buffer it drops, delivers generations *)
(* in order and implements LatestWins.                                     *)
(***************************************************************************)
EXTENDS StreamSession, TLAPS

\* A buffer that is queued carries a published generation, the null buffer none.
BufferOK(b) == b.size # 0 <=> b.gen # 0

\* The inductive invariant: the parts rest on each other.  Frame integrity needs
\* the queue to be well formed, the order of deliveries needs both.
IndInv ==
    /\ TypeOK
    /\ QueueWellFormed
    /\ FrameIntegrity
    /\ NothingLostUncounted
    /\ Ordered
    /\ BufferOK(queue.current) /\ BufferOK(queue.pending)

\* The initial state satisfies the inductive invariant.
LEMMA InitInv == Init => IndInv
  BY DEF Init, IndInv, TypeOK, QueueWellFormed, WellFormed, FrameIntegrity, Ordered,
         NothingLostUncounted, Waiting, BufferOK, EmptyQueue, NoBuffer, NewPeer,
         Queue, Buffer, Peer

\* Reactor::Enqueue keeps the inductive invariant.
LEMMA OfferInv ==
    ASSUME IndInv, NEW g \in 1..MaxGen, NEW size \in 1..MaxSize, Offer(g, size)
    PROVE  IndInv'
<1> USE BoundsAssumption DEF IndInv, Offer, BufferOK
<1>0. queue \in Queue /\ peer \in Peer
  BY DEF TypeOK
<1>1. g \in Nat \ {0} /\ size \in Nat \ {0}
  OBVIOUS
<1>b. [gen |-> g, size |-> size] \in Buffer
  BY <1>1 DEF Buffer
<1>2. CASE Empty(queue) \/ queue.offset = 0
  <2>1. queue' = [current |-> [gen |-> g, size |-> size], pending |-> queue.pending, offset |-> 0]
    BY <1>0, <1>2 DEF Push, Queue
  <2>2. queue.offset = 0
    BY <1>0, <1>2 DEF Empty, QueueWellFormed, WellFormed, Queue, Buffer
  <2>3. queue.pending.size = 0
    BY <2>2 DEF QueueWellFormed, WellFormed
  <2>4. TypeOK' /\ QueueWellFormed'
    BY <1>0, <1>b, <1>1, <2>1, <2>3 DEF TypeOK, QueueWellFormed, WellFormed, Queue, Buffer, PushDrops
  <2>5. FrameIntegrity'
    BY <1>0, <2>1, <2>2 DEF FrameIntegrity
  <2>6. NothingLostUncounted'
    BY <1>0, <1>1, <2>1, <2>2, <2>3 DEF NothingLostUncounted, Waiting, PushDrops, Empty, TypeOK, Queue, Buffer
  <2>7. Ordered'
    BY <1>0, <1>1, <2>1, <2>2, <2>3
       DEF Ordered, NewestPushed, Newest, Empty, TypeOK, Queue, Buffer, Peer
  <2>8. BufferOK(queue.current)' /\ BufferOK(queue.pending)'
    BY <1>1, <2>1
  <2> QED BY <2>4, <2>5, <2>6, <2>7, <2>8
<1>3. CASE ~(Empty(queue) \/ queue.offset = 0)
  <2>1. queue' = [current |-> queue.current, pending |-> [gen |-> g, size |-> size], offset |-> queue.offset]
    BY <1>0, <1>3 DEF Push, Queue
  <2>2. queue.current.size # 0 /\ queue.offset # 0
    BY <1>3 DEF Empty
  <2>4. TypeOK' /\ QueueWellFormed'
    BY <1>0, <1>b, <1>1, <2>1, <2>2 DEF TypeOK, QueueWellFormed, WellFormed, Queue, Buffer, PushDrops
  <2>5. FrameIntegrity'
    BY <1>0, <2>1, <2>2 DEF FrameIntegrity
  <2>6. NothingLostUncounted'
    BY <1>0, <1>1, <2>1, <2>2 DEF NothingLostUncounted, Waiting, PushDrops, Empty, TypeOK, Queue, Buffer
  <2>7. Ordered'
    BY <1>0, <1>1, <2>1, <2>2
       DEF Ordered, NewestPushed, Newest, Empty, TypeOK, Queue, Buffer, Peer
  <2>8. BufferOK(queue.current)' /\ BufferOK(queue.pending)'
    BY <1>1, <2>1
  <2> QED BY <2>4, <2>5, <2>6, <2>7, <2>8
<1> QED BY <1>2, <1>3

\* One send of Reactor::Write keeps the inductive invariant.
LEMMA SendInv ==
    ASSUME IndInv, NEW n \in 1..MaxSize, Send(n)
    PROVE  IndInv'
<1> USE BoundsAssumption DEF IndInv, Send, BufferOK
<1>0. queue \in Queue /\ peer \in Peer /\ n \in Nat \ {0}
  BY DEF TypeOK
<1>1. /\ queue.current.size # 0 /\ n <= queue.current.size - queue.offset
      /\ queue.offset \in Nat /\ queue.current \in Buffer /\ queue.pending \in Buffer
      /\ queue.current.size \in Nat /\ queue.current.gen \in Nat
  BY <1>0 DEF CanConsume, Empty, FrontSize, Queue, Buffer
<1>2. CASE queue.offset + n = queue.current.size
  <2>1. queue' = [current |-> queue.pending, pending |-> NoBuffer, offset |-> 0]
    BY <1>2 DEF Consume
  <2>2. peer' = [gen |-> queue.current.gen, got |-> 0, last |-> queue.current.gen, torn |-> FALSE]
    BY <1>0, <1>1, <1>2 DEF Receive, FrameIntegrity, Queue, Buffer, Peer
  <2>3. TypeOK' /\ QueueWellFormed'
    BY <1>0, <1>1, <1>2, <2>1, <2>2 DEF TypeOK, QueueWellFormed, WellFormed, Queue, Buffer, NoBuffer, Peer
  <2>4. FrameIntegrity'
    BY <2>1, <2>2 DEF FrameIntegrity
  <2>5. NothingLostUncounted'
    BY <1>0, <1>1, <1>2, <2>1 DEF NothingLostUncounted, Waiting, NoBuffer, TypeOK, Queue, Buffer
  <2>6. Ordered'
    BY <1>0, <1>1, <2>1, <2>2 DEF Ordered, NoBuffer, Queue, Buffer
  <2>7. BufferOK(queue.current)' /\ BufferOK(queue.pending)'
    BY <2>1 DEF NoBuffer
  <2> QED BY <2>3, <2>4, <2>5, <2>6, <2>7
<1>3. CASE queue.offset + n # queue.current.size
  <2>1. queue' = [current |-> queue.current, pending |-> queue.pending, offset |-> queue.offset + n]
    BY <1>0, <1>3 DEF Consume, Queue
  <2>2. peer' = [gen |-> queue.current.gen, got |-> queue.offset + n, last |-> peer.last, torn |-> FALSE]
    BY <1>0, <1>1, <1>3 DEF Receive, FrameIntegrity, Queue, Buffer, Peer
  <2>3. TypeOK' /\ QueueWellFormed'
    BY <1>0, <1>1, <1>3, <2>1, <2>2 DEF TypeOK, QueueWellFormed, WellFormed, Queue, Buffer, Peer
  <2>4. FrameIntegrity'
    BY <2>1, <2>2 DEF FrameIntegrity
  <2>5. NothingLostUncounted'
    BY <1>0, <1>1, <1>3, <2>1 DEF NothingLostUncounted, Waiting, TypeOK, Queue, Buffer
  <2>6. Ordered'
    BY <1>0, <1>1, <2>1, <2>2 DEF Ordered, Queue, Buffer
  <2>7. BufferOK(queue.current)' /\ BufferOK(queue.pending)'
    BY <2>1
  <2> QED BY <2>3, <2>4, <2>5, <2>6, <2>7
<1> QED BY <1>2, <1>3

\* A stuttering step keeps the inductive invariant.
LEMMA StutterInv == IndInv /\ UNCHANGED vars => IndInv'
  BY DEF IndInv, vars, TypeOK, QueueWellFormed, FrameIntegrity, NothingLostUncounted,
         Waiting, Ordered, BufferOK

\* The inductive invariant holds in every reachable state.
THEOREM Inductive == Spec => []IndInv
<1>1. IndInv /\ [Next]_vars => IndInv'
  BY OfferInv, SendInv, StutterInv DEF Next
<1> QED BY InitInv, <1>1, PTL DEF Spec

\* The members of OutputQueue and the counters always have their types.
THEOREM TypeCorrect == Spec => []TypeOK
  BY Inductive, PTL DEF IndInv

\* No interleaving of pushes and partial sends mixes the bytes of two frames.
THEOREM FramesIntact == Spec => []FrameIntegrity
  BY Inductive, PTL DEF IndInv

\* Every pushed buffer is delivered, queued, or counted as superseded, once.
THEOREM Conservation == Spec => []NothingLostUncounted
  BY Inductive, PTL DEF IndInv

\* The reader's generation never goes back.
THEOREM DeliveryIsMonotone == Spec => MonotoneDelivery
<1>1. IndInv /\ [Next]_vars => [peer'.last >= peer.last]_vars
  <2> SUFFICES ASSUME IndInv, Next PROVE peer'.last >= peer.last
    OBVIOUS
  <2>1. peer.last \in Nat /\ queue.current.gen \in Nat /\ queue.current.size \in Nat
    BY DEF IndInv, TypeOK, Peer, Queue, Buffer
  <2>2. ASSUME NEW g \in 1..MaxGen, NEW size \in 1..MaxSize, Offer(g, size)
        PROVE  peer'.last >= peer.last
    BY <2>1, <2>2 DEF Offer
  <2>3. ASSUME NEW n \in 1..MaxSize, Send(n)
        PROVE  peer'.last >= peer.last
    BY <2>1, <2>3 DEF Send, Receive, IndInv, Ordered, CanConsume, Empty
  <2> QED BY <2>2, <2>3 DEF Next
<1> QED BY <1>1, Inductive, PTL DEF Spec, MonotoneDelivery

----------------------------------------------------------------------------
(***************************************************************************)
(* Refinement: an Offer is an abstract Offer; a send that completes a      *)
(* frame is Deliver or CommitAndDeliver, the first part of one is Commit,  *)
(* and a part in the middle changes nothing the abstraction shows.         *)
(***************************************************************************)
THEOREM ImplementsLatestWins == Spec => AbstractSpec
<1>1. Init => Abstract!Init
  BY DEF Init, Abstract!Init, EmptyQueue, NoBuffer, NewPeer
<1>2. IndInv /\ [Next]_vars => [Abstract!Next]_(Abstract!vars)
  <2> SUFFICES ASSUME IndInv, [Next]_vars PROVE [Abstract!Next]_(Abstract!vars)
    OBVIOUS
  <2>0. /\ queue \in Queue /\ peer \in Peer
        /\ queue.current.gen \in Nat /\ queue.pending.gen \in Nat /\ peer.last \in Nat
        /\ queue.current.size \in Nat /\ queue.pending.size \in Nat /\ queue.offset \in Nat
    BY DEF IndInv, TypeOK, Queue, Buffer, Peer
  <2>1. ASSUME NEW g \in 1..MaxGen, NEW size \in 1..MaxSize, Offer(g, size)
        PROVE  Abstract!Offer(g)
    <3>1. g \in Nat \ {0} /\ size \in Nat \ {0}
      BY BoundsAssumption
    <3>2. CASE Empty(queue) \/ queue.offset = 0
      <4>1. /\ queue'.current = [gen |-> g, size |-> size] /\ queue'.offset = 0
            /\ queue.offset = 0 /\ peer' = peer
        BY <2>0, <2>1, <3>2 DEF Offer, Push, Queue, Empty, IndInv, QueueWellFormed, WellFormed
      <4> QED BY <2>0, <2>1, <3>1, <4>1
              DEF Abstract!Offer, Abstract!Newest, Offer, NewestPushed, Newest, Empty,
                  IndInv, BufferOK, QueueWellFormed, WellFormed
    <3>3. CASE ~(Empty(queue) \/ queue.offset = 0)
      <4>1. /\ queue'.pending = [gen |-> g, size |-> size] /\ queue'.offset = queue.offset
            /\ queue'.current = queue.current /\ queue.offset # 0 /\ peer' = peer
        BY <2>0, <2>1, <3>3 DEF Offer, Push, Queue, Empty
      <4> QED BY <2>0, <2>1, <3>1, <3>3, <4>1
              DEF Abstract!Offer, Abstract!Newest, Offer, NewestPushed, Newest, Empty,
                  IndInv, BufferOK
    <3> QED BY <3>2, <3>3
  <2>2. ASSUME NEW n \in 1..MaxSize, Send(n)
        PROVE  [Abstract!Next]_(Abstract!vars)
    <3>1. n \in Nat \ {0} /\ queue.current.gen # 0
      BY <2>0, <2>2, BoundsAssumption DEF Send, CanConsume, Empty, IndInv, BufferOK
    <3>2. CASE queue.offset + n = queue.current.size
      <4>1. /\ queue'.current = queue.pending /\ queue'.offset = 0
            /\ peer'.last = queue.current.gen
        BY <2>2, <3>2 DEF Send, Consume, Receive
      <4>2. CASE queue.offset = 0
        <5>1. queue.pending.gen = 0
          BY <4>2 DEF IndInv, BufferOK, QueueWellFormed, WellFormed
        <5>2. Abstract!CommitAndDeliver
          BY <3>1, <4>1, <4>2, <5>1 DEF Abstract!CommitAndDeliver
        <5> QED BY <5>2 DEF Abstract!Next
      <4>3. CASE queue.offset # 0
        <5>1. Abstract!Deliver
          BY <3>1, <4>1, <4>3 DEF Abstract!Deliver
        <5> QED BY <5>1 DEF Abstract!Next
      <4> QED BY <4>2, <4>3
    <3>3. CASE queue.offset + n # queue.current.size
      <4>1. /\ queue'.current = queue.current /\ queue'.pending = queue.pending
            /\ queue'.offset = queue.offset + n /\ queue'.offset # 0
            /\ peer'.last = peer.last
        BY <2>0, <2>2, <3>1, <3>3 DEF Send, Consume, Receive, Queue
      <4>2. CASE queue.offset = 0
        <5>1. queue.pending.gen = 0
          BY <4>2 DEF IndInv, BufferOK, QueueWellFormed, WellFormed
        <5>2. Abstract!Commit
          BY <3>1, <4>1, <4>2, <5>1 DEF Abstract!Commit
        <5> QED BY <5>2 DEF Abstract!Next
      <4>3. CASE queue.offset # 0
        BY <4>1, <4>3 DEF Abstract!vars
      <4> QED BY <4>2, <4>3
    <3> QED BY <3>2, <3>3
  <2>3. CASE UNCHANGED vars
    BY <2>3 DEF vars, Abstract!vars
  <2> QED BY <2>1, <2>2, <2>3 DEF Next, Abstract!Next
<1> QED BY <1>1, <1>2, Inductive, PTL DEF Spec, AbstractSpec, Abstract!Spec
============================================================================
