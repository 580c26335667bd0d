--------------------------- MODULE StreamSession ---------------------------
(***************************************************************************)
(* One stream session: the output queue between the generations the        *)
(* reactor enqueues (Reactor::Enqueue) and the bytes the socket takes      *)
(* (Reactor::Write).  The socket takes any part of what it is offered, so  *)
(* a newer generation can arrive at every offset of an older frame.        *)
(***************************************************************************)
EXTENDS OutputQueue

CONSTANTS MaxGen,     \* bound: generations published during the session
          MaxSize,    \* bound: size of a frame, in bytes
          MaxPushes   \* bound: calls of Push

ASSUME BoundsAssumption == MaxGen \in Nat /\ MaxSize \in Nat /\ MaxPushes \in Nat

VARIABLES queue,      \* Session::output
          peer,       \* the reader at the other end (external)
          enqueued,   \* number of buffers given to Push
          dropped,    \* Reactor::dropped_ for this session
          received    \* number of complete frames the reader has

vars == <<queue, peer, enqueued, dropped, received>>

TypeOK ==
    /\ queue \in Queue
    /\ peer \in Peer
    /\ enqueued \in Nat /\ dropped \in Nat /\ received \in Nat

Init ==
    /\ queue = EmptyQueue
    /\ peer = NewPeer
    /\ enqueued = 0 /\ dropped = 0 /\ received = 0

\* The newest generation pushed so far; the reactor never pushes an older one.
NewestPushed == IF Empty(queue) THEN peer.last ELSE Newest(queue)

(***************************************************************************)
(* A generation is pushed.  It may be the newest one once more: a client   *)
(* accepted between Publish and Broadcast is given the same generation     *)
(* twice (Accept, then Broadcast).  The rollback of a push that exceeds    *)
(* the budget is not a step of a session that lives on: the reactor closes *)
(* it (Reactor models both).                                               *)
(***************************************************************************)
Offer(g, size) ==
    /\ enqueued < MaxPushes
    /\ g >= NewestPushed
    /\ queue' = Push(queue, [gen |-> g, size |-> size])
    /\ enqueued' = enqueued + 1
    /\ dropped' = IF PushDrops(queue) THEN dropped + 1 ELSE dropped
    /\ UNCHANGED <<peer, received>>

\* One turn of the loop in Reactor::Write in which send() took n bytes.
Send(n) ==
    /\ CanConsume(queue, n)
    /\ peer' = Receive(peer, queue.current, queue.offset, n)
    /\ received' = IF queue.offset + n = queue.current.size
                     THEN received + 1 ELSE received
    /\ queue' = Consume(queue, n)
    /\ UNCHANGED <<enqueued, dropped>>

Next ==
    \/ \E g \in 1..MaxGen, size \in 1..MaxSize : Offer(g, size)
    \/ \E n \in 1..MaxSize : Send(n)

Spec == Init /\ [][Next]_vars

----------------------------------------------------------------------------
(***************************************************************************)
(* Properties.                                                             *)
(***************************************************************************)

\* The class invariant of OutputQueue: Push and Consume never leave a frame
\* waiting behind one that has not started, nor an offset outside the frame.
QueueWellFormed == WellFormed(queue)

\* Frame integrity: whatever is pushed while a frame is partly sent, the bytes
\* that leave the queue never mix two frames (output_queue.hpp: "A partially
\* sent frame is never replaced").
FrameIntegrity ==
    /\ ~peer.torn
    /\ peer.got = queue.offset
    /\ peer.got # 0 => peer.gen = queue.current.gen

Waiting == (IF queue.current.size = 0 THEN 0 ELSE 1) + (IF queue.pending.size = 0 THEN 0 ELSE 1)

\* Conservation: every buffer given to Push is received whole, still queued, or
\* counted by dropped_ (the superseded counter) exactly once.
NothingLostUncounted == enqueued = received + dropped + Waiting

\* The generations in the queue are ordered: the reader's last frame, then the
\* one being sent, then the one waiting.
Ordered ==
    /\ queue.current.size # 0 => peer.last <= queue.current.gen
    /\ queue.pending.size # 0 => queue.current.gen <= queue.pending.gen

\* A reader never sees an older generation after a newer one.
MonotoneDelivery == [][peer'.last >= peer.last]_vars

----------------------------------------------------------------------------
(***************************************************************************)
(* The queue implements latest-wins delivery.                              *)
(***************************************************************************)
Abstract == INSTANCE LatestWins WITH
    Gen       <- 1..MaxGen,
    offered   <- IF queue.offset = 0 THEN queue.current.gen ELSE queue.pending.gen,
    sending   <- IF queue.offset = 0 THEN 0 ELSE queue.current.gen,
    delivered <- peer.last

\* Every behaviour of the byte-level queue is a behaviour of LatestWins: the
\* replaceable generation is the frame not started (current at offset 0, or
\* pending), the committed one is the frame partly sent.
AbstractSpec == Abstract!Spec
============================================================================
