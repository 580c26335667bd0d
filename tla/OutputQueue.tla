---------------------------- MODULE OutputQueue ----------------------------
(***************************************************************************)
(* The latest-wins output queue of a session (output_queue.hpp) as         *)
(* operators over the record [current, pending, offset], and the reader's  *)
(* view of the bytes that leave it (FrameDecoder of protocol.cpp, reduced  *)
(* to what tells frames apart).                                            *)
(*                                                                         *)
(* A buffer is abstracted to the generation it encodes and its size in     *)
(* bytes.  Every buffer the program queues is non-empty (a frame has a     *)
(* 4-byte header, a response has a status line), so the buffer of size 0   *)
(* stands for the null shared_ptr.                                         *)
(***************************************************************************)
EXTENDS Naturals

NoBuffer == [gen |-> 0, size |-> 0]

Buffer == [gen : Nat, size : Nat]

Queue == [current : Buffer, pending : Buffer, offset : Nat]

EmptyQueue == [current |-> NoBuffer, pending |-> NoBuffer, offset |-> 0]

Empty(q) == q.current.size = 0

\* Front().size(): what is left of the frame being sent.
FrontSize(q) == q.current.size - q.offset

Bytes(q) == FrontSize(q) + q.pending.size

\* Mutant: the test of the offset is forgotten.
PushReplacingPartial(q, b) == [q EXCEPT !.current = b]

(***************************************************************************)
(* Push replaces a frame of which no byte has left, and parks the new one  *)
(* behind a frame that is partly sent.  PushDrops is the value it returns. *)
(***************************************************************************)
Push(q, b) ==
    IF Empty(q) \/ q.offset = 0
      THEN [q EXCEPT !.current = b, !.offset = 0]
      ELSE [q EXCEPT !.pending = b]

\* Mutant: a replaced frame that has not started is not counted.
PushDropsPendingOnly(q) == ~Empty(q) /\ q.offset # 0 /\ q.pending.size # 0

PushDrops(q) ==
    /\ ~Empty(q)
    /\ q.offset # 0 => q.pending.size # 0

\* The check at the head of Consume; it throws std::logic_error otherwise.
CanConsume(q, n) == ~Empty(q) /\ n <= FrontSize(q)

\* Mutant: the frame that waits behind a finished one is lost.
ConsumeLosingPending(q, n) ==
    IF q.offset + n = q.current.size THEN EmptyQueue ELSE [q EXCEPT !.offset = @ + n]

Consume(q, n) ==
    IF q.offset + n = q.current.size
      THEN [current |-> q.pending, pending |-> NoBuffer, offset |-> 0]
      ELSE [q EXCEPT !.offset = @ + n]

(***************************************************************************)
(* What the members of the class keep true of each other: a frame waits    *)
(* only behind a partly sent one, and the offset is inside the current one.*)
(***************************************************************************)
WellFormed(q) ==
    /\ q \in Queue
    /\ q.offset = 0 => q.pending.size = 0
    /\ q.offset # 0 => q.offset < q.current.size

\* The newest generation the queue will still deliver, 0 if none.
Newest(q) ==
    IF q.pending.size # 0 THEN q.pending.gen
    ELSE IF q.current.size # 0 THEN q.current.gen ELSE 0

----------------------------------------------------------------------------
(***************************************************************************)
(* The peer of a stream: it has got `got' bytes of frame `gen' (got = 0:   *)
(* between two frames), the last complete frame was `last', and `torn'     *)
(* says that it was handed bytes that do not continue the frame it is in,  *)
(* after which no frame boundary can be found any more.                    *)
(***************************************************************************)
Peer == [gen : Nat, got : Nat, last : Nat, torn : BOOLEAN]

NewPeer == [gen |-> 0, got |-> 0, last |-> 0, torn |-> FALSE]

\* The peer reads n bytes of buffer b from offset o.
Receive(p, b, o, n) ==
    [gen  |-> b.gen,
     got  |-> IF o + n = b.size THEN 0 ELSE o + n,
     last |-> IF o + n = b.size THEN b.gen ELSE p.last,
     torn |-> p.torn \/ p.got # o \/ (p.got # 0 /\ p.gen # b.gen)]
============================================================================
