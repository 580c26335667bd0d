----------------------- MODULE StreamConnectionProofs -----------------------
(***************************************************************************)
(* For every header, payload and buffer size and every timeout: the client *)
(* never loses the frame boundary, no partial frame outlives its deadline, *)
(* and every attempt after a failure waits its pause.                      *)
(***************************************************************************)
EXTENDS StreamConnection, TLAPS

Wire == [frame : [length : Nat, good : BOOLEAN], bytes : Nat, age : Nat]

\* The types this argument needs; the pauses between attempts come at the end.
TypeOK ==
    /\ pc \in {"tick", "poll", "read", "feed", "done", "failed"}
    /\ socket \in {"none", "connecting", "connected"}
    /\ decoder \in Decoder
    /\ wire \in Wire
    /\ in_frame \in BOOLEAN
    /\ unread \in Nat /\ partial \in Nat

\* Between two steps the decoder holds an incomplete frame of a legal length.
DecoderOK ==
    /\ decoder.header < HeaderSize => decoder.payload = 0 /\ decoder.expected = 0
    /\ decoder.header = HeaderSize => decoder.expected \in 1..MaxPayload
                                      /\ decoder.payload < decoder.expected

\* Handle is only inside its loop with a connection, and only feeds what recv gave.
HandleOK ==
    /\ pc \in {"read", "feed"} => socket = "connected"
    /\ pc = "feed" <=> unread # 0

\* frame_started_ is the arrival of the first byte.
DeadlineOK ==
    /\ BytesRead = 0 => wire.age = 0
    /\ in_frame => partial = wire.age

IndInv == TypeOK /\ DecoderOK /\ HandleOK /\ InSync /\ DeadlineOK

\* The constants, one by one.
LEMMA Sizes ==
    /\ HeaderSize \in Nat \ {0} /\ MaxPayload \in Nat \ {0} /\ FrameTimeout \in Nat
    /\ RecvSize \in Nat \ {0} /\ Lengths \subseteq Nat
  BY ClientAssumption

\* The state after a disconnect, or before the first connect.
LEMMA Cleared ==
    ASSUME decoder' = EmptyDecoder, in_frame' = FALSE, wire' = NewWire, socket' = "none",
           partial' = partial, unread' = 0, TypeOK,
           pc' \in {"tick", "poll", "done", "failed"}
    PROVE  IndInv'
<1>1. decoder' \in Decoder /\ decoder'.header = 0 /\ decoder'.payload = 0 /\ decoder'.expected = 0
  BY Sizes DEF EmptyDecoder, Decoder
<1>2. wire' \in Wire /\ wire'.bytes = 0 /\ wire'.age = 0
  BY DEF NewWire, Wire
<1>3. TypeOK'
  BY <1>1, <1>2 DEF TypeOK
<1>4. DecoderOK' /\ HandleOK' /\ DeadlineOK'
  BY <1>1, <1>2, Sizes DEF DecoderOK, HandleOK, DeadlineOK
<1>5. InSync'
  BY <1>1, <1>2, Sizes DEF InSync, Position, BytesRead
<1> QED BY <1>3, <1>4, <1>5 DEF IndInv

\* Disconnect, from Tick or from Handle.
LEMMA DisconnectInv == ASSUME IndInv, Disconnect PROVE IndInv'
  BY Cleared DEF IndInv, TypeOK, Disconnect

\* Feed makes progress, stays in the frame, and holds what it says it consumed: as
\* long as the frame is not complete it ends short of the frame's end, and a complete
\* frame ends exactly there.
LEMMA FeedStep ==
    ASSUME NEW d \in Decoder, NEW n \in Nat \ {0}, NEW len \in Nat,
           d.header < HeaderSize => d.payload = 0 /\ d.expected = 0,
           d.header = HeaderSize => d.expected = len /\ d.payload < d.expected,
           LengthOK(Feed(d, n, len))
    PROVE  LET e == Feed(d, n, len)
               c == Consumed(d, n, len)
           IN  /\ e \in Decoder
               /\ c \in 1..n /\ Position(e) = Position(d) + c
               /\ e.header < HeaderSize => e.payload = 0 /\ e.expected = 0
               /\ e.header = HeaderSize => e.expected = len /\ e.payload <= e.expected
                                           /\ len \in 1..MaxPayload
               /\ ~Complete(e) => Position(e) < HeaderSize + len
               /\ Complete(e) => Position(e) = HeaderSize + len
<1> USE Sizes
<1> DEFINE h == HeaderBytes(d, n)
           p == PayloadBytes(d, n, len)
           e == Feed(d, n, len)
           c == Consumed(d, n, len)
<1>1. d.header \in 0..HeaderSize /\ d.payload \in Nat /\ d.expected \in Nat
  BY DEF Decoder
<1>2. h \in Nat /\ h <= n /\ d.header + h <= HeaderSize /\ (d.header < HeaderSize => h > 0)
  BY <1>1 DEF HeaderBytes, Least
<1>3. e = [header   |-> d.header + h,
           expected |-> IF d.header + h < HeaderSize THEN d.expected ELSE len,
           payload  |-> d.payload + p]
  BY DEF Feed
<1>4. c = h + p
  BY DEF Consumed
<1>5. CASE d.header + h < HeaderSize
  <2>1. p = 0
    BY <1>5 DEF PayloadBytes
  <2>2. d.header < HeaderSize
    BY <1>1, <1>2, <1>5
  <2> HIDE DEF h, p, c, e
  <2>3. e \in Decoder /\ e.header = d.header + h /\ e.payload = 0 /\ e.expected = 0
    BY <1>1, <1>2, <1>3, <1>5, <2>1, <2>2 DEF Decoder
  <2>4. ~Complete(e)
    BY <2>3 DEF Complete
  <2> QED BY <1>1, <1>2, <1>4, <1>5, <2>1, <2>2, <2>3, <2>4 DEF Position, h, p, c, e
<1>6. CASE ~(d.header + h < HeaderSize)
  <2>1. d.header + h = HeaderSize
    BY <1>1, <1>2, <1>6
  <2>2. p = Least(n - h, len - d.payload)
    BY <1>6 DEF PayloadBytes
  <2>3. e.header = HeaderSize /\ e.expected = len
    BY <1>3, <1>6, <2>1
  <2>4. len \in 1..MaxPayload
    BY <2>3 DEF LengthOK
  <2>5. d.payload < len
    BY <1>1, <2>4
  <2> HIDE DEF h, p, c, e
  <2>6. p \in Nat /\ p <= n - h /\ p <= len - d.payload /\ (n - h > 0 => p > 0)
    BY <1>1, <1>2, <2>2, <2>4, <2>5 DEF Least
  <2>7. e \in Decoder /\ e.payload = d.payload + p
    BY <1>1, <1>3, <1>6, <2>1, <2>6 DEF Decoder
  <2>8. c \in 1..n /\ Position(e) = Position(d) + c
    BY <1>1, <1>2, <1>4, <2>1, <2>3, <2>6, <2>7 DEF Position
  <2>9. Complete(e) <=> e.payload = len
    BY <2>3, <2>4 DEF Complete
  <2>10. e.payload <= len /\ Position(e) = HeaderSize + e.payload
    BY <1>1, <2>3, <2>6, <2>7 DEF Position
  <2> QED BY <1>1, <2>3, <2>4, <2>6, <2>7, <2>8, <2>9, <2>10 DEF h, p, c, e
<1> QED BY <1>5, <1>6

\* The program starts in sync.
LEMMA InitInv == Init => IndInv
<1> SUFFICES ASSUME Init PROVE IndInv
  OBVIOUS
<1>1. decoder \in Decoder /\ decoder.header = 0 /\ decoder.payload = 0 /\ decoder.expected = 0
  BY Sizes DEF Init, EmptyDecoder, Decoder
<1>2. wire \in Wire /\ wire.bytes = 0 /\ wire.age = 0
  BY DEF Init, NewWire, Wire
<1>3. TypeOK
  BY <1>1, <1>2 DEF Init, TypeOK
<1>4. DecoderOK /\ HandleOK /\ DeadlineOK
  BY <1>1, <1>2, Sizes DEF Init, DecoderOK, HandleOK, DeadlineOK
<1>5. InSync
  BY <1>1, <1>2, Sizes DEF Init, InSync, Position, BytesRead
<1> QED BY <1>3, <1>4, <1>5 DEF IndInv

\* The steps that leave the decoder and the stream alone.
LEMMA QuietInv ==
    ASSUME IndInv,
           \/ TickWaits \/ PollNothing \/ HandleReadable
           \/ \E more \in BOOLEAN : HandleConnected(more)
           \/ ReadWouldBlock \/ ReadInterrupted
           \/ \E r \in {"connecting", "connected"} : TickConnects(r)
           \/ OnSignal \/ UNCHANGED vars
    PROVE  IndInv'
<1>0. decoder' = decoder /\ wire' = wire /\ unread' = unread /\ in_frame' = in_frame
      /\ partial' = partial
  BY DEF TickWaits, PollNothing, HandleReadable, HandleConnected, ReadWouldBlock,
         ReadInterrupted, TickConnects, OnSignal, vars, conn, history
<1>1. /\ pc' \in {"tick", "poll", "read", "feed", "done", "failed"}
      /\ socket' \in {"none", "connecting", "connected"}
      /\ HandleOK' /\ (socket' # "connected" => socket # "connected" \/ wire.bytes = 0)
  BY Sizes DEF IndInv, TypeOK, HandleOK, TickWaits, PollNothing, HandleReadable, HandleConnected,
         ReadWouldBlock, ReadInterrupted, TickConnects, OnSignal, NextRead, vars, conn, history
<1>2. TypeOK'
  BY <1>0, <1>1 DEF IndInv, TypeOK
<1>3. DecoderOK' /\ DeadlineOK'
  BY <1>0 DEF IndInv, DecoderOK, DeadlineOK, BytesRead
<1>4. InSync'
  BY <1>0, <1>1 DEF IndInv, InSync, Position, BytesRead
<1> QED BY <1>1, <1>2, <1>3, <1>4 DEF IndInv

\* recv puts bytes into the buffer, none of which the client has read yet.
LEMMA ReadInv == ASSUME IndInv, NEW n \in 1..RecvSize, ReadBytes(n) PROVE IndInv'
<1>1. /\ pc = "read" /\ unread = 0 /\ pc' = "feed" /\ unread' = n /\ n \in Nat \ {0}
      /\ wire' = [wire EXCEPT !.bytes = @ + n] /\ decoder' = decoder
      /\ in_frame' = in_frame /\ partial' = partial /\ socket' = socket /\ socket = "connected"
  BY Sizes DEF ReadBytes, conn, IndInv, TypeOK, HandleOK
<1>2. /\ wire' \in Wire /\ wire'.bytes = wire.bytes + n
      /\ wire'.age = wire.age /\ wire'.frame = wire.frame /\ wire.bytes \in Nat
  BY <1>1 DEF IndInv, TypeOK, Wire
<1>3. BytesRead' = BytesRead
  BY <1>1, <1>2 DEF BytesRead
<1>4. TypeOK' /\ HandleOK'
  BY <1>1, <1>2 DEF IndInv, TypeOK, HandleOK
<1>5. DecoderOK' /\ DeadlineOK' /\ InSync'
  BY <1>1, <1>2, <1>3 DEF IndInv, DecoderOK, DeadlineOK, InSync, Position
<1> QED BY <1>4, <1>5 DEF IndInv

\* The steps that disconnect.
LEMMA EndInv ==
    ASSUME IndInv,
           \/ TickExpires \/ HandleRefused \/ ReadEnds \/ TickConnects("none")
           \/ \E f \in Frame : FeedRejected(f)
           \/ Fail \/ Exit
    PROVE  IndInv'
<1>1. CASE Fail
  BY <1>1, Cleared DEF IndInv, Fail
<1>2. CASE Exit
  BY <1>2, Cleared DEF IndInv, HandleOK, Exit
<1>3. CASE \/ TickExpires \/ HandleRefused \/ ReadEnds \/ TickConnects("none")
           \/ \E f \in Frame : FeedRejected(f)
  BY <1>3, DisconnectInv DEF TickExpires, HandleRefused, ReadEnds, TickConnects, FeedRejected
<1> QED BY <1>1, <1>2, <1>3

\* What a turn of the inner loop of Handle finds, and what Feed makes of it.
LEMMA FeedTurn ==
    ASSUME IndInv, NEW f \in Frame, Arrives(f), Fed(f),
           LengthOK(Feed(decoder, unread, f.length))
    PROVE  LET d == Feed(decoder, unread, f.length) IN
           /\ f.length \in Nat /\ socket = "connected" /\ d \in Decoder
           /\ Position(d) \in Nat \ {0}
           /\ d.header < HeaderSize => d.payload = 0 /\ d.expected = 0
           /\ d.header = HeaderSize => d.expected = f.length /\ d.payload <= d.expected
                                       /\ f.length \in 1..MaxPayload
           /\ ~Complete(d) => Position(d) < HeaderSize + f.length
           /\ Complete(d) => Position(d) = HeaderSize + f.length
           /\ unread' \in Nat /\ wire.bytes - unread' = Position(d)
           /\ wire' = Passed(f, unread')
           /\ pc' \in {"tick", "read", "feed"} /\ (pc' = "feed" <=> unread' # 0)
<1> DEFINE d == Feed(decoder, unread, f.length)
           c == Consumed(decoder, unread, f.length)
<1>0. f.length \in Nat
  BY Sizes DEF Frame
<1>1. /\ pc = "feed" /\ (BytesRead # 0 => f = wire.frame)
      /\ unread' = unread - c /\ wire' = Passed(f, unread - c)
      /\ IF unread - c > 0 THEN pc' = pc ELSE NextRead
  BY DEF Arrives, Fed
<1>2. /\ decoder \in Decoder /\ unread \in Nat \ {0} /\ socket = "connected"
      /\ decoder.header < HeaderSize => decoder.payload = 0 /\ decoder.expected = 0
      /\ decoder.header = HeaderSize => decoder.expected = f.length /\ decoder.payload < decoder.expected
  <2>1. decoder.header = HeaderSize => BytesRead # 0
    BY Sizes DEF IndInv, TypeOK, Decoder, InSync, Position
  <2> QED BY <1>1, <2>1 DEF IndInv, TypeOK, HandleOK, DecoderOK, InSync
<1>3. /\ d \in Decoder
      /\ c \in 1..unread /\ Position(d) = Position(decoder) + c
      /\ d.header < HeaderSize => d.payload = 0 /\ d.expected = 0
      /\ d.header = HeaderSize => d.expected = f.length /\ d.payload <= d.expected
                                  /\ f.length \in 1..MaxPayload
      /\ ~Complete(d) => Position(d) < HeaderSize + f.length
      /\ Complete(d) => Position(d) = HeaderSize + f.length
  BY <1>0, <1>2, FeedStep
<1> HIDE DEF d, c
<1>4. Position(decoder) \in Nat /\ Position(decoder) = wire.bytes - unread /\ wire.bytes \in Nat
  BY <1>2, Sizes DEF Position, Decoder, IndInv, TypeOK, InSync, BytesRead, Wire
<1>5. unread' \in Nat /\ wire.bytes - unread' = Position(d) /\ Position(d) \in Nat \ {0}
  BY <1>1, <1>2, <1>3, <1>4
<1>6. wire' = Passed(f, unread')
  BY <1>1
<1>7. pc' \in {"tick", "read", "feed"} /\ (pc' = "feed" <=> unread' # 0)
  BY <1>1, <1>5 DEF NextRead
<1> QED BY <1>0, <1>2, <1>3, <1>5, <1>6, <1>7 DEF d

\* While the frame is incomplete the decoder stays inside the server's frame.
LEMMA FeedPartInv == ASSUME IndInv, NEW f \in Frame, FeedPart(f) PROVE IndInv'
<1> DEFINE d == Feed(decoder, unread, f.length)
<1>1. /\ Arrives(f) /\ Fed(f) /\ LengthOK(d) /\ ~Complete(d) /\ decoder' = d
      /\ in_frame' = TRUE /\ partial' = (IF in_frame THEN partial ELSE 0) /\ socket' = socket
  BY DEF FeedPart
<1>2. /\ f.length \in Nat /\ socket = "connected" /\ d \in Decoder /\ Position(d) \in Nat \ {0}
      /\ d.header < HeaderSize => d.payload = 0 /\ d.expected = 0
      /\ d.header = HeaderSize => d.expected = f.length /\ d.payload <= d.expected
                                  /\ f.length \in 1..MaxPayload
      /\ Position(d) < HeaderSize + f.length
      /\ unread' \in Nat /\ wire.bytes - unread' = Position(d) /\ wire' = Passed(f, unread')
      /\ pc' \in {"tick", "read", "feed"} /\ (pc' = "feed" <=> unread' # 0)
  BY <1>1, FeedTurn
<1> HIDE DEF d
<1>3. wire' = [wire EXCEPT !.frame = f]
  BY <1>2, Zenon DEF Passed
<1>4. f \in [length : Nat, good : BOOLEAN]
  BY Sizes DEF Frame
<1>5. wire' \in Wire /\ wire'.bytes = wire.bytes /\ wire'.age = wire.age /\ wire'.frame = f
  BY <1>3, <1>4 DEF IndInv, TypeOK, Wire
<1>6. BytesRead' = Position(d)
  BY <1>2, <1>5 DEF BytesRead
<1>7. partial' \in Nat /\ partial' = wire.age
  <2>1. CASE in_frame
    BY <1>1, <2>1 DEF IndInv, TypeOK, DeadlineOK
  <2>2. CASE ~in_frame
    BY <1>1, <2>2 DEF IndInv, InSync, DeadlineOK
  <2> QED BY <2>1, <2>2
<1>8. TypeOK' /\ HandleOK'
  BY <1>1, <1>2, <1>5, <1>7 DEF IndInv, TypeOK, HandleOK
<1>9. DecoderOK'
  <2>1. d.header = HeaderSize => d.payload < d.expected
    BY <1>1, <1>2, Sizes DEF Complete, Decoder
  <2> QED BY <1>1, <1>2, <2>1 DEF DecoderOK
<1>10. InSync'
  BY <1>1, <1>2, <1>5, <1>6 DEF InSync, Position
<1>11. DeadlineOK'
  BY <1>2, <1>5, <1>6, <1>7 DEF DeadlineOK
<1> QED BY <1>8, <1>9, <1>10, <1>11 DEF IndInv

\* A frame is complete where the server's frame ends: both are at the start of the
\* next one, whose bytes may be in the buffer already.
LEMMA FeedFrameInv == ASSUME IndInv, NEW f \in Frame, FeedFrame(f) PROVE IndInv'
<1> DEFINE d == Feed(decoder, unread, f.length)
<1>1. /\ Arrives(f) /\ Fed(f) /\ LengthOK(d) /\ Complete(d) /\ decoder' = EmptyDecoder
      /\ in_frame' = FALSE /\ partial' = partial /\ socket' = socket
  BY DEF FeedFrame
<1>2. /\ f.length \in Nat /\ socket = "connected" /\ Position(d) = HeaderSize + f.length
      /\ unread' \in Nat /\ wire.bytes - unread' = Position(d) /\ wire' = Passed(f, unread')
      /\ pc' \in {"tick", "read", "feed"} /\ (pc' = "feed" <=> unread' # 0)
  BY <1>1, FeedTurn
<1> HIDE DEF d
<1> DEFINE end == HeaderSize + f.length
<1>3. end \in Nat /\ wire.bytes \in Nat /\ wire.bytes - unread' = end
  BY <1>2, Sizes DEF IndInv, TypeOK, Wire
<1>4. wire.bytes - end = unread' /\ ~(wire.bytes - unread' < end)
  BY <1>2, <1>3
<1>5. wire' = [NewWire EXCEPT !.bytes = unread']
  BY <1>2, <1>4, Zenon DEF Passed
<1>6. wire' \in Wire /\ wire'.bytes = unread' /\ wire'.age = 0
  <2>1. NewWire \in Wire /\ NewWire.age = 0
    BY DEF NewWire, Wire
  <2> QED BY <1>2, <1>5, <2>1 DEF Wire
<1>7. BytesRead' = 0
  <2>1. \A n \in Nat : n - n = 0
    OBVIOUS
  <2>2. wire'.bytes - unread' = 0
    BY <1>2, <1>6, <2>1, Zenon
  <2> QED BY <2>2 DEF BytesRead
<1>8. decoder' \in Decoder /\ decoder'.header = 0 /\ decoder'.payload = 0 /\ decoder'.expected = 0
  BY <1>1, Sizes DEF EmptyDecoder, Decoder
<1>9. TypeOK' /\ HandleOK'
  BY <1>1, <1>2, <1>6, <1>8 DEF IndInv, TypeOK, HandleOK
<1>10. DecoderOK' /\ DeadlineOK' /\ InSync'
  BY <1>1, <1>2, <1>6, <1>7, <1>8, Sizes DEF DecoderOK, DeadlineOK, InSync, Position
<1> QED BY <1>9, <1>10 DEF IndInv

\* The clock of the frame and its deadline advance together.
LEMMA TimeInv == ASSUME IndInv, Time PROVE IndInv'
<1>1. /\ decoder' = decoder /\ in_frame' = in_frame /\ pc' = pc /\ socket' = socket /\ unread' = unread
      /\ partial' = IF ~in_frame \/ partial > FrameTimeout THEN partial ELSE partial + 1
      /\ wire' = [wire EXCEPT !.age = IF BytesRead = 0 \/ @ > FrameTimeout THEN @ ELSE @ + 1]
  BY DEF Time
<1>2. wire' \in Wire /\ wire'.bytes = wire.bytes /\ wire'.frame = wire.frame
      /\ wire'.age = IF BytesRead = 0 \/ wire.age > FrameTimeout THEN wire.age ELSE wire.age + 1
  BY <1>1, Sizes DEF IndInv, TypeOK, Wire
<1>3. BytesRead' = BytesRead
  BY <1>1, <1>2 DEF BytesRead
<1>4. TypeOK' /\ HandleOK' /\ DecoderOK'
  BY <1>1, <1>2, Sizes DEF IndInv, TypeOK, HandleOK, DecoderOK
<1>5. InSync'
  BY <1>1, <1>2, <1>3 DEF IndInv, InSync, Position
<1>6. DeadlineOK'
  BY <1>1, <1>2, <1>3, Sizes DEF IndInv, TypeOK, InSync, DeadlineOK
<1> QED BY <1>4, <1>5, <1>6 DEF IndInv

\* Every step of the client keeps the invariant.
LEMMA NextInv == IndInv /\ [Next]_vars => IndInv'
<1> SUFFICES ASSUME IndInv, [Next]_vars PROVE IndInv'
  OBVIOUS
<1>1. CASE \E r \in {"none", "connecting", "connected"} : TickConnects(r)
  BY <1>1, QuietInv, EndInv
<1>2. CASE \E f \in Frame : FeedPart(f) \/ FeedFrame(f) \/ FeedRejected(f)
  BY <1>2, FeedPartInv, FeedFrameInv, EndInv
<1>3. CASE Time
  BY <1>3, TimeInv
<1>4. CASE \E n \in 1..RecvSize : ReadBytes(n)
  BY <1>4, ReadInv
<1> QED BY <1>1, <1>2, <1>3, <1>4, QuietInv, EndInv DEF Next, Thread

\* The inductive invariant holds in every reachable state of the client.
THEOREM Inductive == Spec => []IndInv
  BY InitInv, NextInv, PTL DEF Spec

\* The client never loses the frame boundary of the stream, whatever the sizes of
\* frames and reads and whenever it disconnects: what recv delivered, less what is
\* still in the buffer, is what the decoder holds of the frame the server is in.
THEOREM BoundaryKept == Spec => []InSync
  BY Inductive, PTL DEF IndInv

\* No partial frame passes Tick after its deadline, however its bytes arrive.
THEOREM FrameDeadlineHeld == Spec => FrameDeadline
<1>1. IndInv /\ [Next]_vars => [pc = "tick" /\ pc' = "poll" => wire'.age <= FrameTimeout]_vars
  <2> SUFFICES ASSUME IndInv, Next, pc = "tick", pc' = "poll" PROVE wire'.age <= FrameTimeout
    OBVIOUS
  <2>1. CASE TickExpires \/ TickConnects("none")
    BY <2>1, Sizes DEF TickExpires, TickConnects, Disconnect, NewWire
  <2>0. socket = "none" => wire.age = 0
    BY DEF IndInv, HandleOK, InSync, DeadlineOK, BytesRead
  <2>2. CASE \E r \in {"connecting", "connected"} : TickConnects(r)
    BY <2>0, <2>2, Sizes DEF TickConnects, history
  <2>3. CASE TickWaits
    <3>1. wire' = wire /\ (in_frame => partial <= FrameTimeout \/ socket = "none")
      BY <2>3, Sizes DEF IndInv, TypeOK, TickWaits, Overdue, history
    <3> QED BY <2>0, <3>1, Sizes DEF IndInv, InSync, DeadlineOK
  <2> QED BY <2>1, <2>2, <2>3
      DEF Next, Thread, PollNothing, HandleRefused, HandleReadable, HandleConnected, ReadEnds,
          ReadWouldBlock, ReadInterrupted, ReadBytes, FeedPart, FeedFrame, FeedRejected, Arrives,
          Exit, Fail, OnSignal, Time
<1> QED BY <1>1, Inductive, PTL DEF Spec, FrameDeadline

----------------------------------------------------------------------------
(***************************************************************************)
(* The pause between attempts.                                             *)
(***************************************************************************)

\* While the client waits for its next attempt, the time it has waited and the
\* time it still waits make up half of the pause of its last failure.
PauseOK ==
    /\ attempts \in 0..MaxAttempts /\ failures = attempts
    /\ retry \in Int /\ waited \in Nat
    /\ Running /\ socket = "none" /\ failures # 0 =>
          waited > BackoffLimit \/ waited + retry >= BackoffCap(failures - 1) \div 2

LEMMA Pauses ==
    /\ BackoffUnit \in Nat \ {0} /\ BackoffLimit \in Nat \ {0}
    /\ MaxShift \in Nat /\ MaxAttempts \in Nat /\ MaxShift < MaxAttempts
  BY ClientAssumption

\* No pause is longer than the limit.
LEMMA CapType ==
    ASSUME NEW n \in Nat PROVE BackoffCap(n) \in Int /\ BackoffCap(n) <= BackoffLimit
<1> DEFINE k == Least(n, MaxShift)
<1>1. k \in Nat
  BY Pauses DEF Least
<1> HIDE DEF k
<1> DEFINE p == 2^k
<1>2. p \in Int
  BY <1>1
<1> HIDE DEF p
<1> DEFINE c == BackoffUnit * p
<1>3. c \in Int
  BY <1>2, Pauses
<1> HIDE DEF c
<1>4. BackoffCap(n) = Least(BackoffLimit, c)
  BY DEF BackoffCap, c, p, k
<1> QED BY <1>3, <1>4, Pauses DEF Least

LEMMA InRange ==
    ASSUME NEW a \in Int, NEW b \in Int, NEW x \in a..b PROVE x \in Int /\ 0 + x >= a
  OBVIOUS

\* From the limit of the shift on, the pause no longer grows: that attempts_ stops
\* counting at MaxAttempts makes no pause shorter.
LEMMA CapSaturates == BackoffCap(MaxAttempts) = BackoffCap(MaxAttempts - 1)
<1>1. Least(MaxAttempts, MaxShift) = MaxShift /\ Least(MaxAttempts - 1, MaxShift) = MaxShift
  BY Pauses DEF Least
<1> QED BY <1>1, Zenon DEF BackoffCap

\* Disconnect begins a pause that is long enough.
LEMMA DisconnectPause == ASSUME PauseOK, Disconnect PROVE PauseOK'
<1> DEFINE c == BackoffCap(attempts)
<1>1. c \in Int
  BY CapType DEF PauseOK
<1>2. /\ retry' \in (c \div 2)..c /\ attempts' = Least(attempts + 1, MaxAttempts)
      /\ failures' = Least(failures + 1, MaxAttempts) /\ waited' = 0
  BY DEF Disconnect
<1>3. c = BackoffCap(failures' - 1)
  <2>1. CASE attempts < MaxAttempts
    <3>1. failures' - 1 = attempts
      BY <1>2, <2>1, Pauses DEF PauseOK, Least
    <3> QED BY <3>1, Zenon
  <2>2. CASE attempts = MaxAttempts
    <3>1. failures' = MaxAttempts
      BY <1>2, <2>2, Pauses DEF PauseOK, Least
    <3> QED BY <2>2, <3>1, CapSaturates, Zenon
  <2> QED BY <2>1, <2>2, Pauses DEF PauseOK
<1> HIDE DEF c
<1>4. retry' \in Int /\ 0 + retry' >= c \div 2
  <2> DEFINE h == c \div 2
  <2>1. h \in Int
    BY <1>1
  <2>2. retry' \in h..c
    BY <1>2
  <2> HIDE DEF h
  <2>3. retry' \in Int /\ 0 + retry' >= h
    BY <1>1, <2>1, <2>2, InRange
  <2> QED BY <2>3 DEF h
<1>5. attempts' \in 0..MaxAttempts /\ failures' = attempts'
  BY <1>2, Pauses DEF PauseOK, Least
<1> QED BY <1>2, <1>3, <1>4, <1>5 DEF PauseOK

\* Time moves from what is still to wait to what was waited.
LEMMA TimePause == ASSUME PauseOK, Time PROVE PauseOK'
<1> DEFINE c == BackoffCap(failures - 1)
<1>1. /\ attempts' = attempts /\ failures' = failures /\ socket' = socket /\ pc' = pc
      /\ retry' = IF retry = 0 THEN 0 ELSE retry - 1
      /\ waited' = IF waited > BackoffLimit THEN waited ELSE waited + 1
  BY DEF Time
<1>2. failures # 0 => c \in Int
  BY CapType, Pauses DEF PauseOK
<1>3. BackoffCap(failures' - 1) = c /\ (Running' <=> Running)
  BY <1>1, Zenon DEF Running
<1> HIDE DEF c
<1>4. retry' \in Int /\ waited' \in Nat
  BY <1>1, Pauses DEF PauseOK
<1>5. ASSUME Running, socket = "none", failures # 0
      PROVE  waited' > BackoffLimit \/ waited' + retry' >= c \div 2
  <2>1. waited > BackoffLimit \/ waited + retry >= c \div 2
    BY <1>5 DEF PauseOK, c
  <2> DEFINE h == c \div 2
  <2>2. h \in Int
    BY <1>2, <1>5
  <2> HIDE DEF h
  <2>3. waited > BackoffLimit \/ waited + retry >= h
    BY <2>1 DEF h
  <2>4. waited' > BackoffLimit \/ waited' + retry' >= h
    BY <1>1, <2>2, <2>3, Pauses DEF PauseOK
  <2> QED BY <2>4 DEF h
<1> QED BY <1>1, <1>3, <1>4, <1>5, Zenon DEF PauseOK

\* The steps that neither disconnect nor let time pass.
LEMMA QuietPause ==
    ASSUME IndInv, PauseOK,
           \/ TickWaits \/ PollNothing \/ HandleReadable
           \/ \E more \in BOOLEAN : HandleConnected(more)
           \/ ReadWouldBlock \/ ReadInterrupted
           \/ \E n \in 1..RecvSize : ReadBytes(n)
           \/ \E r \in {"connecting", "connected"} : TickConnects(r)
           \/ \E f \in Frame : FeedPart(f)
           \/ Fail \/ Exit \/ OnSignal \/ UNCHANGED vars
    PROVE  PauseOK'
<1>1. /\ attempts' = attempts /\ failures' = failures /\ retry' = retry /\ waited' = waited
      /\ Running' /\ socket' = "none" => Running /\ socket = "none"
  BY DEF Running, TickWaits, PollNothing, HandleReadable, HandleConnected, ReadWouldBlock,
         ReadInterrupted, ReadBytes, TickConnects, FeedPart, Arrives, Fail, Exit, OnSignal, vars,
         conn, history
<1> QED BY <1>1, Zenon DEF PauseOK

\* After a complete frame the next pause is the shortest again.
LEMMA FramePause == ASSUME PauseOK, NEW f \in Frame, FeedFrame(f) PROVE PauseOK'
<1>1. attempts' = 0 /\ failures' = 0 /\ retry' = retry /\ waited' = waited
  BY DEF FeedFrame
<1> QED BY <1>1, Pauses DEF PauseOK

\* Every step of the client keeps the pause.
LEMMA NextPause == IndInv /\ PauseOK /\ [Next]_vars => PauseOK'
<1> SUFFICES ASSUME IndInv, PauseOK, [Next]_vars PROVE PauseOK'
  OBVIOUS
<1>1. CASE \/ TickExpires \/ HandleRefused \/ ReadEnds \/ TickConnects("none")
           \/ \E f \in Frame : FeedRejected(f)
  BY <1>1, DisconnectPause
     DEF TickExpires, HandleRefused, ReadEnds, TickConnects, FeedRejected
<1>2. CASE \E r \in {"none", "connecting", "connected"} : TickConnects(r)
  BY <1>1, <1>2, QuietPause
<1>3. CASE \E f \in Frame : FeedPart(f) \/ FeedFrame(f) \/ FeedRejected(f)
  BY <1>1, <1>3, QuietPause, FramePause
<1>4. CASE Time
  BY <1>4, TimePause
<1> QED BY <1>1, <1>2, <1>3, <1>4, QuietPause DEF Next, Thread

\* The client's count of failures is the number of disconnects since the last
\* frame, and the pause it is in is at least half of the one that count calls for.
THEOREM PauseHolds == Spec => []PauseOK
<1>1. Init => PauseOK
  BY Pauses DEF Init, PauseOK
<1> QED BY <1>1, NextPause, Inductive, PTL DEF Spec

\* Without a complete frame in between, every attempt comes at least half of a
\* doubling pause after the last failure, whatever the unit, the limit and the
\* largest shift, and also once attempts_ has stopped counting.
THEOREM BackoffIsHeld == Spec => BackoffHeld
<1>1. IndInv /\ PauseOK /\ [Next]_vars =>
        [socket = "none" /\ socket' # "none" /\ failures # 0 =>
            waited >= BackoffCap(failures - 1) \div 2]_vars
  <2> SUFFICES ASSUME PauseOK, IndInv, Next, socket = "none", socket' # "none", failures # 0
               PROVE  waited >= BackoffCap(failures - 1) \div 2
    OBVIOUS
  <2>1. \E r \in {"connecting", "connected"} : TickConnects(r)
    BY DEF IndInv, HandleOK, Next, Thread, TickExpires, TickWaits, TickConnects, PollNothing,
           HandleRefused, HandleReadable, HandleConnected, ReadEnds, ReadWouldBlock,
           ReadInterrupted, ReadBytes, FeedPart, FeedFrame, FeedRejected, Arrives, Disconnect,
           Exit, Fail, OnSignal, Time, conn
  <2>2. retry = 0 /\ Running
    BY <2>1 DEF TickConnects, Running
  <2> DEFINE c == BackoffCap(failures - 1)
  <2>3. c \in Int /\ c <= BackoffLimit
    BY CapType, Pauses DEF PauseOK
  <2>4. waited > BackoffLimit \/ waited + retry >= c \div 2
    BY <2>2 DEF PauseOK
  <2>5. waited \in Nat
    BY DEF PauseOK
  <2> HIDE DEF c
  <2>6. waited >= c \div 2
    BY <2>2, <2>3, <2>4, <2>5, Pauses
  <2> QED BY <2>6 DEF c
<1> QED BY <1>1, Inductive, PauseHolds, PTL DEF Spec, BackoffHeld
============================================================================
