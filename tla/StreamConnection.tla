-------------------------- MODULE StreamConnection --------------------------
(***************************************************************************)
(* The client's side of the stream (client/src/net/stream_connection.cpp)  *)
(* in the poll loop of ClientApp::Run: Tick, poll, Handle, and back.       *)
(*                                                                         *)
(* The server (external) is a sequence of frames cut anywhere by recv; a   *)
(* frame is its payload length and whether the payload decodes.  Time      *)
(* points are kept as the ticks since, or until, them.  The texts of the   *)
(* status line and the counters the screen shows are left out.             *)
(***************************************************************************)
EXTENDS Integers

CONSTANTS
    HeaderSize,      \* 4, the length field of a frame
    MaxPayload,      \* kMaxPayload
    Lengths,         \* payload lengths a server may announce
    RecvSize,        \* 16384, the buffer of one recv
    Reads,           \* 16, recv calls in one Handle
    ConnectTimeout,  \* 3 s, in ticks
    FrameTimeout,    \* 10 s
    IdleTimeout,     \* 180 s
    BackoffUnit,     \* 250 ms
    BackoffLimit,    \* 10 s
    MaxShift,        \* 5
    MaxAttempts,     \* 16
    Addresses        \* number of addresses Resolve found

ASSUME ClientAssumption ==
    /\ {HeaderSize, MaxPayload, RecvSize, Reads, BackoffUnit, BackoffLimit, Addresses}
          \subseteq Nat \ {0}
    /\ {ConnectTimeout, FrameTimeout, IdleTimeout, MaxShift, MaxAttempts} \subseteq Nat
    /\ Lengths \subseteq Nat
    /\ MaxShift < MaxAttempts

VARIABLES
    pc,         \* where the poll loop is
    reads,      \* recv calls left in this Handle
    unread,     \* bytes of the buffer not yet fed to the decoder
    socket,     \* socket_ and connected_: "none", "connecting", "connected"
    decoder,    \* decoder_
    in_frame,   \* in_frame_
    retry,      \* ticks until retry_
    deadline,   \* ticks until deadline_
    idle,       \* ticks since last_frame_
    partial,    \* ticks since frame_started_
    attempts,   \* attempts_
    address,    \* address_index_ modulo the number of addresses
    stopped,    \* the flag of the signal handler
    wire,       \* the connection as the server sees it (external)
    failures,   \* disconnects since the last complete frame (history)
    waited      \* ticks since the last disconnect (history)

conn == <<socket, decoder, in_frame, retry, deadline, idle, partial, attempts>>
history == <<wire, failures, waited>>
vars == <<pc, reads, unread, conn, address, stopped, history>>

Decoder == [header : 0..HeaderSize, expected : Nat, payload : Nat]
EmptyDecoder == [header |-> 0, expected |-> 0, payload |-> 0]

Frame == [length : Lengths, good : BOOLEAN]

\* The client has received `bytes' bytes since the start of `frame', the frame it is
\* reading; the first of them was looked at age ticks ago.
NewWire == [frame |-> [length |-> 0, good |-> FALSE], bytes |-> 0, age |-> 0]

\* How far the client has read into the server's frame.
BytesRead == wire.bytes - unread

Init ==
    /\ pc = "tick" /\ reads = 0 /\ unread = 0
    /\ socket = "none" /\ decoder = EmptyDecoder /\ in_frame = FALSE
    /\ retry = 0 /\ deadline = 0 /\ idle = 0 /\ partial = 0
    /\ attempts = 0 /\ address = 0
    /\ stopped = FALSE
    /\ wire = NewWire /\ failures = 0 /\ waited = 0

----------------------------------------------------------------------------
Least(a, b) == IF a <= b THEN a ELSE b

\* The longest pause after the given number of failures.
BackoffCap(n) == Least(BackoffLimit, BackoffUnit * 2^Least(n, MaxShift))

\* Mutant: every pause is as short as the first.
DisconnectWithoutBackoff ==
    /\ socket' = "none" /\ decoder' = EmptyDecoder /\ in_frame' = FALSE
    /\ retry' \in (BackoffUnit \div 2)..BackoffUnit
    /\ attempts' = Least(attempts + 1, MaxAttempts)
    /\ wire' = NewWire /\ failures' = Least(failures + 1, MaxAttempts) /\ waited' = 0
    /\ pc' = IF pc = "tick" THEN "poll" ELSE "tick"
    /\ reads' = 0 /\ unread' = 0
    /\ UNCHANGED <<deadline, idle, partial>>

(***************************************************************************)
(* Disconnect: the frame read so far is forgotten and the next attempt     *)
(* waits a random part of a pause that doubles with every failure.  It is  *)
(* the last thing both Tick and Handle do.                                 *)
(***************************************************************************)
Disconnect ==
    /\ socket' = "none" /\ decoder' = EmptyDecoder /\ in_frame' = FALSE
    /\ retry' \in (BackoffCap(attempts) \div 2)..BackoffCap(attempts)
    /\ attempts' = Least(attempts + 1, MaxAttempts)
    /\ wire' = NewWire /\ failures' = Least(failures + 1, MaxAttempts) /\ waited' = 0
    /\ pc' = IF pc = "tick" THEN "poll" ELSE "tick"
    /\ reads' = 0 /\ unread' = 0
    /\ UNCHANGED <<deadline, idle, partial>>

----------------------------------------------------------------------------
(***************************************************************************)
(* Tick, at the head of the poll loop.                                     *)
(***************************************************************************)

\* Mutant: a connection attempt is never given up.
OverdueOnceConnected ==
    \/ in_frame /\ partial > FrameTimeout
    \/ socket = "connected" /\ idle > IdleTimeout

Overdue ==
    \/ socket = "connecting" /\ deadline = 0
    \/ in_frame /\ partial > FrameTimeout
    \/ socket = "connected" /\ idle > IdleTimeout

TickExpires ==
    /\ pc = "tick" /\ ~stopped /\ socket # "none" /\ Overdue
    /\ Disconnect
    /\ UNCHANGED <<address, stopped>>

\* The connection is in time, or the pause is not over.
TickWaits ==
    /\ pc = "tick" /\ ~stopped
    /\ IF socket = "none" THEN retry > 0 ELSE ~Overdue
    /\ pc' = "poll"
    /\ UNCHANGED <<reads, unread, conn, address, stopped, history>>

\* Mutant: the address is only left when a connection was made.
NextAddressOnSuccess(result) == IF result = "none" THEN address ELSE (address + 1) % Addresses

NextAddress(result) == (address + 1) % Addresses

\* connect() succeeds at once, is in progress, or fails (result "none").
TickConnects(result) ==
    /\ pc = "tick" /\ ~stopped /\ socket = "none" /\ retry = 0
    /\ address' = NextAddress(result)
    /\ IF result = "none"
         THEN Disconnect
         ELSE /\ socket' = result
              /\ deadline' = ConnectTimeout /\ idle' = 0
              /\ pc' = "poll"
              /\ UNCHANGED <<reads, unread, decoder, in_frame, retry, partial, attempts,
                             history>>
    /\ UNCHANGED stopped

----------------------------------------------------------------------------
(***************************************************************************)
(* poll and Handle.                                                        *)
(***************************************************************************)

\* Nothing happened on the stream within 50 ms.
PollNothing ==
    /\ pc = "poll"
    /\ pc' = "tick"
    /\ UNCHANGED <<reads, unread, conn, address, stopped, history>>

\* POLLNVAL, or an attempt that was refused.
HandleRefused ==
    /\ pc = "poll" /\ socket # "none"
    /\ Disconnect
    /\ UNCHANGED <<address, stopped>>

\* The attempt succeeded; `more' says that there is something to read as well.
HandleConnected(more) ==
    /\ pc = "poll" /\ socket = "connecting"
    /\ socket' = "connected" /\ idle' = 0
    /\ pc' = IF more THEN "read" ELSE "tick"
    /\ reads' = IF more THEN Reads ELSE 0
    /\ UNCHANGED <<unread, decoder, in_frame, retry, deadline, partial, attempts, address,
                   stopped, history>>

HandleReadable ==
    /\ pc = "poll" /\ socket = "connected"
    /\ pc' = "read" /\ reads' = Reads
    /\ UNCHANGED <<unread, conn, address, stopped, history>>

\* Mutant: the loop goes on for as long as there is something to read.
NextReadUnbounded == pc' = "read" /\ UNCHANGED reads

\* The end of one turn of the loop over recv.
NextRead ==
    IF reads > 1 THEN pc' = "read" /\ reads' = reads - 1
    ELSE pc' = "tick" /\ reads' = 0

\* recv returned 0 or an error.
ReadEnds ==
    /\ pc = "read"
    /\ Disconnect
    /\ UNCHANGED <<address, stopped>>

ReadWouldBlock ==
    /\ pc = "read"
    /\ pc' = "tick" /\ reads' = 0
    /\ UNCHANGED <<unread, conn, address, stopped, history>>

ReadInterrupted ==
    /\ pc = "read"
    /\ NextRead
    /\ UNCHANGED <<unread, conn, address, stopped, history>>

ReadBytes(n) ==
    /\ pc = "read"
    /\ pc' = "feed" /\ unread' = n
    /\ wire' = [wire EXCEPT !.bytes = @ + n]
    /\ UNCHANGED <<reads, conn, address, stopped, failures, waited>>

----------------------------------------------------------------------------
(***************************************************************************)
(* FrameDecoder::Feed of n bytes when the length field announces len: what *)
(* the decoder holds afterwards.  It consumes at most one frame.  The bits *)
(* of a length field that is not complete are left out: no test depends on *)
(* them.                                                                   *)
(***************************************************************************)
HeaderBytes(d, n) == Least(n, HeaderSize - d.header)

\* Mutant: the rest of the buffer is taken, the bytes of the next frame too.
PayloadBytesOverrun(d, n, len) ==
    IF d.header + HeaderBytes(d, n) < HeaderSize THEN 0 ELSE n - HeaderBytes(d, n)

PayloadBytes(d, n, len) ==
    IF d.header + HeaderBytes(d, n) < HeaderSize THEN 0
    ELSE Least(n - HeaderBytes(d, n), len - d.payload)

\* The number Feed returns.
Consumed(d, n, len) == HeaderBytes(d, n) + PayloadBytes(d, n, len)

Feed(d, n, len) ==
    LET h == d.header + HeaderBytes(d, n) IN
    [header   |-> h,
     expected |-> IF h < HeaderSize THEN d.expected ELSE len,
     payload  |-> d.payload + PayloadBytes(d, n, len)]

Position(d) == d.header + d.payload

Complete(d) == d.expected # 0 /\ d.payload = d.expected

\* The check when the length field is complete (std::length_error).
LengthOK(d) == d.header = HeaderSize => d.expected \in 1..MaxPayload

\* The bytes in the buffer belong to frame f.
Arrives(f) ==
    /\ pc = "feed"
    /\ f \in Frame
    /\ BytesRead # 0 => f = wire.frame

\* The stream when the client has n bytes of its buffer left: frame f ends where its
\* length says, whatever the decoder makes of it.
Passed(f, n) ==
    LET end == HeaderSize + f.length IN
    IF wire.bytes - n < end THEN [wire EXCEPT !.frame = f]
    ELSE [NewWire EXCEPT !.bytes = wire.bytes - end]

\* One turn of the inner loop of Handle moves on by what Feed returned.
Fed(f) ==
    LET n == unread - Consumed(decoder, unread, f.length) IN
    /\ unread' = n /\ wire' = Passed(f, n)
    /\ IF n > 0 THEN UNCHANGED <<pc, reads>> ELSE NextRead

\* Mutant: the deadline of a frame starts again with every read.
FeedRestartingDeadline(f) ==
    /\ Arrives(f)
    /\ LET d == Feed(decoder, unread, f.length) IN
        LengthOK(d) /\ ~Complete(d) /\ decoder' = d
    /\ Fed(f)
    /\ in_frame' = TRUE /\ partial' = 0
    /\ UNCHANGED <<socket, retry, deadline, idle, attempts, address, stopped, failures, waited>>

\* The bytes end inside the frame.
FeedPart(f) ==
    /\ Arrives(f)
    /\ LET d == Feed(decoder, unread, f.length) IN
        LengthOK(d) /\ ~Complete(d) /\ decoder' = d
    /\ Fed(f)
    /\ in_frame' = TRUE
    /\ partial' = IF in_frame THEN partial ELSE 0
    /\ UNCHANGED <<socket, retry, deadline, idle, attempts, address, stopped, failures, waited>>

\* The frame is complete and decodes: receive() is called.
FeedFrame(f) ==
    /\ Arrives(f) /\ f.good
    /\ LET d == Feed(decoder, unread, f.length) IN LengthOK(d) /\ Complete(d)
    /\ Fed(f)
    /\ decoder' = EmptyDecoder /\ in_frame' = FALSE
    /\ idle' = 0 /\ attempts' = 0 /\ failures' = 0
    /\ UNCHANGED <<socket, retry, deadline, partial, address, stopped, waited>>

\* The announced length is out of range, or the payload does not decode.
FeedRejected(f) ==
    /\ Arrives(f)
    /\ LET d == Feed(decoder, unread, f.length) IN
        ~LengthOK(d) \/ (Complete(d) /\ ~f.good)
    /\ Disconnect
    /\ UNCHANGED <<address, stopped>>

----------------------------------------------------------------------------
Running == pc \notin {"done", "failed"}

\* poll failed, there was no memory for a payload, or the recording could not be
\* written: an exception leaves Run.
Fail ==
    /\ pc \in {"poll", "feed"}
    /\ pc' = "failed" /\ socket' = "none"
    /\ reads' = 0 /\ unread' = 0
    /\ decoder' = EmptyDecoder /\ in_frame' = FALSE /\ wire' = NewWire
    /\ UNCHANGED <<retry, deadline, idle, partial, attempts, address, stopped, failures, waited>>

\* The condition of the loop of Run, after which the connection is destroyed.
Exit ==
    /\ pc = "tick" /\ stopped
    /\ pc' = "done" /\ socket' = "none"
    /\ decoder' = EmptyDecoder /\ in_frame' = FALSE /\ wire' = NewWire
    /\ UNCHANGED <<reads, unread, retry, deadline, idle, partial, attempts, address, stopped,
                   failures, waited>>

OnSignal ==
    /\ Running
    /\ stopped' = TRUE
    /\ UNCHANGED <<pc, reads, unread, conn, address, history>>

\* Time passes.  A clock that is not compared, or past its limit, stands still.
Time ==
    /\ Running
    /\ retry' = IF retry = 0 THEN 0 ELSE retry - 1
    /\ deadline' = IF deadline = 0 THEN 0 ELSE deadline - 1
    /\ idle' = IF socket = "none" \/ idle > IdleTimeout THEN idle ELSE idle + 1
    /\ partial' = IF ~in_frame \/ partial > FrameTimeout THEN partial ELSE partial + 1
    /\ wire' = [wire EXCEPT !.age = IF BytesRead = 0 \/ @ > FrameTimeout THEN @ ELSE @ + 1]
    /\ waited' = IF waited > BackoffLimit THEN waited ELSE waited + 1
    /\ UNCHANGED <<pc, reads, unread, socket, decoder, in_frame, attempts, address, stopped,
                   failures>>

Thread ==
    \/ TickExpires \/ TickWaits
    \/ \E result \in {"none", "connecting", "connected"} : TickConnects(result)
    \/ PollNothing \/ HandleRefused \/ HandleReadable
    \/ \E more \in BOOLEAN : HandleConnected(more)
    \/ ReadEnds \/ ReadWouldBlock \/ ReadInterrupted
    \/ \E n \in 1..RecvSize : ReadBytes(n)
    \/ \E f \in Frame : FeedPart(f) \/ FeedFrame(f) \/ FeedRejected(f)
    \/ Exit

Next == Thread \/ Fail \/ OnSignal \/ Time

\* The program runs and time passes; nothing is assumed of the server.
Spec == Init /\ [][Next]_vars /\ WF_vars(Thread) /\ WF_vars(Time)

----------------------------------------------------------------------------
(***************************************************************************)
(* Properties.                                                             *)
(***************************************************************************)

\* The decoder never loses the frame boundary: it holds exactly the bytes the client
\* has read of the server's current frame, however recv cuts the stream, several
\* frames of one buffer and disconnects in the middle of a frame included; and the
\* frame deadline is armed exactly while a frame is incomplete.
InSync ==
    /\ Position(decoder) = BytesRead
    /\ decoder.header = HeaderSize => decoder.expected = wire.frame.length
    /\ in_frame <=> BytesRead # 0
    /\ socket # "connected" => wire.bytes = 0

\* docs/protocol.md: "A frame read deadline begins with its first byte; a peer
\* cannot keep a partial frame alive by sending occasional bytes forever."
FrameDeadline ==
    [][pc = "tick" /\ pc' = "poll" => wire'.age <= FrameTimeout]_vars

\* Without a complete frame in between, every attempt waits at least half of a
\* pause that doubles: a server that accepts and drops is not hammered.
BackoffHeld ==
    [][socket = "none" /\ socket' # "none" /\ failures # 0 =>
          waited >= BackoffCap(failures - 1) \div 2]_vars

\* A connection that neither completes nor delivers a frame is left.
StalledServerLeft ==
    (socket # "none" /\ idle > IdleTimeout) ~> (socket = "none" \/ idle <= IdleTimeout)

\* A client without a connection tries its next address, whatever failed before.
KeepsTrying ==
    \A a \in 0..(Addresses - 1) :
        (socket = "none" /\ address = a) ~> (address # a \/ ~Running)

\* SIGINT or SIGTERM ends the client although the server never stops sending.
QuitHeard == stopped ~> ~Running
============================================================================
