------------------------------ MODULE Reactor ------------------------------
(***************************************************************************)
(* The reactor thread of the server (server/src/transport/reactor.cpp):    *)
(* one epoll loop owns both listeners, every client session, the deadlines *)
(* and shutdown.                                                           *)
(*                                                                         *)
(* The thread is sequential; pc says which loop of which function it is in *)
(* and each system call is one step, so the worker, the clock and the      *)
(* clients act between any two calls.  What the kernel answers (external)  *)
(* is a free choice among the answers the code distinguishes.  Requests    *)
(* and responses are abstracted to their sizes, frames to a generation and *)
(* a size, clocks to the time since they were read, in ticks of the 100 ms *)
(* timer.  The counters that are only shown by /diagnostics are left out.  *)
(***************************************************************************)
EXTENDS OutputQueue, FiniteSets

CONSTANTS
    MaxClients,       \* ServerConfig::max_clients
    QueueBudget,      \* kQueueBudget
    WriteBudget,      \* kWriteBudget
    HeaderLimit,      \* 8192, the longest request header
    RecvSize,         \* 2048, the buffer of one recv
    ReadTries,        \* 8, recv calls in one Read
    AcceptTries,      \* 32, accept4 calls in one Accept
    MaxEvents,        \* 64, events of one epoll_wait
    RequestTimeout,   \* ServerConfig::request_timeout, in ticks
    WriteTimeout,     \* ServerConfig::write_timeout, in ticks
    FrameSizes,       \* sizes of the frame of generation 1, 2, ...
    ResponseSizes,    \* sizes of an HTTP response
    MaxGen,           \* bound: generations published
    MaxConnections    \* bound: connections accepted

ASSUME LimitsAssumption ==
    /\ MaxClients \in Nat /\ QueueBudget \in Nat /\ HeaderLimit \in Nat
    /\ {WriteBudget, RecvSize, ReadTries, AcceptTries, MaxEvents} \subseteq Nat \ {0}
    /\ RequestTimeout \in Nat /\ WriteTimeout \in Nat
    /\ ResponseSizes \subseteq Nat \ {0}
    /\ MaxGen \in Nat /\ MaxConnections \in Nat
    /\ FrameSizes \in [1..MaxGen -> Nat \ {0}]

VARIABLES
    pc,               \* the loop the thread is in
    batch,            \* events of the last epoll_wait not yet handled
    event,            \* the event being handled
    alive,            \* the local of the same name in Run
    left,             \* what is left of the budget of the inner loop
    todo,             \* sessions the loop of Sweep or Broadcast has still to visit
    sessions,         \* sessions_
    next_token,       \* next_token_
    queued_bytes,     \* queued_bytes_
    last_sequence,    \* last_sequence_
    listeners_paused, \* listeners_paused_
    latest,           \* generation held by SharedState, 0 before the first
    notification,     \* the eventfd is readable
    timer,            \* the timerfd is readable
    signal            \* the signalfd is readable

control == <<pc, batch, event, alive, left, todo>>
server == <<sessions, next_token, queued_bytes, last_sequence, listeners_paused>>
environment == <<latest, notification, timer, signal>>
vars == <<control, server, environment>>

\* The epoll tokens of the five descriptors that are not sessions.
kHttp == 1
kStream == 2
kSignal == 3
kNotification == 4
kTimer == 5
FirstToken == 16

Flags == {"IN", "OUT", "HUP", "ERR"}  \* IN stands for EPOLLIN and EPOLLRDHUP

Event == [token : Nat, flags : SUBSET Flags]

Session == [streaming  : BOOLEAN,
            responding : BOOLEAN,
            request    : Nat,          \* bytes of the request read so far
            output     : Queue,
            age        : Nat,          \* ticks since accepted_at
            idle       : Nat,          \* ticks since last_progress
            interest   : SUBSET Flags, \* the mask registered with epoll
            peer       : Peer]         \* what a stream client has read (external)

Program == {"loop", "accept", "read", "write", "settle", "sweep", "broadcast",
            "stopped", "failed"}

TypeOK ==
    /\ pc \in Program
    /\ batch \subseteq Event
    /\ event \in Event
    /\ alive \in BOOLEAN
    /\ left \in Nat
    /\ todo \subseteq DOMAIN sessions
    /\ DOMAIN sessions \subseteq FirstToken..(next_token - 1)
    /\ sessions \in [DOMAIN sessions -> Session]
    /\ next_token \in Nat /\ next_token >= FirstToken
    /\ queued_bytes \in Nat
    /\ last_sequence \in 0..MaxGen /\ latest \in 0..MaxGen
    /\ listeners_paused \in BOOLEAN /\ notification \in BOOLEAN
    /\ timer \in BOOLEAN /\ signal \in BOOLEAN
    /\ pc \in {"read", "write", "settle"} => event.token \in DOMAIN sessions

NoEvent == [token |-> 0, flags |-> {}]

Init ==
    /\ pc = "loop" /\ batch = {} /\ event = NoEvent /\ alive = TRUE
    /\ left = 0 /\ todo = {}
    /\ sessions = [t \in {} |-> {}]
    /\ next_token = FirstToken
    /\ queued_bytes = 0
    /\ last_sequence = 0
    /\ listeners_paused = FALSE
    /\ latest = 0
    /\ notification = FALSE /\ timer = FALSE /\ signal = FALSE

----------------------------------------------------------------------------
(***************************************************************************)
(* Helpers.                                                                *)
(***************************************************************************)
Tokens == DOMAIN sessions
Current == sessions[event.token]

With(t, s) == [x \in Tokens \cup {t} |-> IF x = t THEN s ELSE sessions[x]]
Without(t) == [x \in Tokens \ {t} |-> sessions[x]]

Frame(g) == [gen |-> g, size |-> FrameSizes[g]]
Response(n) == [gen |-> 0, size |-> n]

\* The mask Modify computes (and Accept, which registers the same one).
Interest(s) ==
    (IF ~s.streaming /\ ~s.responding THEN {"IN"} ELSE {}) \cup
    (IF ~Empty(s.output) THEN {"OUT"} ELSE {})

\* Mutant: a session with new output is not registered for EPOLLOUT.
ModifyWithoutOut(s) == [s EXCEPT !.interest = Interest(s) \ {"OUT"}]

Modify(s) == [s EXCEPT !.interest = Interest(s)]

(***************************************************************************)
(* Enqueue: the session afterwards, the byte total afterwards, and whether *)
(* it returned true.  Over budget, the queue of the session is emptied and *)
(* its bytes are taken off the total again.                                *)
(***************************************************************************)
\* Mutant: every enqueue counts as progress.
PushedAsProgress(s, b) == [s EXCEPT !.output = Push(s.output, b), !.idle = 0]

Pushed(s, b) ==
    [s EXCEPT !.output = Push(s.output, b),
              !.idle = IF Empty(s.output) THEN 0 ELSE @]

BytesAfterPush(s, b) == queued_bytes - Bytes(s.output) + Bytes(Push(s.output, b))

\* Mutant: the budget is tested before the buffer is added.
FitsBeforePush(s, b) == queued_bytes <= QueueBudget

Fits(s, b) == BytesAfterPush(s, b) <= QueueBudget

Enqueued(s, b) ==
    IF Fits(s, b) THEN Pushed(s, b) ELSE [Pushed(s, b) EXCEPT !.output = EmptyQueue]

BytesEnqueued(s, b) ==
    IF Fits(s, b) THEN BytesAfterPush(s, b)
    ELSE BytesAfterPush(s, b) - Bytes(Push(s.output, b))

\* Mutant: the bytes of the closed session stay in the total.
CloseKeepingBytes(t) == sessions' = Without(t) /\ UNCHANGED queued_bytes

Close(t) ==
    /\ sessions' = Without(t)
    /\ queued_bytes' = queued_bytes - Bytes(sessions[t].output)

\* The thread is back at the head of the loop over the events of the batch.
Return ==
    /\ pc' = "loop"
    /\ event' = NoEvent /\ alive' = TRUE /\ left' = 0
    /\ UNCHANGED <<batch, todo>>

\* One turn of an inner loop is over; the function returns when it was the last.
NextTurn(done) ==
    IF left > 1 THEN left' = left - 1 /\ UNCHANGED <<pc, batch, event, alive, todo>>
    ELSE done

----------------------------------------------------------------------------
(***************************************************************************)
(* Run: epoll_wait and the choice of the next event.                       *)
(***************************************************************************)

\* Descriptors of the program itself that epoll is certain to find ready.
ControlReady ==
    {[token |-> k, flags |-> {"IN"}] : k \in
        {k \in {kSignal, kNotification, kTimer} :
            \/ k = kSignal /\ signal
            \/ k = kNotification /\ notification
            \/ k = kTimer /\ timer}}

\* What may be ready because of what clients did.
ListenerReady ==
    {[token |-> k, flags |-> {"IN"}] :
        k \in IF listeners_paused THEN {} ELSE {kHttp, kStream}}

\* Once EPOLLERR is set the code looks at no other flag, so it is reported alone.
SessionReady ==
    UNION {{[token |-> t, flags |-> f] :
              f \in {{"ERR"}} \cup (SUBSET (sessions[t].interest \cup {"HUP"}) \ {{}})} : t \in Tokens}

(***************************************************************************)
(* epoll_wait returns at most one event per descriptor, and leaves a ready *)
(* descriptor out only when the array is full.  The order of the array is  *)
(* not specified, so the batch is a set.                                   *)
(***************************************************************************)
EpollWait ==
    /\ pc = "loop" /\ batch = {}
    /\ \E ready \in SUBSET (ControlReady \cup ListenerReady \cup SessionReady) :
          /\ ready # {}
          /\ Cardinality(ready) <= MaxEvents
          /\ \A e, f \in ready : e.token = f.token => e = f
          /\ ControlReady \subseteq ready \/ Cardinality(ready) = MaxEvents
          /\ batch' = ready
    /\ UNCHANGED <<pc, event, alive, left, todo, server, environment>>

Shutdown ==
    /\ pc = "loop" /\ \E e \in batch : e.token = kSignal
    /\ pc' = "stopped"
    /\ batch' = {} /\ signal' = FALSE
    /\ sessions' = [t \in {} |-> {}]
    /\ queued_bytes' = 0
    /\ UNCHANGED <<event, alive, left, todo, next_token, last_sequence,
                   listeners_paused, latest, notification, timer>>

\* The head of the second loop of Run: take an event of the batch.
Take(e) ==
    /\ pc = "loop" /\ e \in batch
    /\ \A f \in batch : f.token # kSignal
    /\ batch' = batch \ {e}

HandleListener(e) ==
    /\ Take(e) /\ e.token \in {kHttp, kStream}
    /\ IF listeners_paused
         THEN UNCHANGED <<pc, event, left>>
         ELSE pc' = "accept" /\ event' = e /\ left' = AcceptTries
    /\ UNCHANGED <<alive, todo, server, environment>>

----------------------------------------------------------------------------
(***************************************************************************)
(* Accept: up to AcceptTries calls of accept4 on one listener.             *)
(***************************************************************************)

\* EAGAIN, or an error that is only counted.
AcceptNothing ==
    /\ pc = "accept"
    /\ Return
    /\ UNCHANGED <<server, environment>>

\* EMFILE or ENFILE: both listeners leave epoll until the next Sweep.
AcceptExhausted ==
    /\ pc = "accept"
    /\ listeners_paused' = TRUE
    /\ Return
    /\ UNCHANGED <<sessions, next_token, queued_bytes, last_sequence, environment>>

\* EINTR, or a connection closed at once because the server is full.
AcceptSkipped ==
    /\ pc = "accept"
    /\ NextTurn(Return)
    /\ UNCHANGED <<server, environment>>

NewSession(streaming) ==
    [streaming |-> streaming, responding |-> FALSE, request |-> 0, output |-> EmptyQueue,
     age |-> 0, idle |-> 0, interest |-> {}, peer |-> NewPeer]

\* Mutant: a generation that is already broadcast is not given to a new client.
GreetedBeforeBroadcast(s) == s.streaming /\ latest # 0 /\ latest # last_sequence

\* Accept loads the shared state for a stream client.
Greeted(s) == s.streaming /\ latest # 0

\* Mutant: tokens are taken from the closed sessions again.
SmallestFreeToken ==
    CHOOSE t \in FirstToken..next_token :
        t \notin Tokens /\ \A u \in FirstToken..(t - 1) : u \in Tokens

NewToken == next_token

(***************************************************************************)
(* A connection that is kept.  A stream client is given the latest         *)
(* generation at once; if that does not fit the budget the session is      *)
(* dropped before it is registered, and only its token is used up.         *)
(***************************************************************************)
AcceptSession ==
    /\ pc = "accept"
    /\ Cardinality(Tokens) < MaxClients
    /\ next_token < FirstToken + MaxConnections
    /\ next_token' = next_token + 1
    /\ LET s == NewSession(event.token = kStream)
           b == Frame(latest)
       IN  \/ /\ ~Greeted(s)
              /\ sessions' = With(NewToken, Modify(s))
              /\ UNCHANGED queued_bytes
           \/ /\ Greeted(s)
              /\ sessions' = IF Fits(s, b) THEN With(NewToken, Modify(Enqueued(s, b)))
                             ELSE sessions
              /\ queued_bytes' = BytesEnqueued(s, b)
    /\ NextTurn(Return)
    /\ UNCHANGED <<last_sequence, listeners_paused, environment>>

----------------------------------------------------------------------------
(***************************************************************************)
(* A session event: Read, then Write, then Close or Modify.  An event of a *)
(* session that an earlier event of the same batch closed is ignored.      *)
(***************************************************************************)
EnterWrite == pc' = "write" /\ left' = WriteBudget
EnterSettle == pc' = "settle" /\ left' = 0

HandleSession(e) ==
    /\ Take(e) /\ e.token >= FirstToken
    /\ IF e.token \notin Tokens
         THEN UNCHANGED <<pc, event, alive, left>>
         ELSE LET s == sessions[e.token] IN
              /\ event' = e
              /\ alive' = ("ERR" \notin e.flags)
              /\ IF "ERR" \in e.flags THEN EnterSettle
                 ELSE IF ~s.streaming /\ ~s.responding /\ e.flags \cap {"IN", "HUP"} # {}
                   THEN pc' = "read" /\ left' = ReadTries
                 ELSE IF "OUT" \in e.flags THEN EnterWrite ELSE EnterSettle
    /\ UNCHANGED <<todo, server, environment>>

\* Read returned ok.
ReadReturns(ok) ==
    /\ alive' = ok
    /\ IF ok /\ "OUT" \in event.flags THEN EnterWrite ELSE EnterSettle
    /\ UNCHANGED <<batch, event, todo>>

\* recv returned 0 or an error, or would block.
ReadNothing ==
    /\ pc = "read"
    /\ \E ok \in BOOLEAN : ReadReturns(ok)
    /\ UNCHANGED <<server, environment>>

ReadInterrupted ==
    /\ pc = "read"
    /\ NextTurn(ReadReturns(TRUE))
    /\ UNCHANGED <<server, environment>>

\* recv returned n bytes that do not end the header.
ReadPart(n) ==
    /\ pc = "read"
    /\ Current.request + n <= HeaderLimit
    /\ sessions' = With(event.token, [Current EXCEPT !.request = @ + n])
    /\ NextTurn(ReadReturns(TRUE))
    /\ UNCHANGED <<next_token, queued_bytes, last_sequence, listeners_paused, environment>>

\* The header is complete, or too long: the response is queued.
ReadRequest(size) ==
    /\ pc = "read"
    /\ LET s == [Current EXCEPT !.responding = TRUE, !.request = 0]
           b == Response(size)
       IN  /\ sessions' = With(event.token, Enqueued(s, b))
           /\ queued_bytes' = BytesEnqueued(s, b)
           /\ ReadReturns(Fits(s, b))
    /\ UNCHANGED <<next_token, last_sequence, listeners_paused, environment>>

WriteReturns(ok) ==
    /\ alive' = ok
    /\ EnterSettle
    /\ UNCHANGED <<batch, event, todo>>

\* The session after n bytes have left.
Sent(s, n) ==
    [s EXCEPT !.output = Consume(s.output, n),
              !.idle = 0,
              !.peer = IF s.streaming
                         THEN Receive(@, s.output.current, s.output.offset, n) ELSE @]

\* send took n bytes.
WriteSome(n) ==
    /\ pc = "write" /\ left >= n /\ CanConsume(Current.output, n)
    /\ sessions' = With(event.token, Sent(Current, n))
    /\ queued_bytes' = queued_bytes - n
    /\ left' = left - n
    /\ UNCHANGED <<pc, batch, event, alive, todo, next_token, last_sequence,
                   listeners_paused, environment>>

\* send would block (the session is kept), or returned 0 or an error.
WriteNothing ==
    /\ pc = "write" /\ left > 0 /\ ~Empty(Current.output)
    /\ \E ok \in BOOLEAN : WriteReturns(ok)
    /\ UNCHANGED <<server, environment>>

\* The budget is used up or the queue is empty: a finished response closes.
WriteEnds ==
    /\ pc = "write" /\ (left = 0 \/ Empty(Current.output))
    /\ WriteReturns(Current.streaming \/ ~Empty(Current.output))
    /\ UNCHANGED <<server, environment>>

Settle ==
    /\ pc = "settle"
    /\ IF alive /\ "HUP" \notin event.flags
         THEN sessions' = With(event.token, Modify(Current)) /\ UNCHANGED queued_bytes
         ELSE Close(event.token)
    /\ Return
    /\ UNCHANGED <<next_token, last_sequence, listeners_paused, environment>>

----------------------------------------------------------------------------
(***************************************************************************)
(* Notification and timer: Broadcast, and Sweep before it on the timer.    *)
(***************************************************************************)

\* Mutant: a request without a complete header is never timed out.
ExpiredWritersOnly ==
    {t \in Tokens : ~Empty(sessions[t].output) /\ sessions[t].idle > WriteTimeout}

\* Mutant: a client that does not read is never timed out.
ExpiredRequestsOnly ==
    {t \in Tokens : LET s == sessions[t] IN
        ~s.streaming /\ ~s.responding /\ s.age > RequestTimeout}

Expired ==
    {t \in Tokens : LET s == sessions[t] IN
        \/ ~s.streaming /\ ~s.responding /\ s.age > RequestTimeout
        \/ ~Empty(s.output) /\ s.idle > WriteTimeout}

\* Mutant: only the first generation is broadcast.
StartBroadcastOnce ==
    IF latest = 0 \/ last_sequence # 0
      THEN pc' = "loop" /\ todo' = {} /\ UNCHANGED last_sequence
      ELSE /\ pc' = "broadcast"
           /\ todo' = {t \in Tokens : sessions[t].streaming}
           /\ last_sequence' = latest

\* Load the latest generation; nothing to do when it was broadcast already.
StartBroadcast ==
    IF latest \in {0, last_sequence}
      THEN pc' = "loop" /\ todo' = {} /\ UNCHANGED last_sequence
      ELSE /\ pc' = "broadcast"
           /\ todo' = {t \in Tokens : sessions[t].streaming}
           /\ last_sequence' = latest

HandleNotification(e) ==
    /\ Take(e) /\ e.token = kNotification
    /\ notification' = FALSE
    /\ StartBroadcast
    /\ UNCHANGED <<event, alive, left, sessions, next_token, queued_bytes,
                   listeners_paused, latest, timer, signal>>

HandleTimer(e) ==
    /\ Take(e) /\ e.token = kTimer
    /\ timer' = FALSE
    /\ pc' = "sweep" /\ todo' = Expired
    /\ UNCHANGED <<event, alive, left, server, latest, notification, signal>>

SweepClose(t) ==
    /\ pc = "sweep" /\ t \in todo
    /\ Close(t)
    /\ todo' = todo \ {t}
    /\ UNCHANGED <<pc, batch, event, alive, left, next_token, last_sequence,
                   listeners_paused, environment>>

\* Mutant: the listeners are not registered again.
SweepWithoutResume ==
    /\ pc = "sweep" /\ todo = {}
    /\ StartBroadcast
    /\ UNCHANGED <<batch, event, alive, left, sessions, next_token, queued_bytes,
                   listeners_paused, environment>>

\* Both listeners go back into epoll, then Broadcast.
SweepDone ==
    /\ pc = "sweep" /\ todo = {}
    /\ listeners_paused' = FALSE
    /\ StartBroadcast
    /\ UNCHANGED <<batch, event, alive, left, sessions, next_token, queued_bytes,
                   environment>>

\* Mutant: over budget the session is kept, although Enqueue emptied its queue.
BroadcastKeepingSession(t) ==
    /\ pc = "broadcast" /\ t \in todo
    /\ LET s == sessions[t]
           b == Frame(last_sequence)
       IN  /\ sessions' = With(t, Modify(Enqueued(s, b)))
           /\ queued_bytes' = BytesEnqueued(s, b)
    /\ todo' = todo \ {t}
    /\ UNCHANGED <<pc, batch, event, alive, left, next_token, last_sequence,
                   listeners_paused, environment>>

BroadcastTo(t) ==
    /\ pc = "broadcast" /\ t \in todo
    /\ LET s == sessions[t]
           b == Frame(last_sequence)
       IN  /\ sessions' = IF Fits(s, b) THEN With(t, Modify(Enqueued(s, b))) ELSE Without(t)
           /\ queued_bytes' = BytesEnqueued(s, b)
    /\ todo' = todo \ {t}
    /\ UNCHANGED <<pc, batch, event, alive, left, next_token, last_sequence,
                   listeners_paused, environment>>

BroadcastDone ==
    /\ pc = "broadcast" /\ todo = {}
    /\ pc' = "loop"
    /\ UNCHANGED <<batch, event, alive, left, todo, server, environment>>

----------------------------------------------------------------------------
(***************************************************************************)
(* The rest of the program and the world.                                  *)
(***************************************************************************)
Running == pc \notin {"stopped", "failed"}

(***************************************************************************)
(* A system call that only fails when the kernel is out of resources makes *)
(* Check throw: the exception leaves Run and destroys the reactor.         *)
(***************************************************************************)
Fail ==
    /\ \/ pc = "loop" /\ batch = {}                          \* epoll_wait
       \/ pc = "accept"                                      \* SO_SNDBUF, Register
       \/ pc = "settle" /\ alive /\ "HUP" \notin event.flags  \* Modify
       \/ pc = "sweep" /\ todo = {} /\ listeners_paused       \* Register
       \/ pc = "broadcast" /\ todo # {}                       \* Modify
    /\ pc' = "failed"
    /\ batch' = {} /\ todo' = {}
    /\ sessions' = [t \in {} |-> {}]
    /\ queued_bytes' = 0
    /\ UNCHANGED <<event, alive, left, next_token, last_sequence, listeners_paused,
                   environment>>

\* SharedState::Publish by the worker.  A generation whose publication failed
\* leaves a number unused.  The worker may outlive the reactor.
Publish ==
    /\ latest' \in (latest + 1)..MaxGen
    /\ UNCHANGED <<control, server, notification, timer, signal>>

\* The worker's write to the eventfd; several writes are one readable event.
Notify ==
    /\ latest # 0
    /\ notification' = TRUE
    /\ UNCHANGED <<control, server, latest, timer, signal>>

(***************************************************************************)
(* 100 ms pass and the timerfd expires.  A clock that no code compares any *)
(* more, or that is past its deadline, is not advanced: accepted_at once a *)
(* response is queued, last_progress while the queue is empty.             *)
(***************************************************************************)
Aged(s) ==
    [s EXCEPT !.age = IF s.streaming \/ s.responding \/ @ > RequestTimeout THEN @ ELSE @ + 1,
              !.idle = IF Empty(s.output) \/ @ > WriteTimeout THEN @ ELSE @ + 1]

Tick ==
    /\ Running
    /\ timer' = TRUE
    /\ sessions' = [t \in Tokens |-> Aged(sessions[t])]
    /\ UNCHANGED <<control, next_token, queued_bytes, last_sequence, listeners_paused,
                   latest, notification, signal>>

\* SIGINT or SIGTERM.
Signal ==
    /\ Running
    /\ signal' = TRUE
    /\ UNCHANGED <<control, server, latest, notification, timer>>

Thread ==
    \/ EpollWait \/ Shutdown
    \/ \E e \in batch : \/ HandleListener(e) \/ HandleSession(e)
                        \/ HandleNotification(e) \/ HandleTimer(e)
    \/ AcceptNothing \/ AcceptExhausted \/ AcceptSkipped \/ AcceptSession
    \/ ReadNothing \/ ReadInterrupted
    \/ \E n \in 1..RecvSize : ReadPart(n)
    \/ \E size \in ResponseSizes : ReadRequest(size)
    \/ \E n \in 1..WriteBudget : WriteSome(n)
    \/ WriteNothing \/ WriteEnds \/ Settle
    \/ \E t \in todo : SweepClose(t) \/ BroadcastTo(t)
    \/ SweepDone \/ BroadcastDone

World == Publish \/ Notify \/ Tick \/ Signal

Next == Thread \/ Fail \/ World

Spec == Init /\ [][Next]_vars

(***************************************************************************)
(* The thread runs while it has something to do, and time passes.  Level-  *)
(* triggered epoll moves a descriptor it reports to the end of its ready   *)
(* list, so one that stays ready is reported in the end although there may *)
(* be more ready descriptors than a batch holds (external).  Nothing is    *)
(* assumed of clients, of the worker or of its notifications.              *)
(***************************************************************************)
Reports(k) == EpollWait /\ \E e \in batch' : e.token = k

Fairness ==
    /\ WF_vars(Thread)
    /\ WF_vars(Tick)
    /\ SF_vars(Reports(kTimer)) /\ SF_vars(Reports(kSignal))

FairSpec == Spec /\ Fairness

----------------------------------------------------------------------------
(***************************************************************************)
(* Safety.                                                                 *)
(***************************************************************************)

\* The bytes every session still has to send, as a set of (token, byte) pairs.
Outstanding(S) == UNION {{t} \X (1..Bytes(S[t].output)) : t \in DOMAIN S}

\* queued_bytes_ is maintained by differences in Enqueue, Write, Close and the
\* rollback of Enqueue; it never drifts from the sum over the sessions.
QueueAccounting == queued_bytes = Cardinality(Outstanding(sessions))

\* Whenever the thread is between two sessions or two events, in the middle of a
\* broadcast too, the queues of all sessions together are within the global budget.
\* Inside one call of Enqueue queued_bytes_ may exceed it, until the rollback takes
\* the push back (reactor.cpp:178-189); that is one step here.
BudgetHeld == queued_bytes <= QueueBudget

\* Between two events every session is registered for exactly what it needs:
\* no lost wakeup (output and no EPOLLOUT), no spinning (EPOLLOUT and no output).
InterestMatches ==
    pc \in {"loop", "accept"} => \A t \in Tokens : sessions[t].interest = Interest(sessions[t])

\* The newest generation a stream client has or is going to get.
NewestFor(s) == IF Empty(s.output) THEN s.peer.last ELSE Newest(s.output)

\* Between two events no stream client is behind what was broadcast: a client
\* accepted at any moment relative to Publish and Broadcast gets the latest
\* generation from one of the two.
NoClientLeftBehind ==
    pc \in {"loop", "accept", "read", "write", "settle"} =>
        \A t \in Tokens : sessions[t].streaming => NewestFor(sessions[t]) >= last_sequence

\* An event that is still in the batch never reaches a session that was created
\* after epoll_wait returned it.
StaleEventsAreInert ==
    [][\A t \in DOMAIN sessions' \ Tokens : \A e \in batch : e.token # t]_vars

\* A write deadline is only put off by bytes the socket took, or by the first
\* frame of an empty queue: new generations do not keep a stalled client alive.
OnlyProgressExtendsDeadline ==
    [][\A t \in Tokens : t \in DOMAIN sessions' /\ sessions'[t].idle < sessions[t].idle =>
          \/ Empty(sessions[t].output)
          \/ queued_bytes' < queued_bytes /\ pc = "write" /\ t = event.token]_vars

\* Every byte a stream client gets continues the frame it is in.  Enqueue drops a
\* partly sent frame when the budget is exceeded: no session survives that.
StreamsIntact ==
    \A t \in Tokens : LET s == sessions[t] IN
        s.streaming => /\ ~s.peer.torn
                       /\ s.peer.got = s.output.offset
                       /\ s.peer.got # 0 => s.peer.gen = s.output.current.gen

\* What the session with token t promises its subscriber.
Subscriber(t) == INSTANCE LatestWins WITH
    Gen       <- 1..MaxGen,
    offered   <- IF sessions[t].output.offset = 0 THEN sessions[t].output.current.gen
                 ELSE sessions[t].output.pending.gen,
    sending   <- IF sessions[t].output.offset = 0 THEN 0 ELSE sessions[t].output.current.gen,
    delivered <- sessions[t].peer.last

\* For as long as it lasts, every stream session delivers as LatestWins says,
\* whatever the other sessions, the budget and the worker do: generations never
\* go back, and one that the client has a part of is never replaced.
SubscribersGetLatest ==
    [][\A t \in Tokens \cap DOMAIN sessions' :
          sessions[t].streaming => [Subscriber(t)!Next]_(Subscriber(t)!vars)]_vars

----------------------------------------------------------------------------
(***************************************************************************)
(* Liveness, under Fairness.                                               *)
(***************************************************************************)
AllTokens == FirstToken..(FirstToken + MaxConnections - 1)

\* Every HTTP session ends, whatever its client sends or does not read.
RequestsEnd ==
    \A t \in AllTokens :
        (t \in Tokens /\ ~sessions[t].streaming) ~> (t \notin Tokens)

\* A stream client that does not read is not kept for ever: again and again each
\* session has no output waiting past its deadline.
StalledClientsGo ==
    \A t \in AllTokens :
        []<>(t \in Tokens => Empty(sessions[t].output) \/ sessions[t].idle <= WriteTimeout)

\* Listeners taken out of epoll when descriptors ran out come back.
ListenersResume == listeners_paused ~> (~listeners_paused \/ ~Running)
============================================================================
