# web_htop: TLA+ specifications

Specifications, TLC models and TLAPS proofs for `web_htop`: a server that samples
Linux metrics and streams snapshots to TCP subscribers (`server/`), its terminal
client (`client/`), the protocol both share (`common/`), and a scheduler latency
profiler (`tools/scheduler/`).

## 1. The system

| Component | State it keeps | Operations | Correct when |
|---|---|---|---|
| `OutputQueue` | frame being sent, send offset, one parked frame | Push, Front, Consume, Bytes | frames leave whole and in order; what is dropped is counted |
| `Reactor` | sessions, tokens, queued bytes, last broadcast generation, paused listeners | one epoll loop: Accept, Read, Write, Enqueue, Broadcast, Sweep, Close, shutdown | byte budget exact and held; epoll interest matches the queues; deadlines end sessions; nobody misses the newest generation |
| `SharedState` | the latest published generation (one atomic pointer) | Publish, Load | only complete generations are ever visible |
| `ServerApp` | worker thread, sampling grid, sequence, stop token | collect, number, publish, notify, sleep; request_stop, join | no grid point lost, no number reused, shutdown ends |
| `StreamConnection` | socket, frame decoder, four deadlines, back-off | Tick, Handle, Disconnect | never off the frame boundary; every stall is left; back-off grows |
| `HttpProbe` | socket, request offset, reply buffer, last value | Tick, Handle, Finish | every attempt ends; a value comes from one reply |
| `ClientApp` | current and visible snapshot, gaps, histories, recording | receive, poll loop, keys, replay | gaps and histories follow instance and sequence |
| `MetricsCollector` | previous counters of every section | Collect and one function per section | no rate over a hole, a reset or a reused PID |
| `LinuxSource`, sample parsers | none | read a file, list PIDs, identify the cgroup, parse a sample | a bad row costs that row, a failed read that section |
| JSON parser and serializer | position, depth, nodes, keys | Parse, ToString | accept exactly what the grammar and the limits allow; what one writes the other reads |
| Scheduler probe (BPF) | stamp per TID, counters | wakeup, new task, switch, exit | every latency is measured within one wait |
| `TerminalUi` | none | Render, Draw | says LIVE only for what is live |
| HTTP parser, `Decode`, models, `ServerConfig` | none | conversion | not modelled |

Interaction. In the server, two threads share two things: the pointer in
`SharedState` (written by the worker, read by the reactor in Accept, Broadcast
and Route) and an eventfd (a wake-up, not a queue). The main thread runs the
reactor, then stops and joins the worker. The reactor and each client share a
TCP byte stream that either side may cut anywhere. The client is one poll loop
that calls Tick and Handle of its two connections.

What is hard to test here: a batch of epoll events whose earlier members
invalidate later ones; a publication between Accept and Broadcast; a send that
stops at any byte of a frame when a newer one arrives; the byte budget running
out in the middle of a broadcast; lost or merged notifications; a signal while
everything is busy; a stop at any step of the worker; a collection that overruns
its grid; a client whose connection breaks inside a frame; a process, interface or
cgroup replaced by another of the same name between two reads; a reply cut
anywhere; a thread woken while it still runs. `PROJECT.json` lists them under `hazards`, each with its line and the properties that cover it.

## 2. The modules

| Module | Models | Kind |
|---|---|---|
| `OutputQueue` | `output_queue.hpp`; the reader's view of the bytes | operators |
| `LatestWins` | what a subscriber is promised | abstract specification |
| `StreamSession` | one session's queue between Enqueue and send | specification, implements `LatestWins` |
| `Reactor`, `MCReactor` | `reactor.cpp` | specification and instance |
| `Worker` | the worker lambda and the end of `ServerApp::Run` | specification |
| `Server`, `MCServer` | `ServerApp::Run`: `Reactor` and `Worker` composed | composition; extends `Reactor`, implements it and `Worker` |
| `StreamConnection` | `StreamConnection` in the client's poll loop, `FrameDecoder` | specification |
| `HttpProbe` | `HttpProbe`, the poll of `/diagnostics` | actions used by `ClientApp` |
| `ClientApp`, `MCClientApp` | `client_app.cpp`, the health line of `terminal_ui.cpp` | specification and instance |
| `Collector`, `MCCollector` | `metrics_collector.cpp`, `linux_samples.cpp`, `linux_source.cpp` | specification and instance |
| `JsonText`, `MCJsonText` | `json/parser.cpp`, the serializer of `json/utils.cpp`, `utf8.hpp` | operators, and reference definitions |
| `RunqLatency` | `runqlat.bpf.c`, the attachment in `tools/scheduler/main.cpp` | specification |
| `StreamSessionProofs`, `ReactorProofs`, `WorkerProofs`, `ServerProofs`, `StreamConnectionProofs`, `ClientAppProofs`, `CollectorProofs`, `RunqLatencyProofs` | the module of that name | theorems |

### OutputQueue and StreamSession

A queue is the record `[current, pending, offset]` with the class's own members.
A buffer is the pair of a generation and a size; the null pointer is the buffer of
size 0, which no real buffer has. `Peer` is the reader: how far it is in which
frame, the last whole frame, and `torn` once it was handed bytes that do not
continue its frame. `StreamSession` pushes any generation that is not older than
the newest pushed one (the reactor may push the same one twice, see below) at any
moment and lets the socket take any number of bytes.

`LatestWins` knows no bytes: one generation that may still be replaced, one the
subscriber has a part of, one it has whole. The refinement mapping makes the
frame at offset 0 (or the parked one) the replaceable generation and the partly
sent frame the committed one.

### Reactor

`pc` says which loop of which function the thread is in, so there is one step per
system call: between two calls the worker may publish, time may pass and clients
may do anything. `batch` holds the events that `epoll_wait` returned and that are
not handled yet, as a set, because their order is not specified. What the kernel
answers is a free choice among the answers the code tells apart: any part sent or
read, would-block, an error, EMFILE. A request is the number of its bytes, a
response its size. Clocks are ticks since the time point, in units of the 100 ms
timer, and stop once they are past every comparison. `interest` is the mask last
given to epoll.

| Action | Code |
|---|---|
| `EpollWait`, `Shutdown`, `Take`, `Handle*`, `Settle` | `Run` |
| `AcceptNothing`, `AcceptExhausted`, `AcceptSkipped`, `AcceptSession` | `Accept` |
| `ReadNothing`, `ReadInterrupted`, `ReadPart`, `ReadRequest` | `Read` |
| `WriteSome`, `WriteNothing`, `WriteEnds` | `Write` |
| `SweepClose`, `SweepDone` | `Sweep`, then `Broadcast` |
| `StartBroadcast` (inside the handlers), `BroadcastTo`, `BroadcastDone` | `Broadcast` |
| `Enqueued`, `BytesEnqueued`, `Fits` | `Enqueue` with its rollback |
| `Fail` | `Check` throwing out of `Run` |
| `Publish`, `Notify`, `Tick`, `Signal` | the worker, the timer, the user |

A stream client accepted between Publish and Broadcast gets the generation from
Accept and again from Broadcast: `last_sequence_` is only set by Broadcast. The
properties allow this (delivery is monotone, not strictly).

`Subscriber(t)` maps the session with token `t` to `LatestWins` as `StreamSession`
maps its one queue; `SubscribersGetLatest` asks it of every step and every stream
session that survives the step. `StreamSession` is the queue under any pushes and
sends; this is the queue under the pushes and sends that the reactor really makes,
among other sessions, with the rollback of Enqueue.

### Worker and Server

`step` is the position in the worker's lambda, `main` that of `ServerApp::Run`.
Collect returns or throws; Publish stores or throws, after the number was taken.
Time passes between any two steps, so a collection takes any number of ticks.
`Server` extends `Reactor` and instantiates `Worker`, both unchanged, over common
`latest` and `notification`; the worker's Publish and Notify take the place of the
reactor's environment, and the reactor's return enables RequestStop. Its own
specification is `ServerSpec`; `Spec` is the reactor's. `ReactorSpec` checks that the
composition loses nothing: every behaviour of it is one of `Reactor`.
`OnlyPublishedIsSent` relates what clients hold to the worker's history.

### StreamConnection

`pc` goes round the poll loop: Tick, poll, the recv loop of Handle, and the feed
loop over one buffer. The server sends frames of any announced length, valid or
not, cut anywhere. `wire` is the truth about the connection, against which the
decoder and the deadlines are compared: the frame the server is in, the bytes recv has
delivered since its start, and when the first was looked at. It is counted without the
decoder: recv adds to it, and a frame is over when the bytes read reach the length the
server announced, so a decoder that stops early, runs over or starts anew at the wrong
place is somewhere else than `BytesRead`. `failures` and `waited` are history variables that
count disconnects since the last whole frame and the ticks since the last one.

### HttpProbe and ClientApp

The loop of `ClientApp::Run` again, now for what it does with whole snapshots: `pc`
goes through tick (or a line of the recording), the handlers, the keys and the
screen. `HttpProbe` is a module of actions on variables of its own, which the loop
takes where the code calls `probe->Tick` and `probe->Handle`. A reply is a sequence
of parts (status, end of header, pieces of body) cut anywhere by `recv`; each part
remembers its connection, so a value mixed from two replies shows. A snapshot is
its instance and its sequence; a server may repeat one, skip some, or be replaced
by another instance. The filter is its length. `taken` and `printed` are history
variables.

### Collector

`pc` is the section `Collect` is in, and inside a section each read of a file is a
step: the list of PIDs, every `/proc/<pid>/stat`, `/proc/net/dev` and then every
`ifindex`, the inode of the cgroup and then its files. Between two steps the
machine changes. Nothing is assumed of the values of a counter: a stored one only
knows where the counter is against it now (`now`): the same, moved on, or gone back
behind it. `CounterRate` asks for a counter that has not gone back (one that stands
still has the rate 0), `CpuUsage` for times of which none went back and whose sum
grew. `life` says which of several things of one name
is there; it is what starttime, ifindex and inode identify. A rate keeps the
baseline it was computed from, so the properties can ask how old that was and whose.

A section that throws is "unavailable"; a section's own early returns, its `clear()`
calls and the order in which states overwrite each other (a disk section that is
both "partial" and "warming_up") are as in the code. Values that are only reported
are left out.

### JsonText

Parser and serializer as operators over sequences of bytes, with the two passes of
`ParseString`, the limits of depth, nodes and keys as constants, and the integer
ranges as constants. The reference definitions in `MCJsonText` are of another kind:
trees written out by the serializer, sequences of UTF-16 code units, code points,
and the grammar of RFC 8259. A behaviour is one call of `Parse`. `JsonText` uses
RECURSIVE operators, so nothing is proved about it.

### RunqLatency

A kernel (external) moves threads between asleep, waiting, running and gone, and
calls the four programs. A time stamp is known by whether it was taken in the wait
its thread is in. Lookup and read of `on_switch` are two steps, because an entry of
an LRU map can be evicted and reused by another CPU in between; an update may fail;
the programs are attached one after the other. Assumed of the kernel:
`sched_wakeup` fires for a thread that still runs or was preempted on its way to
sleep, too; a thread is not woken while it is being switched in (the run queue's
lock); `preempt` means that the thread stays runnable whatever its state says.

## 3. The runs

| Run | Instance | Shows |
|---|---|---|
| `stream_session` | 3 generations, frames of 1 to 3 bytes, 5 pushes | conservation, and `LatestWins` |
| `reactor_safety` | 2 clients, 2 connections, 2 generations of 2 bytes, budget 3, batches of 2 | accounting, budget, epoll interest, nobody left behind, whole streams, `LatestWins` for each, deadlines |
| `reactor_liveness` | 1 client, batches of 2, two recv and two accept calls | requests end, stalled clients go, listeners come back |
| `reactor_batches` | batches of 3, 2 connections, 2 accepts per event | an old event never reaches a new session |
| `worker` | interval 2, clock 7, 3 numbers | grid, numbering, publication, stop |
| `server` | 1 client, 2 generations, 1-byte frames | composition, nothing but published generations sent, broadcast of what is published, one signal or a failure ends the process |
| `stream_connection` | 2-byte header, payloads up to 2, reads up to 4, 2 addresses, pauses of 2, 4 and (at the limit) 5 | boundary, frame deadline, back-off, stalls, rotation, quit |
| `client_app` | 2 servers, 3 sequences, 3 snapshots, histories of 2; 3 probes; all keys | gaps, histories, `--once`, the probe's value, LIVE |
| `collector` | 2 CPU lines, 2 PIDs, one interface, disk and cgroup, 2 lives each | rates over one interval of one thing, and readiness that comes back |
| `json_text` | trees of 3 levels under limits of 3 levels, 5 nodes and 2 keys; literals of 3 pieces; numbers and names of a few bytes | parser and serializer against the references |
| `run_queue_latency` | 2 CPUs, 3 thread ids, a map of 2 entries | every sample lies within one wait |
| `sequence_gap` | as `worker` | the disagreement of section 6 |

Why the bounds are enough. A push can meet an empty queue, an unstarted frame, a
started one, and a started one with a frame parked: three generations and frames
of two bytes reach all four. Budget 3 with two-byte frames makes the second frame
of a broadcast overflow while the first stays. Batches of two hold a closing and
a stale event; batches of three add the listener in between that could reuse the
token. The clock of `Worker` lets a collection end before, on and up to three
points after the next grid point. A client recv of four bytes can end one frame
and hold the whole next one. Three snapshots of two servers can leave a server and
come back to it. Three connections of the probe can fail between two that succeed.
In `MCCollector` and `MCClientApp` the variable `scene` names the part that changes
in a behaviour (one section's files; the stream, the probe or the keys): the parts
keep their state apart, and the product of all would add interleavings but no
interaction. Within a scene nothing is restricted; in every scene of `MCCollector` the
times of the CPUs can also move on before each sample. Servers are interchangeable, so
`MCClientApp` uses symmetry; it checks no liveness. A map of two entries under three
thread ids is full when the third thread is woken. Limits of the code (32 accepts, 8 reads, 16 recv
calls, 64 events, 64 KiB per write) are constants with small values; the loops are
the same. Time-outs are 0 to 2 ticks: only the order of a deadline and the other
events matters. `MaxGen`, `MaxConnections`, `MaxPushes`, `MaxTime`,
`MaxLives`, `MaxProbes`, `MaxSequence`, `MaxFrames`, `MaxScroll` and `MaxLength` are
the only bounds that are not limits of the code; they cap what grows for ever.
Deadlock checking is off where these bounds, a stopped reactor or a returned
process end the behaviour.

Every property has a mutant in `PROJECT.json`: a changed definition (marked
`Mutant` in the module) under which TLC must find it violated.

## 4. Fairness

- The reactor thread, the worker, the main thread and the client's loop are
  runnable threads: weak fairness of their steps.
- The timerfd of 100 ms expires: weak fairness of `Tick`. In the client, time
  passes: weak fairness of `Time`. In `Server` no fairness of the
  worker's clock is assumed, since a stop must end a sleep without it.
- epoll is level-triggered and moves a reported descriptor to the tail of its ready
  list, so a descriptor that stays ready is reported although more are ready than
  a batch holds: strong fairness of reporting the timer and the signal, and of
  nothing else.
- `Collector`: the worker keeps running, weak fairness of its steps. `ReadyAgain`
  assumes no fairness of the machine; it speaks of behaviours in which failures end,
  no CPU comes or goes any more, and the times of every CPU grow between two samples.
- The reactor's liveness assumes nothing of clients, of notifications or of the worker.

## 5. The proofs

All theorems hold for every value of the constants under the named assumptions
`BoundsAssumption`, `LimitsAssumption`, `WorkerAssumption`, `ServerAssumption` (what
`Worker` adds to `Reactor`), `ClientAssumption`, `ProbeAssumption`, `ClientAppAssumption`,
`CollectorAssumption`, `RunqAssumption`: natural numbers, positive sizes and loop
limits, and names that are apart. Two of them say more: the largest shift of the
back-off is below the number at which `attempts_` stops counting (5 and 16 in the
code), and a reply to the probe is a status, a header and one object (`IsReply`), of
which no proper prefix is an object. TLC evaluates all of these in the runs.

| Theorem | States |
|---|---|
| `StreamSessionProofs!FramesIntact`, `Conservation`, `DeliveryIsMonotone` | no spliced frames, no uncounted loss, no step back |
| `StreamSessionProofs!ImplementsLatestWins` | the byte-level queue implements `LatestWins` |
| `ReactorProofs!TypeCorrect`, `AccountingExact`, `BudgetNeverExceeded` | `queued_bytes_` is the exact sum and within the budget |
| `ReactorProofs!NoLostWakeup`, `NobodyLeftBehind` | epoll is asked for exactly what a session needs; every stream client gets what was last broadcast or newer |
| `ReactorProofs!TokensAreNeverReused`, `DeadlinesMoveByProgress` | no old event reaches a new session; new generations do not put off a write deadline |
| `ReactorProofs!StreamsAreIntact`, `SubscribersAreServed` | no client is sent bytes that do not continue its frame; every stream session implements `LatestWins` |
| `WorkerProofs!GridExact`, `SamplesNeverEarly`, `SleepsTowardsTheFuture` | the sampling grid |
| `WorkerProofs!NumbersUsedOnce`, `StopEndsPublishing` | the numbering, and nothing published after a stop |
| `ServerProofs!ServerImplementsReactor`, `ServerImplementsWorker` | the process is a behaviour of each of its parts |
| `ServerProofs!ProcessServesClients`, `ProcessKeepsSampling` | every safety property of the reactor and of the worker, of the process |
| `ServerProofs!ClientsGetPublished` | clients have, and are going to get, only what was published |
| `StreamConnectionProofs!BoundaryKept`, `FrameDeadlineHeld`, `BackoffIsHeld` | the client's framing, its frame deadline, its pauses |
| `ClientAppProofs!GapsAreExact`, `HistoriesAreOfOneInstance`, `OnceIsOnce`, `LiveIsNewest` | what the client counts, keeps, prints and shows |
| `ClientAppProofs!ProbeShowsLastReply` | the diagnostics shown are of one whole reply, the last |
| `CollectorProofs!RatesSpanOneInterval`, `RatesStayInOneLife` | rates over one interval and of one thing |
| `RunqLatencyProofs!SamplesWithinWaits` | a latency sample lies within one wait |

The arguments:

- *StreamSession.* The inductive invariant is the type, the class invariant of the
  queue, frame integrity (reader and offset agree), conservation and the order
  *last whole <= current <= pending*. Integrity needs the class invariant (a frame
  waits only behind a started one), and monotone delivery needs the order.
- *Reactor.* `queued_bytes_` is changed by differences, so exactness is only
  inductive together with well-formed queues. The sum is stated as the cardinality
  of the set of outstanding (token, byte) pairs; a lemma says how it changes when
  one session is replaced, added or removed, and every action uses it once. The
  budget then follows from the test in Enqueue: what does not fit is rolled back
  before Enqueue returns. Inside that call `queued_bytes_` is above the budget for a
  moment; nobody else reads it there, and it is one step of the model.
  The delivery properties rest on a second invariant, `ClientsOK`, over the first:
  every event in the batch is older than the next token (`EventsAreOld`), only
  requests are read (`ReadsRequest`), the mask is right for every session but the one
  being handled (`Registered`), and a stream client is at `last_sequence_` or ahead
  unless the broadcast in progress has yet to reach it (`Served`). The last two depend
  on `pc`: Run calls Modify when Read and Write are done, and Broadcast sets
  `last_sequence_` before it has visited everyone.
  The streams need a third, `StreamsOK`: the reader stands at the queue's offset, what
  it has, is being sent and will be sent is in order, and nothing in a stream is newer
  than the shared state nor, during a broadcast, than the generation being broadcast.
  The last part is why a client accepted between Publish and Broadcast never goes back:
  Accept cannot run inside a broadcast, and the next one loads a state at least as new.
  `StreamSteps` reduces the whole reactor to what can happen to one stream in a step
  (kept, given the generation of Accept or of the broadcast, some bytes taken, or
  gone); the rest is lemmas about one queue and its reader. The rollback of Enqueue is
  none of these: it leaves a queue that does not fit its reader, and the proof goes
  through because Broadcast removes that session in the same step.
- *Worker.* `GridAccounted` alone is not inductive for the scheduling step:
  `NeverEarly` supplies that the current point has passed, and the division lemma
  `MissedLands` that stepping over the missed points lands on the first one ahead.
- *Server.* `SharedOK` says what each thread may assume of the two shared variables:
  the number about to be published is newer than the one stored, and a notification
  follows a publication. With it the worker's Publish and Notify are the reactor's
  environment steps and every other step of one thread is a stutter of the other. So
  the theorems of `ReactorProofs` and `WorkerProofs` are theorems of the process, too:
  `ServerProofs` extends the first and instantiates the second (`WP`), and
  `SameWorker` says that both instances of `Worker` are the same. For
  `ClientsGetPublished` the two sides meet: the worker's invariant says that what is
  stored is published, `BroadcastLoads` that the reactor broadcasts only what it loaded,
  and `StreamSteps` that a stream takes its generations from nowhere else.
- *StreamConnection.* The decoder holds an incomplete frame of a legal length
  (`DecoderOK`), it stands where the server's stream stands (`InSync`), and the
  deadline started with the first byte (`DeadlineOK`). The lemma `FeedStep` says
  that Feed consumes at least one and at most the given bytes, which also shows that
  the inner loop of Handle terminates, that it holds exactly these, and that it is
  short of the announced end while the frame is incomplete and on it when it is
  complete. `FeedTurn` carries this over to the server's count of bytes. For the back-off,
  `PauseOK` says that the time waited plus the time still to wait is at least half of
  the pause; that the counter of failures saturates shortens none, because the shift
  saturates first (`CapSaturates`). That the pause doubles is its definition; no fact
  about powers of two is needed.
- *HttpProbe and ClientApp.* What the probe has read is a prefix of the reply on its
  own connection, so an object that ends there is the whole of it: `Accepted` tells
  the last part of a reply from every earlier one. In the client, `current` is the
  last snapshot taken (`LastTaken`), the histories are of its instance, in order and
  not past it (`HistoryOK`), and what is visible is current unless paused (`Shown`).
  The gap counter is compared with the cardinality of a set of (place, number) pairs,
  to which a snapshot that is taken adds an interval of numbers at a new place.
- *Collector.* That a rate spans one interval depends on where Collect is: `AgeOK`
  says that a baseline is of this sample if its section is over (`Seen`) and of the
  last one if it is still to come, and every section hands over all of its baselines
  or none. `LifeOK` adds that a CPU has one life and that what is stored of a process
  carries the identity of its life. `Spec` lets every part of the machine change at
  any time, where the instance changes one section's inputs in one behaviour.
- *RunqLatency.* The map holds nothing old of a thread whose wait was recorded
  (`WaitStamped`), nor does a CPU that has looked a stamp up (`LookupStamped`). The
  second needs that the thread stays in its wait until that CPU has finished, hence
  `OnePlace` (no two CPUs run or switch to one thread) and `RunningRuns`.

Only model-checked: all liveness (fairness is beyond the prover), which leaves
`PublishedIsBroadcast`, `ShutdownCompletes`, `RequestsEnd`, `StalledClientsGo`,
`ListenersResume`, `StalledServerLeft`, `KeepsTrying`, `QuitHeard` and `ReadyAgain` to TLC; and what recursive definitions compute, which
leaves the four properties of `JsonText`. Every other property of the runs is a
theorem.

## 6. A disagreement with the documentation

`docs/protocol.md` says "Gaps indicate skipped published generations" and the
README "a sequence gap identifies skipped complete generations". The worker takes
the number before it publishes (`server_app.cpp:85`), and a publication that
throws (a payload above 8 MiB) has used it up: the next frame shows a gap for a
generation that nobody published. Run `sequence_gap` gives the behaviour.

Three smaller observations, none a wrong result. Two samples between which the times
of a CPU in `/proc/stat` do not grow at all give no usage for it (the sum of the
differences must be positive), so the section is "partial" and `/ready` answers 503
for that snapshot although everything could be read; `ReadyAgain` therefore asks that
the times grow. `RatesOfOneLife` names the
exceptions the code leaves: a network row and its ifindex, or the cgroup's inode and
its cpu.stat, come from two reads, so a replacement exactly between them can be
charged to the wrong one for one sample; a disk row has no identity but its numbers
and name. And `docs/scheduler.md` says that an exit removes the stamp of a TID: a
thread that is woken after that on its last way to sleep leaves another one behind,
which `on_new_task` overwrites before the next thread of that id can use it
(`SampleWithinWait`).

## 7. Not modelled

- Text of HTTP responses, diagnostics, status lines and log messages; the
  counters that only `/diagnostics` shows (`dropped_` is kept in `StreamSession`).
- `Listen` and start-up failures: they happen before there is any state.
- Memory order of the atomic pointer: a release store and an acquire load of one
  pointer to an immutable object behave as one atomic variable.
- The HTTP request parser, `Decode`, the metric models and `ServerConfig`: stateless
  conversions, covered by unit tests; the reactor sees the size of a response.
- `TerminalUi` besides its health line: layout and terminal I/O.
- The range of a double in a JSON number: `Representable` states what
  `std::from_chars` is taken to do, and the reference uses the same rule.
- The branch `now < begin` of `on_switch`, a clock that is behind a stamp read before
  it: the model counts a sample there, which only asks more of `SampleWithinWait`.
- Values: percentages, the buckets of the histogram, how doubles are rounded and
  written, the accessors of `JSONValue` and pretty printing.
- Allocation failures inside `Collect`, which the section's handler turns into
  "unavailable" with the baselines as they were.
- DNS (`Resolve`): it runs once and gives the number of addresses.

## 8. What could follow

`HttpRequest` with `Route`, and the length field of a frame byte by byte.
