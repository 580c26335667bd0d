------------------------------- MODULE Worker -------------------------------
(***************************************************************************)
(* The collector thread and the main thread of ServerApp::Run              *)
(* (server/src/app/server_app.cpp): collect, number, publish, notify,      *)
(* sleep until the next point of the sampling grid, and stop when the      *)
(* reactor has returned.                                                   *)
(*                                                                         *)
(* A snapshot is abstracted to its sequence number, the steady clock to    *)
(* ticks that pass between any two steps.                                  *)
(***************************************************************************)
EXTENDS Naturals

CONSTANTS
    Interval,   \* ServerConfig::poll_interval, in ticks
    MaxGen,     \* bound: generations numbered
    MaxTime     \* bound: the clock

ASSUME WorkerAssumption == Interval \in Nat \ {0} /\ MaxGen \in Nat /\ MaxTime \in Nat

VARIABLES
    step,          \* where the lambda of the worker is
    main,          \* where ServerApp::Run is
    stop,          \* stop_requested()
    now,           \* steady_clock
    next,          \* the local of the same name: the next sampling time
    sequence,      \* the local of the same name
    skipped,       \* the local of the same name
    cycles,        \* times round the loop (history)
    published,     \* the generations SharedState has ever held (history)
    latest,        \* generation held by SharedState, 0 before the first
    notification   \* the eventfd is readable

private == <<step, main, stop, now, next, sequence, skipped, cycles, published>>
vars == <<private, latest, notification>>

TypeOK ==
    /\ step \in {"check", "collect", "number", "publish", "notify", "schedule", "wait", "done"}
    /\ main \in {"reactor", "join", "returned"}
    /\ stop \in BOOLEAN /\ notification \in BOOLEAN
    /\ now \in Nat /\ next \in Nat
    /\ sequence \in 0..MaxGen /\ latest \in 0..MaxGen
    /\ skipped \in Nat /\ cycles \in Nat
    /\ published \subseteq 1..MaxGen

Init ==
    /\ step = "check" /\ main = "reactor" /\ stop = FALSE
    /\ now = 0 /\ next = 0
    /\ sequence = 0 /\ skipped = 0 /\ cycles = 0
    /\ published = {} /\ latest = 0
    /\ notification = FALSE

\* The condition of the loop.
Check ==
    /\ step = "check"
    /\ step' = IF stop THEN "done" ELSE "collect"
    /\ UNCHANGED <<main, stop, now, next, sequence, skipped, cycles, published, latest,
                   notification>>

\* Collect returns a snapshot, complete or cut short by the stop token.
Collect ==
    /\ step = "collect" /\ sequence < MaxGen
    /\ step' = "number"
    /\ UNCHANGED <<main, stop, now, next, sequence, skipped, cycles, published, latest,
                   notification>>

CollectThrows ==
    /\ step = "collect"
    /\ step' = "schedule"
    /\ UNCHANGED <<main, stop, now, next, sequence, skipped, cycles, published, latest,
                   notification>>

\* Mutant: the snapshot is published although a stop was requested meanwhile.
NumberWithoutCheck ==
    /\ step = "number"
    /\ step' = "publish" /\ sequence' = sequence + 1
    /\ UNCHANGED <<main, stop, now, next, skipped, cycles, published, latest, notification>>

\* Mutant: the number of the last generation is used again.
NumberReused ==
    /\ step = "number"
    /\ IF stop
         THEN step' = "done" /\ UNCHANGED sequence
         ELSE step' = "publish" /\ sequence' = IF sequence = 0 THEN 1 ELSE sequence
    /\ UNCHANGED <<main, stop, now, next, skipped, cycles, published, latest, notification>>

\* The second test of the stop token, then the number is taken.
Number ==
    /\ step = "number"
    /\ IF stop
         THEN step' = "done" /\ UNCHANGED sequence
         ELSE step' = "publish" /\ sequence' = sequence + 1
    /\ UNCHANGED <<main, stop, now, next, skipped, cycles, published, latest, notification>>

\* SharedState::Publish: encode, frame and store in one atomic pointer.
Publish ==
    /\ step = "publish"
    /\ step' = "notify"
    /\ latest' = sequence /\ published' = published \cup {sequence}
    /\ UNCHANGED <<main, stop, now, next, sequence, skipped, cycles, notification>>

\* Mutant: the reactor is woken for a generation that was not published.
PublishThrowsNotifying ==
    /\ step = "publish"
    /\ step' = "schedule" /\ notification' = TRUE
    /\ UNCHANGED <<main, stop, now, next, sequence, skipped, cycles, published, latest>>

\* Mutant: the snapshot is stored before the steps that can fail.
PublishThrowsAfterStore ==
    /\ step = "publish"
    /\ step' = "schedule" /\ latest' = sequence
    /\ UNCHANGED <<main, stop, now, next, sequence, skipped, cycles, published, notification>>

\* Encoding fails (a payload above the frame limit, no memory).
PublishThrows ==
    /\ step = "publish"
    /\ step' = "schedule"
    /\ UNCHANGED <<main, stop, now, next, sequence, skipped, cycles, published, latest,
                   notification>>

Notify ==
    /\ step = "notify"
    /\ step' = "schedule" /\ notification' = TRUE
    /\ UNCHANGED <<main, stop, now, next, sequence, skipped, cycles, published, latest>>

\* Mutant: the point that is due right now is not counted.
MissedOffByOne(due) == IF due <= now THEN (now - due) \div Interval ELSE 0

\* Points of the grid that have passed when the next one is due at `due'.
Missed(due) == IF due <= now THEN (now - due) \div Interval + 1 ELSE 0

\* Mutant: the grid is left and the next sample is one interval from now.
ScheduleFromNow ==
    /\ step = "schedule"
    /\ step' = "wait" /\ cycles' = cycles + 1
    /\ skipped' = skipped + Missed(next + Interval)
    /\ next' = now + Interval
    /\ UNCHANGED <<main, stop, now, sequence, published, latest, notification>>

Schedule ==
    /\ step = "schedule"
    /\ step' = "wait" /\ cycles' = cycles + 1
    /\ skipped' = skipped + Missed(next + Interval)
    /\ next' = next + Interval + Missed(next + Interval) * Interval
    /\ UNCHANGED <<main, stop, now, sequence, published, latest, notification>>

\* Mutant: only the time ends the wait.
WakeOnTimeOnly ==
    /\ step = "wait" /\ now >= next
    /\ step' = "check"
    /\ UNCHANGED <<main, stop, now, next, sequence, skipped, cycles, published, latest,
                   notification>>

\* wait_until returns at its deadline or when a stop is requested.
Wake ==
    /\ step = "wait" /\ (stop \/ now >= next)
    /\ step' = "check"
    /\ UNCHANGED <<main, stop, now, next, sequence, skipped, cycles, published, latest,
                   notification>>

\* The reactor has returned (or thrown: ~jthread requests the stop as well).
RequestStop ==
    /\ main = "reactor"
    /\ main' = "join" /\ stop' = TRUE
    /\ UNCHANGED <<step, now, next, sequence, skipped, cycles, published, latest, notification>>

Join ==
    /\ main = "join" /\ step = "done"
    /\ main' = "returned"
    /\ UNCHANGED <<step, stop, now, next, sequence, skipped, cycles, published, latest,
                   notification>>

Time ==
    /\ now < MaxTime
    /\ now' = now + 1
    /\ UNCHANGED <<step, main, stop, next, sequence, skipped, cycles, published, latest,
                   notification>>

\* The reactor reads the eventfd (external to this module).
Drain ==
    /\ notification
    /\ notification' = FALSE
    /\ UNCHANGED <<private, latest>>

Thread ==
    \/ Check \/ Collect \/ CollectThrows \/ Number \/ Publish \/ PublishThrows
    \/ Notify \/ Schedule \/ Wake

Next == Thread \/ RequestStop \/ Join \/ Time \/ Drain

Spec == Init /\ [][Next]_vars

----------------------------------------------------------------------------
(***************************************************************************)
(* Properties.                                                             *)
(***************************************************************************)

\* The sampling grid: every point of the grid is a turn of the loop or is
\* counted in skipped_ticks, whatever the collections take.
GridAccounted == next = Interval * (cycles + skipped)

\* A late worker never leaves its deadline in the past when it goes to sleep
\* (no burst of catch-up samples), and never skips a point that is still ahead.
NextPointAhead ==
    [][Schedule => next' > now /\ next' - Interval <= now]_vars

\* The worker is never ahead of its grid: from the moment it starts a sample to
\* the moment it schedules the next, the point it works on has come.  A stop may
\* wake it early, but then it collects nothing.
NeverEarly ==
    \/ step \in {"wait", "done"}
    \/ step = "check" /\ stop
    \/ next <= now

\* Shared state and numbering: the stored generation is the newest that was
\* published, and a number is used once.
LatestIsNewest ==
    /\ \A g \in published : g <= latest
    /\ latest # 0 => latest \in published
    /\ latest <= sequence
    /\ step = "publish" => sequence \notin published

\* A stop requested before a collection returns lets nothing more be published.
NothingPublishedAfterStop ==
    [][stop /\ step \in {"check", "collect", "number", "wait"} =>
          published' = published /\ step' \notin {"publish", "notify"}]_vars

\* docs/protocol.md: "Gaps indicate skipped published generations."  A number
\* below the latest is the number of a generation that was published.
GapsWerePublished == \A g \in 1..latest : g \in published
============================================================================
