----------------------------- MODULE ClientApp -----------------------------
(***************************************************************************)
(* The terminal client (client/src/app/client_app.cpp): the poll loop that *)
(* feeds one stream, one probe, the keyboard and the screen, or replays a  *)
(* recording.                                                              *)
(*                                                                         *)
(* StreamConnection models how frames are cut out of the byte stream; here *)
(* a connection (external) brings frames of one server instance, each as   *)
(* new as the one before or newer: a server repeats a generation when the  *)
(* client connects before its broadcast, and when it connects again.  A    *)
(* frame is its instance and its sequence.                                 *)
(***************************************************************************)
EXTENDS HttpProbe, FiniteSets

CONSTANTS
    Instances,    \* server processes, each with its instance_id
    None,         \* no connection, no snapshot
    HistorySize,  \* 120
    FilterSize,   \* 64
    StaleAfter,   \* three intervals, in ticks
    MaxSequence,  \* bound: sequence numbers
    MaxFrames,    \* bound: snapshots accepted
    MaxScroll     \* bound: rows scrolled

Frames == [instance : Instances, sequence : 1..MaxSequence]

ASSUME ClientAppAssumption ==
    /\ None \notin Instances \cup Frames
    /\ {HistorySize, FilterSize, StaleAfter, MaxSequence, MaxFrames, MaxScroll} \subseteq Nat \ {0}

VARIABLES
    options,     \* once, replay, and whether there is a terminal
    pc,          \* where the loop is
    stopped,     \* the flag of the signal handler
    quit,
    current, visible, gaps, history, age,   \* receive: snapshots, view.sequence_gaps, the histories
    view,        \* what keys change, and view.connection
    replaying,   \* the recording is open
    screen,      \* the health drawn last
    link,        \* the server connected to (external)
    delivered,   \* the newest sequence each instance has sent (external)
    printed,     \* lines written to std::cout (history)
    taken        \* the snapshots accepted (history)

app == <<current, visible, gaps, history, age, printed, taken>>
wire == <<link, delivered>>
others == <<pvars, options, stopped>>
vars == <<pvars, options, pc, stopped, quit, app, view, replaying, screen, wire>>

Init ==
    /\ ProbeInit
    /\ options \in [once : BOOLEAN, interactive : BOOLEAN, replay : BOOLEAN]
    /\ pc = "tick" /\ stopped = FALSE /\ quit = FALSE
    /\ current = None /\ visible = None /\ gaps = 0 /\ history = <<>> /\ age = 0
    /\ view = [page |-> 1, help |-> FALSE, sort |-> "c", scroll |-> 0, filter |-> 0, kept |-> 0,
               editing |-> FALSE, paused |-> FALSE, connection |-> "none"]
    /\ replaying = options.replay /\ screen = "none"
    /\ link = None /\ delivered = [i \in Instances |-> 0]
    /\ printed = 0 /\ taken = <<>>

----------------------------------------------------------------------------
(***************************************************************************)
(* receive.                                                                *)
(***************************************************************************)
SameInstance(f) == current # None /\ current.instance = f.instance

\* Mutant: a snapshot seen before is taken again.
NeverRepeated(f) == FALSE

Repeated(f) == SameInstance(f) /\ f.sequence <= current.sequence

\* Mutant: the histories go on over a restart of the server.
KeepEverything(f) == history

\* The histories of another instance are cleared.
Kept(f) == IF SameInstance(f) THEN history ELSE <<>>

\* push_back, and pop_front of what is too old.
Pushed(h, f) == IF Len(h) < HistorySize THEN Append(h, f) ELSE Append(Tail(h), f)

\* Mutant: every frame of a Handle is printed.
NeverEnough == FALSE

Enough == options.once /\ quit

Receive(f) ==
    \/ /\ Enough \/ Repeated(f)
       /\ UNCHANGED <<quit, app>>
    \/ /\ ~Enough /\ ~Repeated(f)
       /\ gaps' = gaps + (IF SameInstance(f) THEN f.sequence - current.sequence - 1 ELSE 0)
       /\ history' = IF view.paused THEN Kept(f) ELSE Pushed(Kept(f), f)
       /\ printed' = printed + (IF options.once \/ ~options.interactive THEN 1 ELSE 0)
       /\ current' = f /\ age' = 0
       /\ visible' = IF view.paused THEN visible ELSE f
       /\ quit' = (quit \/ options.once)
       /\ taken' = Append(taken, f)

----------------------------------------------------------------------------
(***************************************************************************)
(* The loop: the ticks, or a line of the recording, then what poll found.  *)
(***************************************************************************)
Running == ~stopped /\ ~quit

Leave ==
    /\ pc = "tick" /\ ~Running
    /\ pc' = "done"
    /\ UNCHANGED <<others, quit, app, view, replaying, screen, wire>>

\* stream->Tick may give up the connection or open the next one.
TickStream ==
    /\ pc = "tick" /\ Running /\ ~options.replay
    /\ pc' = "handle"
    /\ ProbeTick
    /\ link' \in {link, None} \/ (link = None /\ link' \in Instances)
    /\ UNCHANGED <<options, stopped, quit, app, view, replaying, screen, delivered>>

\* The next line is not due, or the recording was closed.
ReplayWaits ==
    /\ pc = "tick" /\ Running /\ options.replay
    /\ pc' = "keys"
    /\ UNCHANGED <<others, quit, app, view, replaying, screen, wire>>

\* A line: recordings are appended to, so it may be of any instance.
ReplayLine(f) ==
    /\ pc = "tick" /\ Running /\ replaying /\ Len(taken) < MaxFrames
    /\ pc' = "keys"
    /\ Receive(f)
    /\ UNCHANGED <<others, view, replaying, screen, wire>>

ReplayEnds ==
    /\ pc = "tick" /\ Running /\ replaying
    /\ pc' = "keys"
    /\ replaying' = FALSE /\ view' = [view EXCEPT !.connection = "replay_finished"]
    /\ quit' = ~options.interactive
    /\ UNCHANGED <<others, app, screen, wire>>

\* A line that does not decode, a failed poll, a recording that cannot be written.
Fail ==
    /\ \/ pc = "tick" /\ Running /\ replaying
       \/ pc = "keys" /\ options.replay
       \/ pc = "handle"
    /\ pc' = "failed"
    /\ UNCHANGED <<others, quit, app, view, replaying, screen, wire>>

\* stream->Handle calls receive for every frame it completes.
HandleFrame(n) ==
    /\ pc = "handle" /\ link # None /\ Len(taken) < MaxFrames
    /\ n >= delivered[link]
    /\ delivered' = [delivered EXCEPT ![link] = n]
    /\ Receive([instance |-> link, sequence |-> n])
    /\ UNCHANGED <<others, pc, view, replaying, screen, link>>

\* Handle returns; it may have closed the connection.
HandleEnds ==
    /\ pc = "handle"
    /\ pc' = "probe"
    /\ link' \in {link, None}
    /\ UNCHANGED <<others, quit, app, view, replaying, screen, delivered>>

Probe ==
    /\ pc = "probe"
    /\ pc' = "keys"
    /\ ProbeHandle
    /\ UNCHANGED <<options, stopped, quit, app, view, replaying, screen, wire>>

----------------------------------------------------------------------------
(***************************************************************************)
(* Keys.  The filter is its length.                                        *)
(***************************************************************************)
Keys == {"enter", "esc", "del", "q", "1", "2", "3", "4", "5", "6", "h", "space", "slash",
         "c", "m", "p", "t", "j", "k", "g", "x"}

Page(k) == CHOOSE n \in 1..6 : <<"1", "2", "3", "4", "5", "6">>[n] = k

\* While the filter is edited every printable key is text.
Edited(k) ==
    CASE k = "enter" -> [view EXCEPT !.editing = FALSE, !.scroll = 0]
      [] k = "esc"   -> [view EXCEPT !.editing = FALSE, !.filter = view.kept, !.scroll = 0]
      [] k = "del"   -> [view EXCEPT !.filter = IF @ = 0 THEN 0 ELSE @ - 1, !.scroll = 0]
      [] OTHER       -> [view EXCEPT !.filter = IF @ < FilterSize THEN @ + 1 ELSE @, !.scroll = 0]

Commanded(k) ==
    CASE k \in {"1", "2", "3", "4", "5", "6"} -> [view EXCEPT !.page = Page(k), !.scroll = 0]
      [] k = "h" -> [view EXCEPT !.help = ~@]
      [] k = "space" -> [view EXCEPT !.paused = ~@]
      [] k = "slash" -> [view EXCEPT !.kept = view.filter, !.editing = TRUE]
      [] k \in {"c", "m", "p", "t"} -> [view EXCEPT !.sort = k]
      [] k = "j" -> [view EXCEPT !.scroll = @ + 1]
      [] k = "k" /\ view.scroll > 0 -> [view EXCEPT !.scroll = @ - 1]
      [] k = "g" -> [view EXCEPT !.scroll = 0]
      [] OTHER   -> view

\* Mutant: the frozen snapshot stays until the next one arrives.
StaysFrozen(k) == visible

\* The view that is no longer frozen shows the newest snapshot at once.
Thawed(k) ==
    IF k = "space" /\ ~view.editing /\ view.paused /\ current # None THEN current ELSE visible

Key(k) ==
    /\ pc = "keys" /\ options.interactive
    /\ k = "j" => view.scroll < MaxScroll
    /\ view' = IF view.editing THEN Edited(k) ELSE Commanded(k)
    /\ quit' = (quit \/ (~view.editing /\ k = "q"))
    /\ visible' = Thawed(k)
    /\ UNCHANGED <<others, pc, current, gaps, history, age, printed, taken, replaying, screen, wire>>

\* No more keys; it may not be time to draw.
KeysEnd ==
    /\ pc = "keys"
    /\ pc' \in {"draw", "tick"}
    /\ UNCHANGED <<others, quit, app, view, replaying, screen, wire>>

----------------------------------------------------------------------------
(***************************************************************************)
(* The screen (ui::Render).                                                *)
(***************************************************************************)
Connection ==
    IF ~options.replay THEN "stream_status"
    ELSE IF replaying THEN "replaying_recorded_telemetry" ELSE view.connection

Health(v) ==
    CASE v.paused         -> "FROZEN_VIEW"
      [] ~v.paused /\ visible = None -> "WAITING"
      [] ~v.paused /\ visible # None /\ age > StaleAfter -> "STALE"
      [] OTHER -> IF v.connection \in {"replaying_recorded_telemetry", "replay_finished"}
                  THEN "REPLAY" ELSE "LIVE"

Draw ==
    /\ pc = "draw"
    /\ pc' = "tick"
    /\ view' = [view EXCEPT !.connection = Connection]
    /\ screen' = IF options.interactive THEN Health(view') ELSE screen
    /\ UNCHANGED <<others, quit, app, replaying, wire>>

----------------------------------------------------------------------------
Active == pc \notin {"done", "failed"}

OnSignal ==
    /\ Active /\ ~stopped /\ stopped' = TRUE
    /\ UNCHANGED <<pvars, options, pc, quit, app, view, replaying, screen, wire>>

\* A tick; the age of the snapshot is only asked whether it is too old.
Time ==
    /\ Active
    /\ ProbeTime
    /\ age' = IF age > StaleAfter \/ current = None THEN age ELSE age + 1
    /\ UNCHANGED <<options, pc, stopped, quit, current, visible, gaps, history, printed, taken,
                   view, replaying, screen, wire>>

Loop ==
    \/ Leave \/ TickStream \/ ReplayWaits \/ ReplayEnds \/ Fail
    \/ \E f \in Frames : ReplayLine(f)
    \/ \E n \in 1..MaxSequence : HandleFrame(n)
    \/ HandleEnds \/ Probe
    \/ \E k \in Keys : Key(k)
    \/ KeysEnd \/ Draw

Next == Loop \/ OnSignal \/ Time

Spec == Init /\ [][Next]_vars

----------------------------------------------------------------------------
(***************************************************************************)
(* Properties.                                                             *)
(***************************************************************************)

\* The gap counter is the number of generations that lie between snapshots
\* accepted one after the other from one instance: a reconnect that repeats a
\* snapshot, a recording out of order and a restarted server add nothing.
GapsExact ==
    gaps = Cardinality({g \in (1..Len(taken) - 1) \X (1..MaxSequence) :
               /\ taken[g[1]].instance = taken[g[1] + 1].instance
               /\ taken[g[1]].sequence < g[2] /\ g[2] < taken[g[1] + 1].sequence})

\* The curves on the screen are of the server that is shown in the status
\* line, in the order it sampled them, at most HistorySize of them: after a
\* restart, behind another address or within a replayed recording too.
HistoryOfOneInstance ==
    /\ Len(history) <= HistorySize
    /\ \A i \in 1..Len(history) : history[i].instance = current.instance
    /\ \A i \in 1..Len(history) - 1 : history[i].sequence < history[i + 1].sequence

\* With --once one snapshot is printed and the client ends, however many
\* frames the Handle in progress still delivers.
OncePrintsOne == options.once => printed <= 1 /\ (printed = 1 => quit)

\* The screen says LIVE only for the newest snapshot received, from a server,
\* not older than three intervals; keys and frames in one turn of the loop
\* included.
LiveMeansNewest ==
    [][pc = "draw" /\ pc' = "tick" /\ screen' = "LIVE" =>
         /\ visible = current /\ current # None
         /\ age <= StaleAfter /\ ~options.replay /\ ~view.paused]_vars
=============================================================================
