------------------------------- MODULE Server -------------------------------
(***************************************************************************)
(* ServerApp::Run as a whole: the reactor thread (Reactor) and the worker  *)
(* (Worker) share the published snapshot and the eventfd, and the main     *)
(* thread stops the worker when the reactor has returned.  Both modules    *)
(* are used as they are (the reactor's names unqualified, the worker's as  *)
(* W!...): the worker's Publish and Notify take the place of the reactor's *)
(* environment, the reactor's return that of RequestStop.                  *)
(***************************************************************************)
EXTENDS Reactor

CONSTANTS
    Interval,   \* ServerConfig::poll_interval, in ticks
    MaxTime     \* bound: the worker's clock

ASSUME ServerAssumption == Interval \in Nat \ {0} /\ MaxTime \in Nat

\* The variables of Worker; latest and notification are the reactor's.
VARIABLES step, main, stop, now, next, sequence, skipped, cycles, published

W == INSTANCE Worker

\* What each thread has to itself; latest and notification are shared.
ReactorOwn == <<pc, batch, event, alive, left, todo, sessions, next_token, queued_bytes,
                last_sequence, listeners_paused, timer, signal>>
WorkerOwn == <<step, main, stop, now, next, sequence, skipped, cycles, published>>

ServerVars == <<ReactorOwn, WorkerOwn, latest, notification>>

ServerInit == Init /\ W!Init

\* The reactor thread, the clock of its timer and the user's signal.
ReactorStep ==
    /\ Thread \/ Fail \/ Tick \/ Signal
    /\ UNCHANGED WorkerOwn

WorkerStep ==
    /\ W!Thread \/ W!Time
    /\ UNCHANGED ReactorOwn

\* reactor.Run() has returned or thrown.
StopWorker ==
    /\ ~Running
    /\ W!RequestStop
    /\ UNCHANGED ReactorOwn

JoinWorker ==
    /\ W!Join
    /\ UNCHANGED ReactorOwn

ServerNext == ReactorStep \/ WorkerStep \/ StopWorker \/ JoinWorker

(***************************************************************************)
(* Every thread is scheduled, the timer runs, and epoll does not starve a  *)
(* ready descriptor; see Fairness of Reactor.                              *)
(***************************************************************************)
ServerFairness ==
    /\ WF_ServerVars(Thread /\ UNCHANGED WorkerOwn)
    /\ WF_ServerVars(Tick /\ UNCHANGED WorkerOwn)
    /\ SF_ServerVars(Reports(kTimer) /\ UNCHANGED WorkerOwn)
    /\ SF_ServerVars(Reports(kSignal) /\ UNCHANGED WorkerOwn)
    /\ WF_ServerVars(W!Thread /\ UNCHANGED ReactorOwn)
    /\ WF_ServerVars(StopWorker) /\ WF_ServerVars(JoinWorker)

ServerSpec == ServerInit /\ [][ServerNext]_ServerVars /\ ServerFairness

----------------------------------------------------------------------------
(***************************************************************************)
(* Properties.                                                             *)
(***************************************************************************)

\* The worker is as general an environment as Reactor assumes: the reactor of
\* the whole server is a behaviour of Reactor, so its properties carry over.
ReactorSpec == Spec

\* Both threads together: whatever a stream client has, has a part of or has
\* queued was published, although the numbers of failed publications are skipped
\* and clients come and go between the worker's store and the broadcast.
OnlyPublishedIsSent ==
    \A t \in Tokens : LET s == sessions[t] IN
        s.streaming => {s.output.current.gen, s.output.pending.gen, s.peer.gen, s.peer.last}
                          \subseteq published \cup {0}

\* A published generation is broadcast or overtaken, unless the server stops.
PublishedIsBroadcast ==
    \A g \in 1..MaxGen : (latest = g) ~> (last_sequence >= g \/ ~Running)

\* One signal, or a reactor that failed, ends the process: the reactor returns, the
\* worker leaves its collection or its sleep, although the time it sleeps until may
\* never come, and the join returns.
ShutdownCompletes == (signal \/ ~Running) ~> (main = "returned")
============================================================================
