------------------------------- MODULE TuiQuit -------------------------------
(***************************************************************************)
(* Leaving the app (on_unmount, app.py) while the ECU worker or the        *)
(* keepalive is busy.  The event loop runs SessionController.close itself, *)
(* so it blocks in the keepalive's join and on the I/O lock; threads that  *)
(* log wait for the event loop (_ecu_logger: call_from_thread).            *)
(*                                                                         *)
(* Textual waits for the app's workers before it unmounts (app.py:573-576).*)
(* Two threads matter: the worker's, which connects, operates and closes,  *)
(* and the keepalive's.  Each may log while it holds the I/O lock: every   *)
(* frame when verbose, a warning of an echo or a capability otherwise.     *)
(***************************************************************************)
EXTENDS Integers

VARIABLES
    app,       \* what the event loop does
    worker,    \* what the worker's thread does
    beat,      \* what the keepalive's thread does
    session,   \* the controller holds a session
    port,      \* the session's port is open
    stop,      \* the keepalive was told to stop
    lock       \* who holds the I/O lock

vars == <<app, worker, beat, session, port, stop, lock>>

Init ==
    /\ app = "running" /\ worker = "idle" /\ beat = "none"
    /\ session = FALSE /\ port = FALSE /\ stop = FALSE
    /\ lock = "free"

LoopRuns == app \in {"running", "draining"}

----------------------------------------------------------------------------
(* The worker: connects if there is no session, then operates.             *)

Work ==
    /\ app = "running" /\ worker = "idle"
    /\ worker' = IF session THEN "acquire" ELSE "connecting"
    /\ UNCHANGED <<app, beat, session, port, stop, lock>>

\* start_session, on another lock: the session's service is not published yet.
ConnectLogs ==
    /\ worker = "connecting" /\ worker' = "connect log"
    /\ UNCHANGED <<app, beat, session, port, stop, lock>>

\* Bound: one keepalive thread; the last session's has ended by then.
Connects ==
    /\ worker = "connecting"
    /\ \/ /\ beat \in {"none", "ended"}
          /\ worker' = "up" /\ port' = TRUE /\ beat' = "wait" /\ stop' = FALSE
       \/ worker' = "failed" /\ UNCHANGED <<beat, port, stop>>
    /\ UNCHANGED <<app, session, lock>>

AfterFailure == IF session THEN "close stop" ELSE "idle"

\* The event loop learns how the worker's thread ended.
Learns ==
    /\ LoopRuns
    /\ \/ worker = "up" /\ session' = TRUE /\ worker' = "acquire"
       \/ worker = "failed" /\ worker' = "idle" /\ UNCHANGED session
       \/ worker = "op failed" /\ session' = FALSE /\ worker' = AfterFailure
    /\ UNCHANGED <<app, beat, port, stop, lock>>

OperationBegins ==
    /\ worker = "acquire" /\ lock = "free"
    /\ lock' = "worker" /\ worker' = "held"
    /\ UNCHANGED <<app, beat, session, port, stop>>

OperationLogs ==
    /\ worker = "held" /\ worker' = "held log"
    /\ UNCHANGED <<app, beat, session, port, stop, lock>>

Unlock == "free"

OperationEnds ==
    /\ worker = "held" /\ worker' \in {"idle", "op failed"} /\ lock' = Unlock
    /\ UNCHANGED <<app, beat, session, port, stop>>

\* A failed operation closes the session in a thread.
WorkerStops ==
    /\ worker = "close stop" /\ worker' = "close lock" /\ stop' = TRUE
    /\ UNCHANGED <<app, beat, session, port, lock>>

WorkerCloses ==
    /\ worker = "close lock" /\ lock = "free"
    /\ port' = FALSE /\ worker' = "idle"
    /\ UNCHANGED <<app, beat, session, stop, lock>>

----------------------------------------------------------------------------
(* The keepalive.                                                          *)

Tick ==
    /\ beat = "wait" /\ beat' = IF stop THEN "ended" ELSE "acquire"
    /\ UNCHANGED <<app, worker, session, port, stop, lock>>

\* The beat of a session that was closed has no client and does nothing.
BeatBegins ==
    /\ beat = "acquire" /\ lock = "free"
    /\ IF port THEN lock' = "beat" /\ beat' = "held"
               ELSE beat' = "wait" /\ UNCHANGED lock
    /\ UNCHANGED <<app, worker, session, port, stop>>

BeatLogs ==
    /\ beat = "held" /\ beat' = "held log"
    /\ UNCHANGED <<app, worker, session, port, stop, lock>>

\* A beat that fails logs a warning once it has let the lock go.
BeatEnds ==
    /\ beat = "held" /\ lock' = Unlock /\ beat' \in {"wait", "warn"}
    /\ UNCHANGED <<app, worker, session, port, stop>>

----------------------------------------------------------------------------
(* call_from_thread: the event loop runs the call, then the thread goes on.*)

Serve ==
    /\ LoopRuns
    /\ \/ worker = "connect log" /\ worker' = "connecting" /\ UNCHANGED beat
       \/ worker = "held log" /\ worker' = "held" /\ UNCHANGED beat
       \/ beat = "held log" /\ beat' = "held" /\ UNCHANGED worker
       \/ beat = "warn" /\ beat' = "wait" /\ UNCHANGED worker
    /\ UNCHANGED <<app, session, port, stop, lock>>

----------------------------------------------------------------------------
(* Quitting.                                                               *)

Quit ==
    /\ app = "running" /\ app' = "draining"
    /\ UNCHANGED <<worker, beat, session, port, stop, lock>>

\* on_unmount, close: the session is given up and its keepalive told to stop.
Unmount ==
    /\ app = "draining" /\ worker = "idle"
    /\ IF session THEN app' = "joining" /\ session' = FALSE /\ stop' = TRUE
                  ELSE app' = "exited" /\ UNCHANGED <<session, stop>>
    /\ UNCHANGED <<worker, beat, port, lock>>

\* join gives up after two seconds.
Joined ==
    /\ app = "joining" /\ app' = "locking"
    /\ UNCHANGED <<worker, beat, session, port, stop, lock>>

Released == FALSE

Close ==
    /\ app = "locking" /\ lock = "free"
    /\ port' = Released /\ app' = "exited"
    /\ UNCHANGED <<worker, beat, session, stop, lock>>

Exited == app = "exited" /\ UNCHANGED vars

Loop == Learns \/ Serve \/ Unmount \/ Joined

WorkerThread ==
    Connects \/ ConnectLogs \/ OperationLogs \/ OperationEnds \/ WorkerStops

BeatThread == Tick \/ BeatLogs \/ BeatEnds

Waits == OperationBegins \/ WorkerCloses \/ BeatBegins \/ Close

Next == Work \/ Quit \/ Loop \/ WorkerThread \/ BeatThread \/ Waits \/ Exited

Spec == Init /\ [][Next]_vars

\* The event loop and the threads run; a thread is not kept from a lock that is
\* free again and again, and does not log for ever before it goes on.
FairSpec ==
    /\ Spec
    /\ WF_vars(Unmount) /\ WF_vars(Joined) /\ WF_vars(Learns) /\ WF_vars(Serve)
    /\ SF_vars(Connects) /\ SF_vars(OperationEnds) /\ SF_vars(BeatEnds)
    /\ WF_vars(WorkerStops) /\ WF_vars(Tick)
    /\ SF_vars(OperationBegins) /\ SF_vars(WorkerCloses) /\ SF_vars(BeatBegins)
    /\ SF_vars(Close)

----------------------------------------------------------------------------
\* Every variable holds a value of its kind, and the lock belongs to a thread
\* that is under it.
TypeOK ==
    /\ app \in {"running", "draining", "joining", "locking", "exited"}
    /\ worker \in {"idle", "connecting", "connect log", "up", "failed", "acquire",
                   "held", "held log", "op failed", "close stop", "close lock"}
    /\ beat \in {"none", "wait", "acquire", "held", "held log", "warn", "ended"}
    /\ session \in BOOLEAN /\ port \in BOOLEAN /\ stop \in BOOLEAN
    /\ (lock = "worker") <=> worker \in {"held", "held log"}
    /\ (lock = "beat") <=> beat \in {"held", "held log"}
    /\ lock \in {"free", "worker", "beat"}

\* "Close the held session on exit: stop the keepalive ticker, send
\* stop_communication, and release the port" (app.py:735-736): whatever was
\* under way, an app that is gone has no open port and no ticker that goes on.
ExitReleases ==
    app = "exited" => ~port /\ (beat \notin {"none", "ended"} => stop)

\* An app that was quit comes to its end.
QuitEnds == app = "draining" ~> app = "exited"
=============================================================================
