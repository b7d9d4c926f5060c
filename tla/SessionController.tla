------------------------- MODULE SessionController -------------------------
(***************************************************************************)
(* SessionController of src/trecu/tui/session.py and the workers of the    *)
(* TUI that use it.  Code on the event loop runs from one await to the     *)
(* next in one action; what to_thread starts runs beside it.               *)
(*                                                                         *)
(* Each connect attempt has a DiagnosticService of its own, so an attempt  *)
(* and its service have one number.  DiagnosticService.tla has the detail  *)
(* of a service; here it is its start_session thread, whether its port is  *)
(* open, whether its ECU session is up, and its I/O lock, which is held by *)
(* the worker whose operation is running.                                  *)
(***************************************************************************)
EXTENDS Naturals, FiniteSets

CONSTANTS Live,         \* the live poll: one at a time (_live_busy)
          EcuWorkers,   \* the workers of the exclusive group "ecu": read, clear
          MaxAttempts,  \* bound: connect attempts
          MaxCancels,   \* bound: presses of Cancel
          MaxOps,       \* bound: reads and polls begun
          MaxClears     \* bound: clears confirmed

None == 0
Attempts == 1..MaxAttempts
Workers  == EcuWorkers \cup {Live}

ASSUME ControllerAssumption ==
    /\ MaxAttempts \in Nat /\ MaxCancels \in Nat
    /\ MaxOps \in Nat /\ MaxClears \in Nat
    /\ Live \notin EcuWorkers

VARIABLES
    session,    \* self.session
    current,    \* self._current, whose task is self._pending
    made,       \* attempts made so far
    cancelled,  \* attempts whose flag is set
    handle,     \* attempts whose .service is set
    run,        \* _run of an attempt
    outcome,    \* its ConnectResult
    start,      \* the thread in start_session
    dropped,    \* services forced closed while the port was being opened
    port,       \* services whose port is open
    live,       \* services with a connected client
    pc, on,     \* a worker, and the attempt or service it has in hand
    orphan,     \* workers replaced while their thread goes on
    cancels, ops, clears

controller == <<session, current, made, cancelled, handle, run, outcome>>
service    == <<start, dropped, port, live>>
workers    == <<pc, on, orphan>>
budgets    == <<cancels, ops, clears>>
vars       == <<controller, service, workers, budgets>>

InFlight(a) == run[a] \in {"task", "starting", "closing"}
Busy(s)     == \E w \in Workers : pc[w] = "running" /\ on[w] = s
Become(w, l) == pc' = [pc EXCEPT ![w] = l]

Init ==
    /\ session = None /\ current = None /\ made = 0
    /\ cancelled = {} /\ handle = {}
    /\ run = [a \in Attempts |-> "unborn"]
    /\ outcome = [a \in Attempts |-> "none"]
    /\ start = [a \in Attempts |-> "none"]
    /\ dropped = {} /\ port = {} /\ live = {}
    /\ pc = [w \in Workers |-> "idle"] /\ on = [w \in Workers |-> None]
    /\ orphan = {}
    /\ cancels = 0 /\ ops = 0 /\ clears = 0

----------------------------------------------------------------------------
(* connect, cancel and _run.                                               *)

\* The flag belongs to the attempt.
FlagsReset == {}                                                \* mutant
Flags == cancelled

\* connect() starts an attempt only when none is in flight.
AlwaysStart == TRUE                                             \* mutant
MayStart == current = None

NewNumber  == made + 1

Held(w) ==
    /\ session # None
    /\ Become(w, "ready")
    /\ UNCHANGED <<controller, on>>

Begin(w) ==
    /\ session = None /\ MayStart /\ made < MaxAttempts
    /\ made' = NewNumber /\ current' = NewNumber
    /\ run' = [run EXCEPT ![NewNumber] = "task"]
    /\ on' = [on EXCEPT ![w] = NewNumber]
    /\ cancelled' = Flags
    /\ Become(w, "connecting")
    /\ UNCHANGED <<session, handle, outcome>>

Share(w) ==
    /\ session = None /\ current # None
    /\ on' = [on EXCEPT ![w] = current]
    /\ Become(w, "connecting")
    /\ UNCHANGED controller

\* A worker begins when the one it replaces has been told so.
Admitted(w) ==
    /\ pc[w] = "idle"
    /\ w # Live => \A v \in EcuWorkers : pc[v] = "idle" \/ v \in orphan

\* A read, or a poll of the live data.
Connect(w) ==
    /\ Admitted(w) /\ ops < MaxOps
    /\ ops' = ops + 1
    /\ Held(w) \/ Begin(w) \/ Share(w)
    /\ UNCHANGED <<service, orphan, cancels, clears>>

Detach(a) == current' = IF current = a THEN None ELSE current

\* _run's first step builds the service and hands start_session to a thread,
\* cancelled or not; constructing the service may fail.
RunTask(a) ==
    /\ run[a] = "task"
    /\ run' = [run EXCEPT ![a] = "starting"]
    /\ handle' = handle \cup {a}
    /\ start' = [start EXCEPT ![a] = "queued"]
    /\ UNCHANGED <<session, current, made, cancelled, outcome,
                   dropped, port, live, workers, budgets>>

BuildFails(a) ==
    /\ run[a] = "task"
    /\ run' = [run EXCEPT ![a] = "done"]
    /\ outcome' = [outcome EXCEPT ![a] = "failed"]
    /\ Detach(a)
    /\ UNCHANGED <<session, made, cancelled, handle, service, workers, budgets>>

\* The verdict on a start that is back, taken when _run resumes.
PublishAnyway(a) == start[a] = "ok"                             \* mutant
Publishable(a)   == a \notin cancelled /\ start[a] = "ok"

Publish(a) ==
    /\ run[a] = "starting" /\ Publishable(a)
    /\ session' = a
    /\ handle' = handle \ {a}
    /\ run' = [run EXCEPT ![a] = "done"]
    /\ outcome' = [outcome EXCEPT ![a] = "connected"]
    /\ Detach(a)
    /\ UNCHANGED <<made, cancelled, service, workers, budgets>>

Discard(a) ==
    /\ run[a] = "starting" /\ start[a] \in {"ok", "failed"} /\ ~Publishable(a)
    /\ handle' = handle \ {a}
    /\ run' = [run EXCEPT ![a] = "closing"]
    /\ outcome' = [outcome EXCEPT ![a] = IF a \in cancelled THEN "cancelled"
                                                           ELSE "failed"]
    /\ UNCHANGED <<session, current, made, cancelled, service, workers, budgets>>

\* await to_thread(svc.close): nobody else uses a service that was not published.
TornDown(a) == /\ port' = port \ {a} /\ live' = live \ {a}
LeftOpen(a) == UNCHANGED <<port, live>>                         \* mutant
Teardown(a) == TornDown(a)

RunClosed(a) ==
    /\ run[a] = "closing"
    /\ Teardown(a)
    /\ run' = [run EXCEPT ![a] = "done"]
    /\ Detach(a)
    /\ UNCHANGED <<session, made, cancelled, handle, outcome, start, dropped,
                   workers, budgets>>

\* The forced close finds the port open, or being opened, or nothing at all.
Cancel ==
    /\ current # None /\ cancels < MaxCancels
    /\ LET a == current IN
         /\ cancelled' = cancelled \cup {a}
         /\ handle' = handle \ {a}
         /\ Detach(a)
         /\ port' = IF a \in handle THEN port \ {a} ELSE port
         /\ live' = IF a \in handle THEN live \ {a} ELSE live
         /\ dropped' = IF a \in handle /\ start[a] = "opening"
                         THEN dropped \cup {a} ELSE dropped
    /\ cancels' = cancels + 1
    /\ UNCHANGED <<session, made, run, outcome, start, workers, ops, clears>>

----------------------------------------------------------------------------
(* start_session of an attempt's service, in its thread.                   *)

StartStep(a, l, p, v) ==
    /\ start' = [start EXCEPT ![a] = l]
    /\ port' = p /\ live' = v
    /\ UNCHANGED <<controller, dropped, workers, budgets>>

StartRuns(a)  == start[a] = "queued"  /\ StartStep(a, "opening", port, live)
OpenFails(a)  == start[a] = "opening" /\ StartStep(a, "failed", port, live)

\* A device that was dropped while it opened is open until Python finalises it;
\* the connect then goes to a second device, which nobody opened.
Opened(a) ==
    /\ start[a] = "opening"
    /\ StartStep(a, IF a \in dropped THEN "lost" ELSE "init", port \cup {a}, live)

Lost(a) == start[a] = "lost" /\ StartStep(a, "doomed", port \ {a}, live)

InitOk(a) ==
    /\ start[a] = "init" /\ a \in port
    /\ StartStep(a, "ok", port, live \cup {a})

InitFails(a) ==
    /\ start[a] \in {"init", "doomed"}
    /\ StartStep(a, "failed", port \ {a}, live)

----------------------------------------------------------------------------
(* A worker: connect, an operation in a thread, close when it fails.       *)

AwaitAgain(w) ==                                                \* mutant
    IF outcome[on[w]] = "connected" THEN "ready" ELSE "connecting"
Answered(w) == IF outcome[on[w]] = "connected" THEN "ready" ELSE "idle"

Deliver(w) ==
    /\ pc[w] = "connecting" /\ run[on[w]] = "done"
    /\ Become(w, Answered(w))
    /\ UNCHANGED <<controller, service, on, orphan, budgets>>

\* _run_clear does not connect first.
Clear(w) ==
    /\ w # Live /\ Admitted(w) /\ clears < MaxClears
    /\ clears' = clears + 1
    /\ Become(w, "ready")
    /\ UNCHANGED <<controller, service, on, orphan, cancels, ops>>

\* The handler of a failed operation closes, unless its worker was replaced.
Failed(w) ==
    /\ Become(w, IF w \in orphan THEN "idle" ELSE "failed")
    /\ orphan' = orphan \ {w}

\* _require, in the thread of the operation.
Require(w) ==
    /\ pc[w] = "ready"
    /\ on' = [on EXCEPT ![w] = session]
    /\ IF session = None THEN Failed(w)
                         ELSE Become(w, "waiting") /\ UNCHANGED orphan
    /\ UNCHANGED <<controller, service, budgets>>

OpRuns(w) ==
    /\ pc[w] = "waiting" /\ ~Busy(on[w])
    /\ Become(w, "running")
    /\ UNCHANGED <<controller, service, on, orphan, budgets>>

\* On a service closed meanwhile the operation reconnects over a device that is
\* not open, and fails.
OpOk(w) ==
    /\ pc[w] = "running" /\ on[w] \in live
    /\ Become(w, "idle")
    /\ orphan' = orphan \ {w}
    /\ UNCHANGED <<controller, service, on, budgets>>

OpFails(w) ==
    /\ pc[w] = "running"
    /\ Failed(w)
    /\ UNCHANGED <<controller, service, on, budgets>>

\* close() takes whatever session the controller holds.
TakeSession(w) ==
    /\ pc[w] = "failed"
    /\ on' = [on EXCEPT ![w] = session]
    /\ session' = None
    /\ Become(w, IF session = None THEN "idle" ELSE "closing")
    /\ orphan' = IF session = None THEN orphan \ {w} ELSE orphan
    /\ UNCHANGED <<current, made, cancelled, handle, run, outcome,
                   service, budgets>>

CloseDone(w) ==
    /\ pc[w] = "closing" /\ ~Busy(on[w])
    /\ TornDown(on[w])
    /\ Become(w, "idle") /\ orphan' = orphan \ {w}
    /\ UNCHANGED <<controller, start, dropped, on, budgets>>

\* A worker of the exclusive group is replaced: its coroutine ends at its await,
\* its thread, if it has one, does not.
Replace(w) ==
    /\ w # Live /\ pc[w] # "idle" /\ w \notin orphan
    /\ IF pc[w] = "connecting"
         THEN Become(w, "idle") /\ UNCHANGED orphan
         ELSE orphan' = orphan \cup {w} /\ UNCHANGED pc
    /\ UNCHANGED <<controller, service, on, budgets>>

----------------------------------------------------------------------------
AttemptStep(a) ==
    \/ RunTask(a) \/ BuildFails(a) \/ Publish(a) \/ Discard(a) \/ RunClosed(a)

ThreadStep(a) ==
    \/ StartRuns(a) \/ OpenFails(a) \/ Opened(a) \/ Lost(a)
    \/ InitOk(a) \/ InitFails(a)

WorkerStep(w) ==
    \/ Deliver(w) \/ Require(w) \/ OpOk(w) \/ OpFails(w) \/ TakeSession(w)

WorkerLock(w) == OpRuns(w) \/ CloseDone(w)

Rest ==
    /\ ops = MaxOps \/ made = MaxAttempts
    /\ \A w \in Workers : pc[w] = "idle"
    /\ \A a \in Attempts : ~InFlight(a)
    /\ UNCHANGED vars

Next ==
    \/ \E w \in Workers : \/ Connect(w) \/ Clear(w) \/ Replace(w)
                          \/ WorkerStep(w) \/ WorkerLock(w)
    \/ \E a \in Attempts : AttemptStep(a) \/ ThreadStep(a)
    \/ Cancel
    \/ Rest

Spec == Init /\ [][Next]_vars

----------------------------------------------------------------------------
(* Properties.                                                             *)

\* Every variable holds a value of its kind.
TypeOK ==
    /\ session \in 0..MaxAttempts /\ current \in 0..MaxAttempts
    /\ made \in 0..MaxAttempts
    /\ cancelled \subseteq Attempts /\ handle \subseteq Attempts
    /\ run \in [Attempts -> {"unborn", "task", "starting", "closing", "done"}]
    /\ outcome \in [Attempts -> {"none", "connected", "cancelled", "failed"}]
    /\ start \in [Attempts -> {"none", "queued", "opening", "lost", "doomed",
                              "init", "ok", "failed"}]
    /\ dropped \subseteq Attempts /\ port \subseteq Attempts /\ live \subseteq Attempts
    /\ pc \in [Workers -> {"idle", "connecting", "ready", "waiting", "running",
                           "failed", "closing"}]
    /\ on \in [Workers -> 0..MaxAttempts] /\ orphan \subseteq Workers
    /\ cancels \in 0..MaxCancels /\ ops \in 0..MaxOps /\ clears \in 0..MaxClears

\* The published service is fully connected, whatever was cancelled, replaced or
\* failed around it: a service is withdrawn before it is closed and published
\* after it is up (session.py:22-24, 109-110).
PublishedIsLive == session # None => session \in port /\ session \in live

\* The attempt callers share is the only one in flight that is not cancelled, and
\* it is never a finished one: a connect after a cancel or a failure starts fresh
\* (session.py:160-162, 213-216).
CurrentIsTheAttempt ==
    \A a \in Attempts : InFlight(a) /\ a \notin cancelled <=> current = a

\* When nothing is under way the one open port is the session's: attempts that
\* were cancelled at any point, failed starts and closed sessions leave none open.
QuietPorts ==
    (\A w \in Workers : pc[w] = "idle") /\ (\A a \in Attempts : ~InFlight(a))
        => port = {session} \ {None}

\* The controller implements HeldSession, so a cancelled attempt never becomes the
\* session, even if its start succeeded (session.py:71-73): an attempt is spent when it is
\* cancelled, fails, or has been the session and is so no longer.
Spent ==
    {a \in Attempts : \/ a \in cancelled
                      \/ outcome[a] \in {"cancelled", "failed"}
                      \/ outcome[a] = "connected" /\ session # a}
Cell == INSTANCE HeldSession WITH NoSession <- None, held <- session, spent <- Spent
ImplementsHeldSession == Cell!Spec

\* Every caller of connect gets an answer, whoever cancels or is replaced.
ConnectAnswered ==
    \A w \in Workers : (pc[w] = "connecting") ~> (pc[w] # "connecting")

\* "a re-picked port always gets a clean, non-overlapping session"
\* (session.py:24): no two services have the port open at once.  TLC refutes it:
\* a cancelled attempt goes on opening, and a close lets go of the session first.
NonOverlapping == \A a, b \in port : a = b

\* "cancel already restored the UI and routed onward" (app.py:648): who waits for
\* a cancelled attempt is told so, and shows no failure.  TLC refutes it: the flag
\* is read before the failed service is closed, and not again.
CancelledAnswersSo == \A a \in cancelled : outcome[a] # "failed"

\* "A failed operation is the caller's cue to close, so the next connect starts
\* clean" (session.py:85-86): what a failure closes is the session it failed on.
FailureClosesItsOwn ==
    [][\A w \in Workers :
          pc[w] = "failed" /\ pc'[w] = "closing" => session = on[w]]_vars
=============================================================================
