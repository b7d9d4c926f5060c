---------------------------- MODULE TuiAppProofs ----------------------------
(***************************************************************************)
(* SessionController, for any number of workers, attempts and cancels: the *)
(* published service is live, one attempt is shared, no port is left open, *)
(* and the session is a HeldSession.  The app drives the controller only   *)
(* through its operations, so all this holds of TuiApp too; and what the   *)
(* app's dialogs and its title promise.                                    *)
(***************************************************************************)
EXTENDS TuiApp, SequenceTheorems, TLAPS

\* Attempts that have not been made have left no trace.
Unmade ==
    \A a \in Attempts : a > made =>
        run[a] = "unborn" /\ start[a] = "none" /\ a \notin cancelled /\ a \notin port

\* The thread of an attempt runs while _run waits for it.
Threads ==
    \A a \in Attempts :
        /\ start[a] \in {"queued", "opening", "lost", "doomed", "init"} => run[a] = "starting"
        /\ run[a] \in {"unborn", "task"} => start[a] = "none" /\ a \notin port

\* Who is in flight has no result yet, or is being torn down.
Verdicts ==
    \A a \in Attempts :
        /\ run[a] \in {"unborn", "task", "starting"} => outcome[a] = "none"
        /\ run[a] = "closing" => outcome[a] \in {"cancelled", "failed"}

\* A start that came back well is live until somebody closes it.
Ready ==
    \A a \in Attempts :
        run[a] = "starting" /\ start[a] = "ok" /\ a \notin cancelled => a \in port /\ a \in live

\* The session is that of a finished attempt, and while one is tried there is none.
Published ==
    session # None =>
        /\ run[session] = "done" /\ outcome[session] = "connected"
        /\ session \notin cancelled /\ current = None
        /\ session \in port /\ session \in live

\* What a worker closes was the session and is so no longer.
Withdrawn ==
    \A w \in Workers : pc[w] = "closing" =>
        on[w] \in Attempts /\ run[on[w]] = "done" /\ on[w] # session

\* Every open port has someone who will close it.
Accounted ==
    \A a \in port : \/ a = session \/ InFlight(a)
                    \/ \E w \in Workers : pc[w] = "closing" /\ on[w] = a

\* The inductive invariant.
CtlInv ==
    TypeOK /\ Unmade /\ Threads /\ Verdicts /\ Ready /\ CurrentIsTheAttempt
    /\ Published /\ Withdrawn /\ Accounted

----------------------------------------------------------------------------
LEMMA InitCtlInv == Init => CtlInv
BY ControllerAssumption, SMT
   DEF Init, CtlInv, TypeOK, Unmade, Threads, Verdicts, Ready, CurrentIsTheAttempt, Published,
       Withdrawn, Accounted, InFlight, Attempts, None

LEMMA ConnectCtlInv == ASSUME NEW w \in Workers, CtlInv, Connect(w) PROVE CtlInv'
<1> USE ControllerAssumption DEF CtlInv, Connect, Held, Begin, Share, Admitted, MayStart,
        NewNumber, Flags, Become, InFlight, Attempts, None, controller, service, workers,
        budgets
<1>1. TypeOK'
  <2>1. CASE Held(w)
    BY <2>1, SMT DEF TypeOK
  <2>2. CASE Begin(w)
    <3>1. NewNumber \in Attempts
      BY <2>2, SMT DEF TypeOK
    <3> QED
      BY <2>2, <3>1, SMT DEF TypeOK
  <2>3. CASE Share(w)
    BY <2>3, SMT DEF TypeOK
  <2> QED
    BY <2>1, <2>2, <2>3
<1>2. Unmade'
  BY SMT DEF TypeOK, Unmade
<1>3. Threads'
  BY SMT DEF TypeOK, Unmade, Threads
<1>4. Verdicts'
  BY SMT DEF TypeOK, Unmade, Verdicts
<1>5. Ready'
  BY SMT DEF TypeOK, Ready
<1>6. CurrentIsTheAttempt'
  BY SMT DEF TypeOK, Unmade, CurrentIsTheAttempt
<1>7. Published'
  BY SMT DEF Published
<1>8. Withdrawn'
  BY SMT DEF TypeOK, Withdrawn, Unmade
<1>9. Accounted'
  <2>1. \A b \in port : InFlight(b) => InFlight(b)'
    BY SMT DEF TypeOK
  <2>2. \A v \in Workers : pc[v] = "closing" => pc'[v] = "closing" /\ on'[v] = on[v]
    BY SMT DEF TypeOK
  <2> QED
    BY <2>1, <2>2, SMT DEF Accounted
<1> QED
  BY <1>1, <1>2, <1>3, <1>4, <1>5, <1>6, <1>7, <1>8, <1>9

LEMMA RunTaskCtlInv == ASSUME NEW a \in Attempts, CtlInv, RunTask(a) PROVE CtlInv'
<1> USE ControllerAssumption DEF CtlInv, RunTask, Become, InFlight, Attempts, None,
        controller, service, workers, budgets
<1>1. TypeOK'
  BY SMT DEF TypeOK
<1>2. Unmade'
  BY SMT DEF Unmade
<1>3. Threads'
  BY SMT DEF TypeOK, Threads
<1>4. Verdicts'
  BY SMT DEF Verdicts
<1>5. Ready'
  BY SMT DEF TypeOK, Ready
<1>6. CurrentIsTheAttempt'
  BY SMT DEF CurrentIsTheAttempt
<1>7. Published'
  BY SMT DEF Published
<1>8. Withdrawn'
  BY SMT DEF Withdrawn
<1>9. Accounted'
  BY SMT DEF Accounted
<1> QED
  BY <1>1, <1>2, <1>3, <1>4, <1>5, <1>6, <1>7, <1>8, <1>9

LEMMA BuildFailsCtlInv == ASSUME NEW a \in Attempts, CtlInv, BuildFails(a) PROVE CtlInv'
<1> USE ControllerAssumption DEF CtlInv, BuildFails, Detach, Become, InFlight, Attempts,
        None, controller, service, workers, budgets
<1>1. TypeOK'
  BY SMT DEF TypeOK
<1>2. Unmade'
  BY SMT DEF Unmade
<1>3. Threads'
  BY SMT DEF Threads
<1>4. Verdicts'
  BY SMT DEF TypeOK, Verdicts
<1>5. Ready'
  BY SMT DEF Ready
<1>6. CurrentIsTheAttempt'
  BY SMT DEF TypeOK, CurrentIsTheAttempt
<1>7. Published'
  BY SMT DEF Published
<1>8. Withdrawn'
  BY SMT DEF Withdrawn
<1>9. Accounted'
  BY SMT DEF Accounted, Threads
<1> QED
  BY <1>1, <1>2, <1>3, <1>4, <1>5, <1>6, <1>7, <1>8, <1>9

LEMMA PublishCtlInv == ASSUME NEW a \in Attempts, CtlInv, Publish(a) PROVE CtlInv'
<1> USE ControllerAssumption DEF CtlInv, Publish, Publishable, Detach, Become, InFlight,
        Attempts, None, controller, service, workers, budgets
<1>1. TypeOK'
  BY SMT DEF TypeOK
<1>2. Unmade'
  BY SMT DEF Unmade
<1>3. Threads'
  BY SMT DEF Threads
<1>4. Verdicts'
  BY SMT DEF TypeOK, Verdicts
<1>5. Ready'
  BY SMT DEF Ready
<1>6. CurrentIsTheAttempt'
  BY SMT DEF TypeOK, CurrentIsTheAttempt
<1>7. Published'
  BY SMT DEF TypeOK, Published, Ready, CurrentIsTheAttempt
<1>8. Withdrawn'
  BY SMT DEF Withdrawn
<1>9. Accounted'
  BY SMT DEF TypeOK, Accounted, Published, CurrentIsTheAttempt
<1> QED
  BY <1>1, <1>2, <1>3, <1>4, <1>5, <1>6, <1>7, <1>8, <1>9

LEMMA DiscardCtlInv == ASSUME NEW a \in Attempts, CtlInv, Discard(a) PROVE CtlInv'
<1> USE ControllerAssumption DEF CtlInv, Discard, Publishable, Become, InFlight, Attempts,
        None, controller, service, workers, budgets
<1>1. TypeOK'
  BY SMT DEF TypeOK
<1>2. Unmade'
  BY SMT DEF Unmade
<1>3. Threads'
  BY SMT DEF Threads
<1>4. Verdicts'
  BY SMT DEF TypeOK, Verdicts
<1>5. Ready'
  BY SMT DEF Ready
<1>6. CurrentIsTheAttempt'
  BY SMT DEF CurrentIsTheAttempt
<1>7. Published'
  BY SMT DEF Published
<1>8. Withdrawn'
  BY SMT DEF Withdrawn
<1>9. Accounted'
  BY SMT DEF Accounted
<1> QED
  BY <1>1, <1>2, <1>3, <1>4, <1>5, <1>6, <1>7, <1>8, <1>9

LEMMA RunClosedCtlInv == ASSUME NEW a \in Attempts, CtlInv, RunClosed(a) PROVE CtlInv'
<1> USE ControllerAssumption DEF CtlInv, RunClosed, Detach, Teardown, TornDown, Become,
        InFlight, Attempts, None, controller, service, workers, budgets
<1>1. TypeOK'
  BY SMT DEF TypeOK
<1>2. Unmade'
  BY SMT DEF Unmade
<1>3. Threads'
  BY SMT DEF Threads
<1>4. Verdicts'
  BY SMT DEF Verdicts
<1>5. Ready'
  BY SMT DEF Ready
<1>6. CurrentIsTheAttempt'
  BY SMT DEF TypeOK, CurrentIsTheAttempt
<1>7. Published'
  BY SMT DEF Published
<1>8. Withdrawn'
  BY SMT DEF Withdrawn
<1>9. Accounted'
  BY SMT DEF Accounted
<1> QED
  BY <1>1, <1>2, <1>3, <1>4, <1>5, <1>6, <1>7, <1>8, <1>9

LEMMA CancelCtlInv == ASSUME CtlInv, Cancel PROVE CtlInv'
<1> USE ControllerAssumption DEF CtlInv, Cancel, Detach, Become, InFlight, Attempts, None,
        controller, service, workers, budgets
<1>1. TypeOK'
  BY SMT DEF TypeOK
<1>2. Unmade'
  BY SMT DEF Unmade, CurrentIsTheAttempt
<1>3. Threads'
  BY SMT DEF Threads
<1>4. Verdicts'
  BY SMT DEF Verdicts
<1>5. Ready'
  BY SMT DEF Ready
<1>6. CurrentIsTheAttempt'
  BY SMT DEF CurrentIsTheAttempt
<1>7. Published'
  BY SMT DEF Published
<1>8. Withdrawn'
  BY SMT DEF Withdrawn
<1>9. Accounted'
  BY SMT DEF Accounted
<1> QED
  BY <1>1, <1>2, <1>3, <1>4, <1>5, <1>6, <1>7, <1>8, <1>9

LEMMA ThreadCtlInv == ASSUME NEW a \in Attempts, CtlInv, ThreadStep(a) PROVE CtlInv'
<1> USE ControllerAssumption DEF CtlInv, ThreadStep, StartRuns, OpenFails, Opened, Lost,
        InitOk, InitFails, StartStep, InFlight, controller, workers, budgets
<1>1. TypeOK'
  BY SMT DEF TypeOK
<1>2. Unmade'
  BY SMT DEF TypeOK, Unmade
<1>3. Threads'
  BY SMT DEF TypeOK, Threads
<1>4. Verdicts'
  BY SMT DEF Verdicts
<1>5. Ready'
  BY SMT DEF TypeOK, Ready
<1>6. CurrentIsTheAttempt'
  BY SMT DEF CurrentIsTheAttempt
<1>7. Published'
  BY SMT DEF Published, Threads
<1>8. Withdrawn'
  BY SMT DEF Withdrawn
<1>9. Accounted'
  BY SMT DEF Accounted, Threads
<1> QED
  BY <1>1, <1>2, <1>3, <1>4, <1>5, <1>6, <1>7, <1>8, <1>9

LEMMA TakeSessionCtlInv == ASSUME NEW w \in Workers, CtlInv, TakeSession(w) PROVE CtlInv'
<1> USE ControllerAssumption DEF CtlInv, TakeSession, Become, InFlight, Attempts, None,
        controller, service, workers, budgets
<1>1. TypeOK'
  BY SMT DEF TypeOK
<1>2. Unmade'
  BY SMT DEF Unmade
<1>3. Threads'
  BY SMT DEF Threads
<1>4. Verdicts'
  BY SMT DEF Verdicts
<1>5. Ready'
  BY SMT DEF Ready
<1>6. CurrentIsTheAttempt'
  BY SMT DEF CurrentIsTheAttempt
<1>7. Published'
  BY SMT DEF Published
<1>8. Withdrawn'
  BY SMT DEF TypeOK, Withdrawn, Published
<1>9. Accounted'
  <2>1. session # None => pc'[w] = "closing" /\ on'[w] = session
    BY SMT DEF TypeOK
  <2>2. \A v \in Workers : pc[v] = "closing" => pc'[v] = "closing" /\ on'[v] = on[v]
    BY SMT
  <2> QED
    BY <2>1, <2>2, SMT DEF Accounted
<1> QED
  BY <1>1, <1>2, <1>3, <1>4, <1>5, <1>6, <1>7, <1>8, <1>9

LEMMA CloseDoneCtlInv == ASSUME NEW w \in Workers, CtlInv, CloseDone(w) PROVE CtlInv'
<1> USE ControllerAssumption DEF CtlInv, CloseDone, TornDown, Become, InFlight, Attempts,
        None, controller, service, workers, budgets
<1>1. TypeOK'
  <2>1. port' \subseteq port /\ live' \subseteq live /\ orphan' \subseteq orphan
    BY Zenon
  <2>2. pc' \in [Workers -> {"idle", "connecting", "ready", "waiting", "running",
                             "failed", "closing"}]
    BY SMT DEF TypeOK
  <2> QED
    BY <2>1, <2>2, Zenon DEF TypeOK
<1>2. Unmade'
  BY SMT DEF Unmade
<1>3. Threads'
  BY SMT DEF Threads
<1>4. Verdicts'
  BY SMT DEF Verdicts
<1>5. Ready'
  BY SMT DEF Ready, Withdrawn
<1>6. CurrentIsTheAttempt'
  BY SMT DEF CurrentIsTheAttempt
<1>7. Published'
  BY SMT DEF Published, Withdrawn
<1>8. Withdrawn'
  BY SMT DEF Withdrawn
<1>9. Accounted'
  BY SMT DEF Accounted
<1> QED
  BY <1>1, <1>2, <1>3, <1>4, <1>5, <1>6, <1>7, <1>8, <1>9

\* A step of a worker that takes no session and closes none.
LEMMA WorkerOnlyCtlInv ==
    ASSUME CtlInv, TypeOK', UNCHANGED <<controller, service>>,
           \A v \in Workers : (pc[v] = "closing" \/ pc'[v] = "closing")
                               => pc'[v] = pc[v] /\ on'[v] = on[v]
    PROVE  CtlInv'
<1> USE DEF CtlInv, InFlight, controller, service
<1>1. Unmade' /\ Threads' /\ Verdicts' /\ Ready'
  BY SMT DEF Unmade, Threads, Verdicts, Ready
<1>2. CurrentIsTheAttempt' /\ Published'
  BY SMT DEF CurrentIsTheAttempt, Published
<1>3. Withdrawn'
  BY SMT DEF Withdrawn
<1>4. Accounted'
  BY SMT DEF Accounted
<1> QED
  BY <1>1, <1>2, <1>3, <1>4

LEMMA DeliverCtlInv == ASSUME NEW w \in Workers, CtlInv, Deliver(w) PROVE CtlInv'
<1> USE ControllerAssumption DEF Deliver, Answered, Become, Attempts, None, controller,
        service, workers, budgets
<1>1. TypeOK'
  BY SMT DEF CtlInv, TypeOK
<1>2. \A v \in Workers : (pc[v] = "closing" \/ pc'[v] = "closing")
                          => pc'[v] = pc[v] /\ on'[v] = on[v]
  BY SMT DEF CtlInv
<1> QED
  BY <1>1, <1>2, WorkerOnlyCtlInv

LEMMA ClearCtlInv == ASSUME NEW w \in Workers, CtlInv, Clear(w) PROVE CtlInv'
<1> USE ControllerAssumption DEF Clear, Admitted, Become, Attempts, None, controller,
        service, workers, budgets
<1>1. TypeOK'
  BY SMT DEF CtlInv, TypeOK
<1>2. \A v \in Workers : (pc[v] = "closing" \/ pc'[v] = "closing")
                          => pc'[v] = pc[v] /\ on'[v] = on[v]
  BY SMT DEF CtlInv
<1> QED
  BY <1>1, <1>2, WorkerOnlyCtlInv

LEMMA RequireCtlInv == ASSUME NEW w \in Workers, CtlInv, Require(w) PROVE CtlInv'
<1> USE ControllerAssumption DEF Require, Failed, Become, Attempts, None, controller,
        service, workers, budgets
<1>1. TypeOK'
  BY SMT DEF CtlInv, TypeOK
<1>2. \A v \in Workers : (pc[v] = "closing" \/ pc'[v] = "closing")
                          => pc'[v] = pc[v] /\ on'[v] = on[v]
  BY SMT DEF CtlInv, TypeOK
<1> QED
  BY <1>1, <1>2, WorkerOnlyCtlInv

LEMMA OpRunsCtlInv == ASSUME NEW w \in Workers, CtlInv, OpRuns(w) PROVE CtlInv'
<1> USE ControllerAssumption DEF OpRuns, Become, Attempts, None, controller, service,
        workers, budgets
<1>1. TypeOK'
  BY SMT DEF CtlInv, TypeOK
<1>2. \A v \in Workers : (pc[v] = "closing" \/ pc'[v] = "closing")
                          => pc'[v] = pc[v] /\ on'[v] = on[v]
  BY SMT DEF CtlInv
<1> QED
  BY <1>1, <1>2, WorkerOnlyCtlInv

LEMMA OpOkCtlInv == ASSUME NEW w \in Workers, CtlInv, OpOk(w) PROVE CtlInv'
<1> USE ControllerAssumption DEF OpOk, Become, Attempts, None, controller, service, workers,
        budgets
<1>1. TypeOK'
  BY SMT DEF CtlInv, TypeOK
<1>2. \A v \in Workers : (pc[v] = "closing" \/ pc'[v] = "closing")
                          => pc'[v] = pc[v] /\ on'[v] = on[v]
  BY SMT DEF CtlInv
<1> QED
  BY <1>1, <1>2, WorkerOnlyCtlInv

LEMMA OpFailsCtlInv == ASSUME NEW w \in Workers, CtlInv, OpFails(w) PROVE CtlInv'
<1> USE ControllerAssumption DEF OpFails, Failed, Become, Attempts, None, controller,
        service, workers, budgets
<1>1. TypeOK'
  BY SMT DEF CtlInv, TypeOK
<1>2. \A v \in Workers : (pc[v] = "closing" \/ pc'[v] = "closing")
                          => pc'[v] = pc[v] /\ on'[v] = on[v]
  BY SMT DEF CtlInv
<1> QED
  BY <1>1, <1>2, WorkerOnlyCtlInv

LEMMA ReplaceCtlInv == ASSUME NEW w \in Workers, CtlInv, Replace(w) PROVE CtlInv'
<1> USE ControllerAssumption DEF Replace, Become, Attempts, None, controller, service,
        workers, budgets
<1>1. TypeOK'
  BY SMTT(30) DEF CtlInv, TypeOK
<1>2. \A v \in Workers : (pc[v] = "closing" \/ pc'[v] = "closing")
                          => pc'[v] = pc[v] /\ on'[v] = on[v]
  BY SMT DEF CtlInv, TypeOK
<1> QED
  BY <1>1, <1>2, WorkerOnlyCtlInv

LEMMA StutterCtlInv == ASSUME CtlInv, UNCHANGED vars PROVE CtlInv'
<1>1. TypeOK'
  BY DEF CtlInv, TypeOK, vars, controller, service, workers, budgets
<1> QED
  BY <1>1, WorkerOnlyCtlInv DEF vars, workers

LEMMA NextCtlInv == CtlInv /\ [Next]_vars => CtlInv'
<1> SUFFICES ASSUME CtlInv, [Next]_vars PROVE CtlInv'
  OBVIOUS
<1>1. CASE \E w \in Workers : Connect(w) \/ Clear(w) \/ Replace(w)
  BY <1>1, ConnectCtlInv, ClearCtlInv, ReplaceCtlInv
<1>2. CASE \E w \in Workers : WorkerStep(w)
  BY <1>2, DeliverCtlInv, RequireCtlInv, OpOkCtlInv, OpFailsCtlInv, TakeSessionCtlInv
     DEF WorkerStep
<1>3. CASE \E w \in Workers : WorkerLock(w)
  BY <1>3, OpRunsCtlInv, CloseDoneCtlInv DEF WorkerLock
<1>4. CASE \E a \in Attempts : AttemptStep(a)
  BY <1>4, RunTaskCtlInv, BuildFailsCtlInv, PublishCtlInv, DiscardCtlInv, RunClosedCtlInv
     DEF AttemptStep
<1>5. CASE \E a \in Attempts : ThreadStep(a)
  BY <1>5, ThreadCtlInv
<1>6. CASE Cancel
  BY <1>6, CancelCtlInv
<1>7. CASE Rest \/ UNCHANGED vars
  BY <1>7, StutterCtlInv DEF Rest
<1> QED
  BY <1>1, <1>2, <1>3, <1>4, <1>5, <1>6, <1>7 DEF Next

\* The invariant, whatever the number of workers, attempts, cancels and operations.
THEOREM SpecCtlInv == Spec => []CtlInv
  BY InitCtlInv, NextCtlInv, PTL DEF Spec

\* The published service is connected: session.py:22-24, 109-110.
THEOREM SpecPublishedIsLive == Spec => []PublishedIsLive
<1>1. CtlInv => PublishedIsLive
  BY DEF CtlInv, Published, PublishedIsLive
<1> QED
  BY <1>1, SpecCtlInv, PTL

\* Callers share the one attempt that is in flight and not cancelled:
\* session.py:160-162, 213-216.
THEOREM SpecCurrentIsTheAttempt == Spec => []CurrentIsTheAttempt
<1>1. CtlInv => CurrentIsTheAttempt
  BY DEF CtlInv
<1> QED
  BY <1>1, SpecCtlInv, PTL

\* At rest no port is open but the session's: session.py:119-131, 218-231.
THEOREM SpecQuietPorts == Spec => []QuietPorts
<1>1. CtlInv => QuietPorts
  <2> SUFFICES ASSUME CtlInv, \A w \in Workers : pc[w] = "idle",
                      \A a \in Attempts : ~InFlight(a)
               PROVE  port = {session} \ {None}
    BY DEF QuietPorts
  <2>1. port \subseteq {session}
    BY SMT DEF CtlInv, TypeOK, Accounted
  <2>2. None \notin port
    BY ControllerAssumption, SMT DEF CtlInv, TypeOK, Attempts, None
  <2>3. session # None => session \in port
    BY DEF CtlInv, Published
  <2> QED
    BY <2>1, <2>2, <2>3
<1> QED
  BY <1>1, SpecCtlInv, PTL

----------------------------------------------------------------------------
(* SessionController implements HeldSession.                               *)

\* An attempt that is given up was not the session.
LEMMA GivenUp ==
    ASSUME NEW a \in Attempts, a # session, UNCHANGED session,
           Spent' = Spent \/ Spent' = Spent \cup {a}
    PROVE  [Cell!Next]_<<session, Spent>>
<1>1. CASE a \in Spent
  BY <1>1
<1>2. CASE a \notin Spent
  BY <1>2 DEF Cell!Next, Cell!GiveUp
<1> QED
  BY <1>1, <1>2

LEMMA NothingSpent ==
    ASSUME UNCHANGED <<session, cancelled, outcome>>
    PROVE  [Cell!Next]_<<session, Spent>>
BY DEF Spent

LEMMA FailureGivesUp ==
    ASSUME NEW a \in Attempts, CtlInv, BuildFails(a) \/ Discard(a)
    PROVE  [Cell!Next]_<<session, Spent>>
<1>1. a # session /\ UNCHANGED <<session, cancelled>>
  BY ControllerAssumption, SMT DEF CtlInv, Published, BuildFails, Discard, Attempts, None
<1>2. /\ outcome[a] # "connected" /\ outcome'[a] \in {"cancelled", "failed"}
      /\ \A b \in Attempts \ {a} : outcome'[b] = outcome[b]
  BY SMT DEF CtlInv, TypeOK, Verdicts, BuildFails, Discard
<1>3. Spent' = Spent \cup {a}
  BY <1>1, <1>2, SMT DEF Spent
<1> QED
  BY <1>1, <1>3, GivenUp

LEMMA PublishHolds ==
    ASSUME NEW a \in Attempts, CtlInv, Publish(a)
    PROVE  [Cell!Next]_<<session, Spent>>
<1>1. session = None /\ a \notin cancelled /\ outcome[a] = "none"
  BY ControllerAssumption, SMT
     DEF CtlInv, Publish, Publishable, CurrentIsTheAttempt, Published, Verdicts, InFlight,
         Attempts, None
<1>2. /\ session' = a /\ UNCHANGED cancelled /\ outcome'[a] = "connected"
      /\ \A b \in Attempts \ {a} : outcome'[b] = outcome[b]
  BY SMT DEF CtlInv, TypeOK, Publish
<1>3. None \notin Attempts
  BY ControllerAssumption, SMT DEF Attempts, None
<1>4. a \notin Spent /\ Spent' = Spent
  BY <1>1, <1>2, <1>3, SMT DEF Spent
<1> QED
  BY <1>1, <1>2, <1>4 DEF Cell!Next, Cell!Hold

LEMMA CancelGivesUp == ASSUME CtlInv, Cancel PROVE [Cell!Next]_<<session, Spent>>
<1>1. current \in Attempts /\ session = None /\ UNCHANGED <<session, outcome>>
  BY ControllerAssumption, SMT
     DEF CtlInv, TypeOK, Published, Cancel, Attempts, None
<1>2. cancelled' = cancelled \cup {current} /\ current # session
  BY <1>1, ControllerAssumption, SMT DEF Cancel, None
<1>3. Spent' = Spent \cup {current}
  BY <1>1, <1>2, SMT DEF Spent
<1> QED
  BY <1>1, <1>2, <1>3, GivenUp

LEMMA TakeWithdraws ==
    ASSUME NEW w \in Workers, CtlInv, TakeSession(w)
    PROVE  [Cell!Next]_<<session, Spent>>
<1>1. session' = None /\ UNCHANGED <<cancelled, outcome>>
  BY DEF TakeSession
<1>2. CASE session = None
  BY <1>1, <1>2, NothingSpent
<1>3. CASE session # None
  <2>1. session \in Attempts /\ outcome[session] = "connected" /\ None \notin Attempts
    BY <1>3, ControllerAssumption, SMT DEF CtlInv, TypeOK, Published, Attempts, None
  <2>2. Spent' = Spent \cup {session}
    BY <1>1, <2>1, SMT DEF Spent
  <2> QED
    BY <1>1, <1>3, <2>2 DEF Cell!Next, Cell!Withdraw
<1> QED
  BY <1>2, <1>3

\* The session is that of one attempt, held once and never after it was given up
\* (session.py:71-73): every step of the controller is one of HeldSession or none.
THEOREM SpecImplementsHeldSession == Spec => ImplementsHeldSession
<1>1. Init => Cell!Init
  BY SMT DEF Init, Cell!Init, Spent, None
<1>2. CtlInv /\ [Next]_vars => [Cell!Next]_<<session, Spent>>
  <2> SUFFICES ASSUME CtlInv, [Next]_vars PROVE [Cell!Next]_<<session, Spent>>
    OBVIOUS
  <2>1. CASE \E a \in Attempts : BuildFails(a) \/ Discard(a)
    BY <2>1, FailureGivesUp
  <2>2. CASE \E a \in Attempts : Publish(a)
    BY <2>2, PublishHolds
  <2>3. CASE Cancel
    BY <2>3, CancelGivesUp
  <2>4. CASE \E w \in Workers : TakeSession(w)
    BY <2>4, TakeWithdraws
  <2>5. CASE \E a \in Attempts : RunTask(a) \/ RunClosed(a) \/ ThreadStep(a)
    <3>1. UNCHANGED <<session, cancelled, outcome>>
      BY <2>5 DEF RunTask, RunClosed, ThreadStep, StartRuns, OpenFails, Opened, Lost, InitOk,
                  InitFails, StartStep, controller
    <3> QED
      BY <3>1, NothingSpent
  <2>6. CASE \E w \in Workers : Connect(w)
    <3>1. UNCHANGED <<session, cancelled, outcome>>
      BY <2>6 DEF Connect, Held, Begin, Share, Flags, controller
    <3> QED
      BY <3>1, NothingSpent
  <2>7. CASE \E w \in Workers : \/ Clear(w) \/ Replace(w) \/ WorkerLock(w)
                                 \/ Deliver(w) \/ Require(w) \/ OpOk(w) \/ OpFails(w)
    <3>1. UNCHANGED <<session, cancelled, outcome>>
      BY <2>7 DEF Clear, Replace, WorkerLock, OpRuns, CloseDone, Deliver, Require, OpOk,
                  OpFails, controller
    <3> QED
      BY <3>1, NothingSpent
  <2>8. CASE Rest \/ UNCHANGED vars
    BY <2>8, NothingSpent DEF Rest, vars, controller
  <2> QED
    BY <2>1, <2>2, <2>3, <2>4, <2>5, <2>6, <2>7, <2>8 DEF Next, AttemptStep, WorkerStep
<1> QED
  BY <1>1, <1>2, SpecCtlInv, PTL DEF Spec, ImplementsHeldSession, Cell!Spec

----------------------------------------------------------------------------
(* The app: what it does to the controller.                                *)

LEMMA QueueIsController == ASSUME NEW job, Queue(job) PROVE [Next]_vars
BY DEF Queue, Next, Workers

LEMMA LoopIsController ==
    ASSUME NEW a \in Attempts, LoopTask(a) \/ StartTask(a) PROVE [Next]_vars
BY DEF LoopTask, StartTask, Next, AttemptStep

LEMMA WorkerIsController == ASSUME NEW w \in Workers, WorkerTask(w) PROVE [Next]_vars
<1>1. CASE Answer(w)
  BY <1>1 DEF Answer, Next, WorkerStep
<1>2. CASE Succeeds(w)
  BY <1>2 DEF Succeeds, Next, WorkerStep
<1>3. CASE Fails(w)
  BY <1>3 DEF Fails, Next, WorkerStep
<1>4. CASE Closes(w)
  BY <1>4 DEF Closes, Next, WorkerStep, WorkerLock
<1>5. CASE Require(w) \/ OpRuns(w)
  BY <1>5 DEF Next, WorkerStep, WorkerLock
<1> QED
  BY <1>1, <1>2, <1>3, <1>4, <1>5 DEF WorkerTask

LEMMA UserIsController == ASSUME UserTask PROVE [Next]_vars
<1>1. CASE ReadKey \/ ClearConfirmed \/ PortChosen
  BY <1>1, QueueIsController DEF ReadKey, ClearConfirmed, PortChosen
<1>2. CASE SwitchTab \/ ClearKey \/ ClearDeclined \/ ErrorAcknowledged
  BY <1>2 DEF SwitchTab, ClearKey, ClearDeclined, ErrorAcknowledged
<1>3. CASE CancelKey
  BY <1>3 DEF CancelKey, Next
<1> QED
  BY <1>1, <1>2, <1>3 DEF UserTask

LEMMA MessageIsController == ASSUME Message \/ PollLive PROVE [Next]_vars
<1>1. CASE ChoosePort \/ TabActivated
  BY <1>1 DEF ChoosePort, TabActivated
<1>2. CASE ReadStarts \/ ClearStarts
  BY <1>2 DEF ReadStarts, ClearStarts, Next, Workers
<1>3. CASE PollLive
  BY <1>3 DEF PollLive, Next, Workers
<1> QED
  BY <1>1, <1>2, <1>3 DEF Message

LEMMA UiNextIsController == [UiNext]_uiVars => [Next]_vars
<1> SUFFICES ASSUME [UiNext]_uiVars PROVE [Next]_vars
  OBVIOUS
<1>1. CASE Settled \/ UNCHANGED uiVars
  BY <1>1 DEF Settled, uiVars
<1> QED
  BY <1>1, LoopIsController, WorkerIsController, UserIsController, MessageIsController
     DEF UiNext

\* Whatever the handlers of the app do, to the controller it is a behaviour of its
\* own: app.py reaches the session by connect, cancel, close and the operations.
THEOREM UiSpecIsController == UiSpec => Spec
<1>1. UiInit => Init
  BY DEF UiInit
<1> QED
  BY <1>1, UiNextIsController, PTL DEF UiSpec, Spec

\* The service the app talks through is connected: session.py:22-24.
THEOREM UiPublishedIsLive == UiSpec => []PublishedIsLive
  BY UiSpecIsController, SpecPublishedIsLive, PTL

\* Reads, clears and polls share one attempt: session.py:160-162.
THEOREM UiCurrentIsTheAttempt == UiSpec => []CurrentIsTheAttempt
  BY UiSpecIsController, SpecCurrentIsTheAttempt, PTL

\* No port is left open behind the app: session.py:218-231.
THEOREM UiQuietPorts == UiSpec => []QuietPorts
  BY UiSpecIsController, SpecQuietPorts, PTL

\* The app's session is a HeldSession: session.py:71-73.
THEOREM UiImplementsHeldSession == UiSpec => ImplementsHeldSession
  BY UiSpecIsController, SpecImplementsHeldSession, PTL

----------------------------------------------------------------------------
(* The dialogs.                                                            *)

Dialogs == {"picker", "spinner", "error", "confirm"}

\* No second error dialog while _connect_error_screen is set.
Errors == OneErrorDialog /\ (OnScreen("error") => error)

\* The question of a clear is asked over an empty screen: it lies below all others.
Asked == \A i \in DOMAIN stack : stack[i] = "confirm" => i = Len(stack)

\* Over a fixed port nothing covers the spinner, and a caller of connect waits behind it.
FixedPort ==
    ~hasPicker =>
        /\ ~choose /\ ~OnScreen("picker")
        /\ \A i \in DOMAIN stack : stack[i] = "spinner" => i = 1 /\ spinner
        /\ spinner => OnTop("spinner") /\ \E w \in Workers : pc[w] = "connecting"

DialogInv ==
    /\ stack \in Seq(Dialogs) /\ spinner \in BOOLEAN /\ error \in BOOLEAN
    /\ Errors /\ Asked /\ FixedPort

\* A dialog pushed on top.
LEMMA Pushed ==
    ASSUME NEW s \in Seq(Dialogs), NEW d \in Dialogs
    PROVE  /\ <<d>> \o s \in Seq(Dialogs)
           /\ DOMAIN (<<d>> \o s) = 1..(Len(s) + 1) /\ Len(<<d>> \o s) = Len(s) + 1
           /\ (<<d>> \o s)[1] = d
           /\ \A i \in 2..(Len(s) + 1) : (<<d>> \o s)[i] = s[i - 1] /\ i - 1 \in DOMAIN s
  BY SMT

\* The dialog on top taken away.
LEMMA Popped ==
    ASSUME NEW s \in Seq(Dialogs), s # <<>>
    PROVE  /\ Tail(s) \in Seq(Dialogs)
           /\ Head(s) = s[1] /\ 1 \in DOMAIN s
           /\ \A i \in DOMAIN Tail(s) : Tail(s)[i] = s[i + 1] /\ i + 1 \in DOMAIN s
  BY SMT

LEMMA DismissedIs ==
    ASSUME stack \in Seq(Dialogs)
    PROVE  /\ Dismissed \in Seq(Dialogs)
           /\ Errors => /\ \A i, j \in DOMAIN Dismissed :
                             Dismissed[i] = "error" /\ Dismissed[j] = "error" => i = j
                        /\ (\E i \in DOMAIN Dismissed : Dismissed[i] = "error") => error
           /\ Asked => \A i \in DOMAIN Dismissed : Dismissed[i] = "confirm" => i = Len(Dismissed)
           /\ FixedPort /\ ~hasPicker =>
                \A i \in DOMAIN Dismissed : Dismissed[i] \in {"error", "confirm"}
<1>1. CASE spinner /\ OnTop("spinner")
  <2>1. stack # <<>> /\ Dismissed = Tail(stack)
    BY <1>1 DEF Dismissed, OnTop
  <2> QED
    BY <2>1, Popped, SMT DEF Errors, Asked, OneErrorDialog, FixedPort, OnScreen, Dialogs
<1>2. CASE ~(spinner /\ OnTop("spinner"))
  <2>1. Dismissed = stack
    BY <1>2 DEF Dismissed
  <2>2. \A i \in DOMAIN stack : stack[i] = "spinner" /\ i = 1 /\ spinner => OnTop("spinner")
    BY SMT DEF OnTop
  <2> QED
    BY <2>1, <2>2, <1>2, SMT DEF Errors, Asked, OneErrorDialog, FixedPort, OnScreen, Dialogs
<1> QED
  BY <1>1, <1>2

LEMMA InitDialogInv == UiInit => DialogInv
<1> SUFFICES ASSUME UiInit PROVE DialogInv
  OBVIOUS
<1>1. /\ stack \in Seq(Dialogs)
      /\ \A i \in DOMAIN stack : i = 1 /\ stack[i] = "picker" /\ hasPicker
  <2>1. CASE hasPicker
    BY <2>1, Pushed, SMT DEF UiInit, Dialogs
  <2>2. CASE ~hasPicker
    BY <2>2, SMT DEF UiInit, Dialogs
  <2> QED
    BY <2>1, <2>2
<1>2. Errors /\ Asked /\ FixedPort
  BY <1>1, SMT DEF UiInit, Errors, Asked, OneErrorDialog, FixedPort, OnScreen
<1> QED
  BY <1>1, <1>2 DEF UiInit, DialogInv

\* Nobody leaves connect and no dialog comes or goes.
LEMMA SameDialogs ==
    ASSUME DialogInv, UNCHANGED dialogs,
           \A w \in Workers : pc[w] = "connecting" => pc'[w] = "connecting"
    PROVE  DialogInv'
BY DEF DialogInv, Errors, Asked, OneErrorDialog, FixedPort, OnScreen, OnTop, dialogs

\* The dialog on top, which is not the spinner, is taken away.
LEMMA PopDialogInv ==
    ASSUME DialogInv, NEW d \in {"picker", "confirm"}, OnTop(d), stack' = Tail(stack),
           UNCHANGED <<hasPicker, spinner, error, choose>>
    PROVE  DialogInv'
<1>1. stack # <<>> /\ Head(stack) = d /\ stack \in Seq(Dialogs)
  BY DEF OnTop, DialogInv
<1>2. stack' \in Seq(Dialogs)
  BY <1>1, Popped
<1>3. Errors' /\ Asked'
  BY <1>1, Popped, SMT DEF DialogInv, Errors, Asked, OneErrorDialog, OnScreen
<1>4. FixedPort'
  BY <1>1, Popped, SMT DEF DialogInv, FixedPort, OnScreen, OnTop
<1> QED
  BY <1>2, <1>3, <1>4 DEF DialogInv

\* A worker is replaced when the app has the keys, a port is picked or a clear confirmed.
LEMMA QueueDialogInv ==
    ASSUME DialogInv, ReadKey \/ ClearConfirmed \/ PortChosen
    PROVE  DialogInv'
<1>1. CASE ReadKey
  <2>1. ~hasPicker => ~spinner
    BY <1>1, SMT DEF DialogInv, FixedPort, ReadKey, NoDialog, OnTop
  <2>2. UNCHANGED dialogs
    BY <1>1 DEF ReadKey
  <2> QED
    BY <2>1, <2>2 DEF DialogInv, Errors, Asked, OneErrorDialog, FixedPort, OnScreen, dialogs
<1>2. CASE ClearConfirmed
  BY <1>2, PopDialogInv DEF ClearConfirmed
<1>3. CASE PortChosen
  <2>1. UNCHANGED choose
    BY <1>3 DEF PortChosen
  <2> QED
    BY <1>3, <2>1, PopDialogInv DEF PortChosen
<1> QED
  BY <1>1, <1>2, <1>3

\* The question comes and goes away unanswered.
LEMMA AskDialogInv == ASSUME DialogInv, ClearKey \/ ClearDeclined PROVE DialogInv'
<1>1. CASE ClearKey
  <2>1. /\ stack = <<>> /\ stack' = <<"confirm">>
        /\ UNCHANGED <<pc, hasPicker, spinner, error, choose>>
    BY <1>1 DEF ClearKey, NoDialog, PushIf, vars, workers
  <2>2. stack' \in Seq(Dialogs) /\ DOMAIN stack' = 1..1 /\ stack'[1] = "confirm"
        /\ Len(stack') = 1
    BY <2>1, SMT DEF Dialogs
  <2>3. Errors' /\ Asked'
    BY <2>1, <2>2, SMT DEF DialogInv, Errors, Asked, OneErrorDialog, OnScreen
  <2>4. FixedPort'
    BY <2>1, <2>2, SMT DEF DialogInv, FixedPort, OnScreen, OnTop
  <2> QED
    BY <2>1, <2>2, <2>3, <2>4 DEF DialogInv
<1>2. CASE ClearDeclined
  BY <1>2, PopDialogInv DEF ClearDeclined
<1> QED
  BY <1>1, <1>2

\* connect by a worker that was idle: the spinner is raised over what is there.
LEMMA ConnectDialogInv ==
    ASSUME NEW w \in Workers, CtlInv, DialogInv, Connect(w), ShowConnecting
    PROVE  DialogInv'
<1>1. \A v \in Workers : pc[v] = "connecting" => pc'[v] = "connecting"
  BY SMT DEF CtlInv, TypeOK, Connect, Admitted, Held, Begin, Share, Become
<1>2. CASE ~Raised
  <2>1. UNCHANGED dialogs
    BY <1>2, Zenon DEF ShowConnecting, PushIf, Raised, dialogs, DialogInv
  <2> QED
    BY <1>1, <2>1, SameDialogs
<1>3. CASE Raised
  <2>1. pc'[w] = "connecting"
    BY <1>3, SMT DEF Raised, Begun, Connect, Held, Begin, Share, Become, CtlInv, TypeOK,
                     controller
  <2>2. /\ stack' = <<"spinner">> \o stack /\ spinner' = TRUE /\ ~spinner
        /\ UNCHANGED <<hasPicker, error, choose>>
    BY <1>3 DEF ShowConnecting, PushIf, Raised
  <2>3. stack' \in Seq(Dialogs) /\ OnTop("spinner")'
    BY <2>2, SMT DEF DialogInv, Dialogs, OnTop
  <2>4. Errors' /\ Asked'
    BY <2>2, Pushed, SMT DEF DialogInv, Errors, Asked, OneErrorDialog, OnScreen, Dialogs
  <2>5. FixedPort'
    BY <2>1, <2>2, <2>3, Pushed, SMT DEF DialogInv, FixedPort, OnScreen, Dialogs
  <2> QED
    BY <2>2, <2>3, <2>4, <2>5 DEF DialogInv
<1> QED
  BY <1>2, <1>3

LEMMA AnswerDialogInv ==
    ASSUME NEW w \in Workers, DialogInv, Answer(w) PROVE DialogInv'
<1>1. /\ spinner' = FALSE /\ UNCHANGED <<hasPicker, choose>>
      /\ error' = (error \/ NewError(w))
      /\ stack' = IF NewError(w) THEN <<"error">> \o Dismissed ELSE Dismissed
  BY DEF Answer
<1>2. NewError(w) => ~error
  BY DEF NewError
<1>3. stack' \in Seq(Dialogs)
  <2>1. Dismissed \in Seq(Dialogs)
    BY DismissedIs DEF DialogInv
  <2> QED
    BY <1>1, <2>1, Pushed DEF Dialogs
<1>4. Errors'
  <2>1. CASE NewError(w)
    <3>1. Dismissed \in Seq(Dialogs) /\ \A i \in DOMAIN Dismissed : Dismissed[i] # "error"
      BY <1>2, <2>1, DismissedIs DEF DialogInv
    <3>2. stack' = <<"error">> \o Dismissed /\ error'
      BY <1>1, <2>1
    <3> QED
      BY <3>1, <3>2, Pushed, SMT DEF Errors, OneErrorDialog, OnScreen, Dialogs
  <2>2. CASE ~NewError(w)
    BY <1>1, <2>2, DismissedIs, SMT DEF DialogInv, Errors, OneErrorDialog, OnScreen
  <2> QED
    BY <2>1, <2>2
<1>5. FixedPort' /\ Asked'
  BY <1>1, <1>2, DismissedIs, Pushed, SMT DEF DialogInv, Asked, FixedPort, OnScreen, Dialogs
<1>6. spinner' \in BOOLEAN /\ error' \in BOOLEAN
  BY <1>1, Zenon
<1> QED
  BY <1>3, <1>4, <1>5, <1>6 DEF DialogInv

LEMMA CancelDialogInv == ASSUME DialogInv, CancelKey PROVE DialogInv'
<1>1. /\ spinner' = FALSE /\ UNCHANGED <<hasPicker, error>> /\ stack' = Dismissed
      /\ choose' = (choose \/ hasPicker)
  BY DEF CancelKey
<1>2. stack' \in Seq(Dialogs)
  BY <1>1, DismissedIs DEF DialogInv
<1>3. Errors' /\ Asked'
  BY <1>1, DismissedIs, SMT DEF DialogInv, Errors, Asked, OneErrorDialog, OnScreen
<1>4. FixedPort'
  <2>1. ~hasPicker => ~choose /\ \A i \in DOMAIN Dismissed :
                                  Dismissed[i] # "spinner" /\ Dismissed[i] # "picker"
    BY DismissedIs DEF DialogInv, FixedPort
  <2> QED
    BY <1>1, <2>1, Zenon DEF FixedPort, OnScreen
<1> QED
  BY <1>1, <1>2, <1>3, <1>4 DEF DialogInv

LEMMA ChooseDialogInv == ASSUME DialogInv, ChoosePort PROVE DialogInv'
<1>1. /\ stack' = <<"picker">> \o stack /\ UNCHANGED <<hasPicker, spinner, error>>
      /\ hasPicker
  BY DEF ChoosePort, PushIf, DialogInv, FixedPort
<1>2. stack' \in Seq(Dialogs)
  BY <1>1, SMT DEF DialogInv, Dialogs
<1>3. Errors' /\ Asked'
  BY <1>1, Pushed, SMT DEF DialogInv, Errors, Asked, OneErrorDialog, OnScreen, Dialogs
<1> QED
  BY <1>1, <1>2, <1>3 DEF DialogInv, FixedPort

LEMMA AcknowledgedDialogInv == ASSUME DialogInv, ErrorAcknowledged PROVE DialogInv'
<1>1. /\ stack # <<>> /\ Head(stack) = "error"
      /\ error' = FALSE /\ UNCHANGED <<pc, hasPicker, spinner, choose>>
      /\ stack' = IF hasPicker THEN <<"picker">> \o Tail(stack) ELSE Tail(stack)
  BY DEF ErrorAcknowledged, OnTop, vars, workers
<1>2. stack' \in Seq(Dialogs)
  <2>1. Tail(stack) \in Seq(Dialogs)
    BY <1>1, Popped DEF DialogInv
  <2> QED
    BY <1>1, <2>1, Pushed DEF Dialogs
<1>3. \A i \in DOMAIN Tail(stack) : Tail(stack)[i] # "error"
  BY <1>1, Popped, SMT DEF DialogInv, Errors, OneErrorDialog
<1>4. Errors'
  <2>1. ~OnScreen("error")'
    BY <1>1, <1>3, Popped, Pushed, SMT DEF DialogInv, OnScreen, Dialogs
  <2> QED
    BY <2>1 DEF Errors, OneErrorDialog, OnScreen
<1>5. FixedPort'
  BY <1>1, Popped, SMT DEF DialogInv, FixedPort, OnScreen, OnTop
<1>6. Asked'
  BY <1>1, Popped, Pushed, SMT DEF DialogInv, Asked, Dialogs
<1> QED
  BY <1>1, <1>2, <1>4, <1>5, <1>6 DEF DialogInv

LEMMA NextDialogInv == CtlInv /\ DialogInv /\ [UiNext]_uiVars => DialogInv'
<1> SUFFICES ASSUME CtlInv, DialogInv, [UiNext]_uiVars PROVE DialogInv'
  OBVIOUS
<1>1. CASE \E a \in Attempts : LoopTask(a) \/ StartTask(a)
  <2>1. UNCHANGED dialogs /\ UNCHANGED pc
    BY <1>1 DEF LoopTask, StartTask, ThreadStep, StartRuns, OpenFails, Opened, Lost, InitOk,
                InitFails, StartStep, RunTask, Publish, Discard, RunClosed, ui, workers
  <2> QED
    BY <2>1, SameDialogs
<1>2. CASE \E w \in Workers : Answer(w)
  BY <1>2, AnswerDialogInv
<1>3. CASE \E w \in Workers : WorkerTask(w) /\ ~Answer(w)
  <2>1. UNCHANGED dialogs
    BY <1>3 DEF WorkerTask, Succeeds, Fails, Closes, ui
  <2>2. \A v \in Workers : pc[v] = "connecting" => pc'[v] = "connecting"
    BY <1>3, SMT DEF WorkerTask, Succeeds, Fails, Closes, OpOk, OpFails, Require, Failed, OpRuns,
                     TakeSession, CloseDone, Become, CtlInv, TypeOK
  <2> QED
    BY <2>1, <2>2, SameDialogs
<1>4. CASE UserTask
  <2>1. CASE SwitchTab
    BY <2>1, SameDialogs DEF SwitchTab, vars, workers
  <2> QED
    BY <1>4, <2>1, QueueDialogInv, AskDialogInv, CancelDialogInv, AcknowledgedDialogInv
       DEF UserTask
<1>5. CASE ReadStarts \/ PollLive
  BY <1>5, ConnectDialogInv DEF ReadStarts, PollLive, Workers
<1>6. CASE ClearStarts
  <2>1. UNCHANGED dialogs
    BY <1>6 DEF ClearStarts
  <2>2. \A v \in Workers : pc[v] = "connecting" => pc'[v] = "connecting"
    BY <1>6, SMT DEF ClearStarts, Clear, Admitted, Become, CtlInv, TypeOK
  <2> QED
    BY <2>1, <2>2, SameDialogs
<1>7. CASE ChoosePort
  BY <1>7, ChooseDialogInv
<1>8. CASE TabActivated \/ Settled \/ UNCHANGED uiVars
  <2>1. UNCHANGED <<dialogs, pc>>
    BY <1>8 DEF TabActivated, Settled, uiVars, ui, vars, workers
  <2> QED
    BY <2>1, SameDialogs
<1> QED
  BY <1>1, <1>2, <1>3, <1>4, <1>5, <1>6, <1>7, <1>8 DEF UiNext, Message

THEOREM UiSpecDialogInv == UiSpec => []DialogInv
<1>1. UiSpec => []CtlInv
  BY UiSpecIsController, SpecCtlInv, PTL
<1> QED
  BY <1>1, InitDialogInv, NextDialogInv, PTL DEF UiSpec

\* One dialog tells of a failed connect, however many callers shared it, and it
\* can come again once it was acknowledged: app.py:663-672.
THEOREM UiOneErrorDialog == UiSpec => []OneErrorDialog
<1>1. DialogInv => OneErrorDialog
  BY DEF DialogInv, Errors
<1> QED
  BY <1>1, UiSpecDialogInv, PTL

\* Over a fixed port, who sees the spinner can cancel, or is about to be told how
\* the connect went: app.py:584-599.
THEOREM UiSpinnerHasOwner == UiSpec => []SpinnerHasOwner
<1>1. DialogInv => SpinnerHasOwner
  BY DEF DialogInv, FixedPort, SpinnerHasOwner, OnScreen
<1> QED
  BY <1>1, UiSpecDialogInv, PTL

----------------------------------------------------------------------------
(* The title bar.                                                          *)

\* The worker of the group "ecu" that was not replaced.
OnTheJob(w) == w \in EcuWorkers \ orphan /\ pc[w] # "idle"

\* There is one at most, and none when another is about to start.
OneJob ==
    /\ queued \in {"none", "read", "clear"}
    /\ \A w \in orphan : w \in EcuWorkers /\ pc[w] \notin {"idle", "connecting"}
    /\ \A w \in clearing : w \in EcuWorkers /\ pc[w] \in {"ready", "waiting", "running"}
    /\ queued # "none" => \A w \in EcuWorkers : ~OnTheJob(w)
    /\ \A v, w \in EcuWorkers : OnTheJob(v) /\ OnTheJob(w) => v = w

\* An attempt that is done has an outcome to tell.
Told ==
    /\ \A w \in Workers : pc[w] = "connecting" => on[w] \in Attempts
    /\ \A a \in Attempts : run[a] = "done" => outcome[a] \in {"connected", "failed", "cancelled"}
    /\ \A a \in Attempts : outcome[a] = "cancelled" => a \in cancelled

\* The error dialog stays until it is acknowledged.
ErrorStacked == error => OnScreen("error")

\* The title names an operation.
Untold == title \in {"reading", "clearing"}

\* Over a fixed port somebody will change such a title.  A caller of connect will,
\* for its attempt was not cancelled and a failure would be told; and behind the
\* error dialog nobody shares an attempt.
TitleOwned ==
    ~hasPicker /\ Untold =>
        /\ queued # "none" \/ \E w \in EcuWorkers : OnTheJob(w)
        /\ \A w \in EcuWorkers : pc[w] = "connecting" => on[w] \notin cancelled /\ ~error
        /\ error /\ (queued = "read" \/ \E w \in clearing \ orphan : pc[w] \in {"waiting", "running"})
              => current = None

TitleInv == OneJob /\ Told /\ ErrorStacked /\ TitleOwned

\* What the proofs of the steps start from.
Before == CtlInv /\ DialogInv /\ TitleInv

LEMMA BeforeTypes ==
    ASSUME Before
    PROVE  /\ TypeOK /\ OneJob /\ Told /\ ErrorStacked /\ TitleOwned
           /\ Live \notin EcuWorkers
           /\ pc = [w \in Workers |-> pc[w]] /\ on = [w \in Workers |-> on[w]]
<1>1. TypeOK /\ OneJob /\ Told /\ ErrorStacked /\ TitleOwned /\ Live \notin EcuWorkers
  BY ControllerAssumption DEF Before, CtlInv, TitleInv
<1> QED
  BY <1>1 DEF TypeOK

LEMMA InitTitleInv == UiInit => TitleInv
<1> SUFFICES ASSUME UiInit PROVE TitleInv
  OBVIOUS
<1>1. OneJob /\ Told
  BY SMT DEF UiInit, Init, OneJob, Told, OnTheJob, Attempts, None, Workers
<1>2. ErrorStacked /\ TitleOwned
  BY DEF UiInit, ErrorStacked, TitleOwned, Untold
<1> QED
  BY <1>1, <1>2 DEF TitleInv

LEMMA CallersAreOnTheJob ==
    ASSUME OneJob, NEW w \in EcuWorkers, pc[w] = "connecting"
    PROVE  OnTheJob(w)
  BY DEF OneJob, OnTheJob

\* The error dialog survives what comes and goes over it.
LEMMA ErrorUnder ==
    ASSUME NEW s \in Seq(Dialogs), NEW i \in DOMAIN s, s[i] = "error"
    PROVE  /\ \A d \in Dialogs : \E j \in DOMAIN (<<d>> \o s) : (<<d>> \o s)[j] = "error"
           /\ Head(s) # "error" =>
                \E j \in DOMAIN Tail(s) : Tail(s)[j] = "error"
<1>1. ASSUME NEW d \in Dialogs PROVE i + 1 \in DOMAIN (<<d>> \o s) /\ (<<d>> \o s)[i + 1] = "error"
  BY SMT
<1>2. ASSUME Head(s) # "error" PROVE i - 1 \in DOMAIN Tail(s) /\ Tail(s)[i - 1] = "error"
  BY <1>2, SMT
<1> QED
  BY <1>1, <1>2

LEMMA ErrorStays ==
    ASSUME DialogInv, ErrorStacked, error' => error,
           stack' \in {stack, Dismissed} \cup {<<d>> \o stack : d \in Dialogs}
             \/ ((OnTop("picker") \/ OnTop("confirm")) /\ stack' = Tail(stack))
    PROVE  ErrorStacked'
<1> SUFFICES ASSUME error' PROVE OnScreen("error")'
  BY DEF ErrorStacked
<1>1. PICK i \in DOMAIN stack : stack[i] = "error"
  BY DEF ErrorStacked, OnScreen
<1>2. stack \in Seq(Dialogs)
  BY DEF DialogInv
<1>3. CASE stack' = stack
  BY <1>1, <1>3 DEF OnScreen
<1>4. CASE stack' = Tail(stack) /\ Head(stack) # "error"
  BY <1>1, <1>2, <1>4, ErrorUnder DEF OnScreen
<1>5. CASE \E d \in Dialogs : stack' = <<d>> \o stack
  BY <1>1, <1>2, <1>5, ErrorUnder DEF OnScreen
<1> QED
  BY <1>3, <1>4, <1>5 DEF Dismissed, OnTop

LEMMA LoopTitleInv ==
    ASSUME Before, NEW a \in Attempts, LoopTask(a) \/ StartTask(a)
    PROVE  TitleInv'
<1>1. /\ UNCHANGED <<pc, on, orphan, cancelled, ui>> /\ current' \in {current, None}
  BY DEF LoopTask, StartTask, ThreadStep, StartRuns, OpenFails, Opened, Lost, InitOk,
         InitFails, StartStep, RunTask, Publish, Discard, RunClosed, ui, workers, controller, Detach
<1>2. /\ UNCHANGED <<queued, clearing, title, stack, error, hasPicker>>
  BY <1>1 DEF ui, dialogs, jobs
<1>3. OneJob'
  BY <1>1, <1>2, BeforeTypes DEF OneJob, OnTheJob
<1>4. Told'
  <2>1. CASE StartTask(a)
    BY <1>1, <2>1, BeforeTypes DEF StartTask, ThreadStep, StartRuns, OpenFails, Opened, Lost,
       InitOk, InitFails, StartStep, controller, Told
  <2>2. CASE RunTask(a) \/ Publish(a) \/ Discard(a)
    BY <1>1, <2>2, BeforeTypes, SMT DEF RunTask, Publish, Discard, Told, TypeOK
  <2>3. CASE RunClosed(a)
    BY <1>1, <2>3, BeforeTypes, SMT DEF RunClosed, Told, TypeOK, Before, CtlInv, Verdicts
  <2> QED
    BY <2>1, <2>2, <2>3 DEF LoopTask
<1>5. ErrorStacked'
  BY <1>2, BeforeTypes DEF ErrorStacked, OnScreen
<1>6. TitleOwned'
  BY <1>1, <1>2, BeforeTypes DEF TitleOwned, Untold, OnTheJob
<1> QED
  BY <1>3, <1>4, <1>5, <1>6 DEF TitleInv

\* Nobody connects or is told, and no dialog comes or goes.
LEMMA QueueTitleInv ==
    ASSUME Before, ReadKey \/ ClearConfirmed \/ PortChosen
    PROVE  TitleInv'
<1>1. /\ UNCHANGED <<controller, on, clearing, title, error, hasPicker>>
      /\ queued' \in {"read", "clear"}
  BY DEF ReadKey, ClearConfirmed, PortChosen, Queue, Replace, vars, workers, dialogs
<1>2. \/ UNCHANGED <<pc, orphan>> /\ \A w \in EcuWorkers : pc[w] = "idle" \/ w \in orphan
      \/ \E w \in EcuWorkers :
           /\ pc[w] # "idle" /\ w \notin orphan
           /\ \/ pc[w] = "connecting" /\ pc' = [pc EXCEPT ![w] = "idle"] /\ orphan' = orphan
              \/ pc[w] # "connecting" /\ orphan' = orphan \cup {w} /\ pc' = pc
  BY DEF ReadKey, ClearConfirmed, PortChosen, Queue, Replace, Become, vars, workers
<1>3. \A w \in EcuWorkers : ~OnTheJob(w)'
  BY <1>2, BeforeTypes, SMT DEF OnTheJob, OneJob, TypeOK, Workers
<1>4. OneJob'
  <2>1. \A w \in orphan' : w \in EcuWorkers /\ pc'[w] \notin {"idle", "connecting"}
    BY <1>2, BeforeTypes, SMT DEF OneJob, TypeOK, Workers
  <2>2. \A w \in clearing : w \in EcuWorkers /\ pc'[w] \in {"ready", "waiting", "running"}
    BY <1>2, BeforeTypes, SMT DEF OneJob, TypeOK, Workers
  <2> QED
    BY <1>1, <1>3, <2>1, <2>2 DEF OneJob
<1>5. \A w \in Workers : pc'[w] = "connecting" => pc[w] = "connecting"
  BY <1>2, BeforeTypes, SMT DEF TypeOK, Workers
<1>6. Told'
  BY <1>1, <1>5, BeforeTypes DEF Told, controller
<1>7. ErrorStacked'
  BY <1>1, BeforeTypes, ErrorStays DEF ReadKey, ClearConfirmed, PortChosen, dialogs, Before
<1>8. ~hasPicker => ~error
  <2>1. ~hasPicker => ~PortChosen
    BY Popped DEF PortChosen, OnTop, Before, DialogInv, FixedPort, OnScreen
  <2>2. CASE ReadKey
    BY <2>2, BeforeTypes DEF ReadKey, NoDialog, ErrorStacked, OnScreen
  <2>3. CASE ClearConfirmed
    BY <2>3, BeforeTypes, SMT DEF ClearConfirmed, OnTop, Before, DialogInv, Asked,
                                  ErrorStacked, OnScreen
  <2> QED
    BY <2>1, <2>2, <2>3
<1>9. TitleOwned'
  <2>1. \A w \in EcuWorkers : pc'[w] # "connecting"
    BY <1>3, <1>4, CallersAreOnTheJob DEF OneJob, OnTheJob
  <2> QED
    BY <1>1, <1>8, <2>1 DEF TitleOwned, Untold
<1> QED
  BY <1>4, <1>6, <1>7, <1>9 DEF TitleInv

\* connect by a worker that was idle: it holds the session, or has an attempt.
LEMMA ConnectIs ==
    ASSUME Before, NEW w \in Workers, Connect(w), ShowConnecting
    PROVE  /\ pc[w] = "idle" /\ pc' = [pc EXCEPT ![w] = pc'[w]]
           /\ UNCHANGED <<orphan, outcome, hasPicker, error>>
           /\ \A a \in Attempts : run'[a] = "done" => run[a] = "done"
           /\ cancelled' = cancelled
           /\ \/ pc'[w] = "ready" /\ session # None /\ ~Begun /\ UNCHANGED <<current, on>>
              \/ /\ pc'[w] = "connecting" /\ on'[w] = current' /\ on' = [on EXCEPT ![w] = on'[w]]
                 /\ current' \in Attempts
                 /\ session = None
                 /\ Begun \/ (~Begun /\ current' = current /\ current \notin cancelled)
<1>1. /\ pc[w] = "idle" /\ UNCHANGED <<orphan, outcome, hasPicker, error>>
  BY DEF Connect, Admitted, ShowConnecting, Held, Begin, Share, controller
<1>2. CASE Held(w)
  BY <1>1, <1>2, BeforeTypes DEF Held, Become, TypeOK, controller, Begun
<1>3. CASE Begin(w)
  <2>1. made + 1 \in Attempts /\ made' # made
    BY <1>3, BeforeTypes, ControllerAssumption, SMT DEF Begin, TypeOK, Attempts, NewNumber
  <2> QED
    BY <1>1, <1>3, <2>1, BeforeTypes DEF Begin, Become, TypeOK, Begun, NewNumber, Flags
<1>4. CASE Share(w)
  <2>1. current \in Attempts
    BY <1>4, BeforeTypes, ControllerAssumption, SMT DEF Share, TypeOK, Attempts, None
  <2>2. current \notin cancelled
    BY <2>1 DEF Before, CtlInv, CurrentIsTheAttempt
  <2> QED
    BY <1>1, <1>4, <2>1, <2>2, BeforeTypes DEF Share, Become, TypeOK, Begun, controller
<1> QED
  BY <1>2, <1>3, <1>4 DEF Connect

LEMMA ConnectErrorStacked ==
    ASSUME DialogInv, ErrorStacked, ShowConnecting PROVE ErrorStacked'
BY ErrorStays DEF ShowConnecting, PushIf, Dialogs

LEMMA ReadTitleInv == ASSUME Before, ReadStarts PROVE TitleInv'
<1>1. PICK w \in EcuWorkers : Connect(w)
  BY DEF ReadStarts
<1>2. /\ queued = "read" /\ queued' = "none" /\ ShowConnecting /\ clearing' = clearing
      /\ title' = IF Begun THEN "connecting" ELSE IF session # None THEN "reading" ELSE title
  BY DEF ReadStarts
<1>3. w \in Workers
  BY DEF Workers
<1>4. /\ pc[w] = "idle" /\ pc' = [pc EXCEPT ![w] = pc'[w]]
      /\ UNCHANGED <<orphan, outcome, hasPicker, error, cancelled>>
      /\ \A a \in Attempts : run'[a] = "done" => run[a] = "done"
      /\ pc'[w] \in {"ready", "connecting"}
  BY <1>1, <1>2, <1>3, ConnectIs, BeforeTypes DEF TypeOK
<1>5. \A v \in EcuWorkers : ~OnTheJob(v)
  BY <1>2, BeforeTypes DEF OneJob
<1>6. \A v \in Workers : v # w => pc'[v] = pc[v]
  BY <1>3, <1>4, BeforeTypes
<1>7. w \notin orphan /\ w \notin clearing
  BY <1>4, BeforeTypes DEF OneJob
<1>8. OnTheJob(w)' /\ \A v \in EcuWorkers : OnTheJob(v)' => v = w
  BY <1>3, <1>4, <1>5, <1>6, <1>7 DEF OnTheJob, Workers
<1>9. OneJob'
  BY <1>2, <1>3, <1>4, <1>6, <1>7, <1>8, BeforeTypes DEF OneJob, Workers
<1>10. Told'
  <2>1. \A v \in Workers : pc'[v] = "connecting" => on'[v] \in Attempts
    BY <1>1, <1>2, <1>3, <1>6, ConnectIs, BeforeTypes DEF Told, TypeOK
  <2> QED
    BY <1>4, <2>1, BeforeTypes DEF Told
<1>11. ErrorStacked'
  BY <1>2, ConnectErrorStacked DEF Before, TitleInv
<1>12. TitleOwned'
  <2> SUFFICES ASSUME ~hasPicker, Untold'
               PROVE  /\ \A v \in EcuWorkers :
                           pc'[v] = "connecting" => on'[v] \notin cancelled' /\ ~error'
                      /\ ~(\E v \in clearing' \ orphan' : pc'[v] \in {"waiting", "running"})
    BY <1>2, <1>4, <1>8 DEF TitleOwned
  <2>1. ~Begun
    BY <1>2 DEF Untold
  <2>2. ASSUME NEW v \in EcuWorkers, pc'[v] = "connecting"
        PROVE  on'[v] \notin cancelled' /\ ~error'
    <3>1. v = w
      BY <1>8, <1>9, <2>2, CallersAreOnTheJob DEF OneJob, OnTheJob
    <3>2. /\ on'[w] = current /\ current \notin cancelled /\ current \in Attempts
          /\ session = None
      BY <1>1, <1>2, <1>3, <2>1, <2>2, <3>1, ConnectIs
    <3>3. Untold /\ current # None
      BY <1>2, <2>1, <3>2, ControllerAssumption DEF Untold, Attempts, None
    <3>4. ~error
      BY <1>2, <3>3, BeforeTypes DEF TitleOwned
    <3> QED
      BY <1>4, <3>1, <3>2, <3>4
  <2>3. \A v \in clearing' \ orphan' : FALSE
    BY <1>2, <1>4, <1>5, BeforeTypes DEF OneJob, OnTheJob
  <2> QED
    BY <2>2, <2>3
<1> QED
  BY <1>9, <1>10, <1>11, <1>12 DEF TitleInv

LEMMA PollTitleInv == ASSUME Before, PollLive PROVE TitleInv'
<1>1. /\ Connect(Live) /\ ShowConnecting /\ UNCHANGED <<queued, clearing>>
      /\ title' = IF Begun THEN "connecting" ELSE title
      /\ Live \in Workers /\ Live \notin EcuWorkers
  BY BeforeTypes DEF PollLive, jobs, Workers
<1>2. /\ pc[Live] = "idle" /\ pc' = [pc EXCEPT ![Live] = pc'[Live]]
      /\ UNCHANGED <<orphan, outcome, hasPicker, error, cancelled>>
      /\ \A a \in Attempts : run'[a] = "done" => run[a] = "done"
  BY <1>1, ConnectIs, BeforeTypes DEF TypeOK
<1>3. \A v \in EcuWorkers : v \in Workers /\ pc'[v] = pc[v] /\ on'[v] = on[v]
  <2>1. on' = on \/ on' = [on EXCEPT ![Live] = on'[Live]]
    BY <1>1, ConnectIs
  <2>2. \A v \in EcuWorkers : v \in Workers /\ v # Live
    BY <1>1 DEF Workers
  <2> QED
    BY <1>2, <2>1, <2>2, BeforeTypes
<1>4. \A v \in EcuWorkers : OnTheJob(v)' <=> OnTheJob(v)
  BY <1>2, <1>3 DEF OnTheJob
<1>5. OneJob'
  BY <1>1, <1>2, <1>3, <1>4, BeforeTypes DEF OneJob
<1>6. Told'
  <2>1. \A v \in Workers : pc'[v] = "connecting" => on'[v] \in Attempts
    BY <1>1, <1>3, ConnectIs, BeforeTypes DEF Told, Workers
  <2> QED
    BY <1>2, <2>1, BeforeTypes DEF Told
<1>7. ErrorStacked'
  BY <1>1, ConnectErrorStacked DEF Before, TitleInv
<1>8. TitleOwned'
  <2> SUFFICES ASSUME ~hasPicker, Untold' PROVE TitleOwned'
    BY <1>2 DEF TitleOwned
  <2>1. ~Begun /\ title' = title
    BY <1>1 DEF Untold
  <2>2. current' = current
    BY <1>1, <2>1, ConnectIs
  <2>3. \A v \in clearing \ orphan : v \in EcuWorkers
    BY BeforeTypes DEF OneJob
  <2> QED
    BY <1>1, <1>2, <1>3, <1>4, <2>1, <2>2, <2>3, BeforeTypes DEF TitleOwned, Untold
<1> QED
  BY <1>5, <1>6, <1>7, <1>8 DEF TitleInv

LEMMA ClearTitleInv == ASSUME Before, ClearStarts PROVE TitleInv'
<1>1. PICK w \in EcuWorkers : Clear(w) /\ clearing' = clearing \cup {w}
  BY DEF ClearStarts
<1>2. /\ queued = "clear" /\ queued' = "none" /\ title' = "clearing"
      /\ UNCHANGED <<stack, error, hasPicker>>
      /\ pc[w] = "idle" /\ pc' = [pc EXCEPT ![w] = "ready"]
      /\ UNCHANGED <<controller, orphan, on>> /\ w \in Workers
  BY <1>1, BeforeTypes DEF ClearStarts, Clear, Admitted, Become, dialogs, TypeOK, Workers
<1>3. \A v \in EcuWorkers : ~OnTheJob(v)
  BY <1>2, BeforeTypes DEF OneJob
<1>4. \A v \in Workers : v # w => pc'[v] = pc[v]
  BY <1>2, BeforeTypes
<1>5. w \notin orphan
  BY <1>2, BeforeTypes DEF OneJob
<1>6. pc'[w] = "ready" /\ OnTheJob(w)' /\ \A v \in EcuWorkers : OnTheJob(v)' => v = w
  BY <1>2, <1>3, <1>4, <1>5, BeforeTypes DEF OnTheJob, Workers
<1>7. OneJob'
  BY <1>1, <1>2, <1>4, <1>5, <1>6, BeforeTypes DEF OneJob, Workers
<1>8. Told'
  BY <1>2, <1>4, <1>6, BeforeTypes DEF Told, controller
<1>9. ErrorStacked'
  BY <1>2, BeforeTypes DEF ErrorStacked, OnScreen
<1>10. TitleOwned'
  <2>1. \A v \in EcuWorkers : pc'[v] # "connecting"
    BY <1>6, <1>7, CallersAreOnTheJob DEF OneJob, OnTheJob
  <2>2. \A v \in clearing' \ orphan' : pc'[v] = "ready"
    BY <1>1, <1>2, <1>3, <1>6, BeforeTypes DEF OneJob, OnTheJob
  <2> QED
    BY <1>2, <1>6, <2>1, <2>2 DEF TitleOwned
<1> QED
  BY <1>7, <1>8, <1>9, <1>10 DEF TitleInv

\* A worker goes on, or ends; nobody else does.
LEMMA WorkerGoesOn ==
    ASSUME Before, NEW w \in Workers, NEW l, pc' = [pc EXCEPT ![w] = l], pc[w] # "idle",
           queued' = queued, clearing' \in {clearing, clearing \ {w}},
           \/ orphan' = orphan /\ (w \in orphan => l \notin {"idle", "connecting"})
           \/ orphan' = orphan \ {w} /\ (w \in orphan => l = "idle"),
           w \in clearing' => l \in {"ready", "waiting", "running"}
    PROVE  /\ OneJob' /\ pc'[w] = l
           /\ \A v \in Workers : v # w => pc'[v] = pc[v]
           /\ \A v \in EcuWorkers : OnTheJob(v)' <=> OnTheJob(v) /\ (v = w => l # "idle")
           /\ \A v \in clearing' \ orphan' : v \in clearing \ orphan /\ v \in EcuWorkers
<1>1. pc'[w] = l /\ \A v \in Workers : v # w => pc'[v] = pc[v]
  BY BeforeTypes
<1>2. \A v \in EcuWorkers : v \in Workers
  BY DEF Workers
<1>3. \A v \in EcuWorkers : OnTheJob(v)' <=> OnTheJob(v) /\ (v = w => l # "idle")
  BY <1>1, <1>2, BeforeTypes DEF OnTheJob, OneJob
<1>4. \A v \in orphan' : v \in EcuWorkers /\ pc'[v] \notin {"idle", "connecting"}
  BY <1>1, <1>2, BeforeTypes DEF OneJob
<1>5. \A v \in clearing' : v \in EcuWorkers /\ pc'[v] \in {"ready", "waiting", "running"}
  BY <1>1, <1>2, BeforeTypes DEF OneJob
<1>6. OneJob'
  BY <1>3, <1>4, <1>5, BeforeTypes DEF OneJob
<1>7. \A v \in clearing' \ orphan' : v \in clearing \ orphan /\ v \in EcuWorkers
  BY <1>1, <1>5, BeforeTypes DEF OneJob
<1> QED
  BY <1>1, <1>3, <1>6, <1>7

LEMMA AnswerTitleInv == ASSUME Before, NEW w \in Workers, Answer(w) PROVE TitleInv'
<1>1. /\ pc[w] = "connecting" /\ run[on[w]] = "done"
      /\ pc' = [pc EXCEPT ![w] = Answered(w)] /\ Answered(w) \in {"ready", "idle"}
      /\ UNCHANGED <<current, cancelled, run, outcome, on, orphan, queued, clearing, hasPicker>>
      /\ error' = (error \/ NewError(w))
      /\ stack' = IF NewError(w) THEN <<"error">> \o Dismissed ELSE Dismissed
  BY DEF Answer, Deliver, Become, Answered, controller, jobs
<1>2. on[w] \in Attempts /\ outcome[on[w]] \in {"connected", "failed", "cancelled"}
      /\ (outcome[on[w]] = "cancelled" => on[w] \in cancelled)
  BY <1>1, BeforeTypes DEF Told
<1>3. w \notin orphan /\ w \notin clearing
  BY <1>1, BeforeTypes DEF OneJob
<1>4. /\ OneJob' /\ pc'[w] = Answered(w)
      /\ \A v \in Workers : v # w => pc'[v] = pc[v]
      /\ \A v \in EcuWorkers : OnTheJob(v)' <=> OnTheJob(v) /\ (v = w => Answered(w) # "idle")
      /\ \A v \in clearing' \ orphan' : v \in clearing \ orphan /\ v \in EcuWorkers
  BY <1>1, <1>3, WorkerGoesOn
<1>5. Told'
  BY <1>1, <1>4, BeforeTypes DEF Told
<1>6. ErrorStacked'
  <2>1. CASE NewError(w)
    <3>1. Dismissed \in Seq(Dialogs)
      BY DismissedIs DEF Before, DialogInv
    <3>2. 1 \in DOMAIN (<<"error">> \o Dismissed) /\ (<<"error">> \o Dismissed)[1] = "error"
      BY <3>1, Pushed, LenProperties, SMT DEF Dialogs
    <3> QED
      BY <1>1, <2>1, <3>2 DEF ErrorStacked, OnScreen
  <2>2. CASE ~NewError(w)
    BY <1>1, <2>2, ErrorStays, BeforeTypes DEF Before
  <2> QED
    BY <2>1, <2>2
<1>7. TitleOwned'
  <2> SUFFICES ASSUME ~hasPicker, Untold' PROVE TitleOwned'
    BY <1>1 DEF TitleOwned
  <2>1. ~NewError(w)
    BY DEF Answer, Untold, NewError
  <2>2. CASE w \in EcuWorkers /\ outcome[on[w]] = "connected"
    <3>1. OnTheJob(w) /\ Answered(w) = "ready"
      BY <1>1, <2>2, BeforeTypes, CallersAreOnTheJob DEF Answered
    <3>2. OnTheJob(w)' /\ queued' = "none"
      BY <1>1, <1>4, <2>2, <3>1, BeforeTypes DEF OneJob
    <3>3. \A v \in EcuWorkers : OnTheJob(v) => v = w
      BY <2>2, <3>1, BeforeTypes DEF OneJob
    <3>4. \A v \in EcuWorkers : pc'[v] # "connecting"
      BY <1>4, <2>2, <3>1, <3>3, CallersAreOnTheJob, BeforeTypes DEF Workers
    <3>5. \A v \in clearing' \ orphan' : FALSE
      BY <1>3, <1>4, <3>3, BeforeTypes DEF OneJob, OnTheJob
    <3> QED
      BY <2>2, <3>2, <3>4, <3>5 DEF TitleOwned
  <2>3. CASE w \in EcuWorkers /\ outcome[on[w]] # "connected"
    <3>1. Untold
      BY <2>1, <2>3 DEF Answer, Untold
    <3>2. on[w] \notin cancelled /\ ~error
      BY <1>1, <2>3, <3>1, BeforeTypes DEF TitleOwned
    <3> QED
      BY <1>2, <2>1, <2>3, <3>2 DEF NewError
  <2>4. CASE w = Live
    <3>1. title' = title
      BY <2>1, <2>4 DEF Answer
    <3>2. Untold
      BY <3>1 DEF Untold
    <3>3. error' = error
      BY <2>1, BeforeTypes, Zenon DEF Answer, Before, DialogInv
    <3>4. \A v \in EcuWorkers : v \in Workers /\ v # w
      BY <2>4, BeforeTypes DEF Workers
    <3> QED
      BY <1>1, <1>4, <3>2, <3>3, <3>4, BeforeTypes DEF TitleOwned
  <2> QED
    BY <2>2, <2>3, <2>4 DEF Workers
<1> QED
  BY <1>4, <1>5, <1>6, <1>7 DEF TitleInv

LEMMA SucceedsTitleInv == ASSUME Before, NEW w \in Workers, Succeeds(w) PROVE TitleInv'
<1>1. /\ pc[w] = "running" /\ pc' = [pc EXCEPT ![w] = "idle"] /\ orphan' = orphan \ {w}
      /\ UNCHANGED <<current, cancelled, run, outcome, on, stack, error, hasPicker>>
      /\ clearing' = clearing \ {w}
      /\ queued' = IF w \in clearing \ orphan THEN "read" ELSE queued
      /\ title' = IF Shows(w) THEN "connected" ELSE title
  BY DEF Succeeds, OpOk, Become, controller, dialogs
<1>2. /\ \A v \in Workers : v # w => pc'[v] = pc[v]
      /\ \A v \in EcuWorkers : OnTheJob(v)' <=> OnTheJob(v) /\ v # w
      /\ pc'[w] = "idle"
  BY <1>1, BeforeTypes DEF OnTheJob, Workers
<1>3. \A v \in clearing' \ orphan' : v \in clearing \ orphan /\ v \in EcuWorkers /\ v # w
  BY <1>1, BeforeTypes DEF OneJob
<1>4. w \in clearing \ orphan => w \in EcuWorkers /\ OnTheJob(w)
  BY <1>1, BeforeTypes DEF OneJob, OnTheJob
<1>5. OneJob'
  <2>1. \A v \in orphan' : v \in EcuWorkers /\ pc'[v] \notin {"idle", "connecting"}
    BY <1>1, <1>2, BeforeTypes DEF OneJob, Workers
  <2>2. \A v \in clearing' : v \in EcuWorkers /\ pc'[v] \in {"ready", "waiting", "running"}
    BY <1>1, <1>2, BeforeTypes DEF OneJob, Workers
  <2>3. queued' # "none" => \A v \in EcuWorkers : ~OnTheJob(v)'
    BY <1>1, <1>2, <1>4, BeforeTypes DEF OneJob
  <2> QED
    BY <1>1, <1>2, <2>1, <2>2, <2>3, BeforeTypes DEF OneJob
<1>6. Told'
  BY <1>1, <1>2, BeforeTypes DEF Told
<1>7. ErrorStacked'
  BY <1>1, BeforeTypes DEF ErrorStacked, OnScreen
<1>8. TitleOwned'
  <2> SUFFICES ASSUME ~hasPicker, Untold' PROVE TitleOwned'
    BY <1>1 DEF TitleOwned
  <2>1. Untold /\ ~Shows(w)
    BY <1>1 DEF Untold
  <2>2. CASE w \in clearing \ orphan
    <3>1. \A v \in EcuWorkers : ~OnTheJob(v)' /\ queued' = "read"
      BY <1>1, <1>2, <1>4, <2>2, BeforeTypes DEF OneJob
    <3>2. \A v \in EcuWorkers : pc'[v] # "connecting"
      BY <1>5, <3>1, CallersAreOnTheJob DEF OneJob, OnTheJob
    <3>3. error => current = None
      BY <1>1, <2>1, <2>2, BeforeTypes DEF TitleOwned
    <3>4. current' = current /\ error' = error
      BY <1>1
    <3>5. queued' # "none"
      BY <1>1, <2>2
    <3> QED
      BY <3>2, <3>3, <3>4, <3>5 DEF TitleOwned
  <2>3. CASE w \notin clearing \ orphan
    <3>1. w \in EcuWorkers => w \in orphan
      BY <2>1, <2>3, BeforeTypes DEF Shows
    <3>2. \A v \in EcuWorkers : (OnTheJob(v)' <=> OnTheJob(v)) /\ v \in Workers
      BY <1>2, <3>1 DEF OnTheJob, Workers
    <3> QED
      BY <1>1, <1>2, <1>3, <2>1, <2>3, <3>2, BeforeTypes DEF TitleOwned, Workers
  <2> QED
    BY <2>2, <2>3
<1> QED
  BY <1>5, <1>6, <1>7, <1>8 DEF TitleInv

\* Its operation fails, or runs; or it closes the session.
LEMMA WorkTitleInv ==
    ASSUME Before, NEW w \in Workers,
           Fails(w) \/ Closes(w) \/ (Require(w) /\ session # None /\ UNCHANGED ui)
             \/ (OpRuns(w) /\ UNCHANGED ui)
    PROVE  TitleInv'
<1>1. PICK l \in {"idle", "failed", "closing", "waiting", "running"} : pc' = [pc EXCEPT ![w] = l]
  BY DEF Fails, Closes, Require, OpFails, Failed, OpRuns, TakeSession, CloseDone, Become
<1>2. /\ UNCHANGED <<current, cancelled, run, outcome, stack, error, hasPicker, queued>>
      /\ pc[w] \in {"ready", "waiting", "running", "failed", "closing"}
  BY DEF Fails, Closes, Require, OpFails, Failed, OpRuns, TakeSession, CloseDone, controller,
         ui, dialogs, jobs
<1>3. clearing' \in {clearing, clearing \ {w}} /\ (w \in clearing' => l \in {"waiting", "running"})
  <2>1. CASE Fails(w)
    BY <2>1 DEF Fails
  <2>2. CASE Closes(w)
    BY <2>2, BeforeTypes DEF Closes, TakeSession, CloseDone, jobs, OneJob
  <2>3. CASE (Require(w) /\ session # None /\ UNCHANGED ui) \/ (OpRuns(w) /\ UNCHANGED ui)
    BY <1>1, <2>3, BeforeTypes DEF Require, OpRuns, Become, ui, jobs
  <2> QED
    BY <2>1, <2>2, <2>3
<1>4. /\ \/ orphan' = orphan /\ (w \in orphan => l \notin {"idle", "connecting"})
         \/ orphan' = orphan \ {w} /\ (w \in orphan => l = "idle")
      /\ w \notin orphan /\ l = "idle" => title' = "error"
      /\ title' \in {title, "error"}
  <2>1. CASE Fails(w)
    BY <1>1, <2>1, BeforeTypes DEF Fails, OpFails, Require, Failed, Become
  <2>2. CASE Closes(w)
    BY <1>1, <2>2, BeforeTypes DEF Closes, TakeSession, CloseDone, ErrorShown, Become
  <2>3. CASE (Require(w) /\ session # None /\ UNCHANGED ui) \/ (OpRuns(w) /\ UNCHANGED ui)
    BY <1>1, <2>3, BeforeTypes DEF Require, OpRuns, Become, ui
  <2> QED
    BY <2>1, <2>2, <2>3
<1>5. /\ OneJob' /\ pc'[w] = l
      /\ \A v \in Workers : v # w => pc'[v] = pc[v]
      /\ \A v \in EcuWorkers : OnTheJob(v)' <=> OnTheJob(v) /\ (v = w => l # "idle")
      /\ \A v \in clearing' \ orphan' : v \in clearing \ orphan /\ v \in EcuWorkers
  BY <1>1, <1>2, <1>3, <1>4, WorkerGoesOn
<1>6. \A v \in Workers : pc'[v] = "connecting" => pc[v] = "connecting" /\ on'[v] = on[v]
  <2>1. on' = on \/ on' = [on EXCEPT ![w] = on'[w]]
    BY BeforeTypes DEF Fails, Closes, Require, OpFails, OpRuns, TakeSession, CloseDone
  <2> QED
    BY <1>1, <1>5, <2>1, BeforeTypes
<1>7. Told'
  BY <1>2, <1>6, BeforeTypes DEF Told
<1>8. ErrorStacked'
  BY <1>2, BeforeTypes DEF ErrorStacked, OnScreen
<1>9. TitleOwned'
  <2> SUFFICES ASSUME ~hasPicker, Untold' PROVE TitleOwned'
    BY <1>2 DEF TitleOwned
  <2>1. Untold /\ (w \in orphan \/ l # "idle")
    BY <1>4 DEF Untold
  <2>2. \A v \in EcuWorkers : (OnTheJob(v)' <=> OnTheJob(v)) /\ v \in Workers
    BY <1>5, <2>1 DEF OnTheJob, Workers
  <2>3. ASSUME error, NEW v \in clearing' \ orphan', pc'[v] \in {"waiting", "running"}
        PROVE  current = None
    <3>1. CASE v # w \/ pc[w] # "ready"
      <4>1. v \in clearing \ orphan /\ v \in EcuWorkers /\ pc[v] \in {"waiting", "running"}
        BY <1>5, <2>3, <2>2, <3>1, BeforeTypes DEF OneJob
      <4> QED
        BY <2>1, <2>3, <4>1, BeforeTypes DEF TitleOwned
    <3>2. CASE v = w /\ pc[w] = "ready"
      <4>1. session # None
        BY <1>5, <2>3, <3>2 DEF Fails, Closes, OpFails, OpRuns, TakeSession, CloseDone, Require
      <4> QED
        BY <4>1 DEF Before, CtlInv, Published
    <3> QED
      BY <3>1, <3>2
  <2> QED
    BY <1>2, <1>6, <2>1, <2>2, <2>3, BeforeTypes DEF TitleOwned
<1> QED
  BY <1>5, <1>7, <1>8, <1>9 DEF TitleInv

LEMMA CancelTitleInv == ASSUME Before, CancelKey PROVE TitleInv'
<1>1. /\ UNCHANGED <<pc, on, orphan, run, outcome, queued, clearing, hasPicker, error>>
      /\ cancelled \subseteq cancelled' /\ stack' = Dismissed /\ title' = "disconnected"
  BY DEF CancelKey, Cancel, workers, jobs
<1>2. OneJob' /\ Told'
  BY <1>1, BeforeTypes DEF OneJob, OnTheJob, Told
<1>3. ErrorStacked'
  BY <1>1, BeforeTypes, ErrorStays DEF Before
<1>4. TitleOwned'
  BY <1>1 DEF TitleOwned, Untold
<1> QED
  BY <1>2, <1>3, <1>4 DEF TitleInv

\* The screen alone changes.
LEMMA ScreenTitleInv ==
    ASSUME Before, SwitchTab \/ ClearKey \/ ClearDeclined \/ ErrorAcknowledged
                     \/ ChoosePort \/ TabActivated \/ Settled \/ UNCHANGED uiVars
    PROVE  TitleInv'
<1>1. UNCHANGED <<vars, queued, clearing, hasPicker>>
  BY DEF SwitchTab, ClearKey, ClearDeclined, ErrorAcknowledged, ChoosePort, TabActivated,
         Settled, uiVars, ui, dialogs, jobs
<1>2. OneJob' /\ Told'
  BY <1>1, BeforeTypes DEF OneJob, OnTheJob, Told, vars, controller, workers
<1>3. ErrorStacked'
  <2>1. CASE ErrorAcknowledged
    BY <2>1 DEF ErrorAcknowledged, ErrorStacked
  <2>2. CASE ~ErrorAcknowledged
    <3>1. /\ error' = error
          /\ \/ stack' \in {stack, <<"picker">> \o stack, <<"confirm">> \o stack}
             \/ OnTop("confirm") /\ stack' = Tail(stack)
      BY <2>2 DEF SwitchTab, ClearKey, ClearDeclined, ChoosePort, TabActivated, Settled,
                  uiVars, ui, dialogs, PushIf
    <3> QED
      BY <3>1, BeforeTypes, ErrorStays DEF Before, Dialogs
  <2> QED
    BY <2>1, <2>2
<1>4. TitleOwned'
  <2>1. CASE ErrorAcknowledged
    BY <2>1 DEF ErrorAcknowledged, TitleOwned, Untold
  <2>2. CASE ~ErrorAcknowledged
    <3>1. error' = error /\ title' = title
      BY <2>2 DEF SwitchTab, ClearKey, ClearDeclined, ChoosePort, TabActivated, Settled,
                  uiVars, ui, dialogs
    <3> QED
      BY <1>1, <3>1, BeforeTypes DEF TitleOwned, Untold, OnTheJob, vars, controller, workers
  <2> QED
    BY <2>1, <2>2
<1> QED
  BY <1>2, <1>3, <1>4 DEF TitleInv

LEMMA NextTitleInv == CtlInv /\ DialogInv /\ TitleInv /\ [UiNext]_uiVars => TitleInv'
<1> SUFFICES ASSUME Before, [UiNext]_uiVars PROVE TitleInv'
  BY DEF Before
<1>1. CASE \E a \in Attempts : LoopTask(a) \/ StartTask(a)
  BY <1>1, LoopTitleInv
<1>2. CASE \E w \in Workers : WorkerTask(w)
  BY <1>2, AnswerTitleInv, SucceedsTitleInv, WorkTitleInv DEF WorkerTask
<1>3. CASE UserTask
  BY <1>3, QueueTitleInv, CancelTitleInv, ScreenTitleInv DEF UserTask
<1>4. CASE Message
  BY <1>4, ReadTitleInv, ClearTitleInv, ScreenTitleInv DEF Message
<1>5. CASE PollLive
  BY <1>5, PollTitleInv
<1>6. CASE Settled \/ UNCHANGED uiVars
  BY <1>6, ScreenTitleInv
<1> QED
  BY <1>1, <1>2, <1>3, <1>4, <1>5, <1>6 DEF UiNext

\* Over a fixed port the title bar never goes on naming an operation when nothing is
\* under way, whoever was replaced, cancelled or closed in between: app.py:694-732.
THEOREM UiTitleSettles == UiSpec => [](~hasPicker => TitleSettles)
<1>1. UiSpec => []TitleInv
  <2>1. UiSpec => []CtlInv
    BY UiSpecIsController, SpecCtlInv, PTL
  <2> QED
    BY <2>1, UiSpecDialogInv, InitTitleInv, NextTitleInv, PTL DEF UiSpec
<1>2. TitleInv => (~hasPicker => TitleSettles)
  BY DEF TitleInv, TitleOwned, TitleSettles, NothingRuns, Untold, OnTheJob, Workers
<1> QED
  BY <1>1, <1>2, PTL
=============================================================================
