------------------------------- MODULE TuiApp -------------------------------
(***************************************************************************)
(* The part of TrecuApp (src/trecu/tui/app.py) that drives the session:    *)
(* its dialogs, the port picker, the tabs and the live poll, composed with *)
(* SessionController.  Every action is one of the controller's together    *)
(* with what the handler does to the screen in the same event-loop turn.   *)
(*                                                                         *)
(* A dialog is modal: only the one on top gets keys, and the app gets them *)
(* when there is none.  The poll timer and the workers wait for no dialog. *)
(* The user acts on a screen that has settled: what the last key or button *)
(* posted to the event loop has been handled before the next one comes.    *)
(***************************************************************************)
EXTENDS SessionController, Sequences

CONSTANT MaxTabs  \* bound: tab switches of the user

ASSUME TuiAssumption == MaxTabs \in Nat

VARIABLES
    hasPicker,  \* list_ports is configured: no port is fixed by the caller
    stack,      \* the dialogs on the screen stack, the top one first
    spinner,    \* _connecting_screen is set
    error,      \* _connect_error_screen is set
    choose,     \* call_later(_choose_port) is pending
    ported,     \* can_connect: a port is known
    tab,        \* the active tab: "live" or another
    tabEvent,   \* a TabActivated message that is not handled yet
    polling,    \* _live_running
    queued,     \* the worker of the group "ecu" about to start
    clearing,   \* the workers that run _run_clear
    title,      \* _state, the status in the title bar
    tabs        \* tab switches so far

dialogs == <<hasPicker, stack, spinner, error, choose, ported>>
stream  == <<tab, tabEvent, polling, tabs>>
jobs    == <<queued, clearing>>
ui      == <<dialogs, stream, jobs, title>>
uiVars  == <<vars, ui>>

NoDialog   == stack = <<>>
OnTop(d)   == stack # <<>> /\ Head(stack) = d
PushIf(d, c) == IF c THEN <<d>> \o stack ELSE stack

UiInit ==
    /\ Init /\ hasPicker \in BOOLEAN
    /\ spinner = FALSE /\ error = FALSE /\ choose = FALSE
    /\ stack = IF hasPicker THEN <<"picker">> ELSE <<>>
    /\ ported = ~hasPicker
    /\ tab = "other" /\ tabEvent = FALSE /\ polling = FALSE
    /\ queued = IF hasPicker THEN "none" ELSE "read"
    /\ clearing = {} /\ title = "disconnected"
    /\ tabs = 0

----------------------------------------------------------------------------
(* action_read and _run_clear: exclusive workers of the group "ecu".       *)

\* A new worker of the group replaces the one that runs, and then starts.
Queue(job) ==
    /\ queued' = job
    /\ \/ \E w \in EcuWorkers : Replace(w)
       \/ /\ \A w \in EcuWorkers : pc[w] = "idle" \/ w \in orphan
          /\ UNCHANGED vars

\* on_start of connect, for the caller that begins an attempt: the title says so,
\* and the spinner is raised unless it is up.
Begun       == made' # made
RaisedAgain == Begun                                               \* mutant
Raised      == Begun /\ ~spinner

ShowConnecting ==
    /\ spinner' = (spinner \/ Raised)
    /\ stack' = PushIf("spinner", Raised)
    /\ UNCHANGED <<hasPicker, error, choose, ported>>

ReadKey ==
    /\ NoDialog /\ ported /\ tab = "other" /\ Queue("read")
    /\ UNCHANGED <<dialogs, stream, clearing, title>>

ReadStarts ==
    /\ queued = "read" /\ queued' = "none"
    /\ \E w \in EcuWorkers : Connect(w)
    /\ ShowConnecting
    /\ title' = IF Begun THEN "connecting" ELSE IF session # None THEN "reading" ELSE title
    /\ UNCHANGED <<stream, clearing>>

\* A clear asks first; workers and timers go on below the question.
ClearKey ==
    /\ NoDialog /\ ported /\ tab = "other"
    /\ stack' = PushIf("confirm", TRUE)
    /\ UNCHANGED <<vars, hasPicker, spinner, error, choose, ported, stream, jobs, title>>

ClearConfirmed ==
    /\ OnTop("confirm") /\ stack' = Tail(stack)
    /\ Queue("clear")
    /\ UNCHANGED <<hasPicker, spinner, error, choose, ported, stream, clearing, title>>

ClearDeclined ==
    /\ OnTop("confirm") /\ stack' = Tail(stack)
    /\ UNCHANGED <<vars, hasPicker, spinner, error, choose, ported, stream, jobs, title>>

ClearStarts ==
    /\ queued = "clear" /\ queued' = "none"
    /\ \E w \in EcuWorkers : Clear(w) /\ clearing' = clearing \cup {w}
    /\ title' = "clearing"
    /\ UNCHANGED <<dialogs, stream>>

----------------------------------------------------------------------------
(* The dialogs.                                                            *)

\* _dismiss_connecting: a screen that is not on top stays where it is.
Covered   == stack                                                 \* mutant
Dismissed == IF spinner /\ OnTop("spinner") THEN Tail(stack) ELSE stack

\* Workers that shared an attempt each see its failure; one dialog tells of it.
EveryError(w) == outcome[on[w]] = "failed"                         \* mutant
NewError(w)   == outcome[on[w]] = "failed" /\ ~error

\* _connect_with_modal resumes with its result.
Answer(w) ==
    /\ Deliver(w)
    /\ error' = (error \/ NewError(w))
    /\ stack' = IF NewError(w) THEN <<"error">> \o Dismissed ELSE Dismissed
    /\ spinner' = FALSE
    /\ polling' = (polling /\ (w = Live => outcome[on[w]] = "connected"))
    /\ title' = CASE NewError(w) -> "error"
                   [] outcome[on[w]] = "connected" /\ w # Live -> "reading"
                   [] OTHER -> title
    /\ UNCHANGED <<hasPicker, choose, ported, tab, tabEvent, tabs, jobs>>

\* Cancel of the spinner; without an attempt to cancel it does nothing.
CancelKey ==
    /\ OnTop("spinner")
    /\ Cancel
    /\ spinner' = FALSE /\ stack' = Dismissed
    /\ choose' = (choose \/ hasPicker) /\ title' = "disconnected"
    /\ UNCHANGED <<hasPicker, error, ported, stream, jobs>>

ChoosePort ==
    /\ choose /\ choose' = FALSE
    /\ stack' = PushIf("picker", TRUE)
    /\ UNCHANGED <<vars, hasPicker, spinner, error, ported, stream, jobs, title>>

PortChosen ==
    /\ OnTop("picker") /\ stack' = Tail(stack) /\ ported' = TRUE
    /\ Queue("read")
    /\ UNCHANGED <<hasPicker, spinner, error, choose, stream, clearing, title>>

ErrorAcknowledged ==
    /\ OnTop("error")
    /\ error' = FALSE
    /\ stack' = IF hasPicker THEN <<"picker">> \o Tail(stack) ELSE Tail(stack)
    /\ title' = IF hasPicker THEN title ELSE "disconnected"
    /\ UNCHANGED <<vars, hasPicker, spinner, choose, ported, stream, jobs>>

----------------------------------------------------------------------------
(* The tabs and the live poll.                                             *)

SwitchTab ==
    /\ NoDialog /\ tabs < MaxTabs /\ tabs' = tabs + 1
    /\ tab' = IF tab = "live" THEN "other" ELSE "live"
    /\ tabEvent' = TRUE
    /\ UNCHANGED <<vars, dialogs, polling, jobs, title>>

\* _sync_live_polling.
Synced == tab = "live" /\ ported

TabActivated ==
    /\ tabEvent /\ tabEvent' = FALSE
    /\ polling' = Synced
    /\ UNCHANGED <<vars, dialogs, tab, tabs, jobs, title>>

\* _poll_live does not look at the running flag: the timer is paused without it.
PollLive ==
    /\ polling /\ tab = "live" /\ ported
    /\ Connect(Live)
    /\ ShowConnecting
    /\ title' = IF Begun THEN "connecting" ELSE title
    /\ UNCHANGED <<stream, jobs>>

----------------------------------------------------------------------------
(* The end of an operation.                                                *)

\* A read shows its result and lets the stream run, a clear reads again; a
\* replaced worker does neither.
\* A read that succeeds shows so, and a poll if the user still looks at its tab.
OnlyPolls(w) == w = Live /\ tab = "live"                           \* mutant
Shows(w) == IF w = Live THEN tab = "live" ELSE w \notin clearing \cup orphan

Succeeds(w) ==
    /\ OpOk(w)
    /\ clearing' = clearing \ {w}
    /\ queued' = IF w \in clearing \ orphan THEN "read" ELSE queued
    /\ polling' = IF w = Live \/ w \in clearing \cup orphan THEN polling ELSE Synced
    /\ title' = IF Shows(w) THEN "connected" ELSE title
    /\ UNCHANGED <<dialogs, tab, tabEvent, tabs>>

\* _on_error shows the log, unless the worker was replaced.
ErrorShown(w) ==
    IF pc'[w] = "idle" /\ w \notin orphan
      THEN tab' = "other" /\ tabEvent' = TRUE /\ title' = "error"
      ELSE UNCHANGED <<tab, tabEvent, title>>

Fails(w) ==
    /\ OpFails(w) \/ (Require(w) /\ session = None)
    /\ clearing' = clearing \ {w}
    /\ UNCHANGED <<dialogs, stream, queued, title>>

Closes(w) ==
    /\ TakeSession(w) \/ CloseDone(w)
    /\ ErrorShown(w)
    /\ UNCHANGED <<dialogs, polling, tabs, jobs>>

----------------------------------------------------------------------------
\* build_service refuses only without a port, and the app connects with one.
LoopTask(a) ==
    /\ RunTask(a) \/ Publish(a) \/ Discard(a) \/ RunClosed(a)
    /\ UNCHANGED ui
StartTask(a) == ThreadStep(a) /\ UNCHANGED ui

WorkerTask(w) ==
    \/ Answer(w) \/ Succeeds(w) \/ Fails(w) \/ Closes(w)
    \/ Require(w) /\ session # None /\ UNCHANGED ui
    \/ OpRuns(w) /\ UNCHANGED ui

UserTask ==
    /\ queued = "none" /\ ~choose /\ ~tabEvent
    /\ \/ ReadKey \/ SwitchTab
       \/ ClearKey \/ ClearConfirmed \/ ClearDeclined
       \/ CancelKey \/ PortChosen \/ ErrorAcknowledged

Message == ChoosePort \/ TabActivated \/ ReadStarts \/ ClearStarts

\* Nothing is under way: the user may leave it so.
Settled ==
    /\ \A w \in Workers : pc[w] = "idle"
    /\ \A a \in Attempts : ~InFlight(a)
    /\ UNCHANGED uiVars

UiNext ==
    \/ \E a \in Attempts : LoopTask(a) \/ StartTask(a)
    \/ \E w \in Workers : WorkerTask(w)
    \/ UserTask \/ Message \/ PollLive
    \/ Settled

UiSpec == UiInit /\ [][UiNext]_uiVars

\* The event loop runs its tasks, threads run, every read of the port times out,
\* and the lock is not withheld from one waiter for ever.
UiFairSpec ==
    /\ UiSpec
    /\ \A a \in Attempts : WF_uiVars(LoopTask(a)) /\ WF_uiVars(StartTask(a))
    /\ \A w \in Workers : SF_uiVars(WorkerTask(w))
    /\ WF_uiVars(ChoosePort) /\ WF_uiVars(TabActivated)

----------------------------------------------------------------------------
(* Properties.                                                             *)

NothingRuns ==
    queued = "none" /\ (\A w \in Workers : pc[w] = "idle") /\ (\A a \in Attempts : ~InFlight(a))

\* The title bar never goes on saying "reading" or "clearing" when nobody is, even
\* if the worker that set it was replaced, or its session closed by another
\* (app.py:694-732).
TitleSettles == NothingRuns => title \notin {"reading", "clearing"}

\* "keep the title bar accurate" (app.py:616-617): with nothing under way it says
\* "connected" if and only if there is a session.  TLC refutes it: the late
\* failure of a cancelled attempt shows "error" over a session, a read that
\* outlives a close shows "connected" without one, and "connecting" stays when a
\* poll connects and the user leaves the tab before it is done.
TitleTruthful == NothingRuns => (title = "connected" <=> session # None)

OnScreen(d) == \E i \in DOMAIN stack : stack[i] = d

\* The spinner is up as long as an attempt is in flight that is not cancelled:
\* every connect is behind a cancelable modal (app.py:427-429, 635-644).  TLC
\* refutes it: a cancelled attempt's late answer takes the next one's spinner down.
SpinnerWhileConnecting == current # None => OnScreen("spinner")

\* While the spinner is up over a fixed port, there is something for its Cancel
\* to cancel, or a worker that is about to take it down (app.py:584-599).
SpinnerHasOwner ==
    ~hasPicker /\ OnScreen("spinner") => current # None \/ \E w \in Workers : pc[w] = "connecting"

\* One dialog tells of a failed connect, however many workers shared it
\* (app.py:167-169, 663-666).
OneErrorDialog ==
    \A i, j \in DOMAIN stack : stack[i] = "error" /\ stack[j] = "error" => i = j

\* A stream that a cancelled or failed connect stopped runs again once the
\* session is back and the user looks at Live Data (app.py:366-371, 702-704).
\* TLC refutes it: a cancelled poll answers after the read that restarted it.
StreamRuns ==
    /\ session # None /\ tab = "live" /\ ~tabEvent /\ queued = "none"
    /\ \A w \in Workers : pc[w] = "idle"
    => polling

\* Over a fixed port the spinner goes away: the user is not left with a dialog
\* that cannot be closed (app.py:593-599).  With a picker that ChoosePort pushes
\* over the spinner of a poll, he is.
SpinnerEnds ==
    ~hasPicker /\ OnScreen("spinner") ~> ~OnScreen("spinner")
=============================================================================
