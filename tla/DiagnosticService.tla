------------------------- MODULE DiagnosticService -------------------------
(***************************************************************************)
(* One DiagnosticService of src/trecu/service.py and the threads that call *)
(* it: the owner, who starts and closes it; a canceller, who may force it  *)
(* closed while it starts; operators, who read or clear faults; and the    *)
(* keepalive tickers, one per started session.                             *)
(*                                                                         *)
(* A thread is a program counter.  An action is the code between two       *)
(* points at which another thread can see or change the service: a read or *)
(* write of one of its fields, the I/O lock, or an exchange on the wire,   *)
(* which takes time and so has a beginning and an end.  Reads of fields    *)
(* that only the lock holder may change are joined with the step before.   *)
(*                                                                         *)
(* Two uses of the class are left out.  A service is restarted only when   *)
(* no operation of its former session is left (BeginStart): start_session  *)
(* does not ask, but the controller builds a service per attempt and the   *)
(* command line is one thread.  And the factory builds a new device each   *)
(* time: a transport instance that is pinned for the service's life (the   *)
(* --mock bench) and a client that is injected (a test) are not modelled.  *)
(***************************************************************************)
EXTENDS Naturals, FiniteSets

CONSTANTS Owner,        \* the thread in start_session / open, later in close
          Canceller,    \* the thread in close(force=True)
          Operators,    \* threads in read_faults, clear_faults, read_live
          OpCalls,      \* what operators call: "read" is read_faults, "plan" is
                        \* live_plan, "op" is any other
          MaxSessions,  \* bound: sessions the owner starts
          MaxOps,       \* bound: operations begun
          MaxCancels    \* bound: forced closes

None    == 0            \* Python's None, for devices, tickers and the lock
Tickers == 1..MaxSessions
Callers == Operators \cup {Owner, Canceller}
Thread  == Callers \cup Tickers

ASSUME ServiceAssumption ==
    /\ MaxSessions \in Nat /\ MaxOps \in Nat /\ MaxCancels \in Nat
    /\ OpCalls \subseteq {"read", "op", "plan"}
    /\ Owner # Canceller /\ {Owner, Canceller} \cap Operators = {}
    /\ Callers \cap Nat = {}

VARIABLES
    \* fields of the service
    lock,       \* _io_lock: the thread that holds it
    transport,  \* _transport: a device, numbered in the order they are built
    active,     \* _active: the device of the connected client
    ecuInfo,    \* _ecu_info: the device whose session it was read from
    keepalive,  \* _keepalive: a ticker
    stop,       \* the tickers whose _stop event is set
    \* the devices the factory has built, and those whose port is open
    built, opened,
    \* the threads
    pc, call, job, raised,
    ref,        \* local: the device (or, at kaStop, the ticker) in hand
    \* what the owner knows, and the budgets
    phase, cancelled, sessions, ops, cancels

fields  == <<lock, transport, active, ecuInfo, keepalive, stop>>
devices == <<built, opened>>
usage   == <<phase, cancelled, sessions, ops, cancels>>
locals  == <<call, job, raised, ref>>
vars    == <<fields, devices, pc, locals, usage>>

Goto(t, l) == pc' = [pc EXCEPT ![t] = l]

\* The owner's view moves when its own call returns; every return goes here.
Return(t) ==
    /\ Goto(t, "idle")
    /\ phase' = IF t # Owner THEN phase
                ELSE IF phase = "starting" THEN "returned" ELSE "new"
    /\ UNCHANGED <<cancelled, sessions, ops, cancels>>

Raise(t) == raised' = [raised EXCEPT ![t] = TRUE]

Init ==
    /\ lock = None /\ transport = None /\ active = None /\ ecuInfo = None
    /\ keepalive = None /\ stop = {}
    /\ built = 0 /\ opened = {}
    /\ pc = [t \in Thread |-> IF t \in Tickers THEN "unstarted" ELSE "idle"]
    /\ call = [t \in Thread |-> IF t \in Tickers THEN "beat" ELSE "none"]
    /\ job = [t \in Thread |-> IF t \in Tickers THEN "beat" ELSE "none"]
    /\ raised = [t \in Thread |-> FALSE]
    /\ ref = [t \in Thread |-> None]
    /\ phase = "new" /\ cancelled = FALSE
    /\ sessions = 0 /\ ops = 0 /\ cancels = 0

----------------------------------------------------------------------------
(* What the methods do to the service, each with the slips a mutant makes. *)

\* "with self._io_lock" is entered when nobody holds it.
LockFreeExceptBeats(t) == lock = None \/ t \in Tickers      \* mutant
LockFreeExceptClose(t) == lock = None \/ call[t] = "close"   \* mutant
LockFree(t) == lock = None

\* _device() builds one when there is none.
DeviceOf(d) == IF d = None THEN built + 1 ELSE d

\* _clear_active.
ClearKeepingIdentity == active' = None /\ ecuInfo' = ecuInfo  \* mutant
ClearKeepingClient   == active' = active /\ ecuInfo' = None   \* mutant
ClearSession         == active' = None /\ ecuInfo' = None

\* The close of a transport; one that is not open stays as it is.
DropOpen(d)   == opened                                       \* mutant
CloseDevice(d) == opened \ {d}

\* The ticker that this session starts.
NewTicker  == sessions

\* stop() of a ticker that _stop_keepalive took.
StopForgotten(k) == stop                                      \* mutant
StopSet(k) == IF k = None THEN stop ELSE stop \cup {k}

\* Where a thread goes when its exchange is over, by what the exchange was for.
BeatUntilAnswered(t) ==                                       \* mutant
    CASE job[t] = "init" /\ ~raised'[t] -> "publish"
      [] job[t] = "stop" -> "clear"
      [] job[t] = "beat" -> "exchange"
      [] OTHER -> "release"
AfterExchange(t) ==
    CASE job[t] = "init" /\ ~raised'[t] -> "publish"
      [] job[t] = "stop" -> "clear"
      [] OTHER -> "release"

----------------------------------------------------------------------------
(* Calls begin.                                                            *)

Begin(t, c, j, l) ==
    /\ pc[t] = "idle"
    /\ call' = [call EXCEPT ![t] = c]
    /\ job' = [job EXCEPT ![t] = j]
    /\ raised' = [raised EXCEPT ![t] = FALSE]
    /\ Goto(t, l)
    /\ UNCHANGED <<fields, devices, ref>>

\* start_session, or the one-shot open() of __enter__.  That no operation is left
\* over is how the program uses the class, not a guard of the method.
BeginStart ==
    /\ phase = "new" /\ sessions < MaxSessions
    /\ \A t \in Callers : pc[t] = "idle"
    /\ \E c \in {"start", "open"} : Begin(Owner, c, "open", "device")
    /\ phase' = "starting" /\ cancelled' = FALSE /\ sessions' = sessions + 1
    /\ UNCHANGED <<ops, cancels>>

\* The owner learns how the start went: it gives the service to the operators,
\* or it will close it.
Resume ==
    /\ phase = "returned" /\ pc[Canceller] = "idle"
    /\ phase' = IF raised[Owner] \/ cancelled THEN "failed" ELSE "up"
    /\ UNCHANGED <<fields, devices, pc, locals, cancelled, sessions, ops, cancels>>

BeginClose ==
    /\ phase \in {"up", "failed"}
    /\ Begin(Owner, "close", "close", "kaSwap")
    /\ phase' = "closing"
    /\ UNCHANGED <<cancelled, sessions, ops, cancels>>

\* close(force=True) is reserved for a start that has not been resumed.
BeginForce ==
    /\ phase \in {"starting", "returned"} /\ ~cancelled /\ cancels < MaxCancels
    /\ call[Owner] = "start"
    /\ Begin(Canceller, "force", "close", "kaSwap")
    /\ cancelled' = TRUE /\ cancels' = cancels + 1
    /\ UNCHANGED <<phase, sessions, ops>>

\* An operator holds the service from before; the owner may close it while the
\* call is under way.
BeginOp(t) ==
    /\ phase = "up" /\ ops < MaxOps
    /\ \E c \in OpCalls : Begin(t, c, "op", "acquire")
    /\ ops' = ops + 1
    /\ UNCHANGED <<phase, cancelled, sessions, cancels>>

----------------------------------------------------------------------------
(* open() and _device(): the check that builds, then the read that returns.*)

DeviceBuild(t) ==
    /\ pc[t] = "device"
    /\ transport' = DeviceOf(transport)
    /\ built' = IF transport = None THEN built + 1 ELSE built
    /\ Goto(t, "deviceRead")
    /\ UNCHANGED <<lock, active, ecuInfo, keepalive, stop, opened, locals, usage>>

DeviceRead(t) ==
    /\ pc[t] = "deviceRead"
    /\ ref' = [ref EXCEPT ![t] = transport]
    /\ Goto(t, IF job[t] = "open" THEN "open" ELSE "exchange")
    /\ UNCHANGED <<fields, devices, call, job, raised, usage>>

\* transport.open() takes time; a forced close that comes meanwhile finds no
\* port to close.
TransportOpen(t) ==
    /\ pc[t] = "open" /\ ref[t] # None
    /\ Goto(t, "opening")
    /\ UNCHANGED <<fields, devices, locals, usage>>

TransportOpened(t) ==
    /\ pc[t] = "opening"
    /\ opened' = opened \cup {ref[t]}
    /\ IF call[t] = "start"
         THEN /\ job' = [job EXCEPT ![t] = "init"]
              /\ Goto(t, "acquire")
              /\ UNCHANGED usage
         ELSE Return(t) /\ UNCHANGED job
    /\ UNCHANGED <<fields, built, call, raised, ref>>

\* The port refuses, or _device() returned None: open() is outside the try.
OpenFails(t) ==
    /\ pc[t] = "opening" \/ (pc[t] = "open" /\ ref[t] = None)
    /\ Raise(t) /\ Return(t)
    /\ UNCHANGED <<fields, devices, call, job, ref>>

\* CPython finalises a port nobody refers to any more.
Finalise(d) ==
    /\ d \in opened \ {transport, active}
    /\ \A t \in Thread : pc[t] \notin {"unstarted", "idle", "exit"} => ref[t] # d
    /\ opened' = opened \ {d}
    /\ UNCHANGED <<fields, built, pc, locals, usage>>

----------------------------------------------------------------------------
(* The I/O lock, _connect and the exchanges under it.                      *)

Acquire(t) ==
    /\ pc[t] = "acquire" /\ LockFree(t)
    /\ lock' = t
    /\ Goto(t, IF job[t] = "beat" THEN "beat" ELSE "connect")
    /\ UNCHANGED <<transport, active, ecuInfo, keepalive, stop, devices, locals, usage>>

\* start_session and live_plan only want the connection; the others go on.
AfterConnect(t) ==
    Goto(t, IF call[t] \in {"start", "plan"} THEN "release" ELSE "exchange")

\* _connect on a connected service returns its client.
Connected(t) ==
    /\ pc[t] = "connect" /\ active # None
    /\ ref' = [ref EXCEPT ![t] = active]
    /\ AfterConnect(t)
    /\ job' = [job EXCEPT ![t] = IF call[t] = "start" THEN "init" ELSE "op"]
    /\ UNCHANGED <<fields, devices, call, raised, usage>>

BuildClientAgain(t) ==    \* mutant: _connect does not ask for a client first
    /\ pc[t] = "connect"
    /\ job' = [job EXCEPT ![t] = "init"]
    /\ Goto(t, "device")
    /\ UNCHANGED <<fields, devices, call, raised, ref, usage>>
BuildClient(t) ==
    /\ pc[t] = "connect" /\ active = None
    /\ job' = [job EXCEPT ![t] = "init"]
    /\ Goto(t, "device")
    /\ UNCHANGED <<fields, devices, call, raised, ref, usage>>

\* client.connect() succeeded: the client becomes the active one.
Publish(t) ==
    /\ pc[t] = "publish"
    /\ active' = ref[t]
    /\ job' = [job EXCEPT ![t] = IF call[t] = "start" THEN "init" ELSE "op"]
    /\ AfterConnect(t)
    /\ UNCHANGED <<lock, transport, ecuInfo, keepalive, stop, devices,
                   call, raised, ref, usage>>

Beat(t) ==
    /\ pc[t] = "beat"
    /\ ref' = [ref EXCEPT ![t] = active]
    /\ Goto(t, IF active = None THEN "release" ELSE "exchange")
    /\ UNCHANGED <<fields, devices, call, job, raised, usage>>

ExchangeBegin(t) ==
    /\ pc[t] = "exchange" /\ ref[t] \in opened
    /\ Goto(t, "wire")
    /\ UNCHANGED <<fields, devices, locals, usage>>

\* read_faults caches the identity it read, or an empty one.
ExchangeDone(t) ==
    /\ Goto(t, AfterExchange(t))
    /\ ecuInfo' = IF job[t] = "op" /\ call[t] = "read" /\ ecuInfo = None
                    THEN ref[t] ELSE ecuInfo
    /\ UNCHANGED <<lock, transport, active, keepalive, stop, devices,
                   call, job, ref, usage>>

ExchangeOk(t) ==
    /\ pc[t] = "wire" /\ ref[t] \in opened
    /\ UNCHANGED raised /\ ExchangeDone(t)

\* No answer, a bad one, or a transport that is not open.  Beats and
\* stop_communication are best-effort: their errors are logged.
ExchangeFails(t) ==
    /\ pc[t] = "wire" \/ (pc[t] = "exchange" /\ ref[t] \notin opened)
    /\ IF job[t] \in {"init", "op"} THEN Raise(t) ELSE UNCHANGED raised
    /\ ExchangeDone(t)

\* ISO 9141 has no stop: the client's stop_communication returns at once.  That of
\* another protocol's client, which close() is written for, would use the wire.
StopSilent(t) ==
    /\ pc[t] = "exchange" /\ job[t] = "stop"
    /\ Goto(t, "clear")
    /\ UNCHANGED <<fields, devices, locals, usage>>

Closing(t) == job[t] \in {"close", "stop"}

Release(t) ==
    /\ pc[t] = "release"
    /\ lock' = None
    /\ IF call[t] = "start" /\ ~Closing(t)
         THEN /\ Goto(t, IF raised[t] THEN "kaSwap" ELSE "kaNew")
              /\ job' = [job EXCEPT ![t] = IF raised[t] THEN "close" ELSE "init"]
              /\ UNCHANGED usage
         ELSE /\ IF t \in Tickers THEN Goto(t, "wait") /\ UNCHANGED usage
                                  ELSE Return(t)
              /\ UNCHANGED job
    /\ UNCHANGED <<transport, active, ecuInfo, keepalive, stop, devices,
                   call, raised, ref>>

----------------------------------------------------------------------------
(* The keepalive ticker.                                                   *)

KeepaliveNew(t) ==
    /\ pc[t] = "kaNew"
    /\ keepalive' = NewTicker
    /\ Goto(t, "kaStart")
    /\ UNCHANGED <<lock, transport, active, ecuInfo, stop, devices, locals, usage>>

\* start_session with an interval of 0.
KeepaliveOff(t) ==
    /\ pc[t] = "kaNew"
    /\ keepalive' = None
    /\ Return(t)
    /\ UNCHANGED <<lock, transport, active, ecuInfo, stop, devices, locals>>

\* self._keepalive is read again: a forced close may have taken it.
KeepaliveStart(t) ==
    /\ pc[t] = "kaStart"
    /\ IF keepalive = None
         THEN Raise(t) /\ Return(t)
         ELSE /\ pc' = [pc EXCEPT ![t] = "idle", ![keepalive] = "wait"]
              /\ phase' = "returned"
              /\ UNCHANGED <<raised, cancelled, sessions, ops, cancels>>
    /\ UNCHANGED <<fields, devices, call, job, ref>>

\* The interval elapses, or the stop event ends the thread.
Tick(k) ==
    /\ pc[k] = "wait"
    /\ Goto(k, IF k \in stop THEN "exit" ELSE "acquire")
    /\ UNCHANGED <<fields, devices, locals, usage>>

----------------------------------------------------------------------------
(* close().                                                                *)

KeepaliveSwap(t) ==
    /\ pc[t] = "kaSwap"
    /\ ref' = [ref EXCEPT ![t] = keepalive]
    /\ keepalive' = None
    /\ Goto(t, "kaStop")
    /\ UNCHANGED <<lock, transport, active, ecuInfo, stop, devices,
                   call, job, raised, usage>>

\* stop(): the event is set, the join gives up after two seconds, so the ticker
\* may or may not have ended when this step is over.
KeepaliveStop(t) ==
    /\ pc[t] = "kaStop"
    /\ stop' = StopSet(ref[t])
    /\ ref' = [ref EXCEPT ![t] = None]
    /\ Goto(t, IF call[t] = "force" THEN "clear" ELSE "closeAcquire")
    /\ UNCHANGED <<lock, transport, active, ecuInfo, keepalive, devices,
                   call, job, raised, usage>>

CloseAcquire(t) ==
    /\ pc[t] = "closeAcquire" /\ LockFree(t)
    /\ lock' = t
    /\ ref' = [ref EXCEPT ![t] = active]
    /\ job' = [job EXCEPT ![t] = IF active = None THEN "close" ELSE "stop"]
    /\ Goto(t, IF active = None THEN "clear" ELSE "exchange")
    /\ UNCHANGED <<transport, active, ecuInfo, keepalive, stop, devices,
                   call, raised, usage>>

ClearActiveUnlocked(t) ==    \* mutant: the finally block is outside the lock
    /\ pc[t] = "clear"
    /\ ClearSession
    /\ lock' = IF call[t] = "force" THEN lock ELSE None
    /\ Goto(t, "devSwap")
    /\ UNCHANGED <<transport, keepalive, stop, devices, locals, usage>>
ClearActive(t) ==
    /\ pc[t] = "clear"
    /\ ClearSession
    /\ Goto(t, "devSwap")
    /\ UNCHANGED <<lock, transport, keepalive, stop, devices, locals, usage>>

DeviceSwap(t) ==
    /\ pc[t] = "devSwap"
    /\ ref' = [ref EXCEPT ![t] = transport]
    /\ transport' = None
    /\ Goto(t, "devClose")
    /\ UNCHANGED <<lock, active, ecuInfo, keepalive, stop, devices,
                   call, job, raised, usage>>

DeviceClose(t) ==
    /\ pc[t] = "devClose"
    /\ opened' = CloseDevice(ref[t])
    /\ IF call[t] = "force" THEN Return(t)
                            ELSE Goto(t, "release") /\ UNCHANGED usage
    /\ UNCHANGED <<fields, built, locals>>

----------------------------------------------------------------------------
Step(t) ==
    \/ DeviceBuild(t) \/ DeviceRead(t)
    \/ TransportOpen(t) \/ TransportOpened(t) \/ OpenFails(t)
    \/ Connected(t) \/ BuildClient(t) \/ Publish(t) \/ Beat(t)
    \/ ExchangeBegin(t) \/ ExchangeOk(t) \/ ExchangeFails(t) \/ StopSilent(t)
    \/ Release(t)
    \/ KeepaliveNew(t) \/ KeepaliveOff(t) \/ KeepaliveStart(t)
    \/ KeepaliveSwap(t) \/ KeepaliveStop(t)
    \/ ClearActive(t) \/ DeviceSwap(t) \/ DeviceClose(t)
    \/ Tick(t)

TakeLock(t) == Acquire(t) \/ CloseAcquire(t)

\* The owner has closed its last session and every thread is done.
Terminated ==
    /\ phase = "new" /\ sessions = MaxSessions
    /\ \A t \in Thread : pc[t] \in {"idle", "unstarted", "exit"}
    /\ UNCHANGED vars

Next ==
    \/ BeginStart \/ Resume \/ BeginClose \/ BeginForce
    \/ \E t \in Operators : BeginOp(t)
    \/ \E t \in Thread : Step(t) \/ TakeLock(t)
    \/ \E d \in opened : Finalise(d)
    \/ Terminated

Spec == Init /\ [][Next]_vars

\* Threads run; a wait for the lock ends because its holders always let it go
\* and the ticker sleeps a whole interval between two beats.
FairSpec ==
    /\ Spec
    /\ \A t \in Thread : WF_vars(Step(t)) /\ SF_vars(TakeLock(t))
    /\ WF_vars(Resume)

----------------------------------------------------------------------------
(* Properties.                                                             *)

UnlockedLabels ==
    {"idle", "open", "opening", "acquire", "kaNew", "kaStart", "kaSwap",
     "kaStop", "closeAcquire", "unstarted", "wait", "exit"}
LockedLabels  == {"connect", "publish", "exchange", "wire", "release", "beat"}
DeviceLabels  == {"device", "deviceRead"}
ReleaseLabels == {"clear", "devSwap", "devClose"}
Labels == UnlockedLabels \cup LockedLabels \cup DeviceLabels \cup ReleaseLabels

\* Every variable holds a value of its kind.
TypeOK ==
    /\ lock \in Thread \cup {None} /\ keepalive \in Tickers \cup {None}
    /\ transport \in Nat /\ active \in Nat /\ ecuInfo \in Nat
    /\ built \in Nat /\ opened \subseteq Nat /\ stop \subseteq Nat
    /\ pc \in [Thread -> Labels]
    /\ call \in [Thread -> {"none", "start", "open", "read", "op", "plan",
                            "close", "force", "beat"}]
    /\ job \in [Thread -> {"none", "open", "init", "op", "beat", "stop", "close"}]
    /\ raised \in [Thread -> BOOLEAN] /\ ref \in [Thread -> Nat]
    /\ phase \in {"new", "starting", "returned", "up", "failed", "closing"}
    /\ cancelled \in BOOLEAN
    /\ sessions \in 0..MaxSessions /\ ops \in 0..MaxOps /\ cancels \in 0..MaxCancels

\* The points of the code that lie inside "with self._io_lock".  _device() is
\* called by open() outside the lock and by _build_client() under it; a device
\* is released under the lock by an orderly close and outside by a forced one.
Holds(t) ==
    \/ pc[t] \in LockedLabels
    \/ pc[t] \in DeviceLabels /\ job[t] = "init"
    \/ pc[t] \in ReleaseLabels /\ call[t] # "force"

LockInv == \A t \in Thread : Holds(t) <=> lock = t

\* Which calls and jobs lead to which points, and which tickers can run.
ControlInv ==
    /\ \A t \in Thread :
          /\ call[t] \in {"start", "open"} => t = Owner /\ sessions > 0
          /\ pc[t] \in {"kaNew", "kaStart"} => call[t] = "start"
          /\ pc[t] \in DeviceLabels => job[t] \in {"open", "init"}
          /\ call[t] = "force" => job[t] # "stop" /\ pc[t] # "closeAcquire"
    /\ \A k \in Tickers : k > sessions => pc[k] = "unstarted"
    /\ call[Owner] \in {"start", "open"} /\ pc[Owner] # "idle"
         => pc[sessions] = "unstarted"
    /\ pc[Owner] = "kaStart" => keepalive \in {None, sessions}

\* The inductive invariant: what a step needs to know to keep the lock with the
\* thread whose code is inside it.
IInv == TypeOK /\ LockInv /\ ControlInv

\* The half-duplex K-line carries one exchange at a time: operations, the
\* connect, beats and stop_communication never overlap (service.py:168-170,
\* 374-377).
OneExchange ==
    \A t, u \in Thread : pc[t] = "wire" /\ pc[u] = "wire" => t = u

\* The service implements SerializedSession: an operation keeps the line from its
\* connect to its last exchange, a connected ECU is not woken again, the session
\* is the device its holder woke, and everybody else speaks over that one until a
\* holder ends it (service.py:205-207, 270-284, 351-371).
OnWire == {t \in Thread : pc[t] = "wire"}
Said   == {[by |-> t, over |-> ref[t], for |-> job[t]] : t \in OnWire}
Woken  == {ref[t] : t \in {u \in Thread : pc[u] = "publish"}}
Session == INSTANCE SerializedSession WITH
               Talkers <- Thread, Nobody <- None, NoDevice <- None,
               holder <- lock, line <- Said, woken <- Woken,
               session <- active, cut <- cancelled
ImplementsSession == Session!Spec

\* A start that returned normally and was not cancelled leaves one connected
\* session: the client, the transport and the open port are the same device, and
\* the ticker, if there is one, runs and has not been told to stop.  Operations
\* and beats, whatever their outcome, do not disturb this until the owner closes.
HealthyWhenUp ==
    phase \in {"returned", "up"} /\ ~cancelled /\ ~raised[Owner] =>
        /\ transport \in opened
        /\ active \in {None, transport}
        /\ call[Owner] = "start" => active = transport
        /\ keepalive # None =>
              keepalive \notin stop /\ pc[keepalive] \notin {"unstarted", "exit"}

\* Identity cached by _read_identification is that of the connected session: no
\* close, restart or lazy connect leaves a former ECU's identity behind.
IdentityOfSession == lock = None /\ ecuInfo # None => ecuInfo = active

\* Whoever is on the wire talks to the device the service holds, unless the
\* start was cancelled under it: an operation or a beat that waited behind a
\* close never goes out on the device that close released.
WireIsCurrent ==
    \A t \in Thread : pc[t] = "wire" => ref[t] = transport \/ cancelled

\* Once the owner's close() is back the service holds no client, no identity and
\* no ticker, whatever was cancelled, and an operation that comes late finds no open
\* port to talk over; no device it opened is still open, no start having been
\* cancelled (see CancelReleasesPort for those).
ReleasedWhenClosed ==
    phase = "new" =>
        /\ active = None /\ ecuInfo = None /\ keepalive = None
        /\ transport \notin opened
        /\ cancels = 0 => opened = {}

\* Every call returns: no thread waits for ever on the lock, the ticker or the
\* wire, whoever closes and whatever fails.
CallsReturn == \A t \in Callers : (pc[t] # "idle") ~> (pc[t] = "idle")

\* No ticker outlives its session, not even one whose join timed out or whose
\* start a forced close interrupted.
TickersEnd ==
    \A k \in Tickers :
        (phase = "new" /\ sessions >= k) ~> (pc[k] \in {"unstarted", "exit"})

\* What session.py:18-24 says of cancel: it releases the port at once, and the
\* doomed start finishes into a closed transport.  TLC refutes it: a cancel that
\* comes before or during transport.open() finds nothing to close.
CancelReleasesPort ==
    cancelled /\ pc[Canceller] = "idle" => opened = {}

=============================================================================
