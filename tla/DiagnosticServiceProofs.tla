---------------------- MODULE DiagnosticServiceProofs ----------------------
(***************************************************************************)
(* DiagnosticService, for any operators and any number of sessions,        *)
(* operations and cancels, in three parts, each on the invariant of those  *)
(* before it: who holds the I/O lock (IInv); which device a thread talks   *)
(* to and whose identity is cached (SInv); which port is open when, so     *)
(* that a start that succeeds leaves a whole session and a close leaves    *)
(* nothing (PInv).                                                         *)
(***************************************************************************)
EXTENDS DiagnosticService, TLAPS

\* The owner, the canceller, the operators and the tickers are threads, and no thread is None.
LEMMA ThreadFacts ==
    /\ Owner \in Thread /\ Canceller \in Thread
    /\ Operators \subseteq Thread /\ Tickers \subseteq Thread
    /\ Tickers \subseteq Nat /\ \A t \in Callers : t \notin Tickers
    /\ None \notin Thread
<1>1. Tickers \subseteq Nat /\ None \notin Tickers
  BY ServiceAssumption, SMT DEF Tickers, None
<1>2. \A t \in Callers : t \notin Nat
  BY ServiceAssumption
<1> QED
  BY <1>1, <1>2 DEF Thread, Callers, None

\* The session under way has a number that is a ticker's.
LEMMA SessionTicker ==
    TypeOK /\ sessions > 0 => sessions \in Tickers /\ sessions \in Thread
BY ServiceAssumption, ThreadFacts DEF TypeOK, Tickers

\* The initial states satisfy the inductive invariant.
LEMMA InitIInv == Init => IInv
<1> SUFFICES ASSUME Init PROVE IInv
  OBVIOUS
<1> USE DEF Init
<1>1. TypeOK
  <2>1. pc \in [Thread -> Labels]
    BY DEF Labels, UnlockedLabels
  <2>2. /\ call \in [Thread -> {"none", "start", "open", "read", "op", "plan",
                               "close", "force", "beat"}]
        /\ job \in [Thread -> {"none", "open", "init", "op", "beat", "stop",
                              "close"}]
        /\ raised \in [Thread -> BOOLEAN] /\ ref \in [Thread -> Nat]
    BY DEF None
  <2>3. /\ sessions \in 0..MaxSessions /\ ops \in 0..MaxOps
        /\ cancels \in 0..MaxCancels
    BY ServiceAssumption
  <2> QED
    BY <2>1, <2>2, <2>3 DEF TypeOK, None
<1>2. LockInv
  BY ThreadFacts DEF LockInv, Holds, LockedLabels, DeviceLabels, ReleaseLabels
<1>3. ControlInv
  BY ThreadFacts DEF ControlInv, DeviceLabels, None
<1> QED
  BY <1>1, <1>2, <1>3 DEF IInv

\* _device builds a port for an open or, under the lock, for the client.
LEMMA DeviceBuildIInv == ASSUME IInv, NEW t \in Thread, DeviceBuild(t) PROVE IInv'
<1> USE ThreadFacts DEF IInv, DeviceBuild, Goto, DeviceOf,
        fields, devices, usage, locals, None
<1>1. TypeOK'
  BY DEF TypeOK, Labels, UnlockedLabels, LockedLabels, DeviceLabels, ReleaseLabels
<1>2. LockInv'
  BY DEF TypeOK, LockInv, ControlInv, Holds, LockedLabels, DeviceLabels, ReleaseLabels
<1>3. ControlInv'
  BY DEF TypeOK, ControlInv, DeviceLabels
<1> QED
  BY <1>1, <1>2, <1>3

\* _device hands the thread the port the service holds by now.
LEMMA DeviceReadIInv == ASSUME IInv, NEW t \in Thread, DeviceRead(t) PROVE IInv'
<1> USE ThreadFacts DEF IInv, DeviceRead, Goto,
        fields, devices, usage, locals, None
<1>1. TypeOK'
  BY DEF TypeOK, Labels, UnlockedLabels, LockedLabels, DeviceLabels, ReleaseLabels
<1>2. LockInv'
  BY DEF TypeOK, LockInv, ControlInv, Holds, LockedLabels, DeviceLabels, ReleaseLabels
<1>3. ControlInv'
  BY DEF TypeOK, ControlInv, DeviceLabels
<1> QED
  BY <1>1, <1>2, <1>3

\* transport.open() begins without the lock.
LEMMA TransportOpenIInv == ASSUME IInv, NEW t \in Thread, TransportOpen(t) PROVE IInv'
<1> USE ThreadFacts DEF IInv, TransportOpen, Goto,
        fields, devices, usage, locals, None
<1>1. TypeOK'
  BY DEF TypeOK, Labels, UnlockedLabels, LockedLabels, DeviceLabels, ReleaseLabels
<1>2. LockInv'
  BY DEF TypeOK, LockInv, ControlInv, Holds, LockedLabels, DeviceLabels, ReleaseLabels
<1>3. ControlInv'
  BY DEF TypeOK, ControlInv, DeviceLabels
<1> QED
  BY <1>1, <1>2, <1>3

\* transport.open() succeeds: the call goes on to the lock, or returns.
LEMMA TransportOpenedIInv == ASSUME IInv, NEW t \in Thread, TransportOpened(t) PROVE IInv'
<1> USE ThreadFacts DEF IInv, TransportOpened, Goto, Return,
        fields, devices, usage, locals, None
<1>1. TypeOK'
  <2>1. opened' \subseteq Nat
    <3>1. ref[t] \in Nat /\ opened \subseteq Nat
      BY DEF TypeOK
    <3> QED
      BY <3>1, Zenon
  <2>2. pc' \in [Thread -> Labels]
    BY DEF TypeOK, Labels, UnlockedLabels, LockedLabels
  <2>3. job' \in [Thread -> {"none", "open", "init", "op", "beat", "stop", "close"}]
    BY DEF TypeOK
  <2>4. phase' \in {"new", "starting", "returned", "up", "failed", "closing"}
    BY DEF TypeOK
  <2>5. UNCHANGED <<fields, built, call, raised, ref, cancelled, sessions, ops, cancels>>
    OBVIOUS
  <2> QED
    BY <2>1, <2>2, <2>3, <2>4, <2>5 DEF TypeOK
<1>2. LockInv'
  BY DEF TypeOK, LockInv, ControlInv, Holds, LockedLabels, DeviceLabels, ReleaseLabels
<1>3. ControlInv'
  <2>1. CASE call[t] = "start"
    BY <2>1, SessionTicker DEF TypeOK, ControlInv, DeviceLabels
  <2>2. CASE call[t] # "start"
    BY <2>2, SessionTicker DEF TypeOK, ControlInv, DeviceLabels
  <2> QED
    BY <2>1, <2>2
<1> QED
  BY <1>1, <1>2, <1>3

\* transport.open() raises before any lock was taken.
LEMMA OpenFailsIInv == ASSUME IInv, NEW t \in Thread, OpenFails(t) PROVE IInv'
<1> USE ThreadFacts DEF IInv, OpenFails, Goto, Return, Raise,
        fields, devices, usage, locals, None
<1>1. TypeOK'
  BY DEF TypeOK, Labels, UnlockedLabels, LockedLabels, DeviceLabels, ReleaseLabels
<1>2. LockInv'
  BY DEF TypeOK, LockInv, ControlInv, Holds, LockedLabels, DeviceLabels, ReleaseLabels
<1>3. ControlInv'
  BY DEF TypeOK, ControlInv, DeviceLabels
<1> QED
  BY <1>1, <1>2, <1>3

\* _connect finds a client and keeps the lock for what follows.
LEMMA ConnectedIInv == ASSUME IInv, NEW t \in Thread, Connected(t) PROVE IInv'
<1> USE ThreadFacts DEF IInv, Connected, Goto, AfterConnect,
        fields, devices, usage, locals, None
<1>1. TypeOK'
  BY DEF TypeOK, Labels, UnlockedLabels, LockedLabels, DeviceLabels, ReleaseLabels
<1>2. LockInv'
  BY DEF TypeOK, LockInv, ControlInv, Holds, LockedLabels, DeviceLabels, ReleaseLabels
<1>3. ControlInv'
  BY DEF TypeOK, ControlInv, DeviceLabels
<1> QED
  BY <1>1, <1>2, <1>3

\* _connect goes on to build a client under the lock it has.
LEMMA BuildClientIInv == ASSUME IInv, NEW t \in Thread, BuildClient(t) PROVE IInv'
<1> USE ThreadFacts DEF IInv, BuildClient, Goto,
        fields, devices, usage, locals, None
<1>1. TypeOK'
  BY DEF TypeOK, Labels, UnlockedLabels, LockedLabels, DeviceLabels, ReleaseLabels
<1>2. LockInv'
  BY DEF TypeOK, LockInv, ControlInv, Holds, LockedLabels, DeviceLabels, ReleaseLabels
<1>3. ControlInv'
  BY DEF TypeOK, ControlInv, DeviceLabels
<1> QED
  BY <1>1, <1>2, <1>3

\* _connect publishes its client under the lock it has.
LEMMA PublishIInv == ASSUME IInv, NEW t \in Thread, Publish(t) PROVE IInv'
<1> USE ThreadFacts DEF IInv, Publish, Goto, AfterConnect,
        fields, devices, usage, locals, None
<1>1. TypeOK'
  BY DEF TypeOK, Labels, UnlockedLabels, LockedLabels, DeviceLabels, ReleaseLabels
<1>2. LockInv'
  BY DEF TypeOK, LockInv, ControlInv, Holds, LockedLabels, DeviceLabels, ReleaseLabels
<1>3. ControlInv'
  BY DEF TypeOK, ControlInv, DeviceLabels
<1> QED
  BY <1>1, <1>2, <1>3

\* A beat goes on to the exchange, or to the release, under its lock.
LEMMA BeatIInv == ASSUME IInv, NEW t \in Thread, Beat(t) PROVE IInv'
<1> USE ThreadFacts DEF IInv, Beat, Goto,
        fields, devices, usage, locals, None
<1>1. TypeOK'
  BY DEF TypeOK, Labels, UnlockedLabels, LockedLabels, DeviceLabels, ReleaseLabels
<1>2. LockInv'
  BY DEF TypeOK, LockInv, ControlInv, Holds, LockedLabels, DeviceLabels, ReleaseLabels
<1>3. ControlInv'
  BY DEF TypeOK, ControlInv, DeviceLabels
<1> QED
  BY <1>1, <1>2, <1>3

\* An exchange begins only under the lock.
LEMMA ExchangeBeginIInv == ASSUME IInv, NEW t \in Thread, ExchangeBegin(t) PROVE IInv'
<1> USE ThreadFacts DEF IInv, ExchangeBegin, Goto,
        fields, devices, usage, locals, None
<1>1. TypeOK'
  BY DEF TypeOK, Labels, UnlockedLabels, LockedLabels, DeviceLabels, ReleaseLabels
<1>2. LockInv'
  BY DEF TypeOK, LockInv, ControlInv, Holds, LockedLabels, DeviceLabels, ReleaseLabels
<1>3. ControlInv'
  BY DEF TypeOK, ControlInv, DeviceLabels
<1> QED
  BY <1>1, <1>2, <1>3

\* An exchange that ends well leaves the lock with its thread.
LEMMA ExchangeOkIInv == ASSUME IInv, NEW t \in Thread, ExchangeOk(t) PROVE IInv'
<1> USE ThreadFacts DEF IInv, ExchangeOk, Goto, ExchangeDone, AfterExchange,
        fields, devices, usage, locals, None
<1>1. TypeOK'
  BY DEF TypeOK, Labels, UnlockedLabels, LockedLabels, DeviceLabels, ReleaseLabels
<1>2. LockInv'
  BY DEF TypeOK, LockInv, ControlInv, Holds, LockedLabels, DeviceLabels, ReleaseLabels
<1>3. ControlInv'
  BY DEF TypeOK, ControlInv, DeviceLabels
<1> QED
  BY <1>1, <1>2, <1>3

\* An exchange that fails leaves the lock with its thread, to be let go.
LEMMA ExchangeFailsIInv == ASSUME IInv, NEW t \in Thread, ExchangeFails(t) PROVE IInv'
<1> USE ThreadFacts DEF IInv, ExchangeFails, Goto, ExchangeDone, AfterExchange, Raise,
        fields, devices, usage, locals, None
<1>1. TypeOK'
  BY DEF TypeOK, Labels, UnlockedLabels, LockedLabels, DeviceLabels, ReleaseLabels
<1>2. LockInv'
  BY DEF TypeOK, LockInv, ControlInv, Holds, LockedLabels, DeviceLabels, ReleaseLabels
<1>3. ControlInv'
  BY DEF TypeOK, ControlInv, DeviceLabels
<1> QED
  BY <1>1, <1>2, <1>3

\* A stop_communication that is silent leaves the lock with the close.
LEMMA StopSilentIInv == ASSUME IInv, NEW t \in Thread, StopSilent(t) PROVE IInv'
<1> USE ThreadFacts DEF IInv, StopSilent, Goto,
        fields, devices, usage, locals, None
<1>1. TypeOK'
  BY DEF TypeOK, Labels, UnlockedLabels, LockedLabels, DeviceLabels, ReleaseLabels
<1>2. LockInv'
  BY DEF TypeOK, LockInv, ControlInv, Holds, LockedLabels, DeviceLabels, ReleaseLabels
<1>3. ControlInv'
  BY DEF TypeOK, ControlInv, DeviceLabels
<1> QED
  BY <1>1, <1>2, <1>3

\* Only the holder lets the lock go, and it is outside the lock's code after.
LEMMA ReleaseIInv == ASSUME IInv, NEW t \in Thread, Release(t) PROVE IInv'
<1> USE ThreadFacts DEF IInv, Release, Goto, Return, Closing,
        fields, devices, usage, locals, None
<1>1. TypeOK'
  BY DEF TypeOK, Labels, UnlockedLabels, LockedLabels, DeviceLabels, ReleaseLabels
<1>2. LockInv'
  BY DEF TypeOK, LockInv, ControlInv, Holds, LockedLabels, DeviceLabels, ReleaseLabels
<1>3. ControlInv'
  <2>1. CASE call[t] = "start" /\ ~Closing(t)
    BY <2>1, SessionTicker DEF TypeOK, ControlInv, DeviceLabels
  <2>2. CASE ~(call[t] = "start" /\ ~Closing(t)) /\ t \in Tickers
    BY <2>2, SessionTicker DEF TypeOK, ControlInv, DeviceLabels
  <2>3. CASE ~(call[t] = "start" /\ ~Closing(t)) /\ t \notin Tickers
    BY <2>3, SessionTicker DEF TypeOK, ControlInv, DeviceLabels
  <2> QED
    BY <2>1, <2>2, <2>3
<1> QED
  BY <1>1, <1>2, <1>3

\* A new ticker is one of the tickers.
LEMMA KeepaliveNewIInv == ASSUME IInv, NEW t \in Thread, KeepaliveNew(t) PROVE IInv'
<1> USE ThreadFacts DEF IInv, KeepaliveNew, Goto, NewTicker,
        fields, devices, usage, locals, None
<1>1. TypeOK'
  BY SessionTicker DEF ControlInv, TypeOK, Labels, UnlockedLabels, LockedLabels, DeviceLabels,
                       ReleaseLabels
<1>2. LockInv'
  BY DEF TypeOK, LockInv, ControlInv, Holds, LockedLabels, DeviceLabels, ReleaseLabels
<1>3. ControlInv'
  BY DEF TypeOK, ControlInv, DeviceLabels
<1> QED
  BY <1>1, <1>2, <1>3

\* No ticker is started for an interval of 0.
LEMMA KeepaliveOffIInv == ASSUME IInv, NEW t \in Thread, KeepaliveOff(t) PROVE IInv'
<1> USE ThreadFacts DEF IInv, KeepaliveOff, Goto, Return,
        fields, devices, usage, locals, None
<1>1. TypeOK'
  BY DEF TypeOK, Labels, UnlockedLabels, LockedLabels, DeviceLabels, ReleaseLabels
<1>2. LockInv'
  BY DEF TypeOK, LockInv, ControlInv, Holds, LockedLabels, DeviceLabels, ReleaseLabels
<1>3. ControlInv'
  BY DEF TypeOK, ControlInv, DeviceLabels
<1> QED
  BY <1>1, <1>2, <1>3

\* The ticker's thread starts outside the lock's code.
LEMMA KeepaliveStartIInv == ASSUME IInv, NEW t \in Thread, KeepaliveStart(t) PROVE IInv'
<1> USE ThreadFacts DEF IInv, KeepaliveStart, Goto, Return, Raise,
        fields, devices, usage, locals, None
<1>1. TypeOK'
  BY DEF TypeOK, Labels, UnlockedLabels, LockedLabels, DeviceLabels, ReleaseLabels
<1>2. LockInv'
  BY DEF TypeOK, LockInv, ControlInv, Holds, LockedLabels, DeviceLabels, ReleaseLabels
<1>3. ControlInv'
  BY DEF TypeOK, ControlInv, DeviceLabels
<1> QED
  BY <1>1, <1>2, <1>3

\* A close takes the ticker before it asks for the lock.
LEMMA KeepaliveSwapIInv == ASSUME IInv, NEW t \in Thread, KeepaliveSwap(t) PROVE IInv'
<1> USE ThreadFacts DEF IInv, KeepaliveSwap, Goto,
        fields, devices, usage, locals, None
<1>1. TypeOK'
  BY DEF TypeOK, Labels, UnlockedLabels, LockedLabels, DeviceLabels, ReleaseLabels
<1>2. LockInv'
  BY DEF TypeOK, LockInv, ControlInv, Holds, LockedLabels, DeviceLabels, ReleaseLabels
<1>3. ControlInv'
  BY DEF TypeOK, ControlInv, DeviceLabels
<1> QED
  BY <1>1, <1>2, <1>3

\* A close stops the ticker before it asks for the lock; a forced one never asks.
LEMMA KeepaliveStopIInv == ASSUME IInv, NEW t \in Thread, KeepaliveStop(t) PROVE IInv'
<1> USE ThreadFacts DEF IInv, KeepaliveStop, Goto, StopSet,
        fields, devices, usage, locals, None
<1>1. TypeOK'
  BY DEF TypeOK, Labels, UnlockedLabels, LockedLabels, DeviceLabels, ReleaseLabels
<1>2. LockInv'
  BY DEF TypeOK, LockInv, ControlInv, Holds, LockedLabels, DeviceLabels, ReleaseLabels
<1>3. ControlInv'
  BY DEF TypeOK, ControlInv, DeviceLabels
<1> QED
  BY <1>1, <1>2, <1>3

\* A close forgets the session, under the lock or forced.
LEMMA ClearActiveIInv == ASSUME IInv, NEW t \in Thread, ClearActive(t) PROVE IInv'
<1> USE ThreadFacts DEF IInv, ClearActive, Goto, ClearSession,
        fields, devices, usage, locals, None
<1>1. TypeOK'
  BY DEF TypeOK, Labels, UnlockedLabels, LockedLabels, DeviceLabels, ReleaseLabels
<1>2. LockInv'
  BY DEF TypeOK, LockInv, ControlInv, Holds, LockedLabels, DeviceLabels, ReleaseLabels
<1>3. ControlInv'
  BY DEF TypeOK, ControlInv, DeviceLabels
<1> QED
  BY <1>1, <1>2, <1>3

\* A close takes the port, under the lock or forced.
LEMMA DeviceSwapIInv == ASSUME IInv, NEW t \in Thread, DeviceSwap(t) PROVE IInv'
<1> USE ThreadFacts DEF IInv, DeviceSwap, Goto,
        fields, devices, usage, locals, None
<1>1. TypeOK'
  BY DEF TypeOK, Labels, UnlockedLabels, LockedLabels, DeviceLabels, ReleaseLabels
<1>2. LockInv'
  BY DEF TypeOK, LockInv, ControlInv, Holds, LockedLabels, DeviceLabels, ReleaseLabels
<1>3. ControlInv'
  BY DEF TypeOK, ControlInv, DeviceLabels
<1> QED
  BY <1>1, <1>2, <1>3

\* A forced close ends here; any other still has to let the lock go.
LEMMA DeviceCloseIInv == ASSUME IInv, NEW t \in Thread, DeviceClose(t) PROVE IInv'
<1> USE ThreadFacts DEF IInv, DeviceClose, Goto, Return, CloseDevice,
        fields, devices, usage, locals, None
<1>1. TypeOK'
  BY DEF TypeOK, Labels, UnlockedLabels, LockedLabels, DeviceLabels, ReleaseLabels
<1>2. LockInv'
  BY DEF TypeOK, LockInv, ControlInv, Holds, LockedLabels, DeviceLabels, ReleaseLabels
<1>3. ControlInv'
  <2>1. CASE call[t] = "force"
    BY <2>1, SessionTicker DEF TypeOK, ControlInv, DeviceLabels
  <2>2. CASE call[t] # "force"
    BY <2>2, SessionTicker DEF TypeOK, ControlInv, DeviceLabels
  <2> QED
    BY <2>1, <2>2
<1> QED
  BY <1>1, <1>2, <1>3

\* A tick asks for the lock or ends the thread.
LEMMA TickIInv == ASSUME IInv, NEW t \in Thread, Tick(t) PROVE IInv'
<1> USE ThreadFacts DEF IInv, Tick, Goto,
        fields, devices, usage, locals, None
<1>1. TypeOK'
  BY DEF TypeOK, Labels, UnlockedLabels, LockedLabels, DeviceLabels, ReleaseLabels
<1>2. LockInv'
  BY DEF TypeOK, LockInv, ControlInv, Holds, LockedLabels, DeviceLabels, ReleaseLabels
<1>3. ControlInv'
  BY DEF TypeOK, ControlInv, DeviceLabels
<1> QED
  BY <1>1, <1>2, <1>3

\* The lock goes to one thread, and only when nobody has it.
LEMMA AcquireIInv == ASSUME IInv, NEW t \in Thread, Acquire(t) PROVE IInv'
<1> USE ThreadFacts DEF IInv, Acquire, Goto, LockFree,
        fields, devices, usage, locals, None
<1>1. TypeOK'
  BY DEF TypeOK, Labels, UnlockedLabels, LockedLabels, DeviceLabels, ReleaseLabels
<1>2. LockInv'
  BY DEF TypeOK, LockInv, ControlInv, Holds, LockedLabels, DeviceLabels, ReleaseLabels
<1>3. ControlInv'
  BY DEF TypeOK, ControlInv, DeviceLabels
<1> QED
  BY <1>1, <1>2, <1>3

\* A close takes the lock only when nobody has it.
LEMMA CloseAcquireIInv == ASSUME IInv, NEW t \in Thread, CloseAcquire(t) PROVE IInv'
<1> USE ThreadFacts DEF IInv, CloseAcquire, Goto, LockFree,
        fields, devices, usage, locals, None
<1>1. TypeOK'
  BY DEF TypeOK, Labels, UnlockedLabels, LockedLabels, DeviceLabels, ReleaseLabels
<1>2. LockInv'
  BY DEF TypeOK, LockInv, ControlInv, Holds, LockedLabels, DeviceLabels, ReleaseLabels
<1>3. ControlInv'
  BY DEF TypeOK, ControlInv, DeviceLabels
<1> QED
  BY <1>1, <1>2, <1>3

\* A session starts on a fresh owner, canceller and ticker.
LEMMA BeginStartIInv == ASSUME IInv, BeginStart PROVE IInv'
<1> USE ThreadFacts DEF IInv, None
<1> PICK c \in {"start", "open"} : Begin(Owner, c, "open", "device")
  BY DEF BeginStart
<1> USE DEF Begin, Goto, fields, devices
<1>1. /\ sessions' = sessions + 1 /\ sessions' \in 0..MaxSessions
      /\ sessions' \in Tickers /\ sessions' > 0
      /\ phase' = "starting" /\ cancelled' = FALSE /\ UNCHANGED <<ops, cancels>>
  BY ServiceAssumption DEF BeginStart, TypeOK, Tickers
<1>2. TypeOK'
  BY <1>1 DEF TypeOK, Labels, DeviceLabels, UnlockedLabels
<1>3. LockInv'
  BY DEF TypeOK, LockInv, Holds, LockedLabels, DeviceLabels, ReleaseLabels
<1>4. ControlInv'
  <2>1. \A t \in Thread :
          /\ call'[t] \in {"start", "open"} => t = Owner /\ sessions' > 0
          /\ pc'[t] \in {"kaNew", "kaStart"} => call'[t] = "start"
          /\ pc'[t] \in DeviceLabels => job'[t] \in {"open", "init"}
          /\ call'[t] = "force" => job'[t] # "stop" /\ pc'[t] # "closeAcquire"
    BY <1>1 DEF TypeOK, ControlInv, DeviceLabels
  <2>2. \A k \in Tickers : k # Owner /\ k \in Thread /\ k \in Nat
    BY DEF Callers
  <2>3. \A k \in Tickers : k > sessions => pc'[k] = "unstarted"
    BY <2>2 DEF ControlInv, TypeOK
  <2>4. \A k \in Tickers : k > sessions' => k > sessions
    BY <1>1, <2>2 DEF TypeOK
  <2>5. sessions' > sessions
    BY <1>1 DEF TypeOK
  <2>6. pc'[Owner] # "kaStart"
    BY DEF TypeOK
  <2> QED
    BY <1>1, <2>1, <2>3, <2>4, <2>5, <2>6 DEF ControlInv
<1> QED
  BY <1>2, <1>3, <1>4

\* The owner closes the service it could not start.
LEMMA ResumeIInv == ASSUME IInv, Resume PROVE IInv'
<1> USE ThreadFacts DEF IInv, Resume,
        fields, devices, usage, locals, None
<1>1. TypeOK'
  BY ServiceAssumption DEF TypeOK, Labels, UnlockedLabels, LockedLabels, DeviceLabels,
                           ReleaseLabels
<1>2. LockInv'
  BY DEF TypeOK, LockInv, ControlInv, Holds, LockedLabels, DeviceLabels, ReleaseLabels
<1>3. ControlInv'
  BY ServiceAssumption DEF TypeOK, ControlInv, DeviceLabels, Callers
<1> QED
  BY <1>1, <1>2, <1>3

\* The owner's close starts outside the lock.
LEMMA BeginCloseIInv == ASSUME IInv, BeginClose PROVE IInv'
<1> USE ThreadFacts DEF IInv, BeginClose, Begin, Goto,
        fields, devices, usage, locals, None
<1>1. TypeOK'
  BY ServiceAssumption DEF TypeOK, Labels, UnlockedLabels, LockedLabels, DeviceLabels,
                           ReleaseLabels
<1>2. LockInv'
  BY DEF TypeOK, LockInv, ControlInv, Holds, LockedLabels, DeviceLabels, ReleaseLabels
<1>3. ControlInv'
  BY ServiceAssumption DEF TypeOK, ControlInv, DeviceLabels, Callers
<1> QED
  BY <1>1, <1>2, <1>3

\* The canceller's forced close starts outside the lock.
LEMMA BeginForceIInv == ASSUME IInv, BeginForce PROVE IInv'
<1> USE ThreadFacts DEF IInv, BeginForce, Begin, Goto,
        fields, devices, usage, locals, None
<1>1. TypeOK'
  BY ServiceAssumption DEF TypeOK, Labels, UnlockedLabels, LockedLabels, DeviceLabels,
                           ReleaseLabels
<1>2. LockInv'
  BY DEF TypeOK, LockInv, ControlInv, Holds, LockedLabels, DeviceLabels, ReleaseLabels
<1>3. ControlInv'
  BY ServiceAssumption DEF TypeOK, ControlInv, DeviceLabels, Callers
<1> QED
  BY <1>1, <1>2, <1>3

\* An operation starts outside the lock.
LEMMA BeginOpIInv == ASSUME IInv, NEW t \in Operators, BeginOp(t) PROVE IInv'
<1> USE ThreadFacts DEF IInv, BeginOp, Begin, Goto,
        fields, devices, usage, locals, None
<1>1. TypeOK'
  BY ServiceAssumption DEF TypeOK, Labels, UnlockedLabels, LockedLabels, DeviceLabels,
                           ReleaseLabels
<1>2. LockInv'
  BY ServiceAssumption DEF TypeOK, LockInv, ControlInv, Holds, LockedLabels, DeviceLabels,
                           ReleaseLabels
<1>3. ControlInv'
  BY ServiceAssumption DEF TypeOK, ControlInv, DeviceLabels, Callers
<1> QED
  BY <1>1, <1>2, <1>3

\* Finalising a port moves no thread.
LEMMA FinaliseIInv == ASSUME IInv, NEW d \in opened, Finalise(d) PROVE IInv'
<1> USE ThreadFacts DEF IInv, Finalise,
        fields, devices, usage, locals, None
<1>1. TypeOK'
  BY ServiceAssumption DEF TypeOK, Labels, UnlockedLabels, LockedLabels, DeviceLabels,
                           ReleaseLabels
<1>2. LockInv'
  BY DEF TypeOK, LockInv, ControlInv, Holds, LockedLabels, DeviceLabels, ReleaseLabels
<1>3. ControlInv'
  BY ServiceAssumption DEF TypeOK, ControlInv, DeviceLabels, Callers
<1> QED
  BY <1>1, <1>2, <1>3

\* Every step of the service keeps the inductive invariant.
LEMMA NextIInv == IInv /\ [Next]_vars => IInv'
<1> SUFFICES ASSUME IInv, [Next]_vars PROVE IInv'
  OBVIOUS
<1>1. ASSUME NEW t \in Thread, Step(t) PROVE IInv'
  BY <1>1, DeviceBuildIInv, DeviceReadIInv, TransportOpenIInv, TransportOpenedIInv,
     OpenFailsIInv, ConnectedIInv, BuildClientIInv, PublishIInv,
     BeatIInv, ExchangeBeginIInv, ExchangeOkIInv, ExchangeFailsIInv,
     StopSilentIInv, ReleaseIInv, KeepaliveNewIInv, KeepaliveOffIInv, KeepaliveStartIInv,
     KeepaliveSwapIInv, KeepaliveStopIInv, ClearActiveIInv, DeviceSwapIInv,
     DeviceCloseIInv, TickIInv DEF Step
<1>2. ASSUME NEW t \in Thread, TakeLock(t) PROVE IInv'
  BY <1>2, AcquireIInv, CloseAcquireIInv DEF TakeLock
<1>3. CASE BeginStart \/ Resume \/ BeginClose \/ BeginForce
  BY <1>3, BeginStartIInv, ResumeIInv, BeginCloseIInv, BeginForceIInv
<1>4. CASE \E t \in Operators : BeginOp(t)
  BY <1>4, BeginOpIInv
<1>5. CASE \E d \in opened : Finalise(d)
  BY <1>5, FinaliseIInv
<1>6. CASE UNCHANGED vars
  BY <1>6 DEF vars, fields, devices, locals, usage, IInv, TypeOK, LockInv,
              ControlInv, Holds
<1> QED
  BY <1>1, <1>2, <1>3, <1>4, <1>5, <1>6 DEF Next, Terminated

\* The inductive invariant holds throughout: IInv says that every variable has
\* its type (TypeOK), that the holder of the lock is the one thread inside its
\* code (LockInv), and which calls may be at which labels (ControlInv).
THEOREM SpecIInv == Spec => []IInv
<1> QED
  BY InitIInv, NextIInv, PTL DEF Spec

\* Type correctness of the service.
THEOREM SpecTypeOK == Spec => []TypeOK
<1>1. IInv => TypeOK
  BY DEF IInv
<1> QED
  BY <1>1, SpecIInv, PTL

\* One exchange at a time on the K-line, whatever the number of operators, of
\* sessions, of operations and of cancels.
THEOREM SpecOneExchange == Spec => []OneExchange
<1>1. IInv => OneExchange
  BY DEF IInv, LockInv, OneExchange, Holds, LockedLabels
<1> QED
  BY <1>1, SpecIInv, PTL

----------------------------------------------------------------------------
(* Which device a thread talks to, and whose identity is cached.           *)

\* Who calls what, where that takes a thread, and when it may be under way.
TickerRole ==
    \A k \in Tickers :
       /\ call[k] = "beat" /\ job[k] = "beat"
       /\ pc[k] \in {"unstarted", "wait", "acquire", "beat", "exchange", "wire", "release",
                     "exit"}

OperatorRole ==
    \A t \in Operators : pc[t] # "idle" =>
       /\ call[t] \in {"read", "op", "plan"} /\ job[t] \in {"op", "init"}
       /\ pc[t] \in {"acquire", "connect", "device", "deviceRead", "exchange", "wire",
                     "publish", "release"}
       /\ phase \notin {"starting", "returned"}

CancellerRole ==
    pc[Canceller] # "idle" =>
       /\ call[Canceller] = "force" /\ job[Canceller] = "close"
       /\ pc[Canceller] \in {"kaSwap", "kaStop", "clear", "devSwap", "devClose"}
       /\ phase \in {"starting", "returned"} /\ cancelled

OwnerRole ==
    /\ job[Owner] \notin {"beat", "op"} /\ call[Owner] \in {"none", "start", "open", "close"}
    /\ phase = "starting" <=> pc[Owner] # "idle" /\ call[Owner] \in {"start", "open"}
    /\ phase = "closing" <=> pc[Owner] # "idle" /\ call[Owner] = "close"
    /\ pc[Owner] # "idle" => phase \in {"starting", "closing"}
    /\ pc[Owner] \notin {"unstarted", "wait", "beat", "exit"}
    /\ pc[Owner] # "idle" /\ call[Owner] = "open" =>
          job[Owner] = "open" /\ pc[Owner] \in {"device", "deviceRead", "open", "opening"}
    /\ pc[Owner] # "idle" /\ call[Owner] = "close" =>
          /\ Closing(Owner)
          /\ pc[Owner] \in {"exchange", "wire"} => job[Owner] = "stop"
          /\ pc[Owner] \in {"kaSwap", "kaStop", "closeAcquire", "exchange", "wire", "clear",
                            "devSwap", "devClose", "release"}

Roles == TickerRole /\ OperatorRole /\ CancellerRole /\ OwnerRole

\* A cached identity is that of the active client.
Identity == ecuInfo \in {None, active}

\* Who connects finds no client, and an operation has the client in hand.
Connecting ==
    \A t \in Thread :
       /\ pc[t] \in {"device", "deviceRead", "exchange", "wire", "publish"} /\ job[t] = "init"
             => active = None
       /\ pc[t] \in {"exchange", "wire"} /\ job[t] = "op" => ref[t] = active
       /\ pc[t] = "publish" => job[t] = "init"

\* No start was cancelled since an orderly close has cleared the session.
Fresh ==
    \/ ~cancelled \/ phase = "new"
    \/ phase = "closing" /\ pc[Owner] \in {"devSwap", "devClose", "release"}

\* Then there is one device: the client's and everybody's on the wire.
Current ==
    Fresh => /\ active \in {None, transport}
             /\ \A t \in Thread :
                   /\ pc[t] \in {"exchange", "wire", "publish"} =>
                         ref[t] = transport /\ ref[t] # None
                   /\ pc[t] = "deviceRead" => transport # None
                   /\ pc[t] = "devSwap" => active = None

\* The inductive invariant, on top of IInv.
SInv == Roles /\ Identity /\ Connecting /\ Current

----------------------------------------------------------------------------
\* The roles of threads are apart.
LEMMA RoleFacts ==
    /\ Thread = Operators \cup Tickers \cup {Owner, Canceller}
    /\ Owner # Canceller /\ Owner \notin Operators /\ Canceller \notin Operators
    /\ Owner \notin Tickers /\ Canceller \notin Tickers /\ Operators \cap Tickers = {}
  BY ServiceAssumption, ThreadFacts DEF Thread, Callers

\* SInv holds at the start, and each action keeps it, one lemma for each.
LEMMA InitSInv == Init => SInv
  BY RoleFacts, SMT DEF Init, SInv, Roles, TickerRole, OperatorRole, CancellerRole, OwnerRole,
                        Identity, Connecting, Current, Closing

LEMMA DeviceBuildSInv == ASSUME IInv, SInv, NEW t \in Thread, DeviceBuild(t) PROVE SInv'
<1> USE RoleFacts DEF IInv, SInv, TypeOK, DeviceBuild, Goto, DeviceOf, fields, devices,
                      usage, locals, None, Roles, TickerRole, OperatorRole, CancellerRole,
                      OwnerRole, Closing
<1>1. Roles'
  BY SMT
<1>2. Identity'
  BY SMT DEF Identity
<1>3. Connecting'
  BY SMT DEF Connecting
<1>4. Current'
  BY SMT DEF Current, Fresh
<1> QED
  BY <1>1, <1>2, <1>3, <1>4

LEMMA DeviceReadSInv == ASSUME IInv, SInv, NEW t \in Thread, DeviceRead(t) PROVE SInv'
<1> USE RoleFacts DEF IInv, SInv, TypeOK, DeviceRead, Goto, fields, devices, usage, locals,
                      None, Roles, TickerRole, OperatorRole, CancellerRole, OwnerRole,
                      Closing
<1>1. Roles'
  BY SMT
<1>2. Identity'
  BY SMT DEF Identity
<1>3. Connecting'
  BY SMT DEF Connecting, ControlInv, DeviceLabels
<1>4. Current'
  BY SMT DEF Current, Fresh
<1> QED
  BY <1>1, <1>2, <1>3, <1>4

LEMMA TransportOpenSInv == ASSUME IInv, SInv, NEW t \in Thread, TransportOpen(t) PROVE SInv'
<1> USE RoleFacts DEF IInv, SInv, TypeOK, TransportOpen, Goto, fields, devices, usage,
                      locals, None, Roles, TickerRole, OperatorRole, CancellerRole,
                      OwnerRole
<1>1. Roles'
  BY SMT
<1>2. Identity'
  BY SMT DEF Identity
<1>3. Connecting'
  BY SMT DEF Connecting
<1>4. Current'
  BY SMT DEF Current, Fresh
<1> QED
  BY <1>1, <1>2, <1>3, <1>4

LEMMA TransportOpenedSInv == ASSUME IInv, SInv, NEW t \in Thread, TransportOpened(t) PROVE SInv'
<1> USE RoleFacts DEF IInv, SInv, TypeOK, TransportOpened, Goto, Return, fields, devices,
                      usage, locals, None, Roles, TickerRole, OperatorRole, CancellerRole,
                      OwnerRole
<1>1. Roles'
  BY SMT
<1>2. Identity'
  BY SMT DEF Identity
<1>3. Connecting'
  BY SMT DEF Connecting
<1>4. Current'
  BY SMT DEF Current, Fresh
<1> QED
  BY <1>1, <1>2, <1>3, <1>4

LEMMA OpenFailsSInv == ASSUME IInv, SInv, NEW t \in Thread, OpenFails(t) PROVE SInv'
<1> USE RoleFacts DEF IInv, SInv, TypeOK, OpenFails, Goto, Return, Raise, fields, devices,
                      usage, locals, None, Roles, TickerRole, OperatorRole, CancellerRole,
                      OwnerRole
<1>1. Roles'
  BY SMT
<1>2. Identity'
  BY SMT DEF Identity
<1>3. Connecting'
  BY SMT DEF Connecting
<1>4. Current'
  BY SMT DEF Current, Fresh
<1> QED
  BY <1>1, <1>2, <1>3, <1>4

LEMMA AcquireSInv == ASSUME IInv, SInv, NEW t \in Thread, Acquire(t) PROVE SInv'
<1> USE RoleFacts DEF IInv, SInv, TypeOK, Acquire, Goto, LockFree, fields, devices, usage,
                      locals, None, Roles, TickerRole, OperatorRole, CancellerRole,
                      OwnerRole, Closing
<1>1. Roles'
  BY SMT
<1>2. Identity'
  BY SMT DEF Identity
<1>3. Connecting'
  BY SMT DEF Connecting
<1>4. Current'
  BY SMT DEF Current, Fresh
<1> QED
  BY <1>1, <1>2, <1>3, <1>4

LEMMA ConnectedSInv == ASSUME IInv, SInv, NEW t \in Thread, Connected(t) PROVE SInv'
<1> USE RoleFacts DEF IInv, SInv, TypeOK, Connected, Goto, AfterConnect, fields, devices,
                      usage, locals, None, Roles, TickerRole, OperatorRole, CancellerRole,
                      OwnerRole, Closing
<1>1. Roles'
  BY SMT
<1>2. Identity'
  BY SMT DEF Identity
<1>3. Connecting'
  BY SMT DEF Connecting
<1>4. Current'
  BY SMT DEF Current, Fresh
<1> QED
  BY <1>1, <1>2, <1>3, <1>4

LEMMA BuildClientSInv == ASSUME IInv, SInv, NEW t \in Thread, BuildClient(t) PROVE SInv'
<1> USE RoleFacts DEF IInv, SInv, TypeOK, BuildClient, Goto, fields, devices, usage,
                      locals, None, Roles, TickerRole, OperatorRole, CancellerRole,
                      OwnerRole, Closing
<1>1. Roles'
  BY SMT
<1>2. Identity'
  BY SMT DEF Identity
<1>3. Connecting'
  BY SMT DEF Connecting
<1>4. Current'
  BY SMT DEF Current, Fresh
<1> QED
  BY <1>1, <1>2, <1>3, <1>4

\* The client that is published is on the transport the thread connected over.
LEMMA PublishSInv == ASSUME IInv, SInv, NEW t \in Thread, Publish(t) PROVE SInv'
<1> USE RoleFacts DEF IInv, SInv, TypeOK, Publish, Goto, AfterConnect, fields, devices,
                      usage, locals, None, Roles, TickerRole, OperatorRole, CancellerRole,
                      OwnerRole, Closing
<1>1. Roles'
  BY SMT
<1>2. Identity'
  BY SMT DEF Identity, Connecting
<1>3. Connecting'
  BY SMT DEF Connecting, LockInv, Holds, LockedLabels, DeviceLabels
<1>4. Current'
  BY SMT DEF Current, Fresh, LockInv, Holds, LockedLabels, ReleaseLabels
<1> QED
  BY <1>1, <1>2, <1>3, <1>4

LEMMA BeatSInv == ASSUME IInv, SInv, NEW t \in Thread, Beat(t) PROVE SInv'
<1> USE RoleFacts DEF IInv, SInv, TypeOK, Beat, Goto, fields, devices, usage, locals, None,
                      Roles, TickerRole, OperatorRole, CancellerRole, OwnerRole, Closing
<1>1. Roles'
  BY SMT
<1>2. Identity'
  BY SMT DEF Identity
<1>3. Connecting'
  <2>1. job[t] = "beat"
    BY SMT
  <2> QED
    BY <2>1, SMT DEF Connecting
<1>4. Current'
  BY SMT DEF Current, Fresh
<1> QED
  BY <1>1, <1>2, <1>3, <1>4

LEMMA ExchangeBeginSInv == ASSUME IInv, SInv, NEW t \in Thread, ExchangeBegin(t) PROVE SInv'
<1> USE RoleFacts DEF IInv, SInv, TypeOK, ExchangeBegin, Goto, fields, devices, usage,
                      locals, None, Roles, TickerRole, OperatorRole, CancellerRole,
                      OwnerRole, Closing
<1>1. Roles'
  BY SMT
<1>2. Identity'
  BY SMT DEF Identity
<1>3. Connecting'
  BY SMT DEF Connecting
<1>4. Current'
  BY SMT DEF Current, Fresh
<1> QED
  BY <1>1, <1>2, <1>3, <1>4

LEMMA ExchangeOkSInv == ASSUME IInv, SInv, NEW t \in Thread, ExchangeOk(t) PROVE SInv'
<1> USE RoleFacts DEF IInv, SInv, TypeOK, ExchangeOk, Goto, ExchangeDone, AfterExchange,
                      fields, devices, usage, locals, None, Roles, TickerRole,
                      OperatorRole, CancellerRole, OwnerRole, Closing
<1>1. Roles'
  BY SMT
<1>2. Identity'
  BY SMT DEF Identity, Connecting
<1>3. Connecting'
  BY SMT DEF Connecting
<1>4. Current'
  BY SMT DEF Current, Fresh
<1> QED
  BY <1>1, <1>2, <1>3, <1>4

LEMMA ExchangeFailsSInv == ASSUME IInv, SInv, NEW t \in Thread, ExchangeFails(t) PROVE SInv'
<1> USE RoleFacts DEF IInv, SInv, TypeOK, ExchangeFails, Goto, ExchangeDone, AfterExchange,
                      Raise, fields, devices, usage, locals, None, Roles, TickerRole,
                      OperatorRole, CancellerRole, OwnerRole, Closing
<1>1. Roles'
  BY SMT
<1>2. Identity'
  BY SMT DEF Identity, Connecting
<1>3. Connecting'
  BY SMT DEF Connecting
<1>4. Current'
  BY SMT DEF Current, Fresh
<1> QED
  BY <1>1, <1>2, <1>3, <1>4

LEMMA StopSilentSInv == ASSUME IInv, SInv, NEW t \in Thread, StopSilent(t) PROVE SInv'
<1> USE RoleFacts DEF IInv, SInv, TypeOK, StopSilent, Goto, fields, devices, usage, locals,
                      None, Roles, TickerRole, OperatorRole, CancellerRole, OwnerRole,
                      Closing
<1>1. Roles'
  BY SMT
<1>2. Identity'
  BY SMT DEF Identity
<1>3. Connecting'
  BY SMT DEF Connecting
<1>4. Current'
  BY SMT DEF Current, Fresh
<1> QED
  BY <1>1, <1>2, <1>3, <1>4

LEMMA ReleaseSInv == ASSUME IInv, SInv, NEW t \in Thread, Release(t) PROVE SInv'
<1> USE RoleFacts DEF IInv, SInv, TypeOK, Release, Goto, Return, fields, devices, usage,
                      locals, None, Roles, TickerRole, OperatorRole, CancellerRole,
                      OwnerRole, Closing
<1>1. Roles'
  BY SMT
<1>2. Identity'
  BY SMT DEF Identity
<1>3. Connecting'
  BY SMT DEF Connecting
<1>4. Current'
  BY SMT DEF Current, Fresh
<1> QED
  BY <1>1, <1>2, <1>3, <1>4

LEMMA KeepaliveNewSInv == ASSUME IInv, SInv, NEW t \in Thread, KeepaliveNew(t) PROVE SInv'
<1> USE RoleFacts DEF IInv, SInv, TypeOK, KeepaliveNew, Goto, NewTicker, fields, devices,
                      usage, locals, None, Roles, TickerRole, OperatorRole, CancellerRole,
                      OwnerRole
<1>1. Roles'
  BY SMT
<1>2. Identity'
  BY SMT DEF Identity
<1>3. Connecting'
  BY SMT DEF Connecting
<1>4. Current'
  BY SMT DEF Current, Fresh
<1> QED
  BY <1>1, <1>2, <1>3, <1>4

LEMMA KeepaliveOffSInv == ASSUME IInv, SInv, NEW t \in Thread, KeepaliveOff(t) PROVE SInv'
<1> USE RoleFacts DEF IInv, SInv, TypeOK, KeepaliveOff, Goto, Return, fields, devices,
                      usage, locals, None, Roles, TickerRole, OperatorRole, CancellerRole,
                      OwnerRole
<1>1. Roles'
  BY SMT
<1>2. Identity'
  BY SMT DEF Identity
<1>3. Connecting'
  BY SMT DEF Connecting
<1>4. Current'
  BY SMT DEF Current, Fresh
<1> QED
  BY <1>1, <1>2, <1>3, <1>4

LEMMA KeepaliveStartSInv == ASSUME IInv, SInv, NEW t \in Thread, KeepaliveStart(t) PROVE SInv'
<1> USE RoleFacts DEF IInv, SInv, TypeOK, KeepaliveStart, Goto, Return, Raise, fields,
                      devices, usage, locals, None, Roles, TickerRole, OperatorRole,
                      CancellerRole, OwnerRole
<1>1. Roles'
  BY SMT
<1>2. Identity'
  BY SMT DEF Identity
<1>3. Connecting'
  BY SMT DEF Connecting
<1>4. Current'
  BY SMT DEF Current, Fresh
<1> QED
  BY <1>1, <1>2, <1>3, <1>4

LEMMA TickSInv == ASSUME IInv, SInv, NEW t \in Thread, Tick(t) PROVE SInv'
<1> USE RoleFacts DEF IInv, SInv, TypeOK, Tick, Goto, fields, devices, usage, locals, None,
                      Roles, TickerRole, OperatorRole, CancellerRole, OwnerRole, Closing
<1>1. Roles'
  BY SMT
<1>2. Identity'
  BY SMT DEF Identity
<1>3. Connecting'
  BY SMT DEF Connecting
<1>4. Current'
  BY SMT DEF Current, Fresh
<1> QED
  BY <1>1, <1>2, <1>3, <1>4

LEMMA KeepaliveSwapSInv == ASSUME IInv, SInv, NEW t \in Thread, KeepaliveSwap(t) PROVE SInv'
<1> USE RoleFacts DEF IInv, SInv, TypeOK, KeepaliveSwap, Goto, fields, devices, usage,
                      locals, None, Roles, TickerRole, OperatorRole, CancellerRole,
                      OwnerRole, Closing
<1>1. Roles'
  BY SMT
<1>2. Identity'
  BY SMT DEF Identity
<1>3. Connecting'
  BY SMT DEF Connecting
<1>4. Current'
  BY SMT DEF Current, Fresh
<1> QED
  BY <1>1, <1>2, <1>3, <1>4

LEMMA KeepaliveStopSInv == ASSUME IInv, SInv, NEW t \in Thread, KeepaliveStop(t) PROVE SInv'
<1> USE RoleFacts DEF IInv, SInv, TypeOK, KeepaliveStop, Goto, StopSet, fields, devices,
                      usage, locals, None, Roles, TickerRole, OperatorRole, CancellerRole,
                      OwnerRole, Closing
<1>1. Roles'
  BY SMT
<1>2. Identity'
  BY SMT DEF Identity
<1>3. Connecting'
  BY SMT DEF Connecting
<1>4. Current'
  BY SMT DEF Current, Fresh
<1> QED
  BY <1>1, <1>2, <1>3, <1>4

LEMMA CloseAcquireSInv == ASSUME IInv, SInv, NEW t \in Thread, CloseAcquire(t) PROVE SInv'
<1> USE RoleFacts DEF IInv, SInv, TypeOK, CloseAcquire, Goto, LockFree, fields, devices,
                      usage, locals, None, Roles, TickerRole, OperatorRole, CancellerRole,
                      OwnerRole, Closing
<1>1. Roles'
  BY SMT
<1>2. Identity'
  BY SMT DEF Identity
<1>3. Connecting'
  BY SMT DEF Connecting
<1>4. Current'
  BY SMT DEF Current, Fresh
<1> QED
  BY <1>1, <1>2, <1>3, <1>4

LEMMA ClearActiveSInv == ASSUME IInv, SInv, NEW t \in Thread, ClearActive(t) PROVE SInv'
<1> USE RoleFacts DEF IInv, SInv, TypeOK, ClearActive, Goto, ClearSession, fields, devices,
                      usage, locals, None, Roles, TickerRole, OperatorRole, CancellerRole,
                      OwnerRole, Closing
<1>1. Roles'
  BY SMT
<1>2. Identity'
  BY SMT DEF Identity
<1>3. Connecting'
  BY SMT DEF Connecting, LockInv, Holds, LockedLabels, ReleaseLabels
<1>4. Current'
  BY SMT DEF Current, Fresh, ControlInv, LockInv, Holds, LockedLabels, DeviceLabels,
             ReleaseLabels
<1> QED
  BY <1>1, <1>2, <1>3, <1>4

\* Who drops the device has dropped the client before.
LEMMA DeviceSwapSInv == ASSUME IInv, SInv, NEW t \in Thread, DeviceSwap(t) PROVE SInv'
<1> USE RoleFacts DEF IInv, SInv, TypeOK, DeviceSwap, Goto, fields, devices, usage, locals,
                      None, Roles, TickerRole, OperatorRole, CancellerRole, OwnerRole,
                      Closing
<1>1. Roles'
  BY SMT
<1>2. Identity'
  BY SMT DEF Identity
<1>3. Connecting'
  BY SMT DEF Connecting
<1>4. Current'
  <2>1. CASE t = Canceller
    BY <2>1, SMT DEF Current, Fresh
  <2>2. CASE t = Owner
    <3>1. active = None \/ ~Fresh'
      BY <2>2, SMT DEF Current, Fresh
    <3>2. \A u \in Thread :
             pc'[u] \notin {"exchange", "wire", "publish", "deviceRead"}
      BY <2>2, SMT DEF ControlInv, LockInv, Holds, LockedLabels, DeviceLabels, ReleaseLabels
    <3> QED
      BY <3>1, <3>2, SMT DEF Current
  <2> QED
    BY <2>1, <2>2, SMT
<1> QED
  BY <1>1, <1>2, <1>3, <1>4

\* The owner's close is over; a forced one comes only while a start is not resumed.
LEMMA DeviceCloseSInv == ASSUME IInv, SInv, NEW t \in Thread, DeviceClose(t) PROVE SInv'
<1> USE RoleFacts DEF IInv, SInv, TypeOK, DeviceClose, Goto, Return, CloseDevice, fields,
                      devices, usage, locals, None, Roles, TickerRole, OperatorRole,
                      CancellerRole, OwnerRole, Closing
<1>1. Roles'
  <2>1. TickerRole'
    BY SMT
  <2>2. OperatorRole'
    BY SMT
  <2>3. CancellerRole'
    BY SMT
  <2>4. OwnerRole'
    <3>1. CASE t = Owner
      BY <3>1, SMT
    <3>2. CASE t # Owner
      <4>1. t = Canceller
        BY <3>2, SMT
      <4>2. Return(t)
        BY <4>1, SMT
      <4>3. UNCHANGED phase
        BY <3>2, <4>2, Zenon
      <4>4. pc'[Owner] = pc[Owner]
        BY <4>1, <4>2, SMT
      <4> QED
        BY <3>2, <4>3, <4>4
    <3> QED
      BY <3>1, <3>2
  <2> QED
    BY <2>1, <2>2, <2>3, <2>4
<1>2. Identity'
  BY SMT DEF Identity
<1>3. Connecting'
  BY SMT DEF Connecting
<1>4. Current'
  BY SMT DEF Current, Fresh
<1> QED
  BY <1>1, <1>2, <1>3, <1>4

\* A start begins with nobody connected and the earlier tickers on their own.
LEMMA BeginStartSInv == ASSUME IInv, SInv, BeginStart PROVE SInv'
<1> USE RoleFacts DEF IInv, SInv, TypeOK, BeginStart, Goto, Begin, fields, devices, usage,
                      locals, None, Roles, TickerRole, OperatorRole, CancellerRole,
                      OwnerRole
<1>1. Roles'
  <2>1. TickerRole'
    BY SMT
  <2>2. OperatorRole'
    <3>1. \A u \in Operators : pc'[u] = "idle"
      BY SMT DEF Callers
    <3> QED
      BY <3>1
  <2>3. CancellerRole'
    BY SMT
  <2>4. OwnerRole'
    BY SMT
  <2> QED
    BY <2>1, <2>2, <2>3, <2>4
<1>2. Identity'
  BY SMT DEF Identity
<1>3. Connecting'
  BY SMT DEF Connecting
<1>4. Current'
  BY SMT DEF Current, Fresh
<1> QED
  BY <1>1, <1>2, <1>3, <1>4

LEMMA ResumeSInv == ASSUME IInv, SInv, Resume PROVE SInv'
<1> USE RoleFacts DEF IInv, SInv, TypeOK, Resume, Goto, fields, devices, usage, locals,
                      None, Roles, TickerRole, OperatorRole, CancellerRole, OwnerRole
<1>1. Roles'
  BY SMT
<1>2. Identity'
  BY SMT DEF Identity
<1>3. Connecting'
  BY SMT DEF Connecting
<1>4. Current'
  BY SMT DEF Current, Fresh
<1> QED
  BY <1>1, <1>2, <1>3, <1>4

LEMMA BeginCloseSInv == ASSUME IInv, SInv, BeginClose PROVE SInv'
<1> USE RoleFacts DEF IInv, SInv, TypeOK, BeginClose, Goto, Begin, fields, devices, usage,
                      locals, None, Roles, TickerRole, OperatorRole, CancellerRole,
                      OwnerRole, Closing
<1>1. Roles'
  BY SMT
<1>2. Identity'
  BY SMT DEF Identity
<1>3. Connecting'
  BY SMT DEF Connecting
<1>4. Current'
  BY SMT DEF Current, Fresh
<1> QED
  BY <1>1, <1>2, <1>3, <1>4

LEMMA BeginForceSInv == ASSUME IInv, SInv, BeginForce PROVE SInv'
<1> USE RoleFacts DEF IInv, SInv, TypeOK, BeginForce, Goto, Begin, fields, devices, usage,
                      locals, None, Roles, TickerRole, OperatorRole, CancellerRole,
                      OwnerRole
<1>1. Roles'
  BY SMT
<1>2. Identity'
  BY SMT DEF Identity
<1>3. Connecting'
  BY SMT DEF Connecting
<1>4. Current'
  BY SMT DEF Current, Fresh
<1> QED
  BY <1>1, <1>2, <1>3, <1>4

LEMMA BeginOpSInv == ASSUME IInv, SInv, NEW t \in Operators, BeginOp(t) PROVE SInv'
<1> USE RoleFacts DEF IInv, SInv, TypeOK, BeginOp, Begin, Goto, fields, devices, usage,
                      locals, None, Roles, TickerRole, OperatorRole, CancellerRole,
                      OwnerRole
<1>1. Roles'
  <2>1. TickerRole'
    BY SMT
  <2>2. OperatorRole'
    BY ServiceAssumption, SMT
  <2>3. CancellerRole'
    BY SMT
  <2>4. OwnerRole'
    BY SMT
  <2> QED
    BY <2>1, <2>2, <2>3, <2>4
<1>2. Identity'
  BY SMT DEF Identity
<1>3. Connecting'
  BY SMT DEF Connecting
<1>4. Current'
  BY SMT DEF Current, Fresh
<1> QED
  BY <1>1, <1>2, <1>3, <1>4

LEMMA FinaliseSInv == ASSUME IInv, SInv, NEW d \in opened, Finalise(d) PROVE SInv'
  BY DEF SInv, Roles, TickerRole, OperatorRole, CancellerRole, OwnerRole, Closing, Identity,
         Connecting, Current, Fresh, Finalise, fields, locals, usage

\* No step breaks the session invariant.
LEMMA NextSInv == IInv /\ SInv /\ [Next]_vars => SInv'
<1> SUFFICES ASSUME IInv, SInv, [Next]_vars PROVE SInv'
  OBVIOUS
<1>1. ASSUME NEW t \in Thread, Step(t) PROVE SInv'
  BY <1>1, DeviceBuildSInv, DeviceReadSInv, TransportOpenSInv, TransportOpenedSInv,
     OpenFailsSInv, ConnectedSInv, BuildClientSInv, PublishSInv, BeatSInv, ExchangeBeginSInv,
     ExchangeOkSInv, ExchangeFailsSInv, StopSilentSInv, ReleaseSInv, KeepaliveNewSInv,
     KeepaliveOffSInv, KeepaliveStartSInv, KeepaliveSwapSInv, KeepaliveStopSInv,
     ClearActiveSInv, DeviceSwapSInv, DeviceCloseSInv, TickSInv DEF Step
<1>2. ASSUME NEW t \in Thread, TakeLock(t) PROVE SInv'
  BY <1>2, AcquireSInv, CloseAcquireSInv DEF TakeLock
<1>3. CASE BeginStart \/ Resume \/ BeginClose \/ BeginForce
  BY <1>3, BeginStartSInv, ResumeSInv, BeginCloseSInv, BeginForceSInv
<1>4. CASE \E t \in Operators : BeginOp(t)
  BY <1>4, BeginOpSInv
<1>5. CASE \E d \in opened : Finalise(d)
  BY <1>5, FinaliseSInv
<1>6. CASE UNCHANGED vars
  BY <1>6 DEF vars, fields, devices, locals, usage, SInv, Roles, TickerRole, OperatorRole,
              CancellerRole, OwnerRole, Closing, Identity, Connecting, Current, Fresh
<1> QED
  BY <1>1, <1>2, <1>3, <1>4, <1>5, <1>6 DEF Next, Terminated

\* Who may be at which label in which phase, and which client, identity and device it
\* has in hand: service.py:231-253, 346-412.
THEOREM SpecSInv == Spec => []SInv
  BY SpecIInv, InitSInv, NextSInv, PTL DEF Spec

\* No identity of a former session is ever cached: service.py:246-251, 401-412.
THEOREM SpecIdentityOfSession == Spec => []IdentityOfSession
<1>1. SInv => IdentityOfSession
  BY DEF SInv, Identity, IdentityOfSession
<1> QED
  BY <1>1, SpecSInv, PTL

\* Nobody talks over a device that the service has let go, unless the start was
\* cancelled under it: service.py:231-241, 352-371.
THEOREM SpecWireIsCurrent == Spec => []WireIsCurrent
<1>1. SInv => WireIsCurrent
  BY DEF SInv, Current, Fresh, WireIsCurrent
<1> QED
  BY <1>1, SpecSInv, PTL

----------------------------------------------------------------------------
(* Which port is open when.                                                *)

\* The start under way, or its outcome that nobody cancelled, and no failure of it.
Sound ==
    /\ ~cancelled
    /\ \/ phase = "starting" /\ ~Closing(Owner)
       \/ phase \in {"returned", "up"} /\ ~raised[Owner]

\* The labels that only close() has.
CloseLabels == {"kaSwap", "kaStop", "closeAcquire", "clear", "devSwap", "devClose"}

\* A start gets as far as the lock only over a port that is open.
PortOpened ==
    /\ phase = "starting" =>
          /\ job[Owner] \in {"open", "init", "close", "stop"}
          /\ job[Owner] = "open" => pc[Owner] \in {"device", "deviceRead", "open", "opening"}
          /\ Closing(Owner) =>
                raised[Owner] /\ pc[Owner] \in CloseLabels \cup {"exchange", "wire", "release"}
          /\ pc[Owner] \in CloseLabels => Closing(Owner)
          /\ pc[Owner] \in {"exchange", "wire"} => job[Owner] # "close"
    /\ ~cancelled /\ pc[Owner] \in {"open", "opening"} => ref[Owner] = transport
    /\ Sound /\ (phase = "starting" => job[Owner] = "init") => transport \in opened

\* It ends without a failure only with a client.
ClientMade ==
    Sound /\ call[Owner] = "start" =>
       \/ active # None
       \/ phase = "starting" /\ pc[Owner] \notin {"release", "kaNew", "kaStart"}
       \/ phase = "starting" /\ pc[Owner] = "release" /\ raised[Owner]

\* Only tickers of sessions so far are told to stop, that of a sound one is not.
TickerRuns ==
    /\ keepalive <= sessions /\ stop \subseteq 0..sessions
    /\ \A t \in Thread : pc[t] = "kaStop" => ref[t] <= sessions
    /\ phase = "new" \/ (phase = "closing" /\ pc[Owner] # "kaSwap") => keepalive = None
    /\ Sound =>
          /\ sessions \notin stop /\ keepalive \in {None, sessions}
          /\ phase = "starting" /\ pc[Owner] # "kaStart" => keepalive = None
          /\ phase # "starting" /\ keepalive # None => pc[keepalive] \notin {"unstarted", "exit"}

\* Where nobody cancelled, only the device the service holds can be open, and none
\* when close() is about to return.
PortReleased ==
    /\ None \notin opened /\ (pc[Owner] = "opening" => ref[Owner] # None)
    /\ cancelled => cancels > 0
    /\ cancels = 0 =>
          /\ opened \subseteq IF pc[Owner] = "devClose" THEN {ref[Owner]} ELSE {transport}
          /\ phase = "new" \/ (phase = "closing" /\ pc[Owner] = "release") => opened = {}

\* The inductive invariant, on top of IInv and SInv.
PInv == PortOpened /\ ClientMade /\ TickerRuns /\ PortReleased

----------------------------------------------------------------------------
\* PInv holds at the start, and each action keeps it, one lemma for each.
LEMMA InitPInv == Init => PInv
  BY RoleFacts, SMT DEF Init, PInv, PortOpened, ClientMade, TickerRuns, PortReleased, Sound,
                        None

LEMMA DeviceBuildPInv == ASSUME IInv, SInv, PInv, NEW t \in Thread, DeviceBuild(t) PROVE PInv'
<1> USE RoleFacts DEF IInv, SInv, PInv, TypeOK, DeviceBuild, Goto, DeviceOf, fields,
                      devices, usage, locals, None, Roles, TickerRole, OperatorRole,
                      CancellerRole, OwnerRole, Closing, Sound, CloseLabels
<1>1. PortOpened'
  BY SMT DEF PortOpened, PortReleased
<1>2. ClientMade'
  BY SMT DEF ClientMade
<1>3. TickerRuns'
  BY SMT DEF TickerRuns
<1>4. PortReleased'
  BY SMT DEF PortReleased
<1> QED
  BY <1>1, <1>2, <1>3, <1>4

LEMMA DeviceReadPInv == ASSUME IInv, SInv, PInv, NEW t \in Thread, DeviceRead(t) PROVE PInv'
<1> USE RoleFacts DEF IInv, SInv, PInv, TypeOK, DeviceRead, Goto, fields, devices, usage,
                      locals, None, Closing, Sound, CloseLabels
<1>1. PortOpened'
  BY SMT DEF PortOpened, PortReleased
<1>2. ClientMade'
  BY SMT DEF ClientMade
<1>3. TickerRuns'
  BY SMT DEF TickerRuns
<1>4. PortReleased'
  BY SMT DEF PortReleased
<1> QED
  BY <1>1, <1>2, <1>3, <1>4

LEMMA TransportOpenPInv ==
    ASSUME IInv, SInv, PInv, NEW t \in Thread, TransportOpen(t) PROVE PInv'
<1> USE RoleFacts DEF IInv, SInv, PInv, TypeOK, TransportOpen, Goto, fields, devices,
                      usage, locals, None, Closing, Sound, CloseLabels
<1>1. PortOpened'
  BY SMT DEF PortOpened, PortReleased
<1>2. ClientMade'
  BY SMT DEF ClientMade
<1>3. TickerRuns'
  BY SMT DEF TickerRuns
<1>4. PortReleased'
  BY SMT DEF PortReleased
<1> QED
  BY <1>1, <1>2, <1>3, <1>4

\* The port that is opened is, without a cancel, the one the service holds.
LEMMA TransportOpenedPInv ==
    ASSUME IInv, SInv, PInv, NEW t \in Thread, TransportOpened(t) PROVE PInv'
<1> USE RoleFacts DEF IInv, SInv, PInv, TypeOK, TransportOpened, Goto, Return, fields,
                      devices, usage, locals, None, Roles, TickerRole, OperatorRole,
                      CancellerRole, OwnerRole, Closing, Sound, CloseLabels
<1>1. PortOpened'
  BY SMT DEF PortOpened, PortReleased
<1>2. ClientMade'
  BY SMT DEF ClientMade
<1>3. TickerRuns'
  BY SMT DEF TickerRuns, PortOpened
<1>4. PortReleased'
  <2>1. t = Owner /\ phase = "starting" /\ ref[t] # None /\ (~cancelled => ref[t] = transport)
    BY SMT DEF PortOpened, PortReleased
  <2>2. None \notin opened'
    BY <2>1, Zenon DEF PortReleased
  <2>3. cancels = 0 => opened' \subseteq {transport}
    <3>1. cancels = 0 => ~cancelled /\ opened \subseteq {transport}
      BY <2>1, SMT DEF PortReleased
    <3> QED
      BY <2>1, <3>1, Zenon
  <2>4. pc'[Owner] \in {"acquire", "idle"} /\ phase' \in {"starting", "returned"}
    BY <2>1, SMT
  <2> QED
    BY <2>1, <2>2, <2>3, <2>4 DEF PortReleased
<1> QED
  BY <1>1, <1>2, <1>3, <1>4

LEMMA OpenFailsPInv == ASSUME IInv, SInv, PInv, NEW t \in Thread, OpenFails(t) PROVE PInv'
<1> USE RoleFacts DEF IInv, SInv, PInv, TypeOK, OpenFails, Goto, Return, Raise, fields,
                      devices, usage, locals, None, Roles, OwnerRole, Closing, Sound
<1>1. PortOpened'
  BY SMT DEF PortOpened, PortReleased
<1>2. ClientMade'
  BY SMT DEF ClientMade
<1>3. TickerRuns'
  BY SMT DEF TickerRuns
<1>4. PortReleased'
  BY SMT DEF PortReleased
<1> QED
  BY <1>1, <1>2, <1>3, <1>4

LEMMA AcquirePInv == ASSUME IInv, SInv, PInv, NEW t \in Thread, Acquire(t) PROVE PInv'
<1> USE RoleFacts DEF IInv, SInv, PInv, TypeOK, Acquire, Goto, fields, devices, usage,
                      locals, None, Closing, Sound, CloseLabels
<1>1. PortOpened'
  BY SMT DEF PortOpened, PortReleased
<1>2. ClientMade'
  BY SMT DEF ClientMade
<1>3. TickerRuns'
  BY SMT DEF TickerRuns
<1>4. PortReleased'
  BY SMT DEF PortReleased
<1> QED
  BY <1>1, <1>2, <1>3, <1>4

LEMMA ConnectedPInv == ASSUME IInv, SInv, PInv, NEW t \in Thread, Connected(t) PROVE PInv'
<1> USE RoleFacts DEF IInv, SInv, PInv, TypeOK, Connected, Goto, AfterConnect, fields,
                      devices, usage, locals, None, Roles, OwnerRole, Closing, Sound,
                      CloseLabels
<1>1. PortOpened'
  BY SMT DEF PortOpened, PortReleased
<1>2. ClientMade'
  BY SMT DEF ClientMade
<1>3. TickerRuns'
  BY SMT DEF TickerRuns, PortOpened
<1>4. PortReleased'
  BY SMT DEF PortReleased
<1> QED
  BY <1>1, <1>2, <1>3, <1>4

LEMMA BuildClientPInv == ASSUME IInv, SInv, PInv, NEW t \in Thread, BuildClient(t) PROVE PInv'
<1> USE RoleFacts DEF IInv, SInv, PInv, TypeOK, BuildClient, Goto, fields, devices, usage,
                      locals, None, Closing, Sound, CloseLabels
<1>1. PortOpened'
  BY SMT DEF PortOpened, PortReleased
<1>2. ClientMade'
  BY SMT DEF ClientMade
<1>3. TickerRuns'
  BY SMT DEF TickerRuns, PortOpened
<1>4. PortReleased'
  BY SMT DEF PortReleased
<1> QED
  BY <1>1, <1>2, <1>3, <1>4

\* The client that a sound start publishes is on the device it opened.
LEMMA PublishPInv == ASSUME IInv, SInv, PInv, NEW t \in Thread, Publish(t) PROVE PInv'
<1> USE RoleFacts DEF IInv, SInv, PInv, TypeOK, Publish, Goto, AfterConnect, fields,
                      devices, usage, locals, None, Roles, OwnerRole, Closing, Sound,
                      CloseLabels
<1>1. PortOpened'
  BY SMT DEF PortOpened, PortReleased
<1>2. ClientMade'
  BY SMT DEF ClientMade, Current, Fresh
<1>3. TickerRuns'
  BY SMT DEF TickerRuns, PortOpened
<1>4. PortReleased'
  BY SMT DEF PortReleased, LockInv, Holds, LockedLabels, ReleaseLabels
<1> QED
  BY <1>1, <1>2, <1>3, <1>4

LEMMA BeatPInv == ASSUME IInv, SInv, PInv, NEW t \in Thread, Beat(t) PROVE PInv'
<1> USE RoleFacts DEF IInv, SInv, PInv, TypeOK, Beat, Goto, fields, devices, usage, locals,
                      None, Roles, OwnerRole, Closing, Sound
<1>1. PortOpened'
  BY SMT DEF PortOpened, PortReleased
<1>2. ClientMade'
  BY SMT DEF ClientMade
<1>3. TickerRuns'
  BY SMT DEF TickerRuns
<1>4. PortReleased'
  BY SMT DEF PortReleased
<1> QED
  BY <1>1, <1>2, <1>3, <1>4

LEMMA ExchangeBeginPInv ==
    ASSUME IInv, SInv, PInv, NEW t \in Thread, ExchangeBegin(t) PROVE PInv'
<1> USE RoleFacts DEF IInv, SInv, PInv, TypeOK, ExchangeBegin, Goto, fields, devices,
                      usage, locals, None, Closing, Sound, CloseLabels
<1>1. PortOpened'
  BY SMT DEF PortOpened, PortReleased
<1>2. ClientMade'
  BY SMT DEF ClientMade
<1>3. TickerRuns'
  BY SMT DEF TickerRuns
<1>4. PortReleased'
  BY SMT DEF PortReleased
<1> QED
  BY <1>1, <1>2, <1>3, <1>4

LEMMA ExchangeOkPInv == ASSUME IInv, SInv, PInv, NEW t \in Thread, ExchangeOk(t) PROVE PInv'
<1> USE RoleFacts DEF IInv, SInv, PInv, TypeOK, ExchangeOk, Goto, ExchangeDone,
                      AfterExchange, fields, devices, usage, locals, None, Roles,
                      OwnerRole, Closing, Sound, CloseLabels
<1>1. PortOpened'
  BY SMT DEF PortOpened, PortReleased
<1>2. ClientMade'
  BY SMT DEF ClientMade, PortOpened
<1>3. TickerRuns'
  BY SMT DEF TickerRuns
<1>4. PortReleased'
  BY SMT DEF PortReleased
<1> QED
  BY <1>1, <1>2, <1>3, <1>4

LEMMA ExchangeFailsPInv ==
    ASSUME IInv, SInv, PInv, NEW t \in Thread, ExchangeFails(t) PROVE PInv'
<1> USE RoleFacts DEF IInv, SInv, PInv, TypeOK, ExchangeFails, Goto, ExchangeDone,
                      AfterExchange, Raise, fields, devices, usage, locals, None, Roles,
                      OwnerRole, Closing, Sound, CloseLabels
<1>1. PortOpened'
  BY SMT DEF PortOpened, PortReleased
<1>2. ClientMade'
  BY SMT DEF ClientMade, PortOpened
<1>3. TickerRuns'
  BY SMT DEF TickerRuns
<1>4. PortReleased'
  BY SMT DEF PortReleased
<1> QED
  BY <1>1, <1>2, <1>3, <1>4

LEMMA StopSilentPInv == ASSUME IInv, SInv, PInv, NEW t \in Thread, StopSilent(t) PROVE PInv'
<1> USE RoleFacts DEF IInv, SInv, PInv, TypeOK, StopSilent, Goto, fields, devices, usage,
                      locals, None, Closing, Sound, CloseLabels
<1>1. PortOpened'
  BY SMT DEF PortOpened, PortReleased
<1>2. ClientMade'
  BY SMT DEF ClientMade
<1>3. TickerRuns'
  BY SMT DEF TickerRuns
<1>4. PortReleased'
  BY SMT DEF PortReleased
<1> QED
  BY <1>1, <1>2, <1>3, <1>4

\* The three ways to leave the lock: a start that goes on, or fails and closes, the
\* end of a close, and the other threads.
LEMMA ReleasePInv == ASSUME IInv, SInv, PInv, NEW t \in Thread, Release(t) PROVE PInv'
<1> USE RoleFacts DEF IInv, SInv, PInv, TypeOK, Release, Goto, Return, fields, devices,
                      usage, locals, None, Roles, OwnerRole, Closing, Sound, CloseLabels
<1>1. PortOpened'
  <2>1. CASE t = Owner /\ call[t] = "start" /\ ~Closing(t)
    BY <2>1, SMT DEF PortOpened, PortReleased
  <2>2. CASE t = Owner /\ ~(call[t] = "start" /\ ~Closing(t))
    BY <2>2, SMT DEF PortOpened, PortReleased
  <2>3. CASE t # Owner
    BY <2>3, SMT DEF PortOpened, PortReleased
  <2> QED
    BY <2>1, <2>2, <2>3
<1>2. ClientMade'
  <2>1. CASE t = Owner /\ call[t] = "start" /\ ~Closing(t)
    BY <2>1, SMT DEF ClientMade
  <2>2. CASE t = Owner /\ ~(call[t] = "start" /\ ~Closing(t))
    BY <2>2, SMT DEF ClientMade, PortOpened
  <2>3. CASE t # Owner
    BY <2>3, SMT DEF ClientMade
  <2> QED
    BY <2>1, <2>2, <2>3
<1>3. TickerRuns'
  <2>1. CASE t = Owner /\ call[t] = "start" /\ ~Closing(t)
    BY <2>1, SMT DEF TickerRuns
  <2>2. CASE t = Owner /\ ~(call[t] = "start" /\ ~Closing(t))
    BY <2>2, SMT DEF TickerRuns, PortOpened
  <2>3. CASE t # Owner
    BY <2>3, SMT DEF TickerRuns
  <2> QED
    BY <2>1, <2>2, <2>3
<1>4. PortReleased'
  BY SMT DEF PortReleased, LockInv, Holds, LockedLabels
<1> QED
  BY <1>1, <1>2, <1>3, <1>4

LEMMA KeepaliveNewPInv == ASSUME IInv, SInv, PInv, NEW t \in Thread, KeepaliveNew(t) PROVE PInv'
<1> USE RoleFacts DEF IInv, SInv, PInv, TypeOK, KeepaliveNew, Goto, NewTicker, fields,
                      devices, usage, locals, None, Roles, TickerRole, OperatorRole,
                      CancellerRole, OwnerRole, Closing, Sound, CloseLabels
<1>1. PortOpened'
  BY SMT DEF PortOpened, PortReleased
<1>2. ClientMade'
  BY SMT DEF ClientMade
<1>3. TickerRuns'
  BY SMT DEF TickerRuns
<1>4. PortReleased'
  BY SMT DEF PortReleased
<1> QED
  BY <1>1, <1>2, <1>3, <1>4

LEMMA KeepaliveOffPInv == ASSUME IInv, SInv, PInv, NEW t \in Thread, KeepaliveOff(t) PROVE PInv'
<1> USE RoleFacts DEF IInv, SInv, PInv, TypeOK, KeepaliveOff, Goto, Return, fields,
                      devices, usage, locals, None, Roles, OwnerRole, Closing, Sound
<1>1. PortOpened'
  BY SMT DEF PortOpened, PortReleased
<1>2. ClientMade'
  BY SMT DEF ClientMade, PortOpened
<1>3. TickerRuns'
  BY SMT DEF TickerRuns, PortOpened
<1>4. PortReleased'
  BY SMT DEF PortReleased
<1> QED
  BY <1>1, <1>2, <1>3, <1>4

LEMMA KeepaliveStartPInv ==
    ASSUME IInv, SInv, PInv, NEW t \in Thread, KeepaliveStart(t) PROVE PInv'
<1> USE RoleFacts DEF IInv, SInv, PInv, TypeOK, KeepaliveStart, Goto, Return, Raise,
                      fields, devices, usage, locals, None, Roles, TickerRole,
                      OperatorRole, CancellerRole, OwnerRole, Closing, Sound
<1>1. PortOpened'
  BY SMT DEF PortOpened, PortReleased
<1>2. ClientMade'
  BY SMT DEF ClientMade, PortOpened
<1>3. TickerRuns'
  BY SMT DEF TickerRuns, PortOpened
<1>4. PortReleased'
  BY SMT DEF PortReleased
<1> QED
  BY <1>1, <1>2, <1>3, <1>4

LEMMA TickPInv == ASSUME IInv, SInv, PInv, NEW t \in Thread, Tick(t) PROVE PInv'
<1> USE RoleFacts DEF IInv, SInv, PInv, TypeOK, Tick, Goto, fields, devices, usage, locals,
                      None, Roles, OwnerRole, Closing, Sound
<1>1. PortOpened'
  BY SMT DEF PortOpened, PortReleased
<1>2. ClientMade'
  BY SMT DEF ClientMade
<1>3. TickerRuns'
  BY SMT DEF TickerRuns
<1>4. PortReleased'
  BY SMT DEF PortReleased
<1> QED
  BY <1>1, <1>2, <1>3, <1>4

LEMMA KeepaliveSwapPInv ==
    ASSUME IInv, SInv, PInv, NEW t \in Thread, KeepaliveSwap(t) PROVE PInv'
<1> USE RoleFacts DEF IInv, SInv, PInv, TypeOK, KeepaliveSwap, Goto, fields, devices,
                      usage, locals, None, Closing, Sound, CloseLabels
<1>1. PortOpened'
  BY SMT DEF PortOpened, PortReleased
<1>2. ClientMade'
  BY SMT DEF ClientMade
<1>3. TickerRuns'
  BY SMT DEF TickerRuns
<1>4. PortReleased'
  BY SMT DEF PortReleased
<1> QED
  BY <1>1, <1>2, <1>3, <1>4

\* Only a close tells a ticker to stop, and then there is no sound start.
LEMMA KeepaliveStopPInv ==
    ASSUME IInv, SInv, PInv, NEW t \in Thread, KeepaliveStop(t) PROVE PInv'
<1> USE RoleFacts DEF IInv, SInv, PInv, TypeOK, KeepaliveStop, Goto, StopSet, fields,
                      devices, usage, locals, None, Roles, TickerRole, OperatorRole,
                      CancellerRole, OwnerRole, Closing, Sound, CloseLabels
<1>1. PortOpened'
  BY SMT DEF PortOpened, PortReleased
<1>2. ClientMade'
  BY SMT DEF ClientMade
<1>3. TickerRuns'
  <2>1. stop' \subseteq 0..sessions
    <3>1. ref[t] \in 0..sessions /\ stop \subseteq 0..sessions
      BY SMT DEF TickerRuns
    <3>2. stop' = stop \/ stop' = stop \cup {ref[t]}
      OBVIOUS
    <3> QED
      BY <3>1, <3>2, Zenon
  <2>2. ~Sound'
    BY SMT DEF PortOpened
  <2> QED
    BY <2>1, <2>2, SMT DEF TickerRuns
<1>4. PortReleased'
  BY SMT DEF PortReleased
<1> QED
  BY <1>1, <1>2, <1>3, <1>4

LEMMA CloseAcquirePInv == ASSUME IInv, SInv, PInv, NEW t \in Thread, CloseAcquire(t) PROVE PInv'
<1> USE RoleFacts DEF IInv, SInv, PInv, TypeOK, CloseAcquire, Goto, fields, devices, usage,
                      locals, None, Closing, Sound, CloseLabels
<1>1. PortOpened'
  BY SMT DEF PortOpened, PortReleased
<1>2. ClientMade'
  BY SMT DEF ClientMade
<1>3. TickerRuns'
  BY SMT DEF TickerRuns
<1>4. PortReleased'
  BY SMT DEF PortReleased
<1> QED
  BY <1>1, <1>2, <1>3, <1>4

LEMMA ClearActivePInv == ASSUME IInv, SInv, PInv, NEW t \in Thread, ClearActive(t) PROVE PInv'
<1> USE RoleFacts DEF IInv, SInv, PInv, TypeOK, ClearActive, Goto, ClearSession, fields,
                      devices, usage, locals, None, Roles, TickerRole, OperatorRole,
                      CancellerRole, OwnerRole, Closing, Sound, CloseLabels
<1>1. PortOpened'
  BY SMT DEF PortOpened, PortReleased
<1>2. ClientMade'
  BY SMT DEF ClientMade
<1>3. TickerRuns'
  BY SMT DEF TickerRuns
<1>4. PortReleased'
  BY SMT DEF PortReleased
<1> QED
  BY <1>1, <1>2, <1>3, <1>4

LEMMA DeviceSwapPInv == ASSUME IInv, SInv, PInv, NEW t \in Thread, DeviceSwap(t) PROVE PInv'
<1> USE RoleFacts DEF IInv, SInv, PInv, TypeOK, DeviceSwap, Goto, fields, devices, usage,
                      locals, None, Roles, TickerRole, OperatorRole, CancellerRole,
                      OwnerRole, Closing, Sound, CloseLabels
<1>1. PortOpened'
  BY SMT DEF PortOpened, PortReleased
<1>2. ClientMade'
  BY SMT DEF ClientMade
<1>3. TickerRuns'
  BY SMT DEF TickerRuns
<1>4. PortReleased'
  BY SMT DEF PortReleased
<1> QED
  BY <1>1, <1>2, <1>3, <1>4

\* Without a cancel it is the owner who closes the device, the only one open.
LEMMA DeviceClosePInv == ASSUME IInv, SInv, PInv, NEW t \in Thread, DeviceClose(t) PROVE PInv'
<1> USE RoleFacts DEF IInv, SInv, PInv, TypeOK, DeviceClose, Goto, Return, CloseDevice,
                      fields, devices, usage, locals, None, Roles, TickerRole,
                      OperatorRole, CancellerRole, OwnerRole, Closing, Sound, CloseLabels
<1>1. PortOpened'
  BY SMT DEF PortOpened, PortReleased
<1>2. ClientMade'
  BY SMT DEF ClientMade, PortOpened
<1>3. TickerRuns'
  BY SMT DEF TickerRuns
<1>4. PortReleased'
  <2>1. None \notin opened' /\ opened' \subseteq opened
    BY DEF PortReleased
  <2>2. cancels = 0 => t = Owner /\ pc'[t] = "release" /\ phase' = phase /\ phase # "new"
    BY SMT DEF PortReleased
  <2>3. cancels = 0 => opened' = {}
    BY <2>2 DEF PortReleased
  <2> QED
    BY <2>1, <2>2, <2>3, SMT DEF PortReleased
<1> QED
  BY <1>1, <1>2, <1>3, <1>4

LEMMA BeginStartPInv == ASSUME IInv, SInv, PInv, BeginStart PROVE PInv'
<1> USE RoleFacts DEF IInv, SInv, PInv, TypeOK, BeginStart, Begin, Goto, Callers, fields,
                      devices, usage, locals, None, Closing, CloseLabels
<1>1. PortOpened'
  BY SMT DEF PortOpened, PortReleased
<1>2. ClientMade'
  BY SMT DEF ClientMade
<1>3. TickerRuns'
  BY SMT DEF TickerRuns
<1>4. PortReleased'
  BY SMT DEF PortReleased
<1> QED
  BY <1>1, <1>2, <1>3, <1>4

LEMMA ResumePInv == ASSUME IInv, SInv, PInv, Resume PROVE PInv'
<1> USE RoleFacts DEF IInv, SInv, PInv, TypeOK, Resume, fields, devices, usage, locals,
                      None, Sound
<1>1. PortOpened'
  BY SMT DEF PortOpened, PortReleased
<1>2. ClientMade'
  BY SMT DEF ClientMade
<1>3. TickerRuns'
  BY SMT DEF TickerRuns
<1>4. PortReleased'
  BY SMT DEF PortReleased
<1> QED
  BY <1>1, <1>2, <1>3, <1>4

LEMMA BeginClosePInv == ASSUME IInv, SInv, PInv, BeginClose PROVE PInv'
<1> USE RoleFacts DEF IInv, SInv, PInv, TypeOK, BeginClose, Begin, Goto, fields, devices,
                      usage, locals, None, Sound
<1>1. PortOpened'
  BY SMT DEF PortOpened, PortReleased
<1>2. ClientMade'
  BY SMT DEF ClientMade
<1>3. TickerRuns'
  BY SMT DEF TickerRuns
<1>4. PortReleased'
  BY SMT DEF PortReleased
<1> QED
  BY <1>1, <1>2, <1>3, <1>4

LEMMA BeginForcePInv == ASSUME IInv, SInv, PInv, BeginForce PROVE PInv'
<1> USE RoleFacts DEF IInv, SInv, PInv, TypeOK, BeginForce, Begin, Goto, fields, devices,
                      usage, locals, None, Closing, Sound
<1>1. PortOpened'
  BY SMT DEF PortOpened, PortReleased
<1>2. ClientMade'
  BY SMT DEF ClientMade
<1>3. TickerRuns'
  BY SMT DEF TickerRuns
<1>4. PortReleased'
  BY SMT DEF PortReleased
<1> QED
  BY <1>1, <1>2, <1>3, <1>4

LEMMA BeginOpPInv == ASSUME IInv, SInv, PInv, NEW t \in Operators, BeginOp(t) PROVE PInv'
<1> USE RoleFacts DEF IInv, SInv, PInv, TypeOK, BeginOp, Begin, Goto, fields, devices,
                      usage, locals, None, Sound
<1>1. PortOpened'
  BY SMT DEF PortOpened, PortReleased
<1>2. ClientMade'
  BY SMT DEF ClientMade
<1>3. TickerRuns'
  BY SMT DEF TickerRuns
<1>4. PortReleased'
  BY SMT DEF PortReleased
<1> QED
  BY <1>1, <1>2, <1>3, <1>4

LEMMA FinalisePInv == ASSUME IInv, SInv, PInv, NEW d \in opened, Finalise(d) PROVE PInv'
<1> USE RoleFacts DEF IInv, SInv, PInv, TypeOK, Finalise, fields, devices, usage, locals,
                      None, Closing, Sound
<1>1. PortOpened'
  BY SMT DEF PortOpened, PortReleased
<1>2. ClientMade'
  BY SMT DEF ClientMade
<1>3. TickerRuns'
  BY SMT DEF TickerRuns
<1>4. PortReleased'
  BY SMT DEF PortReleased
<1> QED
  BY <1>1, <1>2, <1>3, <1>4

\* No step breaks the port invariant.
LEMMA NextPInv == IInv /\ SInv /\ PInv /\ [Next]_vars => PInv'
<1> SUFFICES ASSUME IInv, SInv, PInv, [Next]_vars PROVE PInv'
  OBVIOUS
<1>1. ASSUME NEW t \in Thread, Step(t) PROVE PInv'
  BY <1>1, DeviceBuildPInv, DeviceReadPInv, TransportOpenPInv, TransportOpenedPInv,
     OpenFailsPInv, ConnectedPInv, BuildClientPInv, PublishPInv, BeatPInv, ExchangeBeginPInv,
     ExchangeOkPInv, ExchangeFailsPInv, StopSilentPInv, ReleasePInv, KeepaliveNewPInv,
     KeepaliveOffPInv, KeepaliveStartPInv, KeepaliveSwapPInv, KeepaliveStopPInv,
     ClearActivePInv, DeviceSwapPInv, DeviceClosePInv, TickPInv DEF Step
<1>2. ASSUME NEW t \in Thread, TakeLock(t) PROVE PInv'
  BY <1>2, AcquirePInv, CloseAcquirePInv DEF TakeLock
<1>3. CASE BeginStart \/ Resume \/ BeginClose \/ BeginForce
  BY <1>3, BeginStartPInv, ResumePInv, BeginClosePInv, BeginForcePInv
<1>4. CASE \E t \in Operators : BeginOp(t)
  BY <1>4, BeginOpPInv
<1>5. CASE \E d \in opened : Finalise(d)
  BY <1>5, FinalisePInv
<1>6. CASE UNCHANGED vars
  BY <1>6 DEF vars, fields, devices, locals, usage, PInv, PortOpened, ClientMade, TickerRuns,
              PortReleased, Sound, Closing
<1> QED
  BY <1>1, <1>2, <1>3, <1>4, <1>5, <1>6 DEF Next, Terminated

\* Which port is open, whose client and whose ticker there is, in every phase of the
\* owner: service.py:243-307, 325-335, 352-376.
THEOREM SpecPInv == Spec => []PInv
  BY SpecIInv, SpecSInv, InitPInv, NextPInv, PTL DEF Spec

\* A start that was neither cancelled nor failed leaves an open port, a client on
\* it and a ticker that runs, and nothing disturbs them before the owner closes:
\* service.py:287-307, 325-330.
THEOREM SpecHealthyWhenUp == Spec => []HealthyWhenUp
<1>1. TypeOK /\ SInv /\ PInv => HealthyWhenUp
  <2> SUFFICES ASSUME TypeOK, SInv, PInv, phase \in {"returned", "up"}, ~cancelled, ~raised[Owner]
               PROVE  HealthyWhenUp
    BY DEF HealthyWhenUp
  <2>1. transport \in opened
    BY DEF PInv, PortOpened, Sound
  <2>2. active \in {None, transport}
    BY DEF SInv, Current, Fresh
  <2>3. call[Owner] = "start" => active = transport
    BY <2>2 DEF PInv, ClientMade, Sound
  <2>4. keepalive # None => keepalive \notin stop /\ pc[keepalive] \notin {"unstarted", "exit"}
    BY DEF PInv, TickerRuns, Sound
  <2> QED
    BY <2>1, <2>2, <2>3, <2>4 DEF HealthyWhenUp
<1> QED
  BY <1>1, SpecTypeOK, SpecSInv, SpecPInv, PTL

----------------------------------------------------------------------------
(* What a conversation goes over, and what a close leaves.                 *)

\* Ports have the numbers of devices; once close() has let go of the device, and
\* until the next start, there is no client, nobody talks, and what an operation
\* that comes late may build is not open.
Left ==
    /\ None \notin opened /\ opened \subseteq 1..built /\ transport <= built
    /\ pc[Owner] \in {"open", "opening"} => ref[Owner] <= built
    /\ phase = "closing" /\ pc[Owner] \in {"devSwap", "devClose", "release"} => active = None
    /\ phase = "closing" /\ pc[Owner] = "devClose" => transport = None
    /\ phase = "new" \/ (phase = "closing" /\ pc[Owner] = "release")
          => active = None /\ transport \notin opened
    /\ phase = "new" => \A t \in Thread :
          /\ pc[t] \notin {"wire", "publish"}
          /\ pc[t] = "exchange" => job[t] = "init"

\* Who is on the wire, or about to be, is there for one of four things, and a beat
\* or a stop goes over the active client's device unless the start was cancelled.
Over ==
    \A t \in Thread : pc[t] \in {"exchange", "wire"} =>
       /\ job[t] \in {"init", "op", "stop", "beat"}
       /\ job[t] \in {"stop", "beat"} /\ ~cancelled => ref[t] = active

\* The inductive invariant, on top of IInv, SInv and PInv.
LInv == Left /\ Over

\* LInv holds at the start.
LEMMA InitLInv == Init => LInv
  BY RoleFacts, SMT DEF Init, LInv, Left, Over, None

\* A port that is built is a new one, and not open.
LEMMA DeviceBuildLInv ==
    ASSUME IInv, SInv, PInv, LInv, NEW t \in Thread, DeviceBuild(t) PROVE LInv'
<1>1. transport \in Nat /\ built \in Nat /\ transport <= built /\ opened \subseteq 1..built
  BY DEF IInv, TypeOK, LInv, Left
<1>2. \/ transport # None /\ transport' = transport /\ built' = built
      \/ transport = None /\ transport' = built + 1 /\ built' = built + 1
  BY <1>1 DEF DeviceBuild, DeviceOf
<1>3. opened' \subseteq 1..built' /\ transport' <= built' /\ built <= built'
  BY <1>1, <1>2 DEF DeviceBuild
<1>4. transport \notin opened => transport' \notin opened'
  BY <1>1, <1>2 DEF DeviceBuild
<1>5. /\ pc' = [pc EXCEPT ![t] = "deviceRead"]
      /\ UNCHANGED <<opened, active, cancelled, phase, job, ref>>
  BY DEF DeviceBuild, Goto, locals, usage
<1>6. phase = "closing" => pc[Owner] # "devClose"
  <2>1. lock = t \/ (t = Owner /\ phase = "starting")
    BY RoleFacts, SMT DEF DeviceBuild, IInv, ControlInv, LockInv, Holds, DeviceLabels, SInv, Roles,
       TickerRole, OperatorRole, CancellerRole, OwnerRole
  <2>2. phase = "closing" /\ pc[Owner] = "devClose" => lock = Owner
    BY RoleFacts DEF IInv, LockInv, Holds, ReleaseLabels, SInv, Roles, OwnerRole
  <2> QED
    BY <2>1, <2>2 DEF DeviceBuild
<1>7. Left'
  <2>1. None \notin opened'
    BY <1>5 DEF LInv, Left
  <2>2. pc'[Owner] \in {"open", "opening"} => ref'[Owner] <= built'
    <3>1. built' \in Nat /\ ref[Owner] \in Nat /\ (pc'[Owner] = pc[Owner] \/ pc'[Owner] = "deviceRead")
      BY <1>1, <1>2, <1>5, ThreadFacts, SMT DEF IInv, TypeOK
    <3> QED
      BY <1>1, <1>3, <1>5, <3>1 DEF LInv, Left
  <2>3. \A u \in Thread : pc'[u] = pc[u] \/ pc'[u] = "deviceRead"
    BY <1>5, SMT DEF IInv, TypeOK
  <2> QED
    BY <1>3, <1>4, <1>5, <1>6, <2>1, <2>2, <2>3, ThreadFacts DEF LInv, Left
<1>8. Over'
  BY <1>5, SMT DEF IInv, TypeOK, LInv, Over
<1> QED
  BY <1>7, <1>8 DEF LInv

\* The port that open() opens has a device's number, and the start goes on.
LEMMA TransportOpenedLInv ==
    ASSUME IInv, SInv, PInv, LInv, NEW t \in Thread, TransportOpened(t) PROVE LInv'
<1>1. t = Owner /\ phase = "starting" /\ call[t] \in {"start", "open"}
  BY RoleFacts, SMT DEF TransportOpened, SInv, Roles, TickerRole, OperatorRole, CancellerRole, OwnerRole
<1>2. ref[t] \in 1..built
  BY <1>1, SMT DEF TransportOpened, IInv, TypeOK, PInv, PortReleased, LInv, Left, None
<1>3. None \notin opened' /\ opened' \subseteq 1..built
  <2>1. None \notin opened /\ opened \subseteq 1..built /\ opened' = opened \cup {ref[t]}
    BY DEF TransportOpened, LInv, Left
  <2>2. ref[t] # None
    BY <1>2, SMT DEF None
  <2> QED
    BY <1>2, <2>1, <2>2, Zenon
<1>4. pc'[Owner] \in {"acquire", "idle"} /\ phase' \in {"starting", "returned"}
  BY <1>1, SMT DEF TransportOpened, Return, Goto, IInv, TypeOK, usage
<1>5. \A u \in Thread : u # t => pc'[u] = pc[u] /\ job'[u] = job[u]
  BY SMT DEF TransportOpened, Return, Goto, IInv, TypeOK
<1>6. UNCHANGED <<built, transport, active, cancelled, ref>>
  BY DEF TransportOpened, Return, fields, usage
<1>7. Left'
  BY <1>1, <1>3, <1>4, <1>6, SMT DEF LInv, Left
<1>8. Over'
  BY <1>1, <1>4, <1>5, <1>6, SMT DEF LInv, Over
<1> QED
  BY <1>7, <1>8 DEF LInv

\* A close of a port opens none.
LEMMA DeviceCloseLInv ==
    ASSUME IInv, SInv, PInv, LInv, NEW t \in Thread, DeviceClose(t) PROVE LInv'
<1>1. opened' \subseteq opened
  BY DEF DeviceClose, CloseDevice
<1>2. UNCHANGED <<built, transport, active, cancelled, job, ref>>
  BY DEF DeviceClose, Return, fields, locals, usage
<1>3. call[t] = "force" => t = Canceller
  BY RoleFacts, SMT DEF DeviceClose, SInv, Roles, TickerRole, OperatorRole, OwnerRole
<1>4. phase' = phase /\ pc' = [pc EXCEPT ![t] = IF call[t] = "force" THEN "idle" ELSE "release"]
  BY <1>3, RoleFacts, SMT DEF DeviceClose, Return, Goto, usage
<1>5. transport \notin opened => transport' \notin opened'
  BY <1>1, <1>2
<1>6. transport = None => transport' \notin opened'
  BY <1>1, <1>2 DEF LInv, Left
<1>7. None \notin opened' /\ opened' \subseteq 1..built'
  BY <1>1, <1>2 DEF LInv, Left
<1>8. Left'
  BY <1>2, <1>3, <1>4, <1>5, <1>6, <1>7, RoleFacts, SMT DEF DeviceClose, IInv, TypeOK, LInv, Left
<1>9. Over'
  BY <1>2, <1>4, SMT DEF IInv, TypeOK, LInv, Over
<1> QED
  BY <1>8, <1>9 DEF LInv

\* Each step of a thread keeps it.
LEMMA StepLInv ==
    ASSUME IInv, SInv, PInv, LInv, NEW t \in Thread, Step(t) \/ TakeLock(t)
    PROVE  LInv'
<1> USE RoleFacts DEF IInv, SInv, PInv, LInv, Left, Over, TypeOK, LockInv, Holds, LockedLabels,
        DeviceLabels, ReleaseLabels, Connecting, Roles, TickerRole, OperatorRole, CancellerRole,
        OwnerRole, Closing, CloseLabels, PortOpened, fields, devices, locals, usage, Goto, None
<1>1. CASE DeviceBuild(t)
  BY <1>1, DeviceBuildLInv
<1>2. CASE DeviceRead(t)
  BY <1>2, SMT DEF DeviceRead, ControlInv
<1>3. CASE TransportOpen(t)
  BY <1>3, SMT DEF TransportOpen
<1>4. CASE TransportOpened(t)
  BY <1>4, TransportOpenedLInv
<1>5. CASE OpenFails(t)
  BY <1>5, SMT DEF OpenFails, Return, Raise
<1>6. CASE Connected(t)
  BY <1>6, SMT DEF Connected, AfterConnect
<1>7. CASE BuildClient(t)
  BY <1>7, SMT DEF BuildClient
<1>8. CASE Publish(t)
  BY <1>8, SMT DEF Publish, AfterConnect
<1>9. CASE Beat(t)
  BY <1>9, SMT DEF Beat
<1>10. CASE ExchangeBegin(t)
  BY <1>10, SMT DEF ExchangeBegin, Current, Fresh
<1>11. CASE ExchangeOk(t)
  BY <1>11, SMT DEF ExchangeOk, ExchangeDone, AfterExchange
<1>12. CASE ExchangeFails(t)
  BY <1>12, SMT DEF ExchangeFails, ExchangeDone, AfterExchange, Raise
<1>13. CASE StopSilent(t)
  BY <1>13, SMT DEF StopSilent
<1>14. CASE Release(t)
  BY <1>14, SMT DEF Release, Return
<1>15. CASE KeepaliveNew(t)
  BY <1>15, SMT DEF KeepaliveNew, NewTicker
<1>16. CASE KeepaliveOff(t)
  BY <1>16, SMT DEF KeepaliveOff, Return
<1>17. CASE KeepaliveStart(t)
  BY <1>17, SMT DEF KeepaliveStart, Return, Raise
<1>18. CASE KeepaliveSwap(t)
  BY <1>18, SMT DEF KeepaliveSwap
<1>19. CASE KeepaliveStop(t)
  BY <1>19, SMT DEF KeepaliveStop, StopSet
<1>20. CASE ClearActive(t)
  BY <1>20, SMT DEF ClearActive, ClearSession
<1>21. CASE DeviceSwap(t)
  BY <1>21, SMT DEF DeviceSwap
<1>22. CASE DeviceClose(t)
  BY <1>22, DeviceCloseLInv
<1>23. CASE Tick(t)
  BY <1>23, SMT DEF Tick
<1>24. CASE Acquire(t)
  BY <1>24, SMT DEF Acquire
<1>25. CASE CloseAcquire(t)
  BY <1>25, SMT DEF CloseAcquire
<1> QED
  BY <1>1, <1>2, <1>3, <1>4, <1>5, <1>6, <1>7, <1>8, <1>9, <1>10, <1>11, <1>12, <1>13, <1>14, <1>15, <1>16, <1>17, <1>18, <1>19, <1>20, <1>21, <1>22, <1>23, <1>24, <1>25 DEF Step, TakeLock

\* No step breaks it.
LEMMA NextLInv == IInv /\ SInv /\ PInv /\ LInv /\ [Next]_vars => LInv'
<1> SUFFICES ASSUME IInv, SInv, PInv, LInv, [Next]_vars PROVE LInv'
  OBVIOUS
<1>1. ASSUME NEW t \in Thread, Step(t) \/ TakeLock(t) PROVE LInv'
  BY <1>1, StepLInv
<1>2. CASE BeginStart
  BY <1>2, RoleFacts, SMT DEF BeginStart, Begin, Goto, Callers, fields, devices, usage, IInv, TypeOK,
     LInv, Left, Over, SInv, Roles, TickerRole
<1>3. CASE Resume
  BY <1>3, SMT DEF Resume, fields, devices, locals, IInv, TypeOK, LInv, Left, Over
<1>4. CASE BeginClose
  BY <1>4, RoleFacts, SMT DEF BeginClose, Begin, Goto, fields, devices, usage, IInv, TypeOK, LInv, Left, Over
<1>5. CASE BeginForce
  BY <1>5, RoleFacts, SMT DEF BeginForce, Begin, Goto, fields, devices, usage, IInv, TypeOK, LInv, Left, Over
<1>6. ASSUME NEW t \in Operators, BeginOp(t) PROVE LInv'
  BY <1>6, RoleFacts, SMT DEF BeginOp, Begin, Goto, fields, devices, usage, IInv, TypeOK, LInv, Left, Over
<1>7. ASSUME NEW d \in opened, Finalise(d) PROVE LInv'
  BY <1>7 DEF Finalise, fields, locals, usage, LInv, Left, Over
<1>8. CASE UNCHANGED vars
  BY <1>8 DEF vars, fields, devices, locals, usage, LInv, Left, Over
<1> QED
  BY <1>1, <1>2, <1>3, <1>4, <1>5, <1>6, <1>7, <1>8 DEF Next, Terminated

\* What a conversation goes over, and what is left after a close: service.py:253-284, 352-371.
THEOREM SpecLInv == Spec => []LInv
  BY SpecIInv, SpecSInv, SpecPInv, InitLInv, NextLInv, PTL DEF Spec

\* close() leaves nothing behind, and no port either, as long as nobody has cancelled
\* a start: service.py:253-285.
THEOREM SpecReleasedWhenClosed == Spec => []ReleasedWhenClosed
<1>1. SInv /\ PInv /\ LInv => ReleasedWhenClosed
  BY DEF SInv, Identity, PInv, PortReleased, TickerRuns, LInv, Left, ReleasedWhenClosed
<1> QED
  BY <1>1, SpecSInv, SpecPInv, SpecLInv, PTL

----------------------------------------------------------------------------
(* DiagnosticService implements SerializedSession.                         *)

Message(t) == [by |-> t, over |-> ref[t], for |-> job[t]]

HolderSpeaks ==
    /\ lock \in Thread /\ pc[lock] = "wire" => Said = {Message(lock)} /\ Woken = {}
    /\ lock \in Thread /\ pc[lock] = "publish" => Said = {} /\ Woken = {ref[lock]}
    /\ lock = None \/ pc[lock] \notin {"wire", "publish"} => Said = {} /\ Woken = {}

\* Whoever is on the wire, or has just woken the ECU, holds the lock.
LEMMA OnlyHolderSpeaks == IInv => HolderSpeaks
<1> SUFFICES ASSUME IInv PROVE HolderSpeaks
  OBVIOUS
<1>1. \A t \in Thread : pc[t] \in {"wire", "publish"} => lock = t
  BY DEF IInv, LockInv, Holds, LockedLabels
<1>2. Said = {Message(t) : t \in OnWire}
  BY DEF Said, Message
<1>3. ASSUME lock \in Thread, pc[lock] = "wire" PROVE Said = {Message(lock)} /\ Woken = {}
  <2>1. OnWire = {lock}
    BY <1>1, <1>3 DEF OnWire
  <2>2. {u \in Thread : pc[u] = "publish"} = {}
    BY <1>1, <1>3
  <2> QED
    BY <1>2, <2>1, <2>2, Zenon DEF Woken
<1>4. ASSUME lock \in Thread, pc[lock] = "publish" PROVE Said = {} /\ Woken = {ref[lock]}
  <2>1. OnWire = {}
    BY <1>1, <1>4 DEF OnWire
  <2>2. {u \in Thread : pc[u] = "publish"} = {lock}
    BY <1>1, <1>4
  <2> QED
    BY <1>2, <2>1, <2>2, Zenon DEF Woken
<1>5. ASSUME lock = None \/ pc[lock] \notin {"wire", "publish"} PROVE Said = {} /\ Woken = {}
  <2>1. OnWire = {}
    BY <1>1, <1>5, ThreadFacts DEF OnWire
  <2>2. {u \in Thread : pc[u] = "publish"} = {}
    BY <1>1, <1>5, ThreadFacts
  <2> QED
    BY <1>2, <2>1, <2>2, Zenon DEF Woken
<1> QED
  BY <1>3, <1>4, <1>5 DEF HolderSpeaks

LEMMA OnlyHolderSpeaksNext == IInv' => HolderSpeaks'
  BY OnlyHolderSpeaks, PTL

\* A step that leaves the lock, the client and the cancel alone, and does not move its
\* holder on or off the wire, is none of the abstract session's.
LEMMA QuietStep ==
    ASSUME IInv, IInv', UNCHANGED <<lock, active, cancelled>>,
           lock # None =>
              \/ pc[lock] \notin {"wire", "publish"} /\ pc'[lock] \notin {"wire", "publish"}
              \/ pc'[lock] = pc[lock] /\ ref'[lock] = ref[lock] /\ job'[lock] = job[lock]
    PROVE  UNCHANGED Session!vars
<1>1. lock = None \/ lock \in Thread
  BY DEF IInv, TypeOK
<1>2. Said' = Said /\ Woken' = Woken
  <2>1. CASE lock = None \/ (pc[lock] \notin {"wire", "publish"} /\ pc'[lock] \notin {"wire", "publish"})
    BY <2>1, OnlyHolderSpeaks, OnlyHolderSpeaksNext DEF HolderSpeaks
  <2>2. CASE lock \in Thread /\ pc'[lock] = pc[lock] /\ ref'[lock] = ref[lock] /\ job'[lock] = job[lock]
    <3>1. Message(lock)' = Message(lock)
      BY <2>2 DEF Message
    <3> QED
      BY <2>2, <3>1, OnlyHolderSpeaks, OnlyHolderSpeaksNext DEF HolderSpeaks
  <2> QED
    BY <1>1, <2>1, <2>2
<1> QED
  BY <1>2 DEF Session!vars

\* The steps between messages.
LEMMA BetweenMessages ==
    ASSUME IInv, IInv', SInv, NEW t \in Thread, Step(t),
           pc[t] \notin {"wire", "publish", "release", "clear"}, ~ExchangeBegin(t)
    PROVE  UNCHANGED Session!vars
<1> USE ThreadFacts DEF IInv, TypeOK, fields, devices, locals, usage, Goto
<1>0. ASSUME /\ UNCHANGED <<lock, active, cancelled>> /\ pc'[t] \notin {"wire", "publish"}
             /\ \A u \in Thread : u # t => pc'[u] = pc[u] \/ (pc[u] = "unstarted" /\ pc'[u] = "wait")
             /\ \A u \in Thread : u # t => ref'[u] = ref[u] /\ job'[u] = job[u]
      PROVE  UNCHANGED Session!vars
  BY <1>0, QuietStep
<1>1. CASE DeviceBuild(t)
  BY <1>0, <1>1, SMT DEF DeviceBuild
<1>2. CASE DeviceRead(t)
  BY <1>0, <1>2, SMT DEF DeviceRead
<1>3. CASE TransportOpen(t)
  BY <1>0, <1>3, SMT DEF TransportOpen
<1>4. CASE TransportOpened(t)
  BY <1>0, <1>4, SMT DEF TransportOpened, Return
<1>5. CASE OpenFails(t)
  BY <1>0, <1>5, SMT DEF OpenFails, Return, Raise
<1>6. CASE Connected(t)
  BY <1>0, <1>6, SMT DEF Connected, AfterConnect
<1>7. CASE BuildClient(t)
  BY <1>0, <1>7, SMT DEF BuildClient
<1>8. CASE Beat(t)
  BY <1>0, <1>8, SMT DEF Beat
<1>9. CASE StopSilent(t)
  BY <1>0, <1>9, SMT DEF StopSilent
<1>10. CASE KeepaliveNew(t)
  BY <1>0, <1>10, SMT DEF KeepaliveNew
<1>11. CASE KeepaliveOff(t)
  BY <1>0, <1>11, SMT DEF KeepaliveOff, Return
<1>12. CASE KeepaliveStart(t)
  <2>1. t = Owner /\ keepalive \in {None, sessions} /\ pc[sessions] = "unstarted"
    BY <1>12 DEF KeepaliveStart, ControlInv
  <2>2. CASE keepalive = None
    BY <1>0, <1>12, <2>2, SMT DEF KeepaliveStart, Return, Raise
  <2>3. CASE keepalive # None
    <3>1. pc' = [pc EXCEPT ![t] = "idle", ![sessions] = "wait"]
      BY <1>12, <2>1, <2>3 DEF KeepaliveStart
    <3>2. UNCHANGED <<lock, active, cancelled, ref, job>>
      BY <1>12, <2>3 DEF KeepaliveStart
    <3> QED
      BY <1>0, <2>1, <3>1, <3>2
  <2> QED
    BY <2>2, <2>3
<1>13. CASE KeepaliveSwap(t)
  BY <1>0, <1>13, SMT DEF KeepaliveSwap
<1>14. CASE KeepaliveStop(t)
  BY <1>0, <1>14, SMT DEF KeepaliveStop
<1>15. CASE DeviceSwap(t)
  BY <1>0, <1>15, SMT DEF DeviceSwap
<1>16. CASE DeviceClose(t)
  BY <1>0, <1>16, SMT DEF DeviceClose, Return
<1>17. CASE Tick(t)
  BY <1>0, <1>17, SMT DEF Tick
<1>18. CASE ExchangeFails(t)
  BY <1>0, <1>18, SMT DEF ExchangeFails, ExchangeDone, AfterExchange, Raise
<1> QED
  BY <1>1, <1>2, <1>3, <1>4, <1>5, <1>6, <1>7, <1>8, <1>9, <1>10, <1>11, <1>12, <1>13, <1>14, <1>15, <1>16, <1>17, <1>18 DEF Step, Publish, Release, ClearActive, ExchangeOk

\* A message begins: a wake-up of an ECU that has no session, or something said over
\* the session it has.
LEMMA MessageBegins ==
    ASSUME IInv, IInv', SInv, PInv, LInv, NEW t \in Thread, ExchangeBegin(t)
    PROVE  Session!Next
<1> DEFINE m == Message(t)
<1>1. lock = t /\ lock # None /\ lock \in Thread
  BY ThreadFacts DEF ExchangeBegin, IInv, LockInv, Holds, LockedLabels
<1>2. Said = {} /\ Woken = {}
  BY <1>1, OnlyHolderSpeaks DEF HolderSpeaks, ExchangeBegin
<1>3. UNCHANGED <<lock, active, cancelled, ref, job>> /\ pc'[t] = "wire"
  BY DEF ExchangeBegin, Goto, fields, locals, usage, IInv, TypeOK
<1>4. Said' = {m} /\ Woken' = {}
  BY <1>1, <1>3, OnlyHolderSpeaksNext DEF HolderSpeaks, Message
<1>5. m.by = lock /\ m.over = ref[t] /\ m.for = job[t] /\ ref[t] # None
  BY <1>1 DEF Message, ExchangeBegin, LInv, Left
<1>6. CASE job[t] = "init"
  <2>1. active = None
    BY <1>6 DEF ExchangeBegin, SInv, Connecting
  <2>2. Session!Wake(m)
    BY <1>1, <1>2, <1>3, <1>4, <1>5, <1>6, <2>1 DEF Session!Wake, Session!Free, Session!Say
  <2> QED
    BY <1>4, <2>2, Zenon DEF Session!Next
<1>7. CASE job[t] # "init"
  <2>1. job[t] \in {"op", "stop", "beat"}
    BY <1>7 DEF ExchangeBegin, LInv, Over
  <2>2. ref[t] = active \/ (cancelled /\ job[t] # "op")
    BY <2>1 DEF ExchangeBegin, LInv, Over, SInv, Connecting
  <2>3. Session!Speak(m, job[t])
    BY <1>1, <1>2, <1>3, <1>4, <1>5, <2>2 DEF Session!Speak, Session!Free, Session!Say
  <2> QED
    BY <1>4, <2>1, <2>3, Zenon DEF Session!Next
<1> QED
  BY <1>6, <1>7

\* A message ends: the wake-up has an answer or none, anything else is over.
LEMMA MessageEnds ==
    ASSUME IInv, IInv', NEW t \in Thread, pc[t] = "wire", ExchangeOk(t) \/ ExchangeFails(t)
    PROVE  Session!Next
<1> DEFINE m == Message(t)
<1>1. lock = t /\ lock # None /\ lock \in Thread
  BY ThreadFacts DEF IInv, LockInv, Holds, LockedLabels
<1>2. Said = {m} /\ Woken = {}
  BY <1>1, OnlyHolderSpeaks DEF HolderSpeaks
<1>3. /\ UNCHANGED <<lock, active, cancelled, ref, job>>
      /\ pc'[t] \in {"publish", "clear", "release"}
      /\ pc'[t] = "publish" => job[t] = "init"
  BY SMT DEF ExchangeOk, ExchangeFails, ExchangeDone, AfterExchange, Goto, usage, IInv, TypeOK
<1>4. m.over = ref[t] /\ m.for = job[t]
  BY DEF Message
<1>5. Said' = {} /\ Woken' = IF pc'[t] = "publish" THEN {m.over} ELSE {}
  <2>1. CASE pc'[t] = "publish"
    BY <1>1, <1>3, <1>4, <2>1, OnlyHolderSpeaksNext DEF HolderSpeaks
  <2>2. CASE pc'[t] # "publish"
    BY <1>1, <1>3, <2>2, OnlyHolderSpeaksNext DEF HolderSpeaks
  <2> QED
    BY <2>1, <2>2
<1>6. CASE job[t] = "init"
  <2>1. Session!WakeDone(m)
    BY <1>2, <1>3, <1>4, <1>5, <1>6 DEF Session!WakeDone
  <2> QED
    BY <1>2, <2>1, Zenon DEF Session!Next
<1>7. CASE job[t] # "init"
  <2>1. Session!SpeakDone(m)
    BY <1>2, <1>3, <1>4, <1>5, <1>7 DEF Session!SpeakDone
  <2> QED
    BY <1>2, <2>1, Zenon DEF Session!Next
<1> QED
  BY <1>6, <1>7

\* The client that woke the ECU becomes the session.
LEMMA SessionBegins ==
    ASSUME IInv, IInv', SInv, NEW t \in Thread, Publish(t) PROVE Session!Next
<1>1. lock = t /\ lock # None /\ lock \in Thread
  BY ThreadFacts DEF Publish, IInv, LockInv, Holds, LockedLabels
<1>2. Said = {} /\ Woken = {ref[t]} /\ active = None
  BY <1>1, OnlyHolderSpeaks DEF HolderSpeaks, Publish, SInv, Connecting
<1>3. lock' = lock /\ cancelled' = cancelled /\ active' = ref[t] /\ pc'[t] \in {"release", "exchange"}
  BY SMT DEF Publish, AfterConnect, Goto, usage, IInv, TypeOK
<1>4. Said' = {} /\ Woken' = {}
  BY <1>1, <1>3, OnlyHolderSpeaksNext DEF HolderSpeaks
<1>5. Session!Establish
  BY <1>1, <1>2, <1>3, <1>4 DEF Session!Establish
<1> QED
  BY <1>5 DEF Session!Next

\* The line is taken when it is free, and given back when nothing is under way.
LEMMA LineTaken ==
    ASSUME IInv, IInv', NEW t \in Thread, TakeLock(t) PROVE Session!Next
<1>1. lock = None /\ lock' = t /\ UNCHANGED <<active, cancelled>>
  BY DEF TakeLock, Acquire, CloseAcquire, LockFree, usage
<1>2. pc'[t] \notin {"wire", "publish"}
  BY SMT DEF TakeLock, Acquire, CloseAcquire, Goto, IInv, TypeOK
<1>3. Said = {} /\ Woken = {} /\ Said' = {} /\ Woken' = {}
  BY <1>1, <1>2, OnlyHolderSpeaks, OnlyHolderSpeaksNext DEF HolderSpeaks
<1>4. Session!Take(t)
  BY <1>1, <1>3 DEF Session!Take
<1> QED
  BY <1>4 DEF Session!Next

LEMMA LineGiven ==
    ASSUME IInv, IInv', NEW t \in Thread, Release(t) PROVE Session!Next
<1>1. lock = t /\ lock # None /\ lock' = None /\ UNCHANGED <<active, cancelled>>
  BY ThreadFacts DEF Release, Return, usage, IInv, LockInv, Holds, LockedLabels
<1>2. Said = {} /\ Woken = {} /\ Said' = {} /\ Woken' = {}
  BY <1>1, OnlyHolderSpeaks, OnlyHolderSpeaksNext DEF HolderSpeaks, Release
<1>3. Session!Give
  BY <1>1, <1>2 DEF Session!Give, Session!Free
<1> QED
  BY <1>3 DEF Session!Next

\* A close ends the session as the holder; a forced one drops it, and was a cancel.
LEMMA SessionEnds ==
    ASSUME IInv, IInv', SInv, NEW t \in Thread, ClearActive(t) PROVE Session!Next
<1>1. lock' = lock /\ active' = None /\ cancelled' = cancelled /\ pc[t] = "clear"
  BY DEF ClearActive, ClearSession, usage
<1>2. UNCHANGED <<ref, job>> /\ pc' = [pc EXCEPT ![t] = "devSwap"]
  BY DEF ClearActive, Goto, locals
<1>3. CASE call[t] = "force"
  <2>1. cancelled
    BY <1>1, <1>3, RoleFacts, SMT DEF SInv, Roles, TickerRole, OperatorRole, CancellerRole, OwnerRole
  <2>2. lock # t
    BY <1>1, <1>3 DEF IInv, LockInv, Holds, LockedLabels, DeviceLabels
  <2>3. Said' = Said /\ Woken' = Woken
    <3>1. \A u \in Thread : pc'[u] = "wire" <=> pc[u] = "wire"
      BY <1>1, <1>2, SMT DEF IInv, TypeOK
    <3>2. \A u \in Thread : pc'[u] = "publish" <=> pc[u] = "publish"
      BY <1>1, <1>2, SMT DEF IInv, TypeOK
    <3>3. OnWire' = OnWire
      BY <3>1 DEF OnWire
    <3>4. {u \in Thread : pc[u] = "publish"}' = {u \in Thread : pc[u] = "publish"}
      BY <3>2
    <3> QED
      BY <1>2, <3>3, <3>4, Zenon DEF Said, Woken
  <2>4. Session!Drop
    BY <1>1, <2>1, <2>3 DEF Session!Drop
  <2> QED
    BY <2>4 DEF Session!Next
<1>4. CASE call[t] # "force"
  <2>1. lock = t /\ lock # None /\ pc'[t] = "devSwap"
    BY <1>1, <1>2, <1>4, ThreadFacts DEF IInv, TypeOK, LockInv, Holds, ReleaseLabels
  <2>2. Said = {} /\ Woken = {} /\ Said' = {} /\ Woken' = {}
    BY <1>1, <2>1, OnlyHolderSpeaks, OnlyHolderSpeaksNext DEF HolderSpeaks
  <2>3. Session!End
    BY <1>1, <2>1, <2>2 DEF Session!End, Session!Free
  <2> QED
    BY <2>3 DEF Session!Next
<1> QED
  BY <1>3, <1>4

\* The service gives the ECU what SerializedSession promises: an operation keeps the
\* line from its wake-up to its last message, nobody wakes an ECU that has a session,
\* and everything is said over the session's device until a holder ends it or a cancel
\* cuts it short: service.py:205-207, 270-284, 351-371, 374-377.
THEOREM SpecImplementsSession == Spec => ImplementsSession
<1>1. ASSUME Init PROVE Session!Init
  <2>1. OnWire = {} /\ {u \in Thread : pc[u] = "publish"} = {}
    BY <1>1 DEF Init, OnWire
  <2>2. Said = {} /\ Woken = {}
    BY <2>1, Zenon DEF Said, Woken
  <2> QED
    BY <1>1, <2>2 DEF Init, Session!Init
<1>2. ASSUME IInv, IInv', SInv, PInv, LInv, [Next]_vars PROVE [Session!Next]_(Session!vars)
  <2>1. ASSUME NEW t \in Thread, Step(t) PROVE [Session!Next]_(Session!vars)
    <3>1. pc[t] = "wire" => ExchangeOk(t) \/ ExchangeFails(t)
      BY <2>1 DEF Step, DeviceBuild, DeviceRead, TransportOpen, TransportOpened, OpenFails, Connected,
         BuildClient, Publish, Beat, ExchangeBegin, StopSilent, Release, KeepaliveNew, KeepaliveOff,
         KeepaliveStart, KeepaliveSwap, KeepaliveStop, ClearActive, DeviceSwap, DeviceClose, Tick
    <3>2. pc[t] = "publish" => Publish(t)
      BY <2>1 DEF Step, DeviceBuild, DeviceRead, TransportOpen, TransportOpened, OpenFails, Connected,
         BuildClient, Beat, ExchangeBegin, ExchangeOk, ExchangeFails, StopSilent, KeepaliveNew,
         KeepaliveOff, KeepaliveStart, KeepaliveSwap, KeepaliveStop, DeviceSwap, DeviceClose, Tick,
         Release, ClearActive
    <3>3. pc[t] = "release" => Release(t)
      BY <2>1 DEF Step, DeviceBuild, DeviceRead, TransportOpen, TransportOpened, OpenFails, Connected,
         BuildClient, Beat, ExchangeBegin, ExchangeOk, ExchangeFails, StopSilent, KeepaliveNew,
         KeepaliveOff, KeepaliveStart, KeepaliveSwap, KeepaliveStop, DeviceSwap, DeviceClose, Tick,
         Publish, ClearActive
    <3>4. pc[t] = "clear" => ClearActive(t)
      BY <2>1 DEF Step, DeviceBuild, DeviceRead, TransportOpen, TransportOpened, OpenFails, Connected,
         BuildClient, Beat, ExchangeBegin, ExchangeOk, ExchangeFails, StopSilent, KeepaliveNew,
         KeepaliveOff, KeepaliveStart, KeepaliveSwap, KeepaliveStop, DeviceSwap, DeviceClose, Tick,
         Publish, Release
    <3> QED
      BY <1>2, <2>1, <3>1, <3>2, <3>3, <3>4, BetweenMessages, MessageBegins, MessageEnds, SessionBegins, LineGiven,
         SessionEnds
  <2>2. ASSUME NEW t \in Thread, TakeLock(t) PROVE Session!Next
    BY <1>2, <2>2, LineTaken
  <2>3. CASE BeginStart
    <3>1. active = None /\ \A t \in Thread : pc[t] \notin {"wire", "publish"}
      BY <1>2, <2>3 DEF BeginStart, LInv, Left
    <3>2. UNCHANGED <<lock, active, ref>> /\ ~cancelled'
      BY <2>3 DEF BeginStart, Begin, fields
    <3>3. \A t \in Thread : pc'[t] \notin {"wire", "publish"}
      BY <1>2, <2>3, <3>1, SMT DEF BeginStart, Begin, Goto, IInv, TypeOK
    <3>4. Said = {} /\ Woken = {} /\ Said' = {} /\ Woken' = {}
      <4>1. OnWire = {} /\ {u \in Thread : pc[u] = "publish"} = {}
        BY <3>1 DEF OnWire
      <4>2. OnWire' = {} /\ {u \in Thread : pc[u] = "publish"}' = {}
        BY <3>3 DEF OnWire
      <4> QED
        BY <4>1, <4>2, Zenon DEF Said, Woken
    <3>5. cancelled' = FALSE
      BY <2>3 DEF BeginStart
    <3>6. Session!Renew
      BY <3>1, <3>2, <3>4, <3>5 DEF Session!Renew
    <3> QED
      BY <3>6 DEF Session!Next
  <2>4. CASE BeginForce
    <3>1. UNCHANGED <<lock, active, ref>> /\ cancelled' = TRUE
      BY <2>4 DEF BeginForce, Begin, fields
    <3>2. \A t \in Thread : /\ pc'[t] = "wire" <=> pc[t] = "wire"
                            /\ pc'[t] = "publish" <=> pc[t] = "publish"
      BY <1>2, <2>4, SMT DEF BeginForce, Begin, Goto, IInv, TypeOK
    <3>3. OnWire' = OnWire /\ {u \in Thread : pc[u] = "publish"}' = {u \in Thread : pc[u] = "publish"}
      BY <3>2 DEF OnWire
    <3>4. \A t \in OnWire : job'[t] = job[t]
      BY <1>2, <2>4, SMT DEF BeginForce, Begin, OnWire, IInv, TypeOK
    <3>5. Said' = Said
      <4>1. \A t \in OnWire : Message(t)' = Message(t)
        BY <3>1, <3>4 DEF Message
      <4>2. Said = {Message(t) : t \in OnWire} /\ Said' = {Message(t)' : t \in OnWire'}
        BY DEF Said, Message
      <4> QED
        BY <3>3, <4>1, <4>2
    <3>6. Woken' = Woken
      BY <3>1, <3>3, Zenon DEF Woken
    <3>7. Session!Cancel
      BY <3>1, <3>5, <3>6 DEF Session!Cancel
    <3> QED
      BY <3>7 DEF Session!Next
  <2>5. CASE Resume \/ BeginClose \/ \E t \in Operators : BeginOp(t)
    <3>1. UNCHANGED <<lock, active, cancelled, ref>>
      BY <2>5 DEF Resume, BeginClose, BeginOp, Begin, fields, locals
    <3>2. \A t \in Thread :
             \/ pc'[t] = pc[t] /\ job'[t] = job[t]
             \/ pc[t] = "idle" /\ pc'[t] \in {"kaSwap", "acquire"}
      BY <1>2, <2>5, SMT DEF Resume, BeginClose, BeginOp, Begin, Goto, locals, IInv, TypeOK
    <3> QED
      BY <1>2, <3>1, <3>2, QuietStep DEF IInv, TypeOK
  <2>6. CASE \E d \in opened : Finalise(d)
    BY <1>2, <2>6, QuietStep DEF Finalise, fields, locals, usage
  <2>7. CASE UNCHANGED vars
    BY <1>2, <2>7, QuietStep DEF vars, fields, locals, usage
  <2> QED
    BY <1>2, <2>1, <2>2, <2>3, <2>4, <2>5, <2>6, <2>7 DEF Next, Terminated
<1> QED
  BY <1>1, <1>2, SpecIInv, SpecSInv, SpecPInv, SpecLInv, PTL DEF Spec, ImplementsSession, Session!Spec

=============================================================================
