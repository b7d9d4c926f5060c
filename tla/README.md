# TrECU in TLA+

TrECU (`src/trecu/`) reads and clears the fault codes of a motorcycle ECU and
streams its live data over a K-line: one wire, half duplex, no length bytes, an
ECU that is often silent, a user who presses Cancel while a thread sits in
serial I/O.  This directory models that program in TLA+, checks the models with
TLC and proves, with TLAPS, the safety properties that the runs check, for every
value of the constants.

## The system

| component | source | state | operations | modules |
|---|---|---|---|---|
| Diagnostic service | `service.py` | I/O lock, transport, active client, identity, keepalive | `open`, `start_session`, `session`, operations, `close`, `close(force=True)`, beats | `DiagnosticService`, `SerializedSession` |
| Session controller | `tui/session.py` | held session, attempt in flight | `connect`, `cancel`, `close`, operations | `SessionController`, `HeldSession` |
| TUI workflow | `tui/app.py` | dialogs, port, tab, poll timer, title, workers | keys, timer, dialog answers, quit | `TuiApp`, `TuiQuit` |
| Command line | `cli.py` | none between commands | `ports`, `faults`, `clear`, `info`, `sensors`, `pids` | `Cli` |
| OBD exchange | `protocol/iso9141.py` | latched source address | `_exchange`: purge, send, collect, match | `EcuExchange`, `Receive` |
| Fault codes | `protocol/iso9141.py` | none between calls | `read_dtcs`, `clear_dtcs` | `DtcRead` |
| Capability, live data | `protocol/iso9141.py`, `service.py` | advertised PIDs | discovery, beat, `live_plan`, `read_live`, probe | `Capability` |
| Identification | `protocol/common.py`, `iso9141.py`, `service.py` | cached `EcuInfo` | Mode 09 reads, reassembly | `Identification` |
| Slow init | `protocol/common.py` | attempt | handshake, retries | `SlowInit` |
| Framing | `protocol/common.py`, `iso9141.py` | none | echo, collecting, splitter, `_frames` | `Receive`, `Framing` |
| DTC codec | `protocol/dtc.py`, `common.py` | none | encode, decode, padding | `DtcCodec` |
| Serial transport | `transport/serial_kline.py` | the open port | open, close, read, write, 5-baud init | within `DiagnosticService`, `SlowInit`, `Receive` |
| Mock ECU | `transport/mock_obd.py` | | capability pages | within `Capability` |
| PID formulas, DTC dictionary, widgets, logging, packaging | | | | not modelled |

How they interact.  The TUI runs one event loop; its workers hand blocking calls
to threads.  The controller makes one `DiagnosticService` per connect attempt
and publishes it when the attempt succeeds.  The service's threads (the thread
in `start_session`, those in operations, the keepalive, the one that closes)
meet at its I/O lock.  Under the lock an `Iso9141Client` exchanges frames with
the ECU.  Log lines travel back from every thread to the event loop, which the
thread waits for.

What is hard: a forced close that overtakes a start at any point; a cancelled
attempt that goes on in its thread beside the next one; answers that come late,
to the wire as well as to the screen; state read before an `await` and used
after it; workers that are replaced while their thread goes on; frames that are
lost, repeated, late or of another module; frame ends that are only a checksum.
`PROJECT.json` lists each of these at its line, with the properties that watch
it.

What makes each component correct, in a sentence:

- service: one exchange at a time on the wire, on the device the service holds;
  a start that returned leaves a whole session, a close leaves nothing.
- controller: what is published is a live service of an attempt nobody
  cancelled; there is one session or one attempt; every caller is answered.
- TUI: a spinner is always owned by somebody who will take it down; one error
  dialog; the stream runs when the user looks at it; quitting ends and releases.
- exchange: an answer answers the question, comes from the session's module and
  is not older than its request.
- fault codes: no false clean bill, nothing invented, nothing listed twice.
- capability: unknown is not empty, and nothing unclaimed is asked for.
- identification: what is reported is what came, whole, and stays.
- slow init: up means the ECU accepted; failure has a cause; it ends.
- framing: every byte once, only checksummed frames, split where they end; a
  reply survives its echo and the pauses around it.
- command line: what is printed is true, the port that is opened is the one that
  was named, a clear was agreed to, the device is closed at every exit.
- codec: a fault code and its two bytes determine each other.

## The modules

**`DiagnosticService`** follows each thread through the labels of the code it
runs: `open`, `acquire`, `connect`, `device`, `publish`, `exchange`, `wire`,
`release`, `kaNew`, `kaStart`, `kaSwap`, `kaStop`, `closeAcquire`, `clear`,
`devSwap`, `devClose`.  A label is a point where another thread can come in
between two accesses to shared state; a step is what the thread does from there
to the next.  The owner starts and closes, `Operators` call the operations, the
`Canceller` forces a close, each session has its own ticker thread.  `built`,
`opened` and `ref` are the transport objects, the ports that are open and the
object a thread has in hand.  `Finalise` is CPython closing a port that nobody
refers to.  `SerializedSession` is what the service promises the ECU: whoever has
the line keeps it for a whole operation; a session is begun once, by a wake-up
that succeeded; every message ends in the session it began in, unless a forced
close cut that session short.  In `ImplementsSession` the holder of the lock is
who has the line, the threads at `wire` are the messages on it, the thread at
`publish` is who has woken the ECU, and the active client is the session.

**`SessionController`** has an action for each stretch of event-loop code
between two awaits, and separate actions for what `to_thread` runs.  An attempt
and its service share a number.  Of a service it keeps what the controller can
tell: where the thread in `start_session` is, whether the port is open and the
ECU connected.  Its workers (`EcuWorkers`, the exclusive group `ecu`; `Live`, the
poll) are the callers.  `Replace` is Textual cancelling an exclusive worker,
whose thread goes on as an `orphan`.  `HeldSession` is the promise to the app:
a session is withdrawn before another takes its place and never comes back.

**`TuiApp`** extends `SessionController`: each of its actions is one of the
controller's together with what the handler does to the screen in the same
event-loop turn.  It adds the dialog stack, with the question before a clear, the
port picker, the active tab, the poll timer's running flag, the queued worker and
the status in the title bar.

**`TuiQuit`** is the exit: `on_unmount` closes the session on the event loop,
while `_ecu_logger` makes threads wait for that loop.

**`EcuExchange`** has the modules of the bike on one wire, each of which may
answer, refuse or keep silent, in any order, now or (`late`) after the next
request; a send may fail half way (`SendFails`), and more frames may come than the
caller allows (`TooMany`).  **`Receive`** is below it: the
line as a stream of bytes, each behind a pause (none, one that outlasts
`quiet_gap`, one that outlasts `frame_gap` too), with the places on it where the
frames of the reply start (`starts`).  From it `_consume_echo` takes the echo and
`_collect` or `_collect_multi` the reply, each read possibly running out of time.  What they collect goes to **`Framing`**, the splitter with `_frames`.
**`DtcRead`**, **`Capability`** and **`Identification`** are above the exchange:
a request is a step whose answer may be lost, cut, repeated or reordered, and
between two requests the bike may change.  `Identification` takes an answer
fragment by fragment, as the loop of `reassemble_identification` does.  `Capability` builds its ECU the way
the mock's double is built (`encode_pid_support_pages`).  **`SlowInit`** is the
handshake byte by byte, with the ECU's side, noise that may look like the sync
byte, bytes of an attempt that come in the next one, and a device that is
unplugged under it, whose exception no retry catches (`Escapes`).

**`Cli`** extends `DtcRead`: commands one after another, each a process that
names its port, prompts, runs an operation inside `with service:` and exits,
while cables come and go and Ctrl-C may arrive wherever the process waits.
`faults` and `clear` run the conversations of `DtcRead` step by step.

**`DtcCodec`** is the fault code arithmetic, which is proved and not run.

The proofs are in modules of their own, each of which extends what it is about:
**`DiagnosticServiceProofs`** (exchanges, devices, ports), **`TuiAppProofs`** (the
controller, then the app), **`EcuExchangeProofs`**, **`ReceiveProofs`** (the
splitter, then the reply), **`CapabilityProofs`**, **`IdentificationProofs`**,
**`SlowInitProofs`** and **`CliProofs`** (the conversations about fault codes, the
commands, the codec).

`MC*` modules give the constants values that a configuration cannot (sets of
numbers, symmetry sets, the lines of `Receive`).  Definitions marked `mutant`
are slips that would be easy to make in the code; the model uses none of them,
and each property of a passing run notices one.

## What TLC checks

Passing runs:

| run | module | shows |
|---|---|---|
| `service_safety` | `MCDiagnosticService` | two sessions, two operators, the keepalive, failures everywhere, a forced close at every step of each start: `OneExchange`, `HealthyWhenUp`, `IdentityOfSession`, `WireIsCurrent`, `ReleasedWhenClosed`; the refinement `ImplementsSession`; `IInv`, the invariant of the proof |
| `service_liveness` | `MCDiagnosticService` | `CallsReturn`, `TickersEnd` |
| `app_safety` | `MCTuiApp` | three attempts, two replaceable workers and the poll, a cancel, a clear that is asked about while the poll goes on, with a fixed port and with the picker: `PublishedIsLive`, `CurrentIsTheAttempt`, `QuietPorts`, `SpinnerHasOwner`, `OneErrorDialog`, `TitleSettles`; the refinement `ImplementsHeldSession` |
| `app_liveness` | `MCTuiApp` | `ConnectAnswered`, `SpinnerEnds` |
| `exchange` | `MCEcuExchange` | `OneModule`, `FreshWhenPrompt`, `VerdictOfThisRequest`, for a pinned and a latched module, with prompt and late answers, sends that fail and a limit on the frames |
| `cli` | `MCCli` | two commands over a line that loses and repeats frames, a bike and cables that change: of the conversations `NoFalseClean`, `CompleteUnlessWarned`, `ListIsSound`; of the commands `TruthfulOutput`, `ClosedAtExit`, `ClearsOnlyConfirmed` |
| `capability` | `MCCapability` | `OnlyClaimedIsAsked`, `UnknownIsNotEmpty`, `WarnedOfRealChange`, `StatusIsTrue`, and for an ECU double `DoubleIsDiscovered` |
| `identification` | `MCIdentification` | `ReportsWhatCame`, `IdentityKept` |
| `slow_init` | `MCSlowInit` | `UpMeansAccepted`, `FailsForAReason`, with and without an echo, with bytes that come an attempt late |
| `framing` | `MCReceive` | `ReplySurvives`, `EveryByteOnce`, `OnlyProvenFrames`, `SplitsAtHeaders` |

Every passing run checks deadlock too: a model stutters explicitly where the
program may rest.  Type correctness is part of each inductive invariant that is
proved, and `service_safety` checks that of the service as well; it is not the
point of any other run.

Two runs end in a violation, each of a sentence of the repository that its code
does not keep:

| run | what happens |
|---|---|
| `controller_stale_failure` | a failed operation closes the session that came after its own (`session.py:85-86`) |
| `quit_hangs` | the event loop in `on_unmount` and a keepalive that logs under the lock wait for each other (`session.py:236`, `app.py:735-736`); deadlock is not checked, since the program does stop there |

### Divergences met on the way, without a run

Each is stated as a property beside its model, quotes the sentence, and is
refuted by TLC over the same model.

| property | what the code does |
|---|---|
| `CancelReleasesPort` (`DiagnosticService`) | a forced close before or during `transport.open()` finds nothing to close, and the port is opened after it has returned (`session.py:213-214`) |
| `NonOverlapping` (`SessionController`) | the next attempt opens the port beside a cancelled one, or while a close still has it open (`session.py:22-24`) |
| `CancelledAnswersSo` (`SessionController`) | a cancel during the teardown of a failed attempt is answered FAILED, and the error dialog comes up (`app.py:648`) |
| `SpinnerWhileConnecting` (`TuiApp`) | a cancelled attempt's late answer takes down the next attempt's spinner (`app.py:427-429`) |
| `StreamRuns` (`TuiApp`) | a cancelled poll's late answer stops the next session's stream (`app.py:369-371`) |
| `TitleTruthful` (`TuiApp`) | late answers leave "error" over a session, or "connected" without one (`app.py:616-617`) |
| `FailureIsTwo` (`Cli`) | a device unplugged under a read ends the command with a traceback and exit code 1 (`cli.py:213-214`) |
| `OwnAnswerCounts` (`EcuExchange`) | another module's refusal fails an exchange that the session's module answered (`iso9141.py:99-103`) |
| `NoisyEchoDropped` (`Receive`) | the end of an echo behind noise is left to the splitter (`iso9141.py:194-196`) |
| `NoneMeansNone` (`DtcRead`) | codes that an attempt listed are forgotten when the last attempt fails (`iso9141.py:660-664`) |
| `CompleteOrEmpty` (`Identification`) | a field whose last fragment is lost is reported as complete (`iso9141.py:583-587`) |
| `KeysAsSent` (`SlowInit`) | the first key byte is returned as read, which may be garbled or the sync itself (`common.py:311`) |
| `UpOnlyNow` (`SlowInit`) | the close of an earlier attempt that comes late, behind noise taken for the sync and the keys, brings the link up though the ECU accepted nothing in this one (`common.py:353-354`) |
| `SplitsAsSent` (`Framing`) | data that imitates a header behind a matching sum ends its frame (`common.py:167-169`) |

### Bounds, and why they are enough

- Service: two sessions, so that state left by the first can harm the second;
  two operators with an operation each, so that one can wait behind the other and
  a close; two forced closes, one for each start.  Threads, operations and
  tickers beyond that are covered by the proof.
- App: three attempts are one that is cancelled, one that replaces it and one
  after that has been closed; two `ecu` workers are the one replaced and the one
  that replaces it; two tab switches go to the live tab and back.
  `app_liveness` has one worker, two attempts and one switch.
- Exchange: two modules, two modes, two PIDs are the same and another of each;
  three requests let an answer skip one; limits of one and two frames are below
  and at what two modules send.
- CLI: three codes over frames of two are more than a frame; two attempts of
  Mode 03; two reads or clears; two commands are one and what it leaves to the next; two
  cables, one change of them and one of the bike's faults, at any point.
- Capability: pages of two PIDs, the second being the next page, three pages
  deep, two sessions, two changes of mind.  Identification: fields of up to three
  fragments with a limit of two.  Slow init: three attempts, two bytes of noise,
  three late bytes, before the noise or behind it, which is the sync and the keys or
  the close of the attempt before.
- Framing: bytes modulo 3 rather than 256, which makes sums that match by
  accident common instead of rare; every buffer of up to 7 bytes, and one to
  three sent frames of up to two data bytes with every sort of echo and pause.
  The request ends with the byte a reply begins with, so that the head of a reply
  may make up for a missing end of the echo.
- Symmetry: operators, `ecu` workers and modules are interchangeable, and only
  runs without liveness use it.

### Fairness

Threads run and the event loop serves its tasks (weak fairness of each step):
every serial read and write has a timeout, so no exchange lasts for ever.  A lock
is taken by whoever waits (strong fairness): Python's locks promise no order, but
their holders let go after one operation and the ticker sleeps an interval
between two beats.  `TuiQuit` asks strong fairness of the ends of an operation
and of a connect, because each logs a bounded number of lines and the model does
not count them.  The models of the protocol have safety properties only.  Nothing
is assumed of the user, of the bike or of the line.

### Assumptions

- CPython: reading or assigning an attribute, and `a, self.x = self.x, None`, are
  taken as one step.  This holds under the GIL for what the code does with them.
- Textual: a new exclusive worker cancels the one before at its next await;
  `call_from_thread` waits for the event loop; the app waits for its workers
  before it unmounts (`app.py:573-576`); a dialog dismisses itself before its
  callback runs.  In `TuiApp` the user acts on a screen that has settled.
- `Cli`: Ctrl-C is taken where the process waits.  `info`, `sensors` and `pids`
  are one step each, their conversations being checked elsewhere.
- `DiagnosticService` starts a service again only when no operation of its former
  session is left.  `start_session` does not ask, but nothing in the program could
  break it: the controller makes a service for each attempt, and the command line is
  one thread.  Without that guard `IdentityOfSession` and `ImplementsSession` fail
  under a forced close, as TLC shows: an operation that connects lazily begins a
  session of its own beside the start.  `IInv`, `OneExchange`, `HealthyWhenUp`,
  `WireIsCurrent` and `ReleasedWhenClosed` hold in the same run without it.
- The factory builds a new device each time.  A transport instance that is pinned
  for the life of the service (`service.py:106-112`, the bench of `--mock`) and a
  client that is injected (`service.py:348-349`, tests) are not modelled.
- The last clause of `ReleasedWhenClosed`, that no port is open, is stated for
  services that nobody ever cancelled; what a cancel leaves behind is
  `CancelReleasesPort`.
- `UpMeansAccepted` excepts an attempt into which the close of an earlier one was
  still to come (`overdue`); that is `UpOnlyNow`.
- `SpinnerHasOwner` and `SpinnerEnds` are stated for a fixed port.  With the
  picker a live poll may begin an attempt between Cancel and the queued
  `_choose_port`; its spinner ends up under the picker and stays there, with a
  Cancel that finds nothing to cancel.
- `EcuExchange`: a corrupted frame does not pass its checksum; it is a lost one.
- `TuiQuit`: one worker and one keepalive; the app is left with `q`, not from the
  port picker.

## What is proved

Each theorem holds for every value of the constants that the named assumption of
its module allows.

**The service** (`DiagnosticServiceProofs`; any operators, any calls of theirs, any
number of sessions, operations and cancels):

- `SpecTypeOK`, `SpecOneExchange`: the half-duplex promise, `Spec => []OneExchange`;
- `SpecIdentityOfSession`, `SpecWireIsCurrent`: whose identity is cached and which
  device a thread talks over;
- `SpecHealthyWhenUp`, `SpecReleasedWhenClosed`: what a start leaves is whole and
  stays so, what a close leaves is nothing;
- `SpecImplementsSession`: the service implements `SerializedSession`.

`OneExchange` is not inductive: that two threads are not on the wire follows only
if a thread is known to have the lock whenever it is anywhere inside the locked
code.  `LockInv` says so exactly: `Holds(t) <=> lock = t`, where `Holds` lists the
labels under the lock.  Some labels are reached with the lock and without it
(`_device` from `open` and from `_build_client`; the release of the device from
an orderly close and from a forced one), so `Holds` looks at the thread's job and
call, and `ControlInv` says which of these can be where: only the owner opens, a
forced close has no stop exchange, and a ticker of a session to come has not run.
`IInv` is `TypeOK /\ LockInv /\ ControlInv`; `service_safety` checks it as well.

On top of it, `SInv` is about devices.  `Roles` fixes which thread may be at which
label in which phase of the owner (a forced close only while a start is not
resumed, operators only once it is).  `Connecting` says that who connects finds
no client, which the lock gives, and that an operation has the active client in
hand.  `Current` says that as long as no start was cancelled (`Fresh`) there is
one device: the client, the transport and the device of everyone on the wire.
`Identity` follows from what an operation has in hand; `WireIsCurrent` is
`Current` where the wire is concerned.

On top of that, `PInv` is about ports.  A start or its outcome is `Sound` if it was
neither cancelled nor failed.  `PortOpened`: a sound start past `open()` has its
device open; to see this, the failing start must be known to close only after its
exception was raised.  `ClientMade`: it ends with a client.  `TickerRuns`: its
ticker is that of the latest session, and only earlier ones are told to stop.
`PortReleased`: as long as nobody ever cancelled, no port is open but the device
the service holds, or that the closing owner has just taken from it, and an orderly
close leaves no client for it to come back from.  With a cancel the last is false,
which is `CancelReleasesPort`.

`LInv` is what stays true then as well.  `Left`: once the closing owner has let go
of the device, and until the next start, there is no client, nobody talks, and the
transport, if a late operation has built one, is not open; this and `PortReleased`
give `ReleasedWhenClosed`.  `Over`: a beat or a stop goes over the active client
unless the start was cancelled.  The refinement rests on it: only the holder of the
lock is on the wire or has just woken the ECU (`OnlyHolderSpeaks`), a message begins
with nothing under way and over the session (`MessageBegins`), a session begins
over the device just woken (`SessionBegins`), and it is ended by its holder between
two messages or cut by a forced close (`SessionEnds`); every other step is invisible
on the line (`QuietStep`, `BetweenMessages`).

**The controller** (`TuiAppProofs`; any workers, attempts and cancels):
`SpecPublishedIsLive`, `SpecCurrentIsTheAttempt`, `SpecQuietPorts`, and
`SpecImplementsHeldSession`.  `CtlInv` adds what these rest on: how far the
attempt's task and its thread can be apart (`Threads`), that a start that came
back well is live until somebody closes it (`Ready`), that whoever closes a
session has withdrawn it before (`Withdrawn`), and that an open port always has
someone who will close it (`Accounted`).

**The app** (`TuiAppProofs`): `UiSpecIsController`, `UiSpec => Spec`: whatever the
handlers do, to the controller it is a behaviour of its own.  The controller's
theorems follow for the app.  `DialogInv` gives `UiOneErrorDialog` and
`UiSpinnerHasOwner`: whoever waits for an attempt pushed the spinner or found it,
and over a fixed port nothing is pushed over it.  The question before a clear is
asked over an empty screen and stays below whatever comes meanwhile (`Asked`).

`UiTitleSettles` is about the title, over a fixed port: when nobody is at work it
does not say that somebody reads or clears.  It needs to know who will change such
a title (`TitleOwned`): the queued job, or the one worker of the group `ecu` that
was not replaced (`OneJob`).  A caller of `connect` changes it if its attempt
fails, for an attempt whose outcome is "cancelled" was cancelled (`Told`), and
cancelling sets the title itself.  Behind the error dialog, which stays until it is
acknowledged (`ErrorStacked`), such a worker shares no attempt with the poll, so
none can fail without being told.

**The exchange** (`EcuExchangeProofs`; any modules, modes, PIDs and bounds):
`SpecOneModule`, `SpecFreshWhenPrompt`, `SpecVerdictOfThisRequest`.  `XInv` says
that, with modules that answer in time, all that is owed or in the input is about
the request that is out: the purge before each send forgets the rest.

**The capability** (`CapabilityProofs`; any page size, number of pages, sensor table
and any changes of the ECU): `SpecOnlyClaimedIsAsked`, `SpecUnknownIsNotEmpty`,
`SpecWarnedOfRealChange`, `SpecStatusIsTrue`, `SpecDoubleIsDiscovered`.  `CapInv`
says that what the walk found is what it was told, whatever failed on the way, and
that the part of the set the beat compares with is what page 0 said, since the bits
of every later page lie behind it (`LaterPage`).  `DoubleInv` is for the last: an
unchanged double read without a loss has told of itself up to the page the walk is
at (`Upto(walk)`).

**The identification** (`IdentificationProofs`; any fields, fragments and limits):
`SpecReportsWhatCame`, that a field reported is exactly the fragments that came for
it, numbered without a gap and without a conflict, and `SpecIdentityKept`, that a
session keeps the identity it has.  The first needs that the data kept under
numbers and the fragments seen are the same set as long as nothing was refused
(`Collected`); the second that a read is under way only while there is no identity
(`ReadGoesOn`).

**The slow init** (`SlowInitProofs`; any number of attempts, any amount of noise):
`SpecTypeOK`, `SpecUpMeansAccepted`, `SpecFailsForAReason`.  The closing byte is on
the line only once the ECU has accepted the key (`ClosedByEcu`), and as long as the
line was undamaged, what is buffered and what the ECU has yet to send are together
the rest of the handshake (`InOrder`): a failure is then due to an ECU that refused,
to a line that was damaged, to an earlier attempt's bytes or to noise that looked
like the sync.  A closing byte from an earlier attempt is among the bytes to come
only if the attempt is `overdue` (`WakeIs`).

**The line** (`ReceiveProofs`; any request, any lines, any width of a byte, any cut of
the bytes into reads):

- `SpecEveryByteOnce`, `SpecOnlyProvenFrames`: the frames lie in line, behind one
  another and before the offset the splitter has reached (`InLine`);
- `SpecSplitsAtHeaders`: on a clean buffer no header was stepped over so far
  (`AtHeaders`), for the end of a frame that `_frame_end` proves is the next header:
  a smaller one would be a header itself;
- `SpecReplySurvives`: the reply is decoded, all of it and nothing else.  `ReplyInv`
  says that the bytes read and those unread are the line's own, in their order,
  except for an echo that was dropped as a whole (`NoneLost`), and what the reader's
  verdict rests on (`Reader`).  So the buffer is the line from some offset before
  the reply (`RawIsLine`); its headers are where the frames start, because there are
  as many as frames (`HeadersAreSent`, a one-to-one map between finite sets of the
  same size); it is clean (`RawIsClean`), and `SpecSplitsAtHeaders` applies.  Two
  ascending lists of the same numbers are the same (`SameNumbers`), so the frames
  come in the order they were sent in.

What `ReplySurvives` supposes is in `Legible`: the frames are whole and nothing else
looks like the head of one.  `EchoApart` excludes a case that is real but rare, and
that a proof brought up: an echo that lost its last bytes right before a reply that
begins with them is taken for the whole echo, and the head of the reply goes with
it.

**The fault codes and the command line** (`CliProofs`; any codes, fewer than 128 of
them since PID 01 counts in seven bits, any frame size, number of retries, ports and
runs): `SpecTypeOK`, `SpecNoFalseClean`, `SpecCompleteUnlessWarned`,
`SpecListIsSound`, `SpecTruthfulOutput`, `SpecClosedAtExit`,
`SpecClearsOnlyConfirmed`.  `DtcInv` says what a read under way knows (`ReadInv`: the
count it was told, how many codes it listed, that it has warned before it goes on
with fewer) and what the last one returned (`ResultInv`).  `CommandInv` ties the
command to its conversation: in which phases the device is held and the clear is
agreed to, and which outcome belongs to which command.  Only both together make
what is printed true.

**The codec** (`DtcCodec`, in `CliProofs`): `EncodeInvertsDecode` and `DecodeInvertsEncode` over
all byte pairs and all codes, and `PaddingIsP0000`, that the only code a frame's
padding can hide is P0000.

The assumptions: the owner, the canceller and the operators are different threads
and no numbers (the tickers are); the poll is none of the exclusive workers; the
bounds are natural numbers; a value that stands for "none" is none of the others;
the fault codes are finitely many and none of them is P0000, which is padding; a
request has at least one byte.  TLC evaluates each of these on the small instance.

## What is only model-checked

Liveness, since TLAPS has no `ENABLED`: `CallsReturn`, `TickersEnd`, `SpinnerEnds`,
`ConnectAnswered`.

`TitleSettles` with the port picker.  `TitleOwned` is not inductive there: from two
pickers stacked over an unacknowledged error dialog, with the poll in flight, a step
leads to a title that nobody will change.  No run reaches such a state (nor did long
simulations with larger bounds); a proof would have to count the pickers over the
dialog against the chances of the poll to begin an attempt.

The two runs that end in a violation, and the table of divergences.

## What is not modelled

The PID formulas (floating point), the DTC dictionary, parsing of arguments and
columns of tables, layout and widgets, log texts, the answers of the mock ECU,
packaging.  Of the serial transport, the waveform of the 5-baud init and the
arithmetic of deadlines: they are timing, and the models let a timeout come at
any moment.  `SerialException` out of a read, which the transport does not wrap,
is one kind of failure with the others, but in `Cli`, where it tells in the exit
code, and in `SlowInit`, where no retry catches it.  `shutdown()` and leaving from the port picker.  Freezing the live stream has
no variable of its own: a frozen poll returns at once, and `PollLive` is without
fairness, so a tick that does nothing is one that does not come; only the label of
the title is lost.

## Plan

Done: the service with `SerializedSession`; the controller with `HeldSession`; the
app, which composes the controller and the screen; the exchange over `Receive`
and `Framing`; the conversations above it; the command line over `DtcRead`; the
codec; `TuiQuit`; a theorem for each safety property of a passing run.

To do:

1. Prove.  `TitleSettles` with the picker (see above).  `SpinnerHasOwner` where the
   picker is used, with the case of `SpinnerEnds` that it excludes named as a
   condition instead of a fixed port.
2. Extend.  Leaving from the port picker, in `TuiQuit`, with `shutdown()`.
