--------------------------------- MODULE Cli ---------------------------------
(***************************************************************************)
(* The headless commands (cli.py).  A command is a process of its own: it  *)
(* names the port it will use, asks before it clears, runs one operation   *)
(* inside `with service:` and ends with an exit code.  One command follows *)
(* another; meanwhile cables are plugged and unplugged and the bike sets   *)
(* and heals faults.  `faults` and `clear` are the conversations of        *)
(* DtcRead; `info`, `sensors` and `pids` are one step.                     *)
(*                                                                         *)
(* Ctrl-C is taken where the process waits: at the prompt, while opening,  *)
(* connecting and asking, and before the result is shown.                  *)
(***************************************************************************)
EXTENDS DtcRead

CONSTANTS
    Ports,      \* serial devices there can be
    LikelyKkl,  \* those with FTDI's vendor id
    NoPort,     \* no device
    MockPort,   \* MOCK_PORT_LABEL
    MaxRuns,    \* bound: commands
    MaxPlugs    \* bound: changes of the cables

ASSUME CliAssumption ==
    /\ LikelyKkl \subseteq Ports
    /\ NoPort # MockPort /\ {NoPort, MockPort} \cap Ports = {}
    /\ MaxRuns \in Nat /\ MaxPlugs \in Nat

\* "info" stands for `sensors` and `pids` too; -y says nothing but to a clear.
NoArguments == [command |-> "ports", port |-> NoPort, yes |-> FALSE]
Arguments ==
    {NoArguments} \cup [command : {"faults", "clear", "info"},
                        port : Ports \cup {NoPort, MockPort}, yes : {FALSE}]
                  \cup [command : {"clear"}, port : Ports \cup {NoPort, MockPort}, yes : {TRUE}]

VARIABLES
    plugged, plugs,  \* the cables that are there
    runs,
    args,            \* of the last command; the port MockPort is --mock
    phase,           \* how far it is; "shell" once it has ended
    announced,       \* the port it said it would use
    confirmed,       \* the user agreed to a clear, at the prompt or by --yes
    held,            \* the device the process has open
    used,            \* the device it has opened
    printed,         \* what stdout says
    code             \* its exit code

process == <<args, phase, announced, confirmed, held, used, printed, code>>
shell   == <<plugged, plugs, runs>>
cliVars == <<vars, shell, process>>

CliInit ==
    /\ Init
    /\ plugged \in SUBSET Ports /\ plugs = 0 /\ runs = 0
    /\ args = NoArguments /\ phase = "shell"
    /\ announced = NoPort /\ confirmed = FALSE
    /\ held = NoPort /\ used = NoPort
    /\ printed = "nothing" /\ code = 0

----------------------------------------------------------------------------
\* Cables are plugged in, unplugged or swapped.
Plug ==
    /\ plugs < MaxPlugs /\ plugs' = plugs + 1
    /\ plugged' \in SUBSET Ports \ {plugged}
    /\ UNCHANGED <<vars, runs, process>>

Diagnosis == Change /\ UNCHANGED <<shell, process>>

Exit(c) == phase' = "shell" /\ code' = c

\* The port of the arguments a: the one given, or the only likely cable.
Candidates    == plugged \cap LikelyKkl
Resolvable(a) == a.port # NoPort \/ Cardinality(Candidates) = 1
Resolved(a)   == IF a.port # NoPort THEN a.port ELSE CHOOSE p \in Candidates : TRUE

\* A command starts and announces its port; without one it gives up.  `ports`
\* lists what is there and is done.
Start ==
    /\ phase = "shell" /\ runs < MaxRuns /\ runs' = runs + 1
    /\ \E a \in Arguments :
         /\ args' = a /\ confirmed' = a.yes
         /\ IF a.command = "ports"
            THEN announced' = NoPort /\ printed' = "ports" /\ Exit(0)
            ELSE /\ printed' = "nothing"
                 /\ IF ~Resolvable(a)
                    THEN announced' = NoPort /\ Exit(1)
                    ELSE /\ announced' = Resolved(a) /\ code' = 0
                         /\ phase' = IF a.command = "clear" /\ ~a.yes
                                     THEN "prompt" ELSE "build"
    /\ held' = NoPort /\ used' = NoPort
    /\ outcome' = "none" /\ result' = NoList /\ list' = NoList
    /\ expected' = 0 /\ attempt' = 0 /\ warned' = FALSE
    /\ UNCHANGED <<ecu, calls, pc, ghost, plugged, plugs>>

\* "Clear all stored fault codes? [y/N]": only y and yes agree.
NotRefused(reply) == reply # "n"                                   \* mutant
Agrees(reply)     == reply = "y"

Prompt ==
    /\ phase = "prompt"
    /\ \/ \E reply \in {"y", "n", ""} :
            /\ confirmed' = (reply = "y")
            /\ IF Agrees(reply)
               THEN phase' = "build" /\ UNCHANGED <<printed, code>>
               ELSE printed' = "aborted" /\ Exit(1)
       \/ \E c \in {1, 130} : Exit(c) /\ UNCHANGED <<confirmed, printed>>  \* EOF, Ctrl-C
    /\ UNCHANGED <<vars, shell, args, announced, held, used>>

\* _make_transport: the device built is the one announced.
Redetected == IF Resolvable(args) THEN Resolved(args) ELSE announced  \* mutant
Device     == announced

\* service.open(): a device that is not there, or busy, is a TransportError, and
\* `with` is not entered.
Open ==
    /\ phase = "build"
    /\ \/ /\ Device \in plugged \cup {MockPort}
          /\ held' = Device /\ used' = Device /\ phase' = "opening"
          /\ UNCHANGED <<outcome, code>>
       \/ /\ Device # MockPort
          /\ outcome' = "unopened" /\ Exit(2)
          /\ UNCHANGED <<held, used>>
    /\ UNCHANGED <<ecu, calls, pc, expected, attempt, list, warned, result, ghost>>
    /\ UNCHANGED <<shell, args, announced, confirmed, printed>>

\* open() returns, or Ctrl-C finds it half done: `with` is not entered then.
Opened ==
    /\ phase = "opening"
    /\ \/ phase' = "connect" /\ UNCHANGED code
       \/ Exit(130)
    /\ UNCHANGED <<vars, shell, args, announced, confirmed, held, used, printed>>

Ends(o) == outcome' = o /\ phase' = "asked"

\* The operation connects first; every failure but an escape is a ProtocolError.
Connect ==
    /\ phase = "connect"
    /\ \/ phase' = "ask" /\ UNCHANGED outcome
       \/ used # MockPort /\ \E o \in {"unconnected", "device"} : Ends(o)
       \/ Ends("interrupted")
    /\ UNCHANGED <<ecu, calls, pc, expected, attempt, list, warned, result, ghost>>
    /\ UNCHANGED <<shell, args, announced, confirmed, held, used, printed, code>>

OnBike(c) == phase = "ask" /\ used # MockPort /\ args.command = c

AskBegins ==
    /\ \/ OnBike("faults") /\ ReadBegins
       \/ OnBike("clear") /\ ClearDtcs
    /\ phase' = "asked"
    /\ UNCHANGED <<shell, args, announced, confirmed, held, used, printed, code>>

AskGoesOn == (ReadStored \/ ReadPending \/ ReadEscapes) /\ UNCHANGED <<shell, process>>

\* The other commands, and all of them with the simulated ECU, which answers.
AskOther ==
    /\ phase = "ask"
    /\ used = MockPort \/ args.command = "info"
    /\ \E o \in {"reported"} \cup (IF used = MockPort THEN {} ELSE Escapes) : Ends(o)
    /\ UNCHANGED <<ecu, calls, pc, expected, attempt, list, warned, result, ghost>>
    /\ UNCHANGED <<shell, args, announced, confirmed, held, used, printed, code>>

----------------------------------------------------------------------------
\* The end of the with block: the device is closed whatever happened, then the
\* failure decides on the exit code.
Succeeded == outcome \in {"read", "cleared", "reported"}
CodeOf(o) == CASE o = "interrupted" -> 130 [] o = "device" -> 1 [] OTHER -> 2

ClosedIfFine == IF Succeeded THEN NoPort ELSE held                 \* mutant
Closed       == NoPort
OnlyLink     == Succeeded \/ outcome = "unacknowledged"            \* mutant
Shown        == Succeeded

Close ==
    /\ phase = "asked" /\ pc = "idle"
    /\ held' = Closed
    /\ IF Shown THEN phase' = "show" /\ UNCHANGED code ELSE Exit(CodeOf(outcome))
    /\ UNCHANGED <<vars, shell, args, announced, confirmed, used, printed>>

Text ==
    IF outcome = "reported" THEN "report"
    ELSE IF args.command = "clear" THEN "cleared"
    ELSE IF result.len = 0 THEN "no codes" ELSE "codes"

Show ==
    /\ phase = "show"
    /\ \/ printed' = Text /\ Exit(0)
       \/ Exit(130) /\ UNCHANGED printed
    /\ UNCHANGED <<vars, shell, args, announced, confirmed, held, used>>

AtShell == phase = "shell" /\ UNCHANGED cliVars

CliNext ==
    \/ Plug \/ Diagnosis \/ AtShell
    \/ Start \/ Prompt \/ Open \/ Opened \/ Connect
    \/ AskBegins \/ AskGoesOn \/ AskOther \/ Close \/ Show

CliSpec == CliInit /\ [][CliNext]_cliVars

----------------------------------------------------------------------------
\* Codes leave the bike by its own diagnosis, or by a clear that the user has
\* agreed to, over the port that the command announced and the user confirmed,
\* even if the cables have changed since (cli.py:107-109 and 365-372).
ClearsOnlyConfirmed ==
    [][stored' # stored /\ changes' = changes => confirmed /\ held = announced]_cliVars

\* What a command says on stdout is true of a bike that kept its codes since it
\* was asked: cleared is cleared, no codes means none, and a list that was not
\* warned of has them all (_with_service: a failure shows nothing).
TruthfulOutput ==
    phase = "shell" /\ steady =>
        /\ printed \in {"cleared", "no codes"} => stored = {}
        /\ printed = "codes" => warned \/ stored \subseteq result.codes

\* A command leaves the device closed however it ended, but for Ctrl-C in the
\* middle of open() (DiagnosticService.__exit__).
ClosedAtExit ==
    phase = "shell" /\ held # NoPort => code = 130 /\ outcome = "none"

\* "mapping a transport/protocol failure onto exit code 2" (cli.py:213-214): a
\* command whose device fails under it ends with 2.  TLC refutes it: the
\* SerialException of a read ends in a traceback, exit code 1.
FailureIsTwo == phase = "shell" /\ outcome = "device" => code = 2

=============================================================================
