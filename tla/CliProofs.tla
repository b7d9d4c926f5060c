------------------------------ MODULE CliProofs ------------------------------
(***************************************************************************)
(* What the headless commands promise, for any codes, ports and bounds.    *)
(* A conversation with the ECU is proved first: DtcInv says what a read    *)
(* under way knows (ReadInv) and what the one that ended returned          *)
(* (ResultInv), and each request keeps it.  CommandInv ties the command to *)
(* its conversation: the phases in which the device is held and the clear  *)
(* is agreed to, and which outcome belongs to which command.  Only the two *)
(* together make the printed text true.  A last part proves the codec of a *)
(* fault code (DtcCodec).                                                  *)
(***************************************************************************)
EXTENDS Cli, DtcCodec, FiniteSetTheorems, TLAPS

\* What a request lists, and how far a command is.
Lists  == [codes : SUBSET Codes, len : Nat]
Phases == {"shell", "prompt", "build", "opening", "connect", "ask", "asked", "show"}

\* Types, of the conversation and of the command.
DtcTypes ==
    /\ TypeOK
    /\ list \in Lists /\ result \in Lists

CliTypes ==
    /\ args \in Arguments /\ phase \in Phases /\ confirmed \in BOOLEAN
    /\ {announced, held, used} \subseteq Ports \cup {NoPort, MockPort}
    /\ plugged \subseteq Ports

\* A read under way.
ReadInv ==
    /\ pc # "idle" => stored \cup pending \subseteq was /\ list.codes \subseteq was
    /\ list.len = Cardinality(list.codes)
    /\ pc # "idle" /\ steady => expected = Cardinality(stored) /\ list.codes \subseteq stored
    /\ pc = "pending" => (list.len >= expected \/ warned) /\ (list.len # 0 \/ expected = 0)

\* What it returned.
ResultInv ==
    /\ result.len = Cardinality(result.codes) /\ result.codes \subseteq was
    /\ outcome = "read" => result.len # 0 \/ expected = 0
    /\ outcome = "read" /\ steady => expected = Cardinality(stored)
    /\ outcome = "read" /\ steady /\ ~warned => stored \subseteq result.codes
    /\ outcome = "cleared" /\ steady => stored = {}

\* The command around it.
CommandInv ==
    /\ pc # "idle" => phase = "asked" /\ args.command = "faults" /\ outcome = "none"
    /\ outcome = "read" => args.command = "faults"
    /\ outcome = "cleared" => args.command = "clear"
    /\ phase \in {"prompt", "build", "opening", "connect", "ask"} => outcome = "none"
    /\ phase = "show" => Succeeded
    /\ phase # "shell" => printed = "nothing"
    /\ phase \in {"build", "opening", "connect", "ask", "asked"} /\ args.command = "clear"
         => confirmed
    /\ phase \in {"opening", "connect", "ask", "asked"} => held = announced
    /\ phase \in {"prompt", "build", "show"} => held = NoPort

DtcInv       == DtcTypes /\ ReadInv /\ ResultInv
CommandParts == CommandInv /\ TruthfulOutput /\ ClosedAtExit

\* The inductive invariant.
CliInv == CliTypes /\ DtcInv /\ CommandParts
----------------------------------------------------------------------------
\* A set of codes is finite and no larger than the set of all codes: a code is two
\* bytes (dtc.py:31-43).
LEMMA FiniteCodes ==
    ASSUME NEW S \in SUBSET Codes
    PROVE  IsFiniteSet(S) /\ Cardinality(S) \in Nat /\ Cardinality(S) <= Cardinality(Codes)
<1>1. IsFiniteSet(Codes) /\ IsFiniteSet(S)
  BY DtcAssumption, FS_Subset
<1> QED
  BY <1>1, FS_Subset, FS_CardinalityType

\* Whatever frames of an answer arrive, and however often, the codes heard are codes
\* of the ECU: padding is skipped (parse_obd_dtc_pairs, common.py:116-131).
LEMMA HeardOfAnswer ==
    ASSUME NEW S \in SUBSET Codes, NEW arrived \in Arrivals(S)
    PROVE  Heard(arrived) \subseteq S
<1>1. DOMAIN arrived = Answer(S)
  BY DEF Arrivals
<1>2. ASSUME NEW f \in Answer(S) PROVE Pairs(f) \subseteq S
  <2>1. f \subseteq S \cup {0}
    BY <1>2 DEF Answer, FrameOf
  <2> QED
    BY <2>1 DEF Pairs
<1> QED
  BY <1>1, <1>2 DEF Heard

\* A request lists codes the ECU has, and counts each once (_request_dtcs,
\* iso9141.py:617-638).
LEMMA ListOfAnswer ==
    ASSUME NEW S \in SUBSET Codes, NEW arrived \in Arrivals(S),
           NEW l, l = IF Silent(arrived) THEN NoList ELSE Listed(arrived)
    PROVE  l \in Lists /\ l.codes \subseteq S /\ l.len = Cardinality(l.codes)
<1>1. Heard(arrived) \subseteq S /\ Cardinality(Heard(arrived)) \in Nat
  <2>1. Heard(arrived) \subseteq S
    BY HeardOfAnswer
  <2> QED
    BY <2>1, FiniteCodes
<1>2. Cardinality({}) = 0
  BY FS_EmptySet
<1> QED
  BY <1>1, <1>2 DEF Lists, NoList, Listed

\* What TypeOK says of the two lists.
LEMMA ListsTyped ==
    ASSUME NEW l1 \in Lists, NEW l2 \in Lists
    PROVE  \A l \in {l1, l2} : l.codes \subseteq Codes \cup {0} /\ l.len \in Nat
BY DEF Lists

\* A client that has read nothing yet.
LEMMA ReadInit == Init => DtcInv
<1> SUFFICES ASSUME Init PROVE DtcInv
  OBVIOUS
<1>1. Cardinality({}) = 0 /\ Cardinality(Codes) \in Nat
  BY FS_EmptySet, FiniteCodes
<1>2. NoList \in Lists
  BY DEF NoList, Lists
<1>3. TypeOK
  <2>1. expected \in 0..Cardinality(Codes) /\ attempt \in 0..Attempts
    BY <1>1, DtcAssumption DEF Init, Attempts
  <2>2. \A l \in {list, result} : l.codes \subseteq Codes \cup {0} /\ l.len \in Nat
    BY <1>2, ListsTyped DEF Init
  <2>3. calls \in 0..MaxCalls /\ changes \in 0..MaxChanges
    BY DtcAssumption DEF Init
  <2>4. stored \subseteq Codes /\ pending \subseteq Codes /\ was \subseteq Codes
    BY DEF Init
  <2> QED
    BY <2>1, <2>2, <2>3, <2>4 DEF Init, TypeOK, Outcomes
<1> QED
  BY <1>1, <1>2, <1>3 DEF Init, DtcInv, DtcTypes, ReadInv, ResultInv, NoList

\* The bike's own diagnosis between two requests: a change of what is stored is one
\* that steady tells of.
LEMMA ChangeKeeps == DtcInv /\ Change => DtcInv'
<1> SUFFICES ASSUME DtcInv, Change PROVE DtcInv'
  OBVIOUS
<1> USE DEF Change, client
<1>1. stored' \subseteq Codes /\ pending' \subseteq Codes /\ was' \subseteq Codes
  BY DEF DtcInv, DtcTypes, TypeOK
<1>2. DtcTypes'
  BY <1>1, DtcAssumption DEF DtcInv, DtcTypes, TypeOK, Attempts
<1>3. steady' => steady /\ stored' = stored
  BY DEF DtcInv, DtcTypes, TypeOK
<1>4. was \subseteq was' /\ stored' \cup pending' \subseteq was'
  OBVIOUS
<1>5. ReadInv'
  BY <1>3, <1>4 DEF DtcInv, ReadInv
<1>6. ResultInv'
  BY <1>3, <1>4 DEF DtcInv, ResultInv
<1> QED
  BY <1>2, <1>5, <1>6 DEF DtcInv

\* _read_status (iso9141.py:537-550): the count is that of the stored codes.
LEMMA ReadBeginsKeeps == DtcInv /\ ReadBegins => DtcInv'
<1> SUFFICES ASSUME DtcInv, ReadBegins PROVE DtcInv'
  OBVIOUS
<1> USE DEF ReadBegins, Return, ecu
<1>1. Cardinality({}) = 0 /\ NoList \in Lists
  BY FS_EmptySet DEF NoList, Lists
<1>2. stored \subseteq Codes /\ pending \subseteq Codes /\ was' \subseteq Codes
  BY DEF DtcInv, DtcTypes, TypeOK
<1>3. Cardinality(stored) \in 0..Cardinality(Codes)
  BY <1>2, FiniteCodes
<1>4. DtcTypes'
  <2>1. list' \in Lists /\ result' \in Lists
    BY <1>1 DEF DtcInv, DtcTypes
  <2>2. calls' \in 0..MaxCalls /\ attempt' \in 0..Attempts /\ expected' \in 0..Cardinality(Codes)
    BY <1>3, DtcAssumption DEF DtcInv, DtcTypes, TypeOK, Attempts
  <2>3. pc' \in {"idle", "stored", "pending"} /\ outcome' \in Outcomes
    BY DEF Outcomes, Escapes
  <2> QED
    BY <1>2, <2>1, <2>2, <2>3, ListsTyped DEF DtcInv, DtcTypes, TypeOK, Attempts
<1>5. ReadInv'
  BY <1>1, <1>2 DEF DtcInv, ReadInv, NoList
<1>6. ResultInv'
  BY <1>1, <1>2 DEF DtcInv, ResultInv, NoList, Escapes
<1> QED
  BY <1>4, <1>5, <1>6 DEF DtcInv

\* One Mode 03 attempt (_read_stored, iso9141.py:640-672): the read goes on with as
\* many codes as the count, or with a warning and at least one.
LEMMA ReadStoredKeeps == DtcInv /\ ReadStored => DtcInv'
<1> SUFFICES ASSUME DtcInv, ReadStored PROVE DtcInv'
  OBVIOUS
<1>1. pc = "stored" /\ UNCHANGED <<ecu, calls, expected, was, steady>>
  BY DEF ReadStored
<1>2. PICK arrived \in Arrivals(stored) :
        LET l == IF Silent(arrived) THEN NoList ELSE Listed(arrived)
        IN  list' = l /\ AfterAttempt(l) /\ listed' = (listed \/ l.len > 0)
  BY DEF ReadStored
<1>3. stored \in SUBSET Codes
  BY DEF DtcInv, DtcTypes, TypeOK
<1>4. list' \in Lists /\ list'.codes \subseteq stored /\ list'.len = Cardinality(list'.codes)
  BY <1>2, <1>3, ListOfAnswer
<1>5. AfterAttempt(list') /\ listed' \in BOOLEAN
  BY <1>2
<1>6. Cardinality({}) = 0 /\ NoList \in Lists
  BY FS_EmptySet DEF NoList, Lists
<1>7. DtcTypes'
  <2>1. result' \in Lists
    BY <1>5, <1>6 DEF DtcInv, DtcTypes, AfterAttempt, Return
  <2>2. attempt' \in 0..Attempts
    BY <1>5, DtcAssumption DEF DtcInv, DtcTypes, TypeOK, AfterAttempt, LastAttempt, Attempts
  <2>3. pc' \in {"idle", "stored", "pending"} /\ outcome' \in Outcomes /\ warned' \in BOOLEAN
    BY <1>1, <1>5 DEF DtcInv, DtcTypes, TypeOK, AfterAttempt, Return, Outcomes
  <2> QED
    BY <1>1, <1>4, <1>5, <2>1, <2>2, <2>3, ListsTyped DEF DtcInv, DtcTypes, TypeOK, Attempts, ecu
<1>8. ReadInv'
  <2>1. pc' = "pending" => (list'.len >= expected \/ warned') /\ (list'.len # 0 \/ expected = 0)
    BY <1>1, <1>4, <1>5 DEF AfterAttempt, Unlisted, Return, Lists, DtcInv, DtcTypes, TypeOK
  <2> QED
    BY <1>1, <1>4, <2>1 DEF DtcInv, ReadInv, ecu
<1>9. ResultInv'
  <2>1. CASE UNCHANGED <<outcome, result>> /\ warned' = warned
    BY <1>1, <2>1 DEF DtcInv, ResultInv, ecu
  <2>2. CASE UNCHANGED <<outcome, result>> /\ warned' = TRUE
    BY <1>1, <2>2 DEF DtcInv, ResultInv, ecu
  <2>3. CASE outcome' = "unlisted" /\ result' = NoList
    BY <1>1, <1>6, <2>3 DEF DtcInv, ResultInv, ecu, NoList
  <2> QED
    BY <1>5, <2>1, <2>2, <2>3 DEF AfterAttempt, Return
<1> QED
  BY <1>7, <1>8, <1>9 DEF DtcInv

\* Mode 07 ends the read (read_dtcs, iso9141.py:687-698): a pending code that is
\* stored too counts once, and a list as long as the count is the whole of it.
LEMMA ReadPendingKeeps == DtcInv /\ ReadPending => DtcInv'
<1> SUFFICES ASSUME DtcInv, ReadPending PROVE DtcInv'
  OBVIOUS
<1>1. pc = "pending" /\ UNCHANGED <<ecu, calls, expected, attempt, list, warned, ghost>>
  BY DEF ReadPending
<1>2. PICK arrived \in Arrivals(pending) :
        LET p == IF Silent(arrived) THEN NoList ELSE Listed(arrived)
        IN  Return("read", [codes |-> list.codes \cup p.codes, len |-> ResultLen(p)])
  BY DEF ReadPending
<1> DEFINE p == IF Silent(arrived) THEN NoList ELSE Listed(arrived)
<1>3. pending \in SUBSET Codes /\ stored \in SUBSET Codes /\ list \in Lists
  BY DEF DtcInv, DtcTypes, TypeOK
<1>4. p \in Lists /\ p.codes \subseteq pending
  BY <1>3, ListOfAnswer
<1> HIDE DEF p
<1>5. /\ outcome' = "read" /\ pc' = "idle"
      /\ result'.codes = list.codes \cup p.codes
      /\ result'.len = list.len + Cardinality(p.codes \ list.codes)
  BY <1>2 DEF Return, ResultLen, p
<1>6. /\ IsFiniteSet(list.codes) /\ IsFiniteSet(p.codes \ list.codes)
      /\ Cardinality(list.codes) \in Nat /\ Cardinality(p.codes \ list.codes) \in Nat
  BY <1>3, <1>4, FiniteCodes DEF Lists
<1>7. result'.len = Cardinality(result'.codes)
  <2>1. Cardinality(list.codes \cup (p.codes \ list.codes))
          = Cardinality(list.codes) + Cardinality(p.codes \ list.codes)
              - Cardinality(list.codes \cap (p.codes \ list.codes))
    BY <1>6, FS_Union
  <2>2. /\ list.codes \cup (p.codes \ list.codes) = list.codes \cup p.codes
        /\ list.codes \cap (p.codes \ list.codes) = {}
    OBVIOUS
  <2>3. list.len = Cardinality(list.codes) /\ Cardinality({}) = 0
    BY FS_EmptySet DEF DtcInv, ReadInv
  <2>4. Cardinality(list.codes \cup p.codes)
          = Cardinality(list.codes) + Cardinality(p.codes \ list.codes) - Cardinality({})
    BY <2>1, <2>2, Zenon
  <2>5. Cardinality(list.codes) + Cardinality(p.codes \ list.codes) - Cardinality({})
          = list.len + Cardinality(p.codes \ list.codes)
    BY <1>6, <2>3
  <2> QED
    BY <1>5, <2>4, <2>5, Zenon
<1>8. result' \in Lists
  BY <1>2, <1>3, <1>4, <1>6 DEF Lists, Return, ResultLen, p
<1>9. DtcTypes'
  BY <1>1, <1>5, <1>8 DEF DtcInv, DtcTypes, TypeOK, Outcomes, Lists, ecu, ghost, Attempts
<1>10. ReadInv'
  BY <1>1, <1>5 DEF DtcInv, ReadInv
<1>11. ResultInv'
  <2>1. result'.codes \subseteq was'
    BY <1>1, <1>4, <1>5 DEF DtcInv, ReadInv, ghost
  <2>2. result'.len # 0 \/ expected' = 0
    BY <1>1, <1>3, <1>5, <1>6 DEF DtcInv, ReadInv, Lists
  <2>3. steady' => expected' = Cardinality(stored')
    BY <1>1 DEF DtcInv, ReadInv, ghost, ecu
  <2>4. steady' /\ ~warned' => stored' \subseteq result'.codes
    <3> SUFFICES ASSUME steady, ~warned PROVE stored \subseteq list.codes
      BY <1>1, <1>5 DEF ghost, ecu
    <3>1. list.codes \subseteq stored /\ Cardinality(list.codes) >= Cardinality(stored)
      BY <1>1 DEF DtcInv, ReadInv
    <3>2. IsFiniteSet(stored) /\ Cardinality(stored) \in Nat
      BY <1>3, FiniteCodes
    <3>3. Cardinality(list.codes) <= Cardinality(stored)
      BY <3>1, <3>2, FS_Subset
    <3>4. Cardinality(list.codes) = Cardinality(stored)
      BY <1>6, <3>1, <3>2, <3>3
    <3> QED
      BY <3>1, <3>2, <3>4, FS_Subset
  <2> QED
    BY <1>5, <1>7, <2>1, <2>2, <2>3, <2>4 DEF ResultInv
<1> QED
  BY <1>9, <1>10, <1>11 DEF DtcInv

\* A SerialException or Ctrl-C ends a read without a list.
LEMMA ReadEscapesKeeps == DtcInv /\ ReadEscapes => DtcInv'
<1> SUFFICES ASSUME DtcInv, ReadEscapes PROVE DtcInv'
  OBVIOUS
<1> USE DEF ReadEscapes, Return
<1>1. Cardinality({}) = 0 /\ NoList \in Lists
  BY FS_EmptySet DEF NoList, Lists
<1>2. DtcTypes'
  BY <1>1 DEF DtcInv, DtcTypes, TypeOK, Outcomes, Escapes, NoList, ecu, ghost, Attempts
<1>3. ReadInv'
  BY DEF DtcInv, ReadInv
<1>4. ResultInv'
  BY <1>1 DEF DtcInv, ResultInv, NoList, Escapes
<1> QED
  BY <1>2, <1>3, <1>4 DEF DtcInv

\* clear_dtcs (iso9141.py:705-712): acknowledged, it has left no code.
LEMMA ClearKeeps == DtcInv /\ ClearDtcs => DtcInv'
<1> SUFFICES ASSUME DtcInv, ClearDtcs PROVE DtcInv'
  OBVIOUS
<1> USE DEF ClearDtcs, Return
<1>1. Cardinality({}) = 0 /\ NoList \in Lists
  BY FS_EmptySet DEF NoList, Lists
<1>2. DtcTypes'
  <2>1. list' \in Lists /\ result' \in Lists
    BY <1>1 DEF DtcInv, DtcTypes
  <2>2. calls' \in 0..MaxCalls
    BY DtcAssumption DEF DtcInv, DtcTypes, TypeOK
  <2>3. pc' \in {"idle", "stored", "pending"} /\ outcome' \in Outcomes
    BY DEF Outcomes, Escapes
  <2>4. stored' \subseteq Codes /\ pending' \subseteq Codes /\ was' \subseteq Codes
    BY DEF DtcInv, DtcTypes, TypeOK
  <2> QED
    BY <2>1, <2>2, <2>3, <2>4, ListsTyped DEF DtcInv, DtcTypes, TypeOK, Attempts
<1>3. ReadInv'
  BY DEF DtcInv, ReadInv
<1>4. ResultInv'
  BY <1>1 DEF DtcInv, ResultInv, NoList, Escapes
<1> QED
  BY <1>2, <1>3, <1>4 DEF DtcInv

----------------------------------------------------------------------------
\* A step that leaves the conversation alone.
LEMMA DtcUnchanged == DtcInv /\ UNCHANGED vars => DtcInv'
BY DEF vars, ecu, client, ghost, DtcInv, DtcTypes, TypeOK, ReadInv, ResultInv, Attempts

\* Every step of a command leaves the conversation as it is, takes a step of it,
\* or gives it an end that returned no list.
Ended ==
    /\ outcome' \in Outcomes \ {"read", "cleared"}
    /\ UNCHANGED <<ecu, ghost, calls, pc, expected, attempt, list, warned, result>>

\* A call that failed before it asked, or asked for something else, returns no list.
LEMMA EndedKeeps == DtcInv /\ Ended => DtcInv'
<1> SUFFICES ASSUME DtcInv, Ended PROVE DtcInv'
  OBVIOUS
<1> USE DEF Ended, ecu, ghost
<1>1. DtcTypes'
  BY DEF DtcInv, DtcTypes, TypeOK, Attempts
<1>2. ReadInv'
  BY DEF DtcInv, ReadInv
<1>3. ResultInv'
  BY DEF DtcInv, ResultInv
<1> QED
  BY <1>1, <1>2, <1>3 DEF DtcInv

\* A command starts with a client of its own.
LEMMA StartKeepsDtc == DtcInv /\ CommandInv /\ Start => DtcInv'
<1> SUFFICES ASSUME DtcInv, CommandInv, Start PROVE DtcInv'
  OBVIOUS
<1>1. /\ outcome' = "none" /\ result' = NoList /\ list' = NoList
      /\ expected' = 0 /\ attempt' = 0 /\ warned' = FALSE
      /\ UNCHANGED <<ecu, calls, pc, ghost>> /\ phase = "shell"
  BY DEF Start
<1>2. pc = "idle"
  BY <1>1 DEF CommandInv
<1>3. Cardinality({}) = 0 /\ NoList \in Lists
  BY FS_EmptySet DEF NoList, Lists
<1>4. TypeOK'
  <2>1. expected' \in 0..Cardinality(Codes) /\ attempt' \in 0..Attempts
    BY <1>1, FiniteCodes, DtcAssumption DEF Attempts
  <2>2. \A l \in {list', result'} : l.codes \subseteq Codes \cup {0} /\ l.len \in Nat
    BY <1>1, <1>3, ListsTyped
  <2> QED
    BY <1>1, <2>1, <2>2 DEF DtcInv, DtcTypes, TypeOK, Outcomes, ecu, ghost, Attempts
<1>5. ReadInv'
  BY <1>1, <1>2, <1>3 DEF ReadInv, NoList
<1>6. ResultInv'
  BY <1>1, <1>3 DEF ResultInv, NoList
<1> QED
  BY <1>1, <1>3, <1>4, <1>5, <1>6 DEF DtcInv, DtcTypes

\* Every step of a command keeps what the conversation knows.
LEMMA StepKeepsDtc == DtcInv /\ CommandInv /\ [CliNext]_cliVars => DtcInv'
<1> SUFFICES ASSUME DtcInv, CommandInv, [CliNext]_cliVars PROVE DtcInv'
  OBVIOUS
<1>1. CASE UNCHANGED vars
  BY <1>1, DtcUnchanged
<1>2. CASE Diagnosis
  BY <1>2, ChangeKeeps DEF Diagnosis
<1>3. CASE Start
  BY <1>3, StartKeepsDtc
<1>4. CASE Open \/ Connect \/ AskOther
  <2>1. UNCHANGED vars \/ Ended
    BY <1>4 DEF Open, Connect, AskOther, Ends, Ended, Outcomes, Escapes, vars, client
  <2> QED
    BY <2>1, EndedKeeps, DtcUnchanged
<1>5. CASE AskBegins \/ AskGoesOn
  BY <1>5, ReadBeginsKeeps, ClearKeeps, ReadStoredKeeps, ReadPendingKeeps, ReadEscapesKeeps
  DEF AskBegins, AskGoesOn
<1>6. CASE Plug \/ AtShell \/ Prompt \/ Opened \/ Close \/ Show
  BY <1>1, <1>6 DEF Plug, AtShell, Prompt, Opened, Close, Show, cliVars
<1> QED
  BY <1>1, <1>2, <1>3, <1>4, <1>5, <1>6 DEF CliNext, cliVars

----------------------------------------------------------------------------
\* The port and the flag of a command line (_build_parser, cli.py:24-83).
LEMMA ArgumentsTyped ==
    ASSUME NEW a \in Arguments
    PROVE  a.port \in Ports \cup {NoPort, MockPort} /\ a.yes \in BOOLEAN
<1>1. CASE a = NoArguments
  BY <1>1 DEF NoArguments
<1>2. CASE a # NoArguments
  BY <1>2 DEF Arguments
<1> QED
  BY <1>1, <1>2

\* The port announced is a device or none: autodetection picks the one candidate
\* there is (_autodetect_port, cli.py:154-170).
LEMMA ResolvedIsADevice ==
    ASSUME NEW a \in Arguments, Resolvable(a), plugged \subseteq Ports
    PROVE  Resolved(a) \in Ports \cup {NoPort, MockPort}
<1>1. CASE a.port # NoPort
  BY <1>1, ArgumentsTyped DEF Resolved
<1>2. CASE a.port = NoPort
  <2>1. Candidates # {}
    BY <1>2, FS_EmptySet DEF Resolvable
  <2>2. (CHOOSE p \in Candidates : TRUE) \in Candidates
    BY <2>1
  <2> QED
    BY <1>2, <2>2 DEF Resolved, Candidates
<1> QED
  BY <1>1, <1>2

\* A shell that has run nothing yet.
LEMMA CliInitially == CliInit => CliTypes /\ CommandInv /\ TruthfulOutput /\ ClosedAtExit
BY DEF CliInit, Init, CliTypes, CommandInv, TruthfulOutput, ClosedAtExit, Arguments, Phases,
       NoArguments

\* A command starts with a port that exists (_run, cli.py:434-456).
LEMMA StartTypes == CliTypes /\ Start => CliTypes'
<1> SUFFICES ASSUME CliTypes, Start PROVE CliTypes'
  OBVIOUS
<1>1. PICK a \in Arguments :
         /\ args' = a /\ confirmed' = a.yes
         /\ IF a.command = "ports"
            THEN announced' = NoPort /\ printed' = "ports" /\ Exit(0)
            ELSE /\ printed' = "nothing"
                 /\ IF ~Resolvable(a)
                    THEN announced' = NoPort /\ Exit(1)
                    ELSE /\ announced' = Resolved(a) /\ code' = 0
                         /\ phase' = IF a.command = "clear" /\ ~a.yes
                                     THEN "prompt" ELSE "build"
  BY DEF Start
<1>2. held' = NoPort /\ used' = NoPort /\ plugged' = plugged
  BY DEF Start
<1>3. a.yes \in BOOLEAN
  BY ArgumentsTyped
<1>4. announced' \in Ports \cup {NoPort, MockPort}
  BY <1>1, ResolvedIsADevice DEF CliTypes
<1>5. phase' \in Phases
  BY <1>1 DEF Exit, Phases
<1> QED
  BY <1>1, <1>2, <1>3, <1>4, <1>5 DEF CliTypes

\* Every step keeps the types.
LEMMA StepTypes == CliTypes /\ [CliNext]_cliVars => CliTypes'
<1> SUFFICES ASSUME CliTypes, [CliNext]_cliVars PROVE CliTypes'
  OBVIOUS
<1> USE DEF CliTypes, Phases, process, shell
<1>1. CASE Plug
  BY <1>1 DEF Plug
<1>2. CASE Diagnosis
  BY <1>2 DEF Diagnosis
<1>3. CASE Start
  BY <1>3, StartTypes
<1>4. CASE Prompt
  BY <1>4 DEF Prompt, Exit
<1>5. CASE Open
  BY <1>5 DEF Open, Device, Exit
<1>6. CASE Opened \/ Connect
  BY <1>6 DEF Opened, Connect, Ends, Exit
<1>7. CASE AskBegins \/ AskGoesOn \/ AskOther
  BY <1>7 DEF AskBegins, AskGoesOn, AskOther, Ends
<1>8. CASE Close \/ Show
  BY <1>8 DEF Close, Closed, Show, Exit
<1>9. CASE UNCHANGED cliVars
  BY <1>9 DEF cliVars
<1> QED
  BY <1>1, <1>2, <1>3, <1>4, <1>5, <1>6, <1>7, <1>8, <1>9 DEF CliNext, AtShell

\* A new command has printed nothing, holds nothing, and needs no further consent
\* when --yes gave it (cli.py:364-375).
LEMMA StartKeepsParts == CliTypes /\ DtcInv /\ CommandParts /\ Start => CommandParts'
<1> SUFFICES ASSUME CliTypes, DtcInv, CommandParts, Start PROVE CommandParts'
  OBVIOUS
<1>1. PICK a \in Arguments :
         /\ args' = a /\ confirmed' = a.yes
         /\ IF a.command = "ports"
            THEN announced' = NoPort /\ printed' = "ports" /\ Exit(0)
            ELSE /\ printed' = "nothing"
                 /\ IF ~Resolvable(a)
                    THEN announced' = NoPort /\ Exit(1)
                    ELSE /\ announced' = Resolved(a) /\ code' = 0
                         /\ phase' = IF a.command = "clear" /\ ~a.yes
                                     THEN "prompt" ELSE "build"
  BY DEF Start
<1>2. phase = "shell" /\ outcome' = "none" /\ held' = NoPort /\ pc' = pc
  BY DEF Start
<1>3. pc' = "idle"
  BY <1>2 DEF CommandParts, CommandInv
<1>4. /\ phase' \in {"shell", "prompt", "build"}
      /\ phase' # "shell" => printed' = "nothing"
      /\ phase' = "shell" => printed' \in {"ports", "nothing"}
      /\ phase' = "build" /\ a.command = "clear" => a.yes
  BY <1>1 DEF Exit
<1>5. CommandInv'
  BY <1>1, <1>2, <1>3, <1>4 DEF CommandInv
<1>6. TruthfulOutput' /\ ClosedAtExit'
  BY <1>2, <1>4 DEF TruthfulOutput, ClosedAtExit
<1> QED
  BY <1>5, <1>6 DEF CommandParts

\* Cables that change leave a running command as it is: the port is its own copy.
LEMMA PlugKeepsParts == CommandParts /\ (Plug \/ UNCHANGED cliVars) => CommandParts'
<1> SUFFICES ASSUME CommandParts, Plug \/ UNCHANGED cliVars PROVE CommandParts'
  OBVIOUS
<1>1. UNCHANGED <<vars, process>>
  BY DEF Plug, cliVars
<1>2. UNCHANGED <<pc, outcome, steady, stored, warned, result>>
  BY <1>1 DEF vars, ecu, client, ghost
<1>3. UNCHANGED <<args, phase, announced, confirmed, held, printed, code>>
  BY <1>1 DEF process
<1>4. CommandInv'
  BY <1>2, <1>3 DEF CommandParts, CommandInv, Succeeded
<1>5. TruthfulOutput' /\ ClosedAtExit'
  BY <1>2, <1>3 DEF CommandParts, TruthfulOutput, ClosedAtExit
<1> QED
  BY <1>4, <1>5 DEF CommandParts

\* The bike's diagnosis falsifies no output of a bike that kept its codes.
LEMMA DiagnosisKeepsParts == DtcInv /\ CommandParts /\ Diagnosis => CommandParts'
<1> SUFFICES ASSUME DtcInv, CommandParts, Diagnosis PROVE CommandParts'
  OBVIOUS
<1>1. UNCHANGED <<client, process>>
  BY DEF Diagnosis, Change
<1>2. steady' => steady /\ stored' = stored
  BY DEF Diagnosis, Change, DtcInv, DtcTypes, TypeOK
<1>3. CommandInv' /\ ClosedAtExit'
  BY <1>1 DEF CommandParts, CommandInv, ClosedAtExit, Succeeded, client, process
<1>4. TruthfulOutput'
  BY <1>1, <1>2 DEF CommandParts, TruthfulOutput, client, process
<1> QED
  BY <1>3, <1>4 DEF CommandParts

\* Past the prompt the user has agreed (_cmd_clear, cli.py:369-372).
LEMMA PromptKeepsParts == CliTypes /\ CommandParts /\ Prompt => CommandParts'
<1> SUFFICES ASSUME CliTypes, CommandParts, Prompt PROVE CommandParts'
  OBVIOUS
<1>1. /\ phase = "prompt" /\ held = NoPort /\ outcome = "none" /\ pc = "idle"
      /\ printed = "nothing"
  BY DEF Prompt, CommandParts, CommandInv
<1>2. /\ UNCHANGED <<vars, args, held>>
      /\ \/ phase' = "build" /\ confirmed' /\ printed' = printed
         \/ phase' = "shell" /\ printed' \in {"nothing", "aborted"}
  BY <1>1 DEF Prompt, Agrees, Exit
<1> QED
  BY <1>1, <1>2
  DEF CommandParts, CommandInv, TruthfulOutput, ClosedAtExit, vars, client

\* The device opened is the one announced; one that cannot be is not held.
LEMMA OpenKeepsParts == CliTypes /\ CommandParts /\ Open => CommandParts'
<1> SUFFICES ASSUME CliTypes, CommandParts, Open PROVE CommandParts'
  OBVIOUS
<1>1. /\ phase = "build" /\ held = NoPort /\ outcome = "none" /\ pc = "idle"
      /\ printed = "nothing" /\ (args.command = "clear" => confirmed)
  BY DEF Open, CommandParts, CommandInv
<1>2. /\ UNCHANGED <<pc, args, announced, confirmed, printed>>
      /\ \/ held' = announced /\ phase' = "opening" /\ outcome' = outcome
         \/ held' = held /\ phase' = "shell" /\ outcome' = "unopened"
  BY DEF Open, Exit, Device
<1> QED
  BY <1>1, <1>2 DEF CommandParts, CommandInv, TruthfulOutput, ClosedAtExit

\* open() returns, or Ctrl-C leaves the device held with exit code 130.
LEMMA OpenedKeepsParts == CliTypes /\ CommandParts /\ Opened => CommandParts'
<1> SUFFICES ASSUME CliTypes, CommandParts, Opened PROVE CommandParts'
  OBVIOUS
<1>1. /\ phase = "opening" /\ held = announced /\ outcome = "none" /\ pc = "idle"
      /\ printed = "nothing" /\ (args.command = "clear" => confirmed)
  BY DEF Opened, CommandParts, CommandInv
<1>2. /\ UNCHANGED <<vars, args, announced, confirmed, held, printed>>
      /\ phase' = "connect" \/ (phase' = "shell" /\ code' = 130)
  BY DEF Opened, Exit
<1> QED
  BY <1>1, <1>2 DEF CommandParts, CommandInv, TruthfulOutput, ClosedAtExit, vars, client

\* A connect that fails ends the command with no list.
LEMMA ConnectKeepsParts == CommandParts /\ Connect => CommandParts'
<1> SUFFICES ASSUME CommandParts, Connect PROVE CommandParts'
  OBVIOUS
<1>1. /\ phase = "connect" /\ held = announced /\ outcome = "none" /\ pc = "idle"
      /\ printed = "nothing" /\ (args.command = "clear" => confirmed)
  BY DEF Connect, CommandParts, CommandInv
<1>2. /\ UNCHANGED <<pc, args, announced, confirmed, held, printed>>
      /\ \/ phase' = "ask" /\ outcome' = outcome
         \/ phase' = "asked" /\ outcome' \notin {"read", "cleared"}
  BY DEF Connect, Ends
<1> QED
  BY <1>1, <1>2 DEF CommandParts, CommandInv, TruthfulOutput, ClosedAtExit

\* Only a read reads and only a clear clears (_with_service, cli.py:223-234).
LEMMA AskKeepsParts == CommandParts /\ (AskBegins \/ AskOther) => CommandParts'
<1> SUFFICES ASSUME CommandParts, AskBegins \/ AskOther PROVE CommandParts'
  OBVIOUS
<1>1. /\ phase = "ask" /\ held = announced /\ pc = "idle" /\ outcome = "none"
      /\ printed = "nothing" /\ (args.command = "clear" => confirmed)
  BY DEF AskBegins, AskOther, OnBike, CommandParts, CommandInv
<1>2. UNCHANGED <<args, announced, confirmed, held, printed>> /\ phase' = "asked"
  BY DEF AskBegins, AskOther, Ends
<1>3. /\ pc' # "idle" => args.command = "faults" /\ outcome' = "none"
      /\ outcome' # "read"
      /\ outcome' = "cleared" => args.command = "clear"
  BY <1>1
  DEF AskBegins, AskOther, OnBike, ReadBegins, ClearDtcs, Return, Ends, Escapes
<1> QED
  BY <1>1, <1>2, <1>3 DEF CommandParts, CommandInv, TruthfulOutput, ClosedAtExit

\* The requests of a read happen inside the with block.
LEMMA GoesOnKeepsParts == CommandParts /\ AskGoesOn => CommandParts'
<1> SUFFICES ASSUME CommandParts, AskGoesOn PROVE CommandParts'
  OBVIOUS
<1>1. pc # "idle"
  BY DEF AskGoesOn, ReadStored, ReadPending, ReadEscapes
<1>2. phase = "asked" /\ args.command = "faults" /\ outcome = "none"
  BY <1>1 DEF CommandParts, CommandInv
<1>3. UNCHANGED process
  BY DEF AskGoesOn
<1>4. outcome' # "cleared" /\ (pc' # "idle" => outcome' = "none")
  BY <1>2
  DEF AskGoesOn, ReadStored, ReadPending, ReadEscapes, AfterAttempt, Return, Escapes
<1> QED
  BY <1>2, <1>3, <1>4 DEF CommandParts, CommandInv, TruthfulOutput, ClosedAtExit, process

\* The with block closes the device; what is shown has succeeded.
LEMMA CloseKeepsParts == CommandParts /\ Close => CommandParts'
<1> SUFFICES ASSUME CommandParts, Close PROVE CommandParts'
  OBVIOUS
<1>1. phase = "asked" /\ pc = "idle" /\ printed = "nothing"
  BY DEF Close, CommandParts, CommandInv
<1>2. /\ held' = NoPort /\ UNCHANGED <<vars, args, announced, confirmed, printed>>
      /\ (phase' = "show" /\ Succeeded) \/ phase' = "shell"
  BY DEF Close, Closed, Shown, Exit
<1> QED
  BY <1>1, <1>2
  DEF CommandParts, CommandInv, TruthfulOutput, ClosedAtExit, Succeeded, vars, client

\* What is printed is what the conversation found: an empty list means a count of
\* zero, so no stored code (_print_dtcs, cli.py:242-257).
LEMMA ShowKeepsParts == DtcInv /\ CommandParts /\ Show => CommandParts'
<1> SUFFICES ASSUME DtcInv, CommandParts, Show PROVE CommandParts'
  OBVIOUS
<1>1. phase = "show" /\ Succeeded /\ held = NoPort /\ pc = "idle" /\ printed = "nothing"
  BY DEF Show, CommandParts, CommandInv
<1>2. /\ UNCHANGED <<vars, args, announced, confirmed, held>> /\ phase' = "shell"
      /\ printed' = Text \/ printed' = printed
  BY DEF Show, Exit
<1>3. CommandInv' /\ ClosedAtExit'
  BY <1>1, <1>2 DEF CommandParts, CommandInv, ClosedAtExit, vars, client
<1>4. ASSUME steady, Text \in {"cleared", "no codes"} PROVE stored = {}
  <2>1. CASE outcome = "cleared"
    BY <1>4, <2>1 DEF DtcInv, ResultInv
  <2>2. CASE outcome = "read"
    <3>1. result.len = 0
      BY <1>4, <2>2 DEF Text, CommandParts, CommandInv
    <3>2. Cardinality(stored) = 0
      BY <1>4, <2>2, <3>1 DEF DtcInv, ResultInv
    <3>3. IsFiniteSet(stored)
      BY FiniteCodes DEF DtcInv, DtcTypes, TypeOK
    <3> QED
      BY <3>2, <3>3, FS_EmptySet
  <2> QED
    <3>1. outcome # "reported"
      BY <1>4 DEF Text
    <3> QED
      BY <1>1, <2>1, <2>2, <3>1 DEF Succeeded
<1>5. ASSUME steady, Text = "codes" PROVE warned \/ stored \subseteq result.codes
  <2>1. outcome # "reported" /\ args.command # "clear"
    BY <1>5 DEF Text
  <2>2. outcome = "read"
    BY <1>1, <2>1 DEF Succeeded, CommandParts, CommandInv
  <2> QED
    BY <1>5, <2>2 DEF DtcInv, ResultInv
<1>6. TruthfulOutput'
  BY <1>1, <1>2, <1>4, <1>5 DEF TruthfulOutput, vars, ecu, client, ghost
<1> QED
  BY <1>3, <1>6 DEF CommandParts

\* Every step keeps the command's part of the invariant.
LEMMA StepKeepsParts ==
    CliTypes /\ DtcInv /\ CommandParts /\ [CliNext]_cliVars => CommandParts'
BY PlugKeepsParts, DiagnosisKeepsParts, StartKeepsParts, PromptKeepsParts, OpenKeepsParts,
   OpenedKeepsParts, ConnectKeepsParts, AskKeepsParts, GoesOnKeepsParts, CloseKeepsParts,
   ShowKeepsParts DEF CliNext, AtShell

----------------------------------------------------------------------------
\* The inductive invariant holds of every run of commands.
THEOREM CliInvHolds == CliSpec => []CliInv
<1> USE DEF CliInv
<1>1. CliInit => CliInv
  BY ReadInit, CliInitially DEF CliInit, CommandParts
<1>2. CliInv /\ [CliNext]_cliVars => CliInv'
  BY StepTypes, StepKeepsDtc, StepKeepsParts DEF CommandParts
<1> QED
  BY <1>1, <1>2, PTL DEF CliSpec

\* Every variable of the conversation holds a value of its kind.
THEOREM SpecTypeOK == CliSpec => []TypeOK
BY CliInvHolds, PTL DEF CliInv, DtcInv, DtcTypes

\* Lost answers never read as a clean bill: a read that lists nothing is one whose
\* ECU said it stores nothing (iso9141.py:643-647).
THEOREM SpecNoFalseClean == CliSpec => []NoFalseClean
<1>1. CliInv => NoFalseClean
  BY DEF CliInv, DtcInv, ResultInv, NoFalseClean
<1> QED
  BY <1>1, CliInvHolds, PTL

\* A read without a warning, of an ECU that kept its codes, has listed all of them,
\* however the frames were lost and repeated (iso9141.py:622-625).
THEOREM SpecCompleteUnlessWarned == CliSpec => []CompleteUnlessWarned
<1>1. ASSUME CliInv, pc = "pending", ~warned, steady PROVE list.codes = stored
  <2>1. /\ list.codes \subseteq stored /\ list.len = Cardinality(list.codes)
        /\ list.len >= Cardinality(stored)
    BY <1>1 DEF CliInv, DtcInv, ReadInv
  <2>2. IsFiniteSet(stored) /\ Cardinality(stored) \in Nat
    BY <1>1, FiniteCodes DEF CliInv, DtcInv, DtcTypes, TypeOK
  <2>3. Cardinality(list.codes) \in Nat /\ Cardinality(list.codes) <= Cardinality(stored)
    BY <2>1, <2>2, FS_Subset, FS_CardinalityType
  <2> QED
    BY <2>1, <2>2, <2>3, FS_Subset
<1>2. CliInv => CompleteUnlessWarned
  BY <1>1 DEF CompleteUnlessWarned
<1> QED
  BY <1>2, CliInvHolds, PTL

\* A read lists only codes that the ECU had meanwhile, each once (iso9141.py:695-698).
THEOREM SpecListIsSound == CliSpec => []ListIsSound
<1>1. CliInv => ListIsSound
  BY DEF CliInv, DtcInv, ReadInv, ResultInv, ListIsSound
<1> QED
  BY <1>1, CliInvHolds, PTL

\* What a command prints is true of a bike that kept its codes since it was asked
\* (cli.py:232-257).
THEOREM SpecTruthfulOutput == CliSpec => []TruthfulOutput
BY CliInvHolds, PTL DEF CliInv, CommandParts

\* A command leaves the device closed, but for Ctrl-C inside open()
\* (service.py:529-534).
THEOREM SpecClosedAtExit == CliSpec => []ClosedAtExit
BY CliInvHolds, PTL DEF CliInv, CommandParts

\* A command removes codes only with the user's consent and over the port it has
\* announced, even if the cables changed in between (cli.py:107-109, 365-372).
THEOREM SpecClearsOnlyConfirmed == CliSpec => ClearsOnlyConfirmed
<1>1. ASSUME CliInv, [CliNext]_cliVars, stored' # stored, changes' = changes
      PROVE  confirmed /\ held = announced
  <2>1. ~Change
    BY <1>1 DEF Change, CliInv, DtcInv, DtcTypes, TypeOK
  <2>2. AskBegins /\ ClearDtcs /\ OnBike("clear")
    <3>1. ~(UNCHANGED ecu)
      BY <1>1 DEF ecu
    <3>2. ~(UNCHANGED cliVars)
      BY <3>1 DEF cliVars, vars
    <3>3. ~Plug /\ ~AtShell /\ ~Prompt /\ ~Opened /\ ~Close /\ ~Show /\ ~Diagnosis
      BY <2>1, <3>1 DEF Plug, AtShell, Prompt, Opened, Close, Show, Diagnosis, cliVars, vars
    <3>4. ~Start /\ ~Open /\ ~Connect /\ ~AskOther /\ ~AskGoesOn /\ ~ReadBegins
      BY <3>1
      DEF Start, Open, Connect, AskOther, AskGoesOn, ReadBegins, ReadStored, ReadPending,
          ReadEscapes
    <3> QED
      BY <1>1, <3>2, <3>3, <3>4 DEF CliNext, AskBegins
  <2> QED
    BY <1>1, <2>2 DEF OnBike, CliInv, CommandParts, CommandInv
<1>2. CliInv /\ [CliNext]_cliVars
        => [stored' # stored /\ changes' = changes => confirmed /\ held = announced]_cliVars
  BY <1>1
<1> QED
  BY <1>2, CliInvHolds, PTL DEF CliSpec, ClearsOnlyConfirmed

----------------------------------------------------------------------------
\* The digits of a byte pair are digits, and the first is one that can be encoded.
LEMMA DecodedIsWritten ==
    ASSUME NEW high \in Bytes, NEW low \in Bytes
    PROVE  Decoded(high, low) \in Written /\ Encodable(Decoded(high, low))
<1>1. (high \div 64) % 4 \in 0..3 /\ (high \div 16) % 4 \in 0..3
  BY SMT DEF Bytes
<1>2. high % 16 \in Nibble /\ (low \div 16) % 16 \in Nibble /\ low % 16 \in Nibble
  BY SMT DEF Bytes, Nibble
<1>3. Letters[((high \div 64) % 4) + 1] \in {"P", "C", "B", "U"}
  BY <1>1, SMT DEF Letters
<1> QED
  BY <1>1, <1>2, <1>3, SMT DEF Decoded, Written, Encodable, Nibble

\* Every pair of bytes the ECU can send is a code of its own: encoding what was
\* decoded gives the pair back, so no two faults are shown as one (dtc.py:31-43).
THEOREM EncodeInvertsDecode ==
    ASSUME NEW high \in Bytes, NEW low \in Bytes
    PROVE  High(Decoded(high, low)) = high /\ Low(Decoded(high, low)) = low
<1> DEFINE i == (high \div 64) % 4
<1>1. i \in 0..3 /\ i = high \div 64
  BY SMT DEF Bytes
<1>2. IndexOf(Letters[i + 1]) = i
  <2>1. i = 0 \/ i = 1 \/ i = 2 \/ i = 3
    BY <1>1, SMT
  <2> QED
    BY <2>1, SMT DEF IndexOf, Letters
<1>3. (high \div 64) * 64 + ((high \div 16) % 4) * 16 + (high % 16) = high
  BY SMT DEF Bytes
<1>4. ((low \div 16) % 16) * 16 + (low % 16) = low
  BY SMT DEF Bytes
<1> QED
  BY <1>1, <1>2, <1>3, <1>4, SMT DEF High, Low, Decoded

\* The fields of a byte do not overlap.
LEMMA FieldsApart ==
    ASSUME NEW i \in 0..3, NEW d1 \in 0..3, NEW d2 \in 0..15
    PROVE  /\ (i * 64 + d1 * 16 + d2) \div 64 = i
           /\ ((i * 64 + d1 * 16 + d2) \div 16) % 4 = d1
           /\ (i * 64 + d1 * 16 + d2) % 16 = d2
<1>1. (i * 64 + d1 * 16 + d2) \div 64 = i
  BY SMT
<1>2. (i * 64 + d1 * 16 + d2) \div 16 = i * 4 + d1
  BY SMT
<1>3. (i * 4 + d1) % 4 = d1
  BY SMT
<1>4. (i * 64 + d1 * 16 + d2) % 16 = d2
  BY SMT
<1> QED
  BY <1>1, <1>2, <1>3, <1>4

\* A code whose first digit is at most 3 survives the two bytes; the ECU double
\* answers with just the codes it was seeded with (dtc.py:46-69, 134-146).
THEOREM DecodeInvertsEncode ==
    ASSUME NEW dtc \in Written, Encodable(dtc)
    PROVE  /\ High(dtc) \in Bytes /\ Low(dtc) \in Bytes
           /\ Decoded(High(dtc), Low(dtc)) = dtc
<1> DEFINE i == IndexOf(dtc.letter)
<1>1. /\ dtc.d1 \in 0..3 /\ dtc.d2 \in 0..15 /\ dtc.d3 \in 0..15 /\ dtc.d4 \in 0..15
      /\ dtc.letter \in {"P", "C", "B", "U"}
  BY SMT DEF Written, Nibble, Encodable
<1>2. i \in 0..3 /\ Letters[i + 1] = dtc.letter
  BY <1>1, SMT DEF IndexOf, Letters
<1>3. High(dtc) \in Bytes /\ Low(dtc) \in Bytes
  BY <1>1, <1>2, SMT DEF High, Low, Bytes
<1> HIDE DEF i
<1>4. /\ (i * 64 + dtc.d1 * 16 + dtc.d2) \div 64 = i
      /\ ((i * 64 + dtc.d1 * 16 + dtc.d2) \div 16) % 4 = dtc.d1
      /\ (i * 64 + dtc.d1 * 16 + dtc.d2) % 16 = dtc.d2
  BY <1>1, <1>2, FieldsApart, ZenonT(30)
<1>5. ((dtc.d3 * 16 + dtc.d4) \div 16) % 16 = dtc.d3 /\ (dtc.d3 * 16 + dtc.d4) % 16 = dtc.d4
  BY <1>1, SMT
<1>6. High(dtc) = i * 64 + dtc.d1 * 16 + dtc.d2 /\ Low(dtc) = dtc.d3 * 16 + dtc.d4
  BY DEF High, Low, i
<1>7. Decoded(High(dtc), Low(dtc)) =
        [letter |-> dtc.letter, d1 |-> dtc.d1, d2 |-> dtc.d2, d3 |-> dtc.d3, d4 |-> dtc.d4]
  <2>1. i % 4 = i
    BY <1>2, SMT
  <2> QED
    BY <2>1, <1>2, <1>4, <1>5, <1>6, SMT DEF Decoded
<1> QED
  BY <1>3, <1>7, SMT DEF Written

\* The padding of a Mode 03 frame stands for no code but P0000, so skipping it
\* loses no other (common.py:122-131).
THEOREM PaddingIsP0000 ==
    ASSUME NEW dtc \in Written, Encodable(dtc)
    PROVE  IsPadding(High(dtc), Low(dtc)) <=>
             dtc = [letter |-> "P", d1 |-> 0, d2 |-> 0, d3 |-> 0, d4 |-> 0]
<1>1. /\ dtc.d1 \in 0..3 /\ dtc.d2 \in 0..15 /\ dtc.d3 \in 0..15 /\ dtc.d4 \in 0..15
      /\ dtc.letter \in {"P", "C", "B", "U"}
  BY SMT DEF Written, Nibble, Encodable
<1>2. dtc = [letter |-> dtc.letter, d1 |-> dtc.d1, d2 |-> dtc.d2, d3 |-> dtc.d3,
              d4 |-> dtc.d4]
  BY SMT DEF Written
<1>3. IndexOf(dtc.letter) \in 0..3 /\ (IndexOf(dtc.letter) = 0 <=> dtc.letter = "P")
  BY <1>1, SMT DEF IndexOf
<1> QED
  BY <1>1, <1>2, <1>3, SMT DEF IsPadding, High, Low
=============================================================================
