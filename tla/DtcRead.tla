------------------------------- MODULE DtcRead -------------------------------
(***************************************************************************)
(* Reading and clearing fault codes (Iso9141Client.read_dtcs, clear_dtcs). *)
(* A read is a conversation: the status (Mode 01 PID 01) tells how many    *)
(* codes are stored, Mode 03 is repeated until it lists as many, Mode 07   *)
(* adds the pending ones.  Each request is a step; between two of them the *)
(* bike may set or heal a fault, and of every answer whole frames may be   *)
(* lost or repeated, all of them included.  A failed write is a request    *)
(* without an answer (iso9141.py:419-423); a read from a device that has   *)
(* gone raises SerialException, which no layer expects.                    *)
(*                                                                         *)
(* A code is a positive number; 0 is the padding of a frame.               *)
(***************************************************************************)
EXTENDS Integers, FiniteSetsExt

CONSTANTS
    Codes,       \* the faults the bike can have
    PerFrame,    \* codes in a frame
    DtcRetries,  \* config.dtc_retries
    MaxCalls,    \* bound: reads and clears
    MaxChanges   \* bound: changes of the bike's faults

ASSUME DtcAssumption ==
    /\ Codes \subseteq Nat \ {0}
    /\ IsFiniteSet(Codes) /\ Cardinality(Codes) < 128  \* PID 01 counts in seven bits
    /\ PerFrame \in Nat \ {0} /\ DtcRetries \in Nat
    /\ MaxCalls \in Nat /\ MaxChanges \in Nat

\* What leaves a call other than a ProtocolError: the SerialException of a read,
\* and Ctrl-C.
Escapes  == {"device", "interrupted"}
Outcomes == {"none", "read", "dead", "unlisted", "cleared", "unacknowledged",
             "reported", "unopened", "unconnected"} \cup Escapes
NoList   == [codes |-> {}, len |-> 0]

VARIABLES
    stored, pending,  \* what the ECU has
    changes, calls,
    pc,               \* the client: "idle", "stored" (Mode 03), "pending" (Mode 07)
    expected,         \* the count of PID 01
    attempt,          \* Mode 03 requests of this read
    list,             \* what the last of them listed
    warned,           \* the read came out shorter than the count
    outcome, result,  \* how the last call ended, and the list it returned
    was,              \* all codes the ECU has had since the call began
    steady,           \* it has stored the same ones since
    listed            \* a Mode 03 of this read listed a code

ecu    == <<stored, pending, changes>>
client == <<calls, pc, expected, attempt, list, warned, outcome, result>>
ghost  == <<was, steady, listed>>
vars   == <<ecu, client, ghost>>

Init ==
    /\ stored \in SUBSET Codes /\ pending \in SUBSET Codes
    /\ changes = 0 /\ calls = 0
    /\ pc = "idle" /\ expected = 0 /\ attempt = 0
    /\ list = NoList /\ warned = FALSE
    /\ outcome = "none" /\ result = NoList
    /\ was = {} /\ steady = TRUE /\ listed = FALSE

----------------------------------------------------------------------------
(* The ECU and the line.                                                   *)

\* The bike sets a fault, confirms a pending one, or heals one.
Change ==
    /\ changes < MaxChanges /\ changes' = changes + 1
    /\ \E c \in Codes :
         \/ stored' = stored \cup {c} /\ UNCHANGED pending
         \/ stored' = stored \ {c} /\ UNCHANGED pending
         \/ pending' = pending \cup {c} /\ UNCHANGED stored
    /\ was' = was \cup stored' \cup pending'
    /\ steady' = (steady /\ stored' = stored)
    /\ UNCHANGED <<client, listed>>

\* The answer that lists the codes in S: full frames in order, the last one
\* padded; no code at all is one frame of padding.
Rank(c, S)   == Cardinality({d \in S : d < c})
FrameOf(k, S) == {c \in S : Rank(c, S) \div PerFrame = k}
Answer(S) ==
    LET last == (Cardinality(S) - 1) \div PerFrame
    IN  IF S = {} THEN {{0}}
        ELSE {LET f == FrameOf(k, S)
              IN  IF Cardinality(f) < PerFrame THEN f \cup {0} ELSE f : k \in 0..last}

\* How often each frame of an answer arrives.
Arrivals(S) == [Answer(S) -> 0..2]
Silent(arrived) == \A f \in DOMAIN arrived : arrived[f] = 0

----------------------------------------------------------------------------
(* The client.                                                             *)

\* parse_obd_dtc_pairs skips the padding.
AllPairs(f) == f                                                   \* mutant
Pairs(f)    == f \ {0}

Heard(arrived) == UNION {Pairs(f) : f \in {g \in DOMAIN arrived : arrived[g] > 0}}

\* _request_dtcs lists a code once however often its frame came.
WithRepeats(arrived) ==                                            \* mutant
    [codes |-> Heard(arrived),
     len   |-> MapThenSumSet(LAMBDA f : arrived[f] * Cardinality(Pairs(f)), DOMAIN arrived)]
Listed(arrived) == [codes |-> Heard(arrived), len |-> Cardinality(Heard(arrived))]

Return(o, l) == outcome' = o /\ result' = l /\ pc' = "idle"

\* An escape ends the read wherever it is.
ReadEscapes ==
    /\ pc \in {"stored", "pending"}
    /\ \E o \in Escapes : Return(o, NoList)
    /\ UNCHANGED <<ecu, calls, expected, attempt, list, warned, ghost>>

\* _read_status: without an answer the session is dead.
ReadBegins ==
    /\ pc = "idle" /\ calls < MaxCalls /\ calls' = calls + 1
    /\ was' = stored \cup pending /\ steady' = TRUE /\ listed' = FALSE
    /\ list' = NoList /\ warned' = FALSE
    /\ \/ /\ expected' = Cardinality(stored) /\ attempt' = 1 /\ pc' = "stored"
          /\ outcome' = "none" /\ result' = NoList
       \/ /\ \E o \in {"dead"} \cup Escapes : Return(o, NoList)
          /\ UNCHANGED <<expected, attempt>>
    /\ UNCHANGED ecu

\* _read_stored: what an attempt that listed l goes on to.
Attempts    == IF DtcRetries > 1 THEN DtcRetries ELSE 1
LastAttempt == attempt >= Attempts

AnyList(l)  == FALSE                                               \* mutant
Unlisted(l) == l.len = 0 /\ expected > 0

AfterAttempt(l) ==
    \/ /\ l.len >= expected
       /\ pc' = "pending" /\ UNCHANGED <<attempt, warned, outcome, result>>
    \/ /\ l.len < expected /\ ~LastAttempt
       /\ attempt' = attempt + 1
       /\ UNCHANGED <<pc, warned, outcome, result>>
    \/ /\ l.len < expected /\ LastAttempt /\ Unlisted(l)
       /\ Return("unlisted", NoList) /\ UNCHANGED <<attempt, warned>>
    \/ /\ l.len < expected /\ LastAttempt /\ ~Unlisted(l)
       /\ pc' = "pending" /\ warned' = TRUE
       /\ UNCHANGED <<attempt, outcome, result>>

\* A Mode 03 request; an attempt that fails leaves an empty list.
ReadStored ==
    /\ pc = "stored"
    /\ \E arrived \in Arrivals(stored) :
         LET l == IF Silent(arrived) THEN NoList ELSE Listed(arrived)
         IN  list' = l /\ AfterAttempt(l) /\ listed' = (listed \/ l.len > 0)
    /\ UNCHANGED <<ecu, calls, expected, was, steady>>

\* A pending code that is stored too is listed as stored.
BothLists(p)   == list.len + p.len                                 \* mutant
ResultLen(p)   == list.len + Cardinality(p.codes \ list.codes)

\* A Mode 07 request, which many ECUs do not answer.
ReadPending ==
    /\ pc = "pending"
    /\ \E arrived \in Arrivals(pending) :
         LET p == IF Silent(arrived) THEN NoList ELSE Listed(arrived)
         IN  Return("read", [codes |-> list.codes \cup p.codes, len |-> ResultLen(p)])
    /\ UNCHANGED <<ecu, calls, expected, attempt, list, warned, ghost>>

\* clear_dtcs: the request, or its acknowledgement, may be lost; steady starts
\* anew with what the request left.
ClearDtcs ==
    /\ pc = "idle" /\ calls < MaxCalls /\ calls' = calls + 1
    /\ \/ stored' = {} /\ pending' = {} /\ Return("cleared", NoList)
       \/ /\ \/ stored' = {} /\ pending' = {}
             \/ UNCHANGED <<stored, pending>>
          /\ \E o \in {"unacknowledged"} \cup Escapes : Return(o, NoList)
    /\ was' = stored' \cup pending' /\ steady' = TRUE
    /\ UNCHANGED <<changes, expected, attempt, list, warned, listed>>

\* The tester is left alone.
Rest == pc = "idle" /\ UNCHANGED vars

Next == Change \/ ReadBegins \/ ReadStored \/ ReadPending \/ ReadEscapes \/ ClearDtcs \/ Rest

Spec == Init /\ [][Next]_vars

----------------------------------------------------------------------------
\* Every variable holds a value of its kind.
TypeOK ==
    /\ stored \subseteq Codes /\ pending \subseteq Codes /\ was \subseteq Codes
    /\ pc \in {"idle", "stored", "pending"} /\ outcome \in Outcomes
    /\ expected \in 0..Cardinality(Codes)
    /\ attempt \in 0..Attempts
    /\ \A l \in {list, result} : l.codes \subseteq Codes \cup {0} /\ l.len \in Nat
    /\ calls \in 0..MaxCalls /\ changes \in 0..MaxChanges
    /\ warned \in BOOLEAN /\ steady \in BOOLEAN /\ listed \in BOOLEAN

\* A read that lists no code is one whose ECU said it stores none: losing the
\* answers never reads as a clean bill (_read_stored, iso9141.py:643-647).
NoFalseClean == outcome = "read" /\ result.len = 0 => expected = 0

\* A read without a warning, of an ECU that kept its codes meanwhile, lists all
\* of them: repeated frames do not make up for lost ones (iso9141.py:622-625).
CompleteUnlessWarned ==
    pc = "pending" /\ ~warned /\ steady => list.codes = stored

\* What a read lists are codes the ECU had during the read, each listed once, not
\* as stored and pending either (iso9141.py:695-698).
ListIsSound ==
    /\ result.len = Cardinality(result.codes) /\ result.codes \subseteq was
    /\ pc # "idle" => list.codes \subseteq was

\* "Mode 03 returned none after N attempts" (iso9141.py:660-664): no attempt of
\* the read listed a code.  TLC refutes it: the list of an attempt is replaced by
\* that of the next, an empty one if it fails.
NoneMeansNone == outcome = "unlisted" => ~listed

=============================================================================
