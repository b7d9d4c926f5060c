--------------------------- MODULE Identification ---------------------------
(***************************************************************************)
(* The ECU's identity: Mode 09 fields that arrive in numbered fragments    *)
(* (_read_vehicle_info, iso9141.py; reassemble_identification, common.py)  *)
(* and the cache the service keeps of them for a session                   *)
(* (_read_identification, service.py).                                     *)
(*                                                                         *)
(* Fragments may be lost, repeated and reordered; one may come with other  *)
(* data than before, or without data.  The device may fail in a request.   *)
(***************************************************************************)
EXTENDS Integers, SequencesExt

CONSTANTS
    Fields,       \* VIN, calibration ID, ECU name
    MaxLength,    \* fragments of the longest field
    MaxFrames,    \* config.max_frames
    Empty,        \* a field that is not available
    None,         \* no identity cached
    MaxSessions,  \* bound: sessions
    MaxArrivals   \* bound: frames of one answer

ASSUME IdentificationAssumption ==
    /\ MaxLength \in Nat /\ MaxFrames \in Nat /\ MaxArrivals \in Nat
    /\ MaxSessions \in Nat \ {0}

Data == {"good", "odd", "none"}

VARIABLES
    length,    \* fragments of each field the ECU has; 0 if it has none
    sessions,
    ecuInfo,   \* _ecu_info: a value for each field, or None
    todo,      \* fields of the read under way that have no answer yet
    values,    \* what the read has so far
    asked,     \* the field asked for last
    asking,    \* its answer is on the way
    arrived,   \* the fragments that answered it
    fragments, \* of these, the data under each number
    fits       \* none was empty or in conflict with another

identity == <<length, sessions, ecuInfo, todo, values>>
answer   == <<asked, asking, arrived, fragments, fits>>
vars     == <<identity, answer>>

Nothing == [f \in Fields |-> Empty]

Init ==
    /\ length \in [Fields -> 0..MaxLength]
    /\ sessions = 1 /\ ecuInfo = None
    /\ todo = {} /\ values = Nothing
    /\ asked \in Fields /\ asking = FALSE
    /\ arrived = <<>> /\ fragments = <<>> /\ fits = TRUE

\* A new session learns the identity again.
NewSession ==
    /\ todo = {} /\ sessions < MaxSessions /\ sessions' = sessions + 1
    /\ ecuInfo' = None /\ values' = Nothing
    /\ UNCHANGED <<length, todo, answer>>

----------------------------------------------------------------------------
\* The service has the identity in its cache, or asks for it.
AlwaysAsk == TRUE                                                  \* mutant
NotCached == ecuInfo = None

ReadBegins ==
    /\ todo = {} /\ NotCached
    /\ todo' = Fields /\ values' = Nothing
    /\ UNCHANGED <<length, sessions, ecuInfo, answer>>

\* One request, and nothing of its answer yet.
Ask(f) ==
    /\ ~asking /\ asking' = TRUE /\ asked' = f
    /\ arrived' = <<>> /\ fragments' = <<>> /\ fits' = TRUE
    /\ UNCHANGED identity

\* A fragment that came before must come with the same data.
Overwrites(frag) == FALSE                                          \* mutant
Conflicts(frag) == frag.seq \in DOMAIN fragments /\ fragments[frag.seq] # frag.data

With(frag) ==
    [i \in DOMAIN fragments \cup {frag.seq} |->
        IF i = frag.seq THEN frag.data ELSE fragments[i]]

\* One turn of the loop over the payloads.
Take(frag) ==
    /\ asking /\ Len(arrived) < MaxArrivals
    /\ arrived' = Append(arrived, frag)
    /\ fits' = (fits /\ frag.data # "none" /\ ~Conflicts(frag))
    /\ fragments' = IF fits' THEN With(frag) ELSE fragments
    /\ UNCHANGED <<identity, asked, asking>>

\* The fragments are numbered from 1 with none missing.
Whole == fragments # <<>> /\ DOMAIN fragments = 1..Cardinality(DOMAIN fragments)

\* _frames and reassemble_identification bound what one answer may hold.
Bounded == Len(arrived) <= MaxFrames

\* The field, or Empty for an answer that does not fit together.
Reassembled ==
    IF Bounded /\ fits /\ Whole
      THEN [i \in 1..Cardinality(DOMAIN fragments) |-> fragments[i]]
      ELSE Empty

\* The answer is over; the last one completes the read.
FieldRead ==
    /\ asking /\ asking' = FALSE
    /\ values' = [values EXCEPT ![asked] = Reassembled]
    /\ todo' = todo \ {asked}
    /\ ecuInfo' = IF todo' = {} THEN values' ELSE ecuInfo
    /\ UNCHANGED <<length, sessions, asked, arrived, fragments, fits>>

\* The device fails: the service goes on without an identity for the session,
\* or raises if the failure is one that the transport does not wrap.
ReadFails ==
    /\ todo # {} /\ todo' = {} /\ asking' = FALSE
    /\ ecuInfo' \in {Nothing, None}
    /\ UNCHANGED <<length, sessions, values, asked, arrived, fragments, fits>>

\* The tester has its identity and asks for no more.
Rest == todo = {} /\ UNCHANGED vars

Next ==
    \/ NewSession
    \/ ReadBegins \/ (\E f \in todo : Ask(f)) \/ FieldRead \/ ReadFails
    \/ \E seq \in 1..length[asked], data \in Data : Take([seq |-> seq, data |-> data])
    \/ Rest

Spec == Init /\ [][Next]_vars

----------------------------------------------------------------------------
\* A field is reported only when the fragments that came are, in any order
\* and any number of copies, those of one string from its first on; it is then
\* that string (common.py:236-248).
ReportsWhatCame ==
    LET v == values[asked]
    IN  asked \notin todo /\ v # Empty =>
          ToSet(arrived) = {[seq |-> i, data |-> v[i]] : i \in DOMAIN v}

\* The identity of a session does not change while it lasts (service.py:401-405).
IdentityKept ==
    [][sessions' = sessions /\ ecuInfo # None => ecuInfo' = ecuInfo]_vars

\* "A field is either complete or empty" (iso9141.py:583-587).  TLC
\* refutes it: a lost last fragment leaves no gap.
CompleteOrEmpty ==
    ecuInfo # None =>
      \A f \in Fields : ecuInfo[f] # Empty => Len(ecuInfo[f]) = length[f]
=============================================================================
