----------------------------- MODULE EcuExchange -----------------------------
(***************************************************************************)
(* One OBD request and its answer (Iso9141Client._exchange, iso9141.py):   *)
(* purge the input, send, collect what arrives until the line is quiet or  *)
(* time is up, and pick the answer out of it.                              *)
(*                                                                         *)
(* The request header 68 6A F1 addresses every module of the bike: each    *)
(* may answer, refuse, stay silent, or answer after the client gave up.    *)
(* Frames that fail their checksum never reach this module (see Framing),  *)
(* so a frame is whole here, and arrives or is lost.  A request without a  *)
(* PID has one of its own, which every answer to its mode carries.         *)
(***************************************************************************)
EXTENDS Integers, FiniteSets

CONSTANTS
    Modules,      \* the ECUs on the line
    Modes, Pids,  \* what can be asked
    None,
    FrameLimits,  \* what config.max_frames may be
    MaxRequests,  \* bound: requests of the client
    MaxConnects   \* bound: sessions

Questions == [mode : Modes, pid : Pids]
Requests  == [mode : Modes, pid : Pids, serial : 1..MaxRequests]

ASSUME ExchangeAssumption ==
    /\ None \notin Modules /\ None \notin Requests
    /\ MaxRequests \in Nat /\ MaxConnects \in Nat \ {0}

Frames    == [source : Modules, kind : {"positive", "negative"}, to : Requests]
Outcomes  == {"answered", "timeout", "rejected", "unrelated", "foreign", "unsent", "overflow"}

VARIABLES
    pinned,      \* config.ecu_address: a module, or None to latch the first
    maxFrames,   \* config.max_frames
    late,        \* a module may answer after the next request went out
    ecuAddress,  \* _ecu_address
    connects,    \* sessions so far
    asked,       \* requests so far
    request,     \* the request under way, or None
    owed,        \* what the modules have heard and not dealt with yet
    input,       \* frames in the input buffer, in any order
    outcome,     \* how the last exchange ended
    answer,      \* the frames it returned
    heard        \* modules whose frames were returned in this session

setting == <<pinned, maxFrames, late>>
vars == <<setting, ecuAddress, connects, asked, request, owed, input, outcome, answer, heard>>

Init ==
    /\ pinned \in Modules \cup {None} /\ maxFrames \in FrameLimits /\ late \in BOOLEAN
    /\ ecuAddress = pinned /\ connects = 1
    /\ asked = 0 /\ request = None
    /\ owed = {} /\ input = {}
    /\ outcome = "timeout" /\ answer = {} /\ heard = {}

\* connect(): the address is learned again; the handshake purges the input.
Connect ==
    /\ request = None /\ connects < MaxConnects
    /\ connects' = connects + 1
    /\ ecuAddress' = pinned /\ heard' = {} /\ input' = {}
    /\ UNCHANGED <<setting, asked, request, owed, outcome, answer>>

----------------------------------------------------------------------------
\* reset_input of _transmit.
Kept   == input                                                    \* mutant
Purged == {}

\* _transmit: a module hears the request, or noise spoils it.
Send(q) ==
    /\ request = None /\ asked < MaxRequests
    /\ late \/ owed = {}
    /\ asked' = asked + 1
    /\ request' = [mode |-> q.mode, pid |-> q.pid, serial |-> asked']
    /\ \E hearers \in SUBSET Modules :
         owed' = owed \cup {[source |-> m, to |-> request'] : m \in hearers}
    /\ input' = Purged /\ answer' = {}
    /\ UNCHANGED <<setting, ecuAddress, connects, outcome, heard>>

\* write or _consume_echo raises TransportError, behind the purge.
SendFails ==
    /\ request = None /\ asked < MaxRequests
    /\ late \/ owed = {}
    /\ asked' = asked + 1
    /\ input' = Purged /\ answer' = {} /\ outcome' = "unsent"
    /\ UNCHANGED <<setting, ecuAddress, connects, request, owed, heard>>

\* A module answers, refuses, or says nothing; or its frame is lost.
Reply(r) ==
    /\ owed' = owed \ {r}
    /\ \/ \E k \in {"positive", "negative"} :
            input' = input \cup {[source |-> r.source, kind |-> k, to |-> r.to]}
       \/ input' = input
    /\ UNCHANGED <<setting, ecuAddress, connects, asked, request, outcome, answer, heard>>

----------------------------------------------------------------------------
\* _raise_on_negative: 7F names the mode it refuses, not the PID.
Refuses(f) == f.kind = "negative" /\ f.to.mode = request.mode

\* _answers.
Answers(f) ==
    /\ f.kind = "positive"
    /\ f.to.mode = request.mode /\ f.to.pid = request.pid

Related == {f \in input : Answers(f)}

\* The module this session talks to: the one known, or the one that answers
\* first, which may be any of those whose frames came.
Relatched == {f.source : f \in Related}                            \* mutant
Expected ==
    IF ecuAddress # None THEN {ecuAddress} ELSE {f.source : f \in Related}

Mine(m)      == {f \in Related : f.source = m}

\* Nothing but frames of other modules is no answer.
AllOrNothing(m) == IF Mine(m) # Related THEN "foreign" ELSE "answered"  \* mutant
Verdict(m)       == IF Mine(m) = {} THEN "foreign" ELSE "answered"

\* _frames takes no more of them than the limit.
TooMany == Cardinality(input) > maxFrames

\* _collect has read what there was; how _exchange ends.
Ends(o, returned) ==
    /\ outcome' = o /\ answer' = returned
    /\ heard' = heard \cup {f.source : f \in returned}
    /\ request' = None /\ input' = {}
    /\ UNCHANGED <<setting, connects, asked, owed>>

\* _collect returns, and _frames rejects it all or _match has nothing to return.
NoAnswer ==
    /\ request # None
    /\ UNCHANGED ecuAddress
    /\ \/ input = {} /\ Ends("timeout", {})
       \/ TooMany /\ Ends("overflow", {})
       \/ ~TooMany /\ (\E f \in input : Refuses(f)) /\ Ends("rejected", {})
       \/ /\ ~TooMany /\ input # {} /\ Related = {}
          /\ \A f \in input : ~Refuses(f)
          /\ Ends("unrelated", {})

\* _match finds frames of this answer, and keeps those of one module.
Matched ==
    /\ request # None /\ ~TooMany /\ Related # {}
    /\ \A f \in input : ~Refuses(f)
    /\ \E m \in Expected : ecuAddress' = m /\ Ends(Verdict(m), Mine(m))

\* The client asks nothing more and the line is quiet.
Idle == request = None /\ owed = {} /\ UNCHANGED vars

Next ==
    \/ Connect
    \/ \E q \in Questions : Send(q)
    \/ SendFails
    \/ \E r \in owed : Reply(r)
    \/ NoAnswer \/ Matched
    \/ Idle

Spec == Init /\ [][Next]_vars

----------------------------------------------------------------------------
\* Every variable holds a value of its kind, and an exchange returns frames if
\* and only if it was answered.
TypeOK ==
    /\ pinned \in Modules \cup {None} /\ maxFrames \in FrameLimits /\ late \in BOOLEAN
    /\ ecuAddress \in Modules \cup {None}
    /\ connects \in 1..MaxConnects /\ asked \in 0..MaxRequests
    /\ request \in Requests \cup {None}
    /\ owed \subseteq [source : Modules, to : Requests]
    /\ input \subseteq Frames
    /\ outcome \in Outcomes /\ answer \subseteq Frames
    /\ request = None => (outcome = "answered" <=> answer # {})
    /\ heard \subseteq Modules

\* All a session decodes comes from one module, the pinned one if there is one
\* (iso9141.py:99-103), and the client knows which.
OneModule == heard \subseteq {ecuAddress} \cap (IF pinned = None THEN Modules ELSE {pinned})

\* As long as modules answer before the next request goes out, no reading is
\* older than its request, even if the client has given up on an answer.
FreshWhenPrompt == ~late => \A f \in answer : f.to.serial = asked

\* As long as modules answer in time, an exchange ends as this request fared: it
\* is rejected only if a module refused it, times out only if nothing came, has
\* too many frames only if that many are about it, and within the limit the
\* session's own answer counts whoever else speaks (iso9141.py:454-498).
ToThis(kind) == {f \in input : f.kind = kind /\ f.to = request}
EndsAsItFared ==
    ~late /\ request # None /\ request' = None =>
        /\ outcome' = "rejected" => ToThis("negative") # {}
        /\ outcome' = "timeout"  => ToThis("positive") \cup ToThis("negative") = {}
        /\ outcome' = "overflow" =>
             Cardinality(ToThis("positive") \cup ToThis("negative")) > maxFrames
        /\ ~TooMany /\ ToThis("negative") = {} /\ (\E f \in ToThis("positive") : f.source = ecuAddress)
             => outcome' = "answered"
VerdictOfThisRequest == [][EndsAsItFared]_vars

\* Frames of other modules do not cost the session its own module's answer:
\* they are "rejected instead of decoded" (iso9141.py:99-103).  TLC refutes it: a
\* refusal counts from whatever module.
OwnAnswerCounts ==
    [][request # None /\ request' = None /\ ecuAddress # None /\ ~TooMany
       /\ (\E f \in Related : f.source = ecuAddress)
       /\ ~(\E f \in input : f.source = ecuAddress /\ Refuses(f))
       => outcome' = "answered"]_vars
=============================================================================
