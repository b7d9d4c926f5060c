------------------------- MODULE SerializedSession -------------------------
(***************************************************************************)
(* What DiagnosticService promises the ECU: one conversation at a time,    *)
(* within one session.  Whoever takes the line keeps it for a whole        *)
(* operation, be that one message or a wake-up and what follows it.  An    *)
(* ECU with a session is not woken again; a session is what its holder     *)
(* has just woken, everything else is said over that session, and only a   *)
(* holder whose messages are over ends it.  A cancel may cut the session   *)
(* short: what was in hand may then still be said.                         *)
(***************************************************************************)
CONSTANTS Talkers, Nobody, NoDevice

VARIABLES holder,   \* who has the line
          line,     \* the messages on the wire, at most one
          woken,    \* the device over which the holder has woken the ECU
          session,  \* the device of the session
          cut       \* the start of the session was cancelled

vars == <<holder, line, woken, session, cut>>

Init ==
    /\ holder = Nobody /\ line = {} /\ woken = {}
    /\ session = NoDevice /\ cut = FALSE

Take(t) ==
    /\ holder = Nobody /\ holder' = t
    /\ UNCHANGED <<line, woken, session, cut>>

\* The holder has the line and nothing under way.
Free == holder # Nobody /\ line = {} /\ woken = {}

Say(m, what) ==
    line' = {m} /\ m.by = holder /\ m.over # NoDevice /\ m.for = what

Wake(m) ==
    /\ Free /\ session = NoDevice
    /\ Say(m, "init")
    /\ UNCHANGED <<holder, woken, session, cut>>

\* The ECU answered the wake-up, or did not.
WakeDone(m) ==
    /\ line = {m} /\ m.for = "init"
    /\ line' = {} /\ woken' \in {{}, {m.over}}
    /\ UNCHANGED <<holder, session, cut>>

Establish ==
    /\ holder # Nobody /\ line = {} /\ session = NoDevice
    /\ woken = {session'} /\ woken' = {}
    /\ UNCHANGED <<holder, line, cut>>

\* An operation speaks over the session; a beat or a stop does too, or, after a
\* cancel, over the one it has had in hand.
Speak(m, what) ==
    /\ Free
    /\ session = m.over \/ (cut /\ what # "op")
    /\ Say(m, what)
    /\ UNCHANGED <<holder, woken, session, cut>>

SpeakDone(m) ==
    /\ line = {m} /\ m.for # "init"
    /\ line' = {}
    /\ UNCHANGED <<holder, woken, session, cut>>

End == Free /\ session' = NoDevice /\ UNCHANGED <<holder, line, woken, cut>>

Give == Free /\ holder' = Nobody /\ UNCHANGED <<line, woken, session, cut>>

Cancel == cut' = TRUE /\ UNCHANGED <<holder, line, woken, session>>

Drop == cut /\ session' = NoDevice /\ UNCHANGED <<holder, line, woken, cut>>

\* The next start comes when nothing of the last one is left.
Renew ==
    /\ session = NoDevice /\ line = {} /\ woken = {}
    /\ cut' = FALSE
    /\ UNCHANGED <<holder, line, woken, session>>

Next ==
    \/ \E t \in Talkers : Take(t)
    \/ \E m \in line' : Wake(m) \/ \E w \in {"op", "stop", "beat"} : Speak(m, w)
    \/ \E m \in line : WakeDone(m) \/ SpeakDone(m)
    \/ Establish \/ End \/ Give \/ Cancel \/ Drop \/ Renew

Spec == Init /\ [][Next]_vars
=============================================================================
