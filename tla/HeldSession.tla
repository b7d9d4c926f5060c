---------------------------- MODULE HeldSession ----------------------------
(* What SessionController promises to the app: the session is that of one  *)
(* attempt, which succeeded and was not given up before; it is withdrawn   *)
(* before another takes its place, and never comes back.                   *)
CONSTANTS Attempts, NoSession

VARIABLES
    held,   \* the attempt whose session the app talks through
    spent   \* attempts that can no longer be held

Init == held = NoSession /\ spent = {}

Hold(a)   == held = NoSession /\ a \notin spent /\ held' = a /\ UNCHANGED spent
GiveUp(a) == a # held /\ a \notin spent /\ spent' = spent \cup {a} /\ UNCHANGED held
Withdraw  == held # NoSession /\ held' = NoSession /\ spent' = spent \cup {held}

Next == Withdraw \/ \E a \in Attempts : Hold(a) \/ GiveUp(a)

Spec == Init /\ [][Next]_<<held, spent>>
=============================================================================
