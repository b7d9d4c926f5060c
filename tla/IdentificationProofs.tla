------------------------ MODULE IdentificationProofs ------------------------
(***************************************************************************)
(* The identity, for any fields, fragments and limits.  What is reported   *)
(* is what came because, as long as no fragment was empty or in conflict,  *)
(* the numbered data kept and the fragments seen are the same set          *)
(* (Collected).  That a session keeps its identity rests on a read being   *)
(* under way only while there is none (ReadGoesOn).                        *)
(***************************************************************************)
EXTENDS Identification, SequenceTheorems, TLAPS

Types ==
    /\ sessions \in Nat /\ todo \subseteq Fields /\ asked \in Fields
    /\ asking \in BOOLEAN /\ fits \in BOOLEAN
    /\ values = [f \in Fields |-> values[f]]
    /\ arrived \in Seq([seq : Nat, data : Data])

\* A read is under way: there is no identity yet, nor a value for a field that
\* is still to be answered.
ReadGoesOn ==
    /\ asking => asked \in todo
    /\ todo # {} => ecuInfo = None
    /\ \A f \in todo : values[f] = Empty

\* What the loop has kept is what has come.
Collected ==
    fits => ToSet(arrived) = {[seq |-> i, data |-> fragments[i]] : i \in DOMAIN fragments}

\* A value of the field asked for last was made of its fragments.
Reported ==
    asked \notin todo /\ values[asked] # Empty =>
        /\ fits /\ Whole
        /\ values[asked] = [i \in 1..Cardinality(DOMAIN fragments) |-> fragments[i]]

IInv == Types /\ ReadGoesOn /\ Collected /\ Reported

----------------------------------------------------------------------------
\* To append to a sequence adds one element to its set.
LEMMA ToSetAppended ==
    ASSUME NEW S, NEW s \in Seq(S), NEW e \in S
    PROVE  ToSet(Append(s, e)) = ToSet(s) \cup {e}
<1>1. /\ Len(s) \in Nat /\ DOMAIN s = 1..Len(s)
      /\ Append(s, e) \in Seq(S) /\ Len(Append(s, e)) = Len(s) + 1
      /\ \A i \in 1..Len(s) : Append(s, e)[i] = s[i]
      /\ Append(s, e)[Len(s) + 1] = e
  BY AppendProperties, LenProperties
<1>2. DOMAIN Append(s, e) = 1..Len(s) + 1
  BY <1>1, LenProperties
<1>3. \A i : i \in 1..Len(s) + 1 <=> i \in 1..Len(s) \/ i = Len(s) + 1
  BY <1>1
<1> QED
  BY <1>1, <1>2, <1>3 DEF ToSet

\* A fresh service has no identity, no answer and nothing put together
\* (service.py:182-208).
LEMMA Initially == Init => IInv
<1> SUFFICES ASSUME Init PROVE IInv
  OBVIOUS
<1>1. Types
  <2>1. values = [f \in Fields |-> values[f]]
    <3>1. values = [f \in Fields |-> Empty]
      BY DEF Init, Nothing
    <3> QED
      BY <3>1
  <2>2. arrived \in Seq([seq : Nat, data : Data])
    BY DEF Init
  <2> QED
    BY <2>1, <2>2 DEF Init, Types
<1>2. ReadGoesOn
  BY DEF Init, ReadGoesOn
<1>3. arrived = <<>> /\ fragments = <<>> /\ DOMAIN <<>> = {}
  BY DEF Init
<1>4. Collected
  BY <1>3 DEF Collected, ToSet
<1>5. Reported
  BY DEF Init, Reported, Nothing
<1> QED
  BY <1>1, <1>2, <1>4, <1>5 DEF IInv

\* A new session, a read that begins and a read that fails touch no answer, and
\* leave a value only where there was one (service.py:246-251, 401-412).
LEMMA SessionsKeep == IInv /\ (NewSession \/ ReadBegins \/ ReadFails) => IInv'
<1> SUFFICES ASSUME IInv, NewSession \/ ReadBegins \/ ReadFails PROVE IInv'
  OBVIOUS
<1>1. /\ UNCHANGED <<asked, arrived, fragments, fits>> /\ asking' \in BOOLEAN
      /\ sessions' \in Nat /\ todo' \subseteq Fields
      /\ values' = Nothing \/ (values' = values /\ todo' = {})
  <2>1. UNCHANGED <<asked, arrived, fragments, fits>> /\ asking' \in BOOLEAN
    BY DEF IInv, Types, NewSession, ReadBegins, ReadFails, answer
  <2>2. sessions' \in Nat /\ todo' \subseteq Fields
    BY DEF IInv, Types, NewSession, ReadBegins, ReadFails
  <2>3. values' = Nothing \/ (values' = values /\ todo' = {})
    BY DEF NewSession, ReadBegins, ReadFails
  <2> QED
    BY <2>1, <2>2, <2>3
<1>2. \A f \in Fields : Nothing[f] = Empty
  BY DEF Nothing
<1>3. Types'
  BY <1>1 DEF IInv, Types, Nothing
<1>4. ReadGoesOn'
  BY <1>1, <1>2 DEF IInv, Types, ReadGoesOn, NewSession, ReadBegins, ReadFails, NotCached, answer
<1>5. Collected'
  BY <1>1 DEF IInv, Collected
<1>6. Reported'
  BY <1>1, <1>2 DEF IInv, Types, ReadGoesOn, Reported, Whole
<1> QED
  BY <1>3, <1>4, <1>5, <1>6 DEF IInv

\* A request starts with no fragments (common.py:249, iso9141.py:596-601).
LEMMA AskKeeps == ASSUME IInv, NEW f \in todo, Ask(f) PROVE IInv'
<1>1. /\ asking' = TRUE /\ asked' = f /\ arrived' = <<>> /\ fragments' = <<>> /\ fits' = TRUE
      /\ UNCHANGED <<sessions, ecuInfo, todo, values>>
  BY DEF Ask, identity
<1>2. Types'
  <2>1. arrived' \in Seq([seq : Nat, data : Data])
    BY <1>1
  <2> QED
    BY <1>1, <2>1 DEF IInv, Types
<1>3. ReadGoesOn'
  BY <1>1 DEF IInv, ReadGoesOn
<1>4. Collected'
  BY <1>1 DEF Collected, ToSet
<1>5. Reported'
  BY <1>1 DEF Reported
<1> QED
  BY <1>2, <1>3, <1>4, <1>5 DEF IInv

\* A turn of the loop keeps a fragment, ignores a repeated one, or gives up for
\* good (common.py:250-262).
LEMMA TakeKeeps ==
    ASSUME IInv, NEW frag \in [seq : Nat, data : Data], Take(frag)
    PROVE  IInv'
<1>1. /\ arrived' = Append(arrived, frag)
      /\ fits' = (fits /\ frag.data # "none" /\ ~Conflicts(frag))
      /\ fragments' = IF fits' THEN With(frag) ELSE fragments
      /\ asking /\ UNCHANGED <<sessions, ecuInfo, todo, values, asked, asking>>
  BY DEF Take, identity
<1>2. Types' /\ ReadGoesOn'
  BY <1>1, AppendProperties DEF IInv, Types, ReadGoesOn
<1>3. Collected'
  <2> SUFFICES ASSUME fits' PROVE Collected'
    BY DEF Collected
  <2>1. fits /\ ~Conflicts(frag) /\ fragments' = With(frag)
    BY <1>1 DEF IInv, Types
  <2>2. DOMAIN fragments' = DOMAIN fragments \cup {frag.seq} /\ fragments'[frag.seq] = frag.data
    BY <2>1 DEF With
  <2>3. \A i \in DOMAIN fragments : fragments'[i] = fragments[i]
    BY <2>1 DEF With, Conflicts
  <2>4. frag = [seq |-> frag.seq, data |-> frag.data]
    OBVIOUS
  <2>5. ToSet(arrived)' = ToSet(arrived) \cup {frag}
    <3>1. ToSet(arrived)' = ToSet(Append(arrived, frag))
      BY <1>1 DEF ToSet
    <3>2. arrived \in Seq([seq : Nat, data : Data])
      BY DEF IInv, Types
    <3>3. PICK S : arrived \in Seq(S) /\ frag \in S
      BY <3>2
    <3>4. ToSet(Append(arrived, frag)) = ToSet(arrived) \cup {frag}
      BY <3>3, ToSetAppended
    <3> QED
      BY <3>1, <3>4
  <2>6. ToSet(arrived) = {[seq |-> i, data |-> fragments[i]] : i \in DOMAIN fragments}
    BY <2>1 DEF IInv, Collected
  <2> QED
    BY <2>2, <2>3, <2>4, <2>5, <2>6 DEF Collected
<1>4. Reported'
  BY <1>1 DEF IInv, ReadGoesOn, Reported
<1> QED
  BY <1>2, <1>3, <1>4 DEF IInv

\* A finished answer becomes the value of its field, and with the last one the
\* read becomes the identity (common.py:263-276, service.py:408).
LEMMA FieldReadKeeps == IInv /\ FieldRead => IInv'
<1> SUFFICES ASSUME IInv, FieldRead PROVE IInv'
  OBVIOUS
<1>1. /\ asking /\ asking' = FALSE /\ values' = [values EXCEPT ![asked] = Reassembled]
      /\ todo' = todo \ {asked} /\ ecuInfo' = IF todo' = {} THEN values' ELSE ecuInfo
      /\ UNCHANGED <<sessions, asked, arrived, fragments, fits>>
  BY DEF FieldRead
<1>2. Types'
  BY <1>1 DEF IInv, Types
<1>3. ReadGoesOn'
  BY <1>1 DEF IInv, Types, ReadGoesOn
<1>4. Collected'
  BY <1>1 DEF IInv, Collected
<1>5. Reported'
  <2>1. values'[asked] = Reassembled
    BY <1>1 DEF IInv, Types
  <2> QED
    BY <1>1, <2>1 DEF Reported, Reassembled, Whole
<1> QED
  BY <1>2, <1>3, <1>4, <1>5 DEF IInv

\* Every step keeps the invariant.
LEMMA StepKeeps == IInv /\ [Next]_vars => IInv'
<1> SUFFICES ASSUME IInv, [Next]_vars PROVE IInv'
  OBVIOUS
<1>1. CASE NewSession \/ ReadBegins \/ ReadFails
  BY <1>1, SessionsKeep
<1>2. ASSUME NEW f \in todo, Ask(f) PROVE IInv'
  BY <1>2, AskKeeps
<1>3. ASSUME NEW seq \in 1..length[asked], NEW data \in Data, Take([seq |-> seq, data |-> data])
      PROVE  IInv'
  BY <1>3, TakeKeeps
<1>4. CASE FieldRead
  BY <1>4, FieldReadKeeps
<1>5. CASE Rest \/ UNCHANGED vars
  <2>1. UNCHANGED <<sessions, ecuInfo, todo, values, asked, asking, arrived, fragments, fits>>
    BY <1>5 DEF Rest, vars, identity, answer
  <2>2. Types' /\ ReadGoesOn'
    BY <2>1 DEF IInv, Types, ReadGoesOn
  <2>3. Collected'
    BY <2>1 DEF IInv, Collected, ToSet
  <2>4. Reported'
    BY <2>1 DEF IInv, Reported, Whole
  <2> QED
    BY <2>2, <2>3, <2>4 DEF IInv
<1> QED
  BY <1>1, <1>2, <1>3, <1>4, <1>5 DEF Next

\* The invariant holds throughout: what is kept of an answer is what came, and a
\* read goes on only without an identity (common.py:249-262, service.py:403-408).
THEOREM IInvHolds == Spec => []IInv
<1>1. Init => IInv
  BY Initially
<1>2. IInv /\ [Next]_vars => IInv'
  BY StepKeeps
<1> QED
  BY <1>1, <1>2, PTL DEF Spec

----------------------------------------------------------------------------
\* Whatever is lost, repeated or reordered, a field that is reported is made of
\* the fragments that came, each of them and no other, in their order and without
\* a gap (common.py:236-248).
THEOREM SpecReportsWhatCame == Spec => []ReportsWhatCame
<1>1. IInv => ReportsWhatCame
  <2> SUFFICES ASSUME IInv, asked \notin todo, values[asked] # Empty
               PROVE  ToSet(arrived) =
                        {[seq |-> i, data |-> values[asked][i]] : i \in DOMAIN values[asked]}
    BY DEF ReportsWhatCame
  <2>1. /\ ToSet(arrived) = {[seq |-> i, data |-> fragments[i]] : i \in DOMAIN fragments}
        /\ DOMAIN fragments = 1..Cardinality(DOMAIN fragments)
        /\ values[asked] = [i \in 1..Cardinality(DOMAIN fragments) |-> fragments[i]]
    BY DEF IInv, Collected, Reported, Whole
  <2>2. PICK n, v : n = Cardinality(DOMAIN fragments) /\ v = values[asked]
    OBVIOUS
  <2>3. DOMAIN v = DOMAIN fragments /\ \A i \in DOMAIN fragments : v[i] = fragments[i]
    BY <2>1, <2>2
  <2> QED
    BY <2>1, <2>2, <2>3
<1> QED
  BY <1>1, IInvHolds, PTL

\* A session that has an identity keeps it to its end (service.py:401-405).
THEOREM SpecIdentityKept == Spec => IdentityKept
<1>1. IInv /\ [Next]_vars => [sessions' = sessions /\ ecuInfo # None => ecuInfo' = ecuInfo]_vars
  <2> SUFFICES ASSUME IInv, Next, sessions' = sessions, ecuInfo # None PROVE ecuInfo' = ecuInfo
    OBVIOUS
  <2>1. todo = {} /\ ~asking /\ sessions \in Nat
    BY DEF IInv, Types, ReadGoesOn
  <2>2. ~NewSession /\ ~ReadBegins /\ ~ReadFails /\ ~FieldRead
    BY <2>1 DEF NewSession, ReadBegins, NotCached, ReadFails, FieldRead
  <2> QED
    BY <2>2 DEF Next, Ask, Take, Rest, vars, identity
<1> QED
  BY <1>1, IInvHolds, PTL DEF Spec, IdentityKept
=============================================================================
