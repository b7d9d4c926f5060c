---------------------------- MODULE SlowInitProofs ----------------------------
(***************************************************************************)
(* The slow init, for any number of attempts and any break-pulse noise.    *)
(* That a link is up only with the ECU's consent (ClosedByEcu) holds on    *)
(* any line: the closing byte exists only once the ECU has sent it, unless *)
(* that of an earlier attempt is overdue.  That an attempt fails only for  *)
(* a reason needs to know what is still on the way: on a line that is      *)
(* undamaged so far, the bytes in the buffer and those the ECU has yet to  *)
(* send are the rest of the handshake (InOrder).                           *)
(***************************************************************************)
EXTENDS SlowInit, SequenceTheorems, TLAPS

\* Every byte but the one that closes the handshake.
Unclosed == Bytes \ {"addr"}

\* What the tester has still to read.
Awaited == input \o out

\* Noise that is no sync, then the sync and the key bytes.
KeysAhead(s) ==
    /\ Len(s) >= 3
    /\ \A i \in 1..Len(s) - 3 : s[i] = "noise"
    /\ s[Len(s) - 2] = "sync" /\ s[Len(s) - 1] = "kb1" /\ s[Len(s)] = Key2

\* The ECU closes only what it has accepted.
ClosedByEcu ==
    /\ ~accepted /\ ~overdue => input \in Seq(Unclosed) /\ out \in Seq(Unclosed)
    /\ accepted => key2 = Key2
    /\ pc \in {"sync", "key1", "key2", "reply"} => ~accepted
    /\ pc = "up" => accepted \/ overdue

\* On an undamaged line the bytes come in order.
InOrder ==
    ~damaged =>
      /\ pc = "sync" => KeysAhead(Awaited)
      /\ pc = "key1" => Awaited = <<"kb1", Key2>>
      /\ pc = "key2" => Awaited = <<Key2>> /\ key1 = "kb1"
      /\ pc = "reply" => Awaited = <<>> /\ key1 = "kb1" /\ key2 = Key2
      /\ pc = "echo" => Awaited = <<"inv", "addr">> /\ key1 = "kb1"
      /\ pc = "close" => Awaited = <<"addr">> /\ key1 = "kb1"
      /\ pc = "up" => key1 = "kb1"
      /\ pc \in {"sync", "key1", "key2", "reply"} =>
           ecu = IF out = <<>> THEN "waiting" ELSE "sending"

IInv == TypeOK /\ ClosedByEcu /\ InOrder

----------------------------------------------------------------------------
\* A byte that arrives moves from the ECU to the buffer: what is awaited stays
\* the same.
LEMMA ByteArrives ==
    ASSUME NEW s \in Seq(Bytes), NEW t \in Seq(Bytes), t # <<>>
    PROVE  Append(s, Head(t)) \o Tail(t) = s \o t
<1>1. Head(t) \in Bytes /\ Head(t) = t[1] /\ Tail(t) \in Seq(Bytes) /\ Len(t) \in Nat \ {0}
  BY HeadTailProperties, EmptySeq
<1>2. Append(s, Head(t)) \in Seq(Bytes) /\ Len(Append(s, Head(t))) = Len(s) + 1
  BY <1>1, AppendProperties
<1>3. Len(Tail(t)) = Len(t) - 1 /\ \A i \in 1..Len(Tail(t)) : Tail(t)[i] = t[i + 1]
  BY HeadTailProperties
<1>4. /\ Append(s, Head(t)) \o Tail(t) \in Seq(Bytes) /\ s \o t \in Seq(Bytes)
      /\ Len(Append(s, Head(t)) \o Tail(t)) = Len(s \o t)
      /\ Len(s \o t) = Len(s) + Len(t) /\ Len(s) \in Nat
  BY <1>1, <1>2, <1>3, ConcatProperties, LenProperties
<1>5. ASSUME NEW i \in 1..Len(s \o t)
      PROVE  (Append(s, Head(t)) \o Tail(t))[i] = (s \o t)[i]
  <2>1. CASE i <= Len(s)
    BY <1>1, <1>2, <1>3, <1>4, <2>1, ConcatProperties, AppendProperties
  <2>2. CASE i = Len(s) + 1
    BY <1>1, <1>2, <1>3, <1>4, <2>2, ConcatProperties, AppendProperties
  <2>3. CASE i > Len(s) + 1
    BY <1>1, <1>2, <1>3, <1>4, <2>3, ConcatProperties
  <2> QED
    BY <1>4, <2>1, <2>2, <2>3
<1> QED
  BY <1>4, <1>5, SeqEqual

\* The byte read is the first of those awaited.
LEMMA ByteRead ==
    ASSUME NEW s \in Seq(Bytes), NEW t \in Seq(Bytes), s # <<>>
    PROVE  /\ s \o t \in Seq(Bytes) /\ s \o t # <<>>
           /\ Head(s) = (s \o t)[1]
           /\ Tail(s) \o t = Tail(s \o t)
<1>1. Len(s) \in Nat \ {0} /\ Len(t) \in Nat
  BY EmptySeq, LenProperties
<1>2. s \o t \in Seq(Bytes) /\ Len(s \o t) = Len(s) + Len(t)
  BY ConcatProperties
<1>3. s \o t # <<>> /\ Head(s) = s[1] /\ (s \o t)[1] = s[1]
  BY <1>1, <1>2, ConcatProperties, EmptySeq
<1>4. /\ Tail(s) \in Seq(Bytes) /\ Len(Tail(s)) = Len(s) - 1
      /\ Tail(s \o t) \in Seq(Bytes) /\ Len(Tail(s \o t)) = Len(s \o t) - 1
      /\ \A i \in 1..Len(Tail(s)) : Tail(s)[i] = s[i + 1]
      /\ \A i \in 1..Len(Tail(s \o t)) : Tail(s \o t)[i] = (s \o t)[i + 1]
  BY <1>2, <1>3, HeadTailProperties
<1>5. Tail(s) \o t \in Seq(Bytes) /\ Len(Tail(s) \o t) = Len(Tail(s \o t))
  BY <1>1, <1>2, <1>4, ConcatProperties
<1>6. ASSUME NEW i \in 1..Len(Tail(s \o t)) PROVE (Tail(s) \o t)[i] = Tail(s \o t)[i]
  BY <1>1, <1>2, <1>4, <1>6, ConcatProperties
<1>7. Tail(s) \o t = Tail(s \o t)
  BY <1>4, <1>5, <1>6, SeqEqual
<1> QED
  BY <1>2, <1>3, <1>7

\* With an empty buffer, the bytes awaited are those the ECU has yet to send.
LEMMA NothingRead ==
    ASSUME NEW t \in Seq(Bytes)
    PROVE  <<>> \o t = t
BY ConcatEmptySeq

\* Skipping a byte of noise leaves the key bytes ahead; the sync leaves just the
\* key bytes (the loop of slow_init_handshake, common.py:329-337).
LEMMA KeysAheadRead ==
    ASSUME NEW s \in Seq(Bytes), KeysAhead(s)
    PROVE  /\ s[1] = "sync" => Tail(s) = <<"kb1", Key2>>
           /\ s[1] # "sync" => KeysAhead(Tail(s))
<1>1. Len(s) \in Nat /\ Len(s) >= 3 /\ s # <<>>
  BY LenProperties, EmptySeq DEF KeysAhead
<1>2. /\ Tail(s) \in Seq(Bytes) /\ Len(Tail(s)) = Len(s) - 1
      /\ \A i \in 1..Len(Tail(s)) : Tail(s)[i] = s[i + 1]
  BY <1>1, HeadTailProperties
<1>3. CASE Len(s) = 3
  <2>1. s[1] = "sync" /\ Tail(s)[1] = "kb1" /\ Tail(s)[2] = Key2 /\ Len(Tail(s)) = 2
    BY <1>2, <1>3 DEF KeysAhead
  <2>2. <<"kb1", Key2>> \in Seq(Bytes) /\ Len(<<"kb1", Key2>>) = 2
    BY DEF Bytes, Key2
  <2>3. \A i \in 1..Len(Tail(s)) : Tail(s)[i] = <<"kb1", Key2>>[i]
    BY <2>1
  <2> QED
    BY <1>2, <2>1, <2>2, <2>3, SeqEqual
<1>4. CASE Len(s) > 3
  <2>1. s[1] = "noise"
    BY <1>1, <1>4 DEF KeysAhead
  <2>2. KeysAhead(Tail(s))
    BY <1>1, <1>2, <1>4 DEF KeysAhead
  <2> QED
    BY <2>1, <2>2
<1> QED
  BY <1>1, <1>3, <1>4, SMTT(30)

\* What the ECU sends when it is woken: noise, sync and keys.
LEMMA WokenKeys ==
    ASSUME NEW noise \in Noise
    PROVE  /\ noise \in Seq(Unclosed) /\ noise \o Keys # <<>>
           /\ ~Holds(noise, "sync") => KeysAhead(noise \o Keys)
<1>1. PICK n \in 0..MaxNoise : noise \in [1..n -> {"noise", "sync"}]
  BY DEF Noise
<1>2. n \in Nat /\ noise \in Seq({"noise", "sync"}) /\ Len(noise) = n /\ DOMAIN noise = 1..n
  BY <1>1, SlowInitAssumption
<1>3. noise \in Seq(Unclosed)
  BY <1>2 DEF Unclosed, Bytes
<1>4. /\ Keys \in Seq(Unclosed) /\ Len(Keys) = 3
      /\ Keys[1] = "sync" /\ Keys[2] = "kb1" /\ Keys[3] = Key2
  BY DEF Keys, Unclosed, Bytes, Key2
<1>5. /\ noise \o Keys \in Seq(Unclosed) /\ Len(noise \o Keys) = n + 3
      /\ \A i \in 1..n + 3 : (noise \o Keys)[i] = IF i <= n THEN noise[i] ELSE Keys[i - n]
  <2>1. Len(noise) + Len(Keys) = n + 3
    BY <1>2, <1>4
  <2>2. /\ noise \o Keys \in Seq(Unclosed) /\ Len(noise \o Keys) = Len(noise) + Len(Keys)
        /\ \A i \in 1..Len(noise) + Len(Keys) :
             (noise \o Keys)[i] = IF i <= Len(noise) THEN noise[i] ELSE Keys[i - Len(noise)]
    BY <1>3, <1>4, ConcatProperties, Zenon
  <2> QED
    BY <1>2, <2>1, <2>2, Zenon
<1>6. noise \o Keys # <<>>
  BY <1>2, <1>5, EmptySeq
<1>7. ASSUME ~Holds(noise, "sync") PROVE KeysAhead(noise \o Keys)
  <2>1. \A i \in 1..n : noise[i] = "noise"
    BY <1>1, <1>2, <1>7 DEF Holds
  <2> QED
    BY <1>2, <1>4, <1>5, <2>1 DEF KeysAhead
<1> QED
  BY <1>3, <1>6, <1>7

\* What comes of an earlier attempt closes nothing unless its close is overdue.
LEMMA WokenLate ==
    ASSUME TypeOK, NEW late \in Late, NEW noise \in Noise, NEW m \in Mixed(late, noise)
    PROVE  /\ m \in Seq(Bytes) /\ m \o Keys \in Seq(Bytes)
           /\ ~Holds(late, "addr") => m \in Seq(Unclosed) /\ m \o Keys \in Seq(Unclosed)
           /\ late = <<>> => m = noise
<1>1. late \in Seq(Bytes)
  <2>1. <<>> \in Seq(Bytes) /\ out \in Seq(Bytes)
    BY DEF TypeOK
  <2> QED
    BY <2>1, Zenon DEF Late
<1>2. noise \in Seq(Unclosed) /\ Keys \in Seq(Unclosed)
  BY WokenKeys DEF Keys, Key2, Unclosed, Bytes
<1>3. noise \in Seq(Bytes) /\ Keys \in Seq(Bytes)
  <2>1. Unclosed \subseteq Bytes
    BY DEF Unclosed
  <2> QED
    BY <1>2, <2>1, SeqMonotonic
<1>4. m \in Seq(Bytes) /\ m \o Keys \in Seq(Bytes)
  BY <1>1, <1>3, ConcatProperties DEF Mixed
<1>5. ASSUME ~Holds(late, "addr") PROVE m \in Seq(Unclosed) /\ m \o Keys \in Seq(Unclosed)
  <2>1. \A i \in DOMAIN late : late[i] \in Unclosed
    BY <1>1, <1>5 DEF Holds, Unclosed
  <2>2. late \in Seq(Unclosed)
    BY <1>1, <2>1, SMT
  <2> QED
    BY <1>2, <2>2, ConcatProperties DEF Mixed
<1>6. late = <<>> => m = noise
  BY <1>2, ConcatEmptySeq DEF Mixed
<1> QED
  BY <1>4, <1>5, <1>6

\* A wake puts such bytes on the line, with the keys behind them or without.
LEMMA WakeIs ==
    ASSUME TypeOK, Wake
    PROVE  /\ out' \in Seq(Bytes) /\ ecu' \in {"quiet", "sending", "waiting"}
           /\ damaged' \in BOOLEAN /\ overdue' \in BOOLEAN
           /\ ~overdue' => out' \in Seq(Unclosed)
           /\ ~damaged' => /\ out' # <<>> /\ KeysAhead(out')
                           /\ ecu' = "sending" /\ pc' = "sync"
<1>1. PICK late \in Late, noise \in Noise :
        /\ overdue' = Holds(late, "addr")
        /\ \/ /\ out' \in {m \o Keys : m \in Mixed(late, noise)} /\ ecu' = "sending"
              /\ damaged' = (late # <<>> \/ Holds(noise, "sync")) /\ pc' = "sync"
           \/ /\ out' \in Mixed(late, noise) /\ ecu' \in {"quiet", ecu} /\ damaged' = TRUE
  BY Zenon DEF Wake
<1>2. PICK m \in Mixed(late, noise) : out' \in {m, m \o Keys} /\ (~damaged' => out' = m \o Keys)
  BY <1>1, Zenon
<1>3. out' \in Seq(Bytes) /\ (~overdue' => out' \in Seq(Unclosed))
  <2>1. /\ m \in Seq(Bytes) /\ m \o Keys \in Seq(Bytes)
        /\ ~Holds(late, "addr") => m \in Seq(Unclosed) /\ m \o Keys \in Seq(Unclosed)
    BY WokenLate
  <2> QED
    BY <1>1, <1>2, <2>1, Zenon
<1>4. ~damaged' => m = noise /\ ~Holds(noise, "sync") /\ ecu' = "sending" /\ pc' = "sync"
  BY <1>1, WokenLate
<1>5. ~damaged' => out' # <<>> /\ KeysAhead(out')
  BY <1>2, <1>4, WokenKeys
<1>6. /\ ecu' \in {"quiet", "sending", "waiting"}
      /\ damaged' \in BOOLEAN /\ overdue' \in BOOLEAN
  BY <1>1 DEF TypeOK, Holds
<1> QED
  BY <1>3, <1>4, <1>5, <1>6

----------------------------------------------------------------------------
\* The short contents of the buffer are bytes.
LEMMA ShortInputs ==
    /\ <<>> \in Seq(Bytes) /\ <<"inv">> \in Seq(Bytes) /\ <<"noise">> \in Seq(Bytes)
    /\ <<"addr">> \in Seq(Bytes)
BY DEF Bytes

\* Before the first attempt.
LEMMA TypeInit == Init => TypeOK
<1>1. 1 \in 1..Attempts
  BY SlowInitAssumption DEF Attempts
<1> QED
  BY <1>1, ShortInputs DEF Init, TypeOK

\* An attempt that fails is followed by another or by none, never by more than
\* the configuration allows (common.py:395-404).
LEMMA AttemptFailsTypes ==
    ASSUME TypeOK, AttemptFails
    PROVE  pc' \in {"wake", "failed"} /\ attempt' \in 1..Attempts
BY SlowInitAssumption DEF TypeOK, AttemptFails, LastTry, Attempts

\* A read or its timeout keeps the types of the line.
LEMMA ReadTypes ==
    ASSUME TypeOK, Read \/ TimesOut
    PROVE  /\ input' \in Seq(Bytes) /\ damaged' \in BOOLEAN
           /\ UNCHANGED <<ecu, out, accepted, overdue>>
           /\ Read => Head(input) \in Bytes
BY HeadTailProperties DEF TypeOK, Read, TimesOut

\* Every step keeps the types.
LEMMA StepTypes == TypeOK /\ [Next]_vars => TypeOK'
<1> SUFFICES ASSUME TypeOK, [Next]_vars PROVE TypeOK'
  OBVIOUS
<1> USE DEF fixed
<1>1. CASE EcuSends
  <2>1. Head(out) \in Bytes /\ Tail(out) \in Seq(Bytes)
    BY <1>1, HeadTailProperties DEF EcuSends, TypeOK
  <2>2. <<"noise", Head(out)>> \in Seq(Bytes)
    BY <2>1 DEF Bytes
  <2>3. /\ input \in Seq(Bytes) /\ Append(input, Head(out)) \in Seq(Bytes)
        /\ Append(input, "noise") \in Seq(Bytes) /\ input \o <<"noise", Head(out)>> \in Seq(Bytes)
    BY <2>1, <2>2, AppendProperties, ConcatProperties DEF TypeOK, Bytes
  <2>4. input' \in Seq(Bytes) /\ out' \in Seq(Bytes)
    BY <1>1, <2>1, <2>3 DEF EcuSends
  <2>5. damaged' \in BOOLEAN /\ ecu' \in {"quiet", "sending", "waiting"}
    BY <1>1 DEF EcuSends, TypeOK
  <2>6. UNCHANGED <<fixed, pc, attempt, key1, key2, accepted, overdue>>
    BY <1>1 DEF EcuSends, tester
  <2> QED
    BY <2>4, <2>5, <2>6 DEF TypeOK, Attempts
<1>2. CASE Refuse /\ UNCHANGED fixed
  BY <1>2 DEF Refuse, TypeOK, line, Attempts
<1>3. CASE Wake /\ UNCHANGED fixed
  <2>1. /\ out' \in Seq(Bytes) /\ ecu' \in {"quiet", "sending", "waiting"}
        /\ damaged' \in BOOLEAN /\ overdue' \in BOOLEAN
    BY <1>3, WakeIs
  <2>2. pc' \in {"sync", "wake", "failed"} /\ attempt' \in 1..Attempts
    BY <1>3, AttemptFailsTypes DEF Wake, TypeOK
  <2>3. input' = <<>> /\ accepted' = FALSE /\ key1' = "none" /\ key2' = "none"
    BY <1>3 DEF Wake
  <2> QED
    BY <1>3, <2>1, <2>2, <2>3, ShortInputs DEF TypeOK, Attempts
<1>4. CASE ReadSync /\ UNCHANGED fixed
  BY <1>4, ReadTypes, AttemptFailsTypes DEF ReadSync, TypeOK, Attempts
<1>5. CASE ReadKey1 /\ UNCHANGED fixed
  BY <1>5, ReadTypes DEF ReadKey1, TypeOK, Attempts
<1>6. CASE ReadKey2 /\ UNCHANGED fixed
  BY <1>6, ReadTypes, AttemptFailsTypes DEF ReadKey2, TypeOK, Attempts
<1>7. CASE Reply /\ UNCHANGED fixed
  <2>1. input' \in Seq(Bytes) /\ out' \in Seq(Bytes)
    BY <1>7, ShortInputs DEF Reply, TypeOK
  <2> QED
    BY <1>7, <2>1 DEF Reply, AfterReply, TypeOK, Attempts
<1>8. CASE ReplySpoilt /\ UNCHANGED fixed
  <2>1. input' \in Seq(Bytes) /\ out' \in Seq(Bytes)
    BY <1>8, ShortInputs DEF ReplySpoilt, TypeOK
  <2>2. pc' \in {"wake", "failed", "echo"} /\ attempt' \in 1..Attempts
    BY <1>8, AttemptFailsTypes DEF ReplySpoilt, TypeOK
  <2> QED
    BY <1>8, <2>1, <2>2 DEF ReplySpoilt, TypeOK, Attempts
<1>9. CASE DropEcho /\ UNCHANGED fixed
  BY <1>9, ReadTypes DEF DropEcho, TypeOK, Attempts
<1>10. CASE Close /\ UNCHANGED fixed
  BY <1>10, ReadTypes, AttemptFailsTypes DEF Close, TypeOK, Attempts
<1>12. CASE Escapes /\ UNCHANGED fixed
  BY <1>12 DEF Escapes, line, TypeOK, Attempts
<1>11. CASE UNCHANGED vars
  BY <1>11 DEF vars, tester, line, TypeOK, Attempts
<1> QED
  BY <1>1, <1>2, <1>3, <1>4, <1>5, <1>6, <1>7, <1>8, <1>9, <1>10, <1>11, <1>12
     DEF Next, Tester, Ended

----------------------------------------------------------------------------
\* Before the first attempt nothing is accepted.
LEMMA ClosedInit == Init => ClosedByEcu
BY DEF Init, ClosedByEcu

\* The bytes that do not close the handshake.
LEMMA UnclosedTyped ==
    /\ Unclosed \subseteq Bytes /\ <<>> \in Seq(Unclosed) /\ <<"inv">> \in Seq(Unclosed)
    /\ <<"noise">> \in Seq(Unclosed)
BY DEF Unclosed, Bytes

\* A failed attempt does not bring the link up.
LEMMA AttemptFailsPc == AttemptFails => pc' \in {"wake", "failed"}
BY DEF AttemptFails

\* Reading brings no closing byte onto the line.
LEMMA ReadKeepsClosed ==
    ASSUME ClosedByEcu, Read \/ TimesOut
    PROVE  /\ UNCHANGED <<accepted, overdue>>
           /\ ~accepted' /\ ~overdue' => input' \in Seq(Unclosed) /\ out' \in Seq(Unclosed)
<1>1. CASE Read
  BY <1>1, HeadTailProperties DEF ClosedByEcu, Read
<1>2. CASE TimesOut
  BY <1>2 DEF ClosedByEcu, TimesOut
<1> QED
  BY <1>1, <1>2

\* Every step keeps ClosedByEcu: garbling a byte makes noise of it, never the
\* inverted address, and the last byte read is the ECU's (common.py:349-364).
LEMMA StepKeepsClosed == TypeOK /\ ClosedByEcu /\ [Next]_vars => ClosedByEcu'
<1> SUFFICES ASSUME TypeOK, ClosedByEcu, [Next]_vars PROVE ClosedByEcu'
  OBVIOUS
<1> USE DEF fixed
<1>1. CASE EcuSends
  <2>1. ASSUME ~accepted, ~overdue PROVE input' \in Seq(Unclosed) /\ out' \in Seq(Unclosed)
    <3>1. input \in Seq(Unclosed) /\ out \in Seq(Unclosed) /\ out # <<>>
      BY <1>1, <2>1 DEF ClosedByEcu, EcuSends
    <3>2. Head(out) \in Unclosed /\ Tail(out) \in Seq(Unclosed)
      BY <3>1, HeadTailProperties
    <3>3. "noise" \in Unclosed /\ <<"noise", Head(out)>> \in Seq(Unclosed)
      BY <3>2 DEF Unclosed, Bytes
    <3>4. /\ Append(input, Head(out)) \in Seq(Unclosed)
          /\ Append(input, "noise") \in Seq(Unclosed)
          /\ input \o <<"noise", Head(out)>> \in Seq(Unclosed)
      BY <3>1, <3>2, <3>3, AppendProperties, ConcatProperties
    <3> QED
      BY <1>1, <3>1, <3>2, <3>4 DEF EcuSends
  <2>2. UNCHANGED <<accepted, overdue, key2, pc, twins>>
    BY <1>1 DEF EcuSends, tester
  <2> QED
    BY <2>1, <2>2 DEF ClosedByEcu, Key2
<1>2. CASE Refuse /\ UNCHANGED fixed
  BY <1>2 DEF Refuse, ClosedByEcu, line, Key2
<1>3. CASE Wake /\ UNCHANGED fixed
  <2>1. ~overdue' => out' \in Seq(Unclosed)
    BY <1>3, WakeIs
  <2>2. pc' \in {"sync", "wake", "failed"} /\ accepted' = FALSE /\ input' = <<>>
    BY <1>3, AttemptFailsPc DEF Wake
  <2> QED
    BY <2>1, <2>2, UnclosedTyped DEF ClosedByEcu
<1>4. CASE ReadSync /\ UNCHANGED fixed
  BY <1>4, ReadKeepsClosed, AttemptFailsPc DEF ReadSync, ClosedByEcu
<1>5. CASE ReadKey1 /\ UNCHANGED fixed
  BY <1>5, ReadKeepsClosed DEF ReadKey1, ClosedByEcu
<1>6. CASE ReadKey2 /\ UNCHANGED fixed
  BY <1>6, ReadKeepsClosed, AttemptFailsPc DEF ReadKey2, ClosedByEcu
<1>7. CASE Reply /\ UNCHANGED fixed
  <2>1. ~accepted /\ (~overdue => out \in Seq(Unclosed)) /\ overdue' = overdue
    BY <1>7 DEF Reply, ClosedByEcu
  <2>2. pc' \in {"echo", "close"} /\ input' \in Seq(Unclosed) /\ UNCHANGED <<key2, twins>>
    BY <1>7, UnclosedTyped DEF Reply, AfterReply
  <2>3. (accepted' /\ key2 = Key2) \/ (~accepted' /\ out' = out)
    BY <1>7, <2>1 DEF Reply
  <2> QED
    BY <2>1, <2>2, <2>3 DEF ClosedByEcu, Key2
<1>8. CASE ReplySpoilt /\ UNCHANGED fixed
  <2>1. ~accepted /\ (~overdue => out \in Seq(Unclosed)) /\ overdue' = overdue
    BY <1>8 DEF ReplySpoilt, ClosedByEcu
  <2>2. /\ pc' \in {"echo", "wake", "failed"} /\ input' \in Seq(Unclosed)
        /\ UNCHANGED <<key2, twins>>
    BY <1>8, UnclosedTyped, AttemptFailsPc DEF ReplySpoilt
  <2>3. (accepted' /\ key2 = Key2) \/ (~accepted' /\ out' = out)
    BY <1>8, <2>1 DEF ReplySpoilt
  <2> QED
    BY <2>1, <2>2, <2>3 DEF ClosedByEcu, Key2
<1>9. CASE DropEcho /\ UNCHANGED fixed
  BY <1>9, ReadKeepsClosed DEF DropEcho, ClosedByEcu, Key2
<1>10. CASE Close /\ UNCHANGED fixed
  <2>1. ASSUME pc' = "up" PROVE accepted \/ overdue
    <3>1. input # <<>> /\ Head(input) = "addr"
      BY <1>10, <2>1, AttemptFailsPc DEF Close, Closes, Read
    <3>2. input \notin Seq(Unclosed)
      BY <3>1, HeadTailProperties DEF Unclosed
    <3> QED
      BY <3>2 DEF ClosedByEcu
  <2>2. pc' \in {"up", "wake", "failed"} /\ UNCHANGED <<key2, twins>>
    BY <1>10, AttemptFailsPc DEF Close
  <2>3. /\ UNCHANGED <<accepted, overdue>>
        /\ ~accepted' /\ ~overdue' => input' \in Seq(Unclosed) /\ out' \in Seq(Unclosed)
    BY <1>10, ReadKeepsClosed DEF Close
  <2> QED
    BY <2>1, <2>2, <2>3 DEF ClosedByEcu, Key2
<1>12. CASE Escapes /\ UNCHANGED fixed
  BY <1>12 DEF Escapes, line, ClosedByEcu, Key2
<1>11. CASE UNCHANGED vars
  BY <1>11 DEF vars, tester, line, ClosedByEcu, Key2
<1> QED
  BY <1>1, <1>2, <1>3, <1>4, <1>5, <1>6, <1>7, <1>8, <1>9, <1>10, <1>11, <1>12
     DEF Next, Tester, Ended

----------------------------------------------------------------------------
\* Before the first attempt nothing is on the way.
LEMMA InOrderInit == Init => InOrder
BY DEF Init, InOrder

\* While bytes are awaited, a step that leaves the line undamaged is no timeout,
\* and reads the first of them.
LEMMA UndamagedRead ==
    ASSUME TypeOK, ~damaged', Read \/ TimesOut, Awaited # <<>>
    PROVE  /\ Read /\ ~damaged /\ UNCHANGED <<ecu, out>>
           /\ Awaited \in Seq(Bytes) /\ Head(input) = Awaited[1] /\ Awaited' = Tail(Awaited)
<1>1. input \in Seq(Bytes) /\ out \in Seq(Bytes)
  BY DEF TypeOK
<1>2. Read
  BY <1>1, NothingRead DEF TimesOut, Awaited
<1> QED
  BY <1>1, <1>2, ByteRead DEF Read, Awaited

\* Every step that leaves the line undamaged keeps the bytes in order; the echo
\* of the tester's own byte is the first of the last two (common.py:343-348).
LEMMA StepKeepsOrder == TypeOK /\ ClosedByEcu /\ InOrder /\ [Next]_vars => InOrder'
<1> SUFFICES ASSUME TypeOK, ClosedByEcu, InOrder, [Next]_vars, ~damaged' PROVE InOrder'
  BY DEF InOrder
<1> USE DEF fixed
<1>0. /\ <<"kb1", Key2>> # <<>> /\ <<"kb1", Key2>>[1] = "kb1" /\ Tail(<<"kb1", Key2>>) = <<Key2>>
      /\ <<Key2>> # <<>> /\ <<Key2>>[1] = Key2 /\ Tail(<<Key2>>) = <<>>
      /\ <<"inv", "addr">> # <<>> /\ Tail(<<"inv", "addr">>) = <<"addr">>
      /\ <<"addr">> # <<>> /\ Key2 # "none"
  BY DEF Key2
<1>1. CASE EcuSends
  <2>1. input \in Seq(Bytes) /\ out \in Seq(Bytes) /\ out # <<>>
    BY <1>1 DEF EcuSends, TypeOK
  <2>2. /\ ~damaged /\ input' = Append(input, Head(out)) /\ out' = Tail(out)
        /\ UNCHANGED <<pc, key1, key2, twins>>
        /\ ecu' = IF ecu = "sending" /\ out' = <<>> THEN "waiting" ELSE ecu
    BY <1>1 DEF EcuSends, tester
  <2>3. Awaited' = Awaited
    BY <2>1, <2>2, ByteArrives DEF Awaited
  <2>4. KeysAhead(Awaited) => KeysAhead(Awaited')
    BY <2>3
  <2> QED
    BY <2>1, <2>2, <2>3 DEF InOrder, KeysAhead, Key2
<1>2. CASE Refuse /\ UNCHANGED fixed
  BY <1>2 DEF Refuse, InOrder
<1>3. CASE Wake /\ UNCHANGED fixed
  <2>1. /\ ecu' = "sending" /\ pc' = "sync" /\ input' = <<>>
        /\ out' \in Seq(Bytes) /\ out' # <<>> /\ KeysAhead(out')
    BY <1>3, WakeIs DEF Wake
  <2>2. Awaited' = out'
    BY <2>1, ConcatEmptySeq DEF Awaited
  <2> QED
    BY <1>3, <2>1, <2>2 DEF InOrder, KeysAhead, Key2
<1>4. CASE ReadSync /\ UNCHANGED fixed
  <2>1. pc = "sync" /\ (Read \/ TimesOut) /\ UNCHANGED <<key1, key2, twins>>
    BY <1>4 DEF ReadSync
  <2>2. ~damaged
    BY <2>1 DEF Read, TimesOut, TypeOK
  <2>3. KeysAhead(Awaited)
    BY <2>1, <2>2 DEF InOrder
  <2>4. Awaited # <<>>
    BY <2>3 DEF KeysAhead
  <2>5. /\ Read /\ UNCHANGED <<ecu, out>>
        /\ Awaited \in Seq(Bytes) /\ Head(input) = Awaited[1] /\ Awaited' = Tail(Awaited)
    BY <2>1, <2>4, UndamagedRead
  <2>6. /\ Awaited[1] = "sync" => Awaited' = <<"kb1", Key2>>
        /\ Awaited[1] # "sync" => KeysAhead(Awaited')
    BY <2>3, <2>5, KeysAheadRead
  <2>7. pc' = IF Awaited[1] = "sync" THEN "key1" ELSE "sync"
    BY <1>4, <2>5 DEF ReadSync, Read, TimesOut
  <2> QED
    BY <2>1, <2>2, <2>5, <2>6, <2>7 DEF InOrder, KeysAhead, Key2
<1>5. CASE ReadKey1 /\ UNCHANGED fixed
  <2>1. pc = "key1" /\ pc' = "key2" /\ (Read \/ TimesOut) /\ UNCHANGED <<key2, twins>>
    BY <1>5 DEF ReadKey1
  <2>2. ~damaged
    BY <2>1 DEF Read, TimesOut, TypeOK
  <2>3. Awaited = <<"kb1", Key2>>
    BY <2>1, <2>2 DEF InOrder
  <2>4. Read /\ Head(input) = "kb1" /\ Awaited' = <<Key2>> /\ UNCHANGED <<ecu, out>>
    BY <1>0, <2>1, <2>3, UndamagedRead
  <2>5. key1' = "kb1"
    BY <1>5, <2>4 DEF ReadKey1, Read, TimesOut
  <2> QED
    BY <2>1, <2>2, <2>4, <2>5 DEF InOrder, Key2
<1>6. CASE ReadKey2 /\ UNCHANGED fixed
  <2>1. pc = "key2" /\ (Read \/ TimesOut) /\ UNCHANGED <<key1, twins>>
    BY <1>6 DEF ReadKey2
  <2>2. ~damaged
    BY <2>1 DEF Read, TimesOut, TypeOK
  <2>3. Awaited = <<Key2>> /\ key1 = "kb1"
    BY <2>1, <2>2 DEF InOrder
  <2>4. Read /\ Head(input) = Key2 /\ Awaited' = <<>> /\ UNCHANGED <<ecu, out>>
    BY <1>0, <2>1, <2>3, UndamagedRead
  <2>5. key2' = Key2 /\ pc' = "reply"
    BY <1>0, <1>6, <2>3, <2>4 DEF ReadKey2, Read, TimesOut
  <2> QED
    BY <2>1, <2>2, <2>3, <2>4, <2>5 DEF InOrder, Key2
<1>7. CASE Reply /\ UNCHANGED fixed
  <2>1. pc = "reply" /\ UNCHANGED <<key1, twins>> /\ ~damaged
    BY <1>7 DEF Reply, TypeOK
  <2>2. Awaited = <<>> /\ key1 = "kb1" /\ key2 = Key2
    BY <2>1 DEF InOrder
  <2>3. input = <<>> /\ out = <<>>
    BY <2>2, ConcatEqualIffEmpty DEF Awaited, TypeOK
  <2>4. ecu = "waiting"
    BY <2>1, <2>3 DEF InOrder
  <2>5. out' = <<"addr">> /\ pc' = AfterReply /\ input' = IF echoes THEN <<"inv">> ELSE <<>>
    BY <1>7, <2>2, <2>4 DEF Reply
  <2>6. CASE echoes
    <3>1. input' = <<"inv">> /\ out' = <<"addr">> /\ pc' = "echo"
      BY <2>5, <2>6 DEF AfterReply
    <3>2. <<"inv">> \o <<"addr">> = <<"inv", "addr">>
      <4> DEFINE s == <<"inv">>  t == <<"addr">>  u == <<"inv", "addr">>
      <4>1. /\ s \in Seq(Bytes) /\ Len(s) = 1 /\ s[1] = "inv"
            /\ t \in Seq(Bytes) /\ Len(t) = 1 /\ t[1] = "addr"
            /\ u \in Seq(Bytes) /\ Len(u) = 2 /\ u[1] = "inv" /\ u[2] = "addr"
        BY DEF Bytes
      <4> HIDE DEF s, t, u
      <4>2. /\ s \o t \in Seq(Bytes) /\ Len(s \o t) = 2
            /\ (s \o t)[1] = "inv" /\ (s \o t)[2] = "addr"
        BY <4>1, ConcatProperties
      <4>3. s \o t = u
        BY <4>1, <4>2, SeqEqual
      <4> QED
        BY <4>3 DEF s, t, u
    <3>3. Awaited' = <<"inv", "addr">>
      BY <3>1, <3>2 DEF Awaited
    <3> QED
      BY <2>1, <2>2, <3>1, <3>3 DEF InOrder
  <2>7. CASE ~echoes
    <3>1. Awaited' = <<"addr">> /\ pc' = "close"
      BY <2>5, <2>7, ShortInputs, NothingRead DEF Awaited, AfterReply
    <3> QED
      BY <2>1, <2>2, <3>1 DEF InOrder
  <2> QED
    BY <2>6, <2>7
<1>8. ~ReplySpoilt
  BY DEF ReplySpoilt
<1>9. CASE DropEcho /\ UNCHANGED fixed
  <2>1. /\ pc = "echo" /\ pc' = "close" /\ (Read \/ TimesOut)
        /\ UNCHANGED <<key1, key2, twins>>
    BY <1>9 DEF DropEcho
  <2>2. ~damaged
    BY <2>1 DEF Read, TimesOut, TypeOK
  <2>3. Awaited = <<"inv", "addr">> /\ key1 = "kb1"
    BY <2>1, <2>2 DEF InOrder
  <2>4. Awaited' = <<"addr">>
    BY <1>0, <2>1, <2>3, UndamagedRead
  <2> QED
    BY <2>1, <2>3, <2>4 DEF InOrder
<1>10. CASE Close /\ UNCHANGED fixed
  <2>1. pc = "close" /\ (Read \/ TimesOut) /\ key1' = key1
    BY <1>10 DEF Close
  <2>2. ~damaged
    BY <2>1 DEF Read, TimesOut, TypeOK
  <2>3. key1 = "kb1" /\ pc' \in {"up", "wake", "failed"}
    BY <1>10, <2>1, <2>2, AttemptFailsPc DEF InOrder, Close
  <2> QED
    BY <2>1, <2>3 DEF InOrder
<1>12. CASE Escapes /\ UNCHANGED fixed
  BY <1>12 DEF Escapes, InOrder
<1>11. CASE UNCHANGED vars
  BY <1>11 DEF vars, tester, line, InOrder, KeysAhead, Key2, Awaited
<1> QED
  BY <1>1, <1>2, <1>3, <1>4, <1>5, <1>6, <1>7, <1>8, <1>9, <1>10, <1>11, <1>12
     DEF Next, Tester, Ended

----------------------------------------------------------------------------
\* The inductive invariant holds of every run of the handshake.
THEOREM IInvHolds == Spec => []IInv
<1>1. Init => IInv
  BY TypeInit, ClosedInit, InOrderInit DEF IInv
<1>2. IInv /\ [Next]_vars => IInv'
  BY StepTypes, StepKeepsClosed, StepKeepsOrder DEF IInv
<1> QED
  BY <1>1, <1>2, PTL DEF Spec

\* Every variable holds a value of its kind, and there are no more attempts than
\* the configuration allows.
THEOREM SpecTypeOK == Spec => []TypeOK
BY IInvHolds, PTL DEF IInv

\* A link that is up was accepted by the ECU in this very attempt, over the key
\* byte it sent (common.py:349-354), unless the close of an earlier one was overdue.
THEOREM SpecUpMeansAccepted == Spec => []UpMeansAccepted
<1>1. IInv => UpMeansAccepted
  BY DEF IInv, TypeOK, ClosedByEcu, InOrder, UpMeansAccepted
<1> QED
  BY <1>1, IInvHolds, PTL

\* An attempt fails only if the ECU or the line failed in it, whatever noise the
\* break pulse makes (common.py:328-346).
THEOREM SpecFailsForAReason == Spec => FailsForAReason
<1>1. ASSUME IInv, [Next]_vars, ~damaged', supports
      PROVE  attempt' = attempt /\ (pc' = "failed" => pc = "failed")
  <2> USE DEF fixed
  <2>0. TypeOK /\ InOrder
    BY <1>1 DEF IInv
  <2>1. ASSUME Read \/ TimesOut PROVE ~damaged /\ (Awaited # <<>> => Read /\ ~TimesOut)
    <3>1. ~damaged
      BY <1>1, <2>0, <2>1 DEF Read, TimesOut, TypeOK
    <3>2. Awaited # <<>> => Read
      BY <1>1, <2>0, <2>1, UndamagedRead
    <3> QED
      BY <3>1, <3>2 DEF Read, TimesOut
  <2>2. CASE ReadSync
    <3>1. pc = "sync" /\ (Read \/ TimesOut)
      BY <2>2 DEF ReadSync
    <3>2. Awaited # <<>>
      BY <2>0, <2>1, <3>1 DEF InOrder, KeysAhead
    <3> QED
      BY <2>1, <2>2, <3>1, <3>2 DEF ReadSync
  <2>3. CASE ReadKey1
    BY <2>3 DEF ReadKey1
  <2>4. CASE ReadKey2
    <3>1. pc = "key2" /\ (Read \/ TimesOut)
      BY <2>4 DEF ReadKey2
    <3>2. Awaited = <<Key2>> /\ key1 = "kb1"
      BY <2>0, <2>1, <3>1 DEF InOrder
    <3>3. Read /\ ~TimesOut /\ Head(input) = Key2
      BY <1>1, <2>0, <2>1, <3>1, <3>2, UndamagedRead
    <3> QED
      BY <2>4, <3>2, <3>3 DEF ReadKey2, Key2
  <2>5. CASE Close
    <3>1. pc = "close" /\ (Read \/ TimesOut)
      BY <2>5 DEF Close
    <3>2. Awaited = <<"addr">>
      BY <2>0, <2>1, <3>1 DEF InOrder
    <3>3. Read /\ ~TimesOut /\ Head(input) = "addr"
      BY <1>1, <2>0, <2>1, <3>1, <3>2, UndamagedRead
    <3> QED
      BY <2>5, <3>3 DEF Close, Closes
  <2>6. CASE Wake
    BY <1>1, <2>6 DEF Wake
  <2>7. CASE Reply \/ DropEcho
    BY <2>7 DEF Reply, DropEcho, AfterReply
  <2>8. CASE EcuSends \/ UNCHANGED vars
    BY <2>8 DEF EcuSends, tester, vars
  <2> QED
    BY <1>1, <2>2, <2>3, <2>4, <2>5, <2>6, <2>7, <2>8
    DEF Next, Tester, Ended, Refuse, ReplySpoilt, Escapes
<1>2. IInv /\ [Next]_vars
        => [attempt' # attempt \/ (pc' = "failed" /\ pc # "failed") => damaged' \/ ~supports]_vars
  BY <1>1
<1> QED
  BY <1>2, IInvHolds, PTL DEF Spec, FailsForAReason
=============================================================================
