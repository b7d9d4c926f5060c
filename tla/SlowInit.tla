------------------------------ MODULE SlowInit ------------------------------
(***************************************************************************)
(* The 5-baud slow init (slow_init_handshake, slow_init_with_retries,      *)
(* common.py) against an ECU at the other end of a noisy single wire:      *)
(*                                                                         *)
(*    tester: address at 5 baud           ECU: 55 kb1 kb2                  *)
(*    tester: inverse of kb2 (echoed)     ECU: inverse of the address      *)
(*                                                                         *)
(* A byte is what it stands for; any other value is noise.  Break-pulse    *)
(* noise may look like 55, no noise looks like the inverted address.  A    *)
(* timeout may come at any moment when there is nothing to read.  What an  *)
(* ECU has not sent when an attempt ends may come in the next one.         *)
(***************************************************************************)
EXTENDS Integers, Sequences

CONSTANTS
    InitRetries,  \* config.init_retries
    MaxNoise,     \* bound: bytes of break-pulse noise before the sync
    MaxLate       \* bound: bytes that come in the next attempt

ASSUME SlowInitAssumption ==
    InitRetries \in Nat /\ MaxNoise \in Nat /\ MaxLate \in Nat

Bytes == {"sync", "kb1", "kb2", "inv", "addr", "noise"}

VARIABLES
    echoes,    \* transport.echoes: the wire reflects what is written
    supports,  \* transport.supports_slow_init
    twins,     \* both key bytes are the same, 08 08 on the bike
    pc,        \* the next thing the tester does
    attempt,
    key1, key2,
    input,     \* bytes in the input buffer
    ecu,       \* "quiet", "sending" its key bytes, or "waiting" for the reply
    out,       \* bytes the ECU is about to send
    accepted,  \* the ECU took the tester's reply in this attempt
    damaged,   \* the line or the ECU failed in this attempt
    overdue    \* the close of an earlier attempt was still to come in this one

fixed  == <<echoes, supports, twins>>
tester == <<fixed, pc, attempt, key1, key2>>
line   == <<input, ecu, out, accepted, damaged, overdue>>
vars   == <<tester, line>>

Init ==
    /\ echoes \in BOOLEAN /\ supports \in BOOLEAN /\ twins \in BOOLEAN
    /\ pc = "wake" /\ attempt = 1
    /\ key1 = "none" /\ key2 = "none"
    /\ input = <<>> /\ ecu = "quiet" /\ out = <<>>
    /\ accepted = FALSE /\ damaged = FALSE /\ overdue = FALSE

----------------------------------------------------------------------------
(* The retry loop.                                                         *)

Attempts == IF InitRetries > 1 THEN InitRetries ELSE 1

LastTry  == attempt >= Attempts

AttemptFails ==
    IF LastTry THEN pc' = "failed" /\ UNCHANGED attempt
               ELSE pc' = "wake" /\ attempt' = attempt + 1

----------------------------------------------------------------------------
(* The ECU and the wire.                                                   *)

Over == pc \in {"up", "failed", "escaped"}

\* A byte arrives, preceded by noise, garbled, or not at all.
EcuSends ==
    /\ ~Over /\ out # <<>> /\ out' = Tail(out)
    /\ ecu' = IF ecu = "sending" /\ out' = <<>> THEN "waiting" ELSE ecu
    /\ \/ input' = Append(input, Head(out)) /\ UNCHANGED damaged
       \/ /\ input' \in {input, Append(input, "noise"), input \o <<"noise", Head(out)>>}
          /\ damaged' = TRUE
    /\ UNCHANGED <<tester, accepted, overdue>>

Noise == UNION {[1..n -> {"noise", "sync"}] : n \in 0..MaxNoise}
Key2  == IF twins THEN "kb1" ELSE "kb2"
Keys  == <<"sync", "kb1", Key2>>

\* What an ECU had still to send: it comes before the noise or behind it, or no more.
Late == {s \in {<<>>, out} : Len(s) <= MaxLate}
Mixed(late, noise) == {late \o noise, noise \o late}
Holds(s, b) == \E i \in DOMAIN s : s[i] = b

----------------------------------------------------------------------------
(* One handshake.                                                          *)

\* reset_input and five_baud_init, which purges again when it is done: the ECU
\* reads its address off the waveform, or does not; the device may fail.
Wake ==
    /\ pc = "wake" /\ supports
    /\ input' = <<>> /\ accepted' = FALSE
    /\ key1' = "none" /\ key2' = "none"
    /\ \E late \in Late, noise \in Noise :
         /\ overdue' = Holds(late, "addr")
         /\ \/ /\ out' \in {m \o Keys : m \in Mixed(late, noise)}
               /\ ecu' = "sending"
               /\ damaged' = (late # <<>> \/ Holds(noise, "sync"))
               /\ pc' = "sync" /\ UNCHANGED attempt
            \/ /\ out' \in Mixed(late, noise)
               /\ ecu' \in {"quiet", ecu} /\ damaged' = TRUE
               /\ \/ pc' = "sync" /\ UNCHANGED attempt
                  \/ AttemptFails

\* A transport that has no such waveform is refused, not tried.
Refuse ==
    /\ pc = "wake" /\ ~supports /\ pc' = "failed"
    /\ UNCHANGED <<attempt, key1, key2, line>>

Read ==
    /\ input # <<>> /\ input' = Tail(input)
    /\ UNCHANGED <<ecu, out, accepted, damaged, overdue>>

\* A timeout with bytes still to come: the ECU was too slow.
TimesOut ==
    /\ input = <<>>
    /\ damaged' = (damaged \/ out # <<>>)
    /\ UNCHANGED <<input, ecu, out, accepted, overdue>>

ReadSync ==
    /\ pc = "sync"
    /\ \/ Read /\ pc' = (IF Head(input) = "sync" THEN "key1" ELSE "sync") /\ UNCHANGED attempt
       \/ TimesOut /\ AttemptFails
    /\ UNCHANGED <<key1, key2>>

ReadKey1 ==
    /\ pc = "key1" /\ pc' = "key2"
    /\ \/ Read /\ key1' = Head(input)
       \/ TimesOut /\ UNCHANGED key1
    /\ UNCHANGED <<attempt, key2>>

ReadKey2 ==
    /\ pc = "key2"
    /\ \/ Read /\ key2' = Head(input)
       \/ TimesOut /\ UNCHANGED key2
    /\ IF key1 = "none" \/ key2' = "none"
         THEN AttemptFails
         ELSE pc' = "reply" /\ UNCHANGED attempt
    /\ UNCHANGED key1

NoEcho    == "close"                                               \* mutant
AfterReply == IF echoes THEN "echo" ELSE "close"

\* After W4: purge, then write the inverse of the second key byte.  The ECU
\* takes it only if it is of the byte it sent, and it heard it.
Reply ==
    /\ pc = "reply" /\ pc' = AfterReply
    /\ \/ /\ ecu = "waiting" /\ key2 = Key2
          /\ out' = <<"addr">> /\ accepted' = TRUE /\ UNCHANGED damaged
       \/ /\ ecu # "waiting" \/ key2 # Key2
          /\ UNCHANGED <<out, accepted, damaged>>
       \/ damaged' = TRUE /\ UNCHANGED <<out, accepted>>
    /\ ecu' = IF ecu = "waiting" THEN "quiet" ELSE ecu
    /\ input' = IF echoes THEN <<"inv">> ELSE <<>>
    /\ UNCHANGED <<attempt, key1, key2, overdue>>

\* The write fails, or its echo is lost or garbled.
ReplySpoilt ==
    /\ pc = "reply"
    /\ damaged' = TRUE
    /\ \/ AttemptFails /\ input' = <<>> /\ UNCHANGED <<out, accepted>>
       \/ /\ echoes /\ pc' = "echo" /\ UNCHANGED attempt
          /\ input' \in {<<>>, <<"noise">>}
          /\ IF ecu = "waiting" /\ key2 = Key2
               THEN out' = <<"addr">> /\ accepted' = TRUE
               ELSE UNCHANGED <<out, accepted>>
    /\ ecu' = IF ecu = "waiting" THEN "quiet" ELSE ecu
    /\ UNCHANGED <<key1, key2, overdue>>

DropEcho ==
    /\ pc = "echo" /\ pc' = "close"
    /\ Read \/ TimesOut
    /\ UNCHANGED <<attempt, key1, key2>>

\* The close of the handshake.
AnyByte(b) == TRUE                                                 \* mutant
Closes(b)  == b = "addr"

Close ==
    /\ pc = "close"
    /\ \/ Read /\ IF Closes(Head(input)) THEN pc' = "up" /\ UNCHANGED attempt
                                         ELSE AttemptFails
       \/ TimesOut /\ AttemptFails
    /\ UNCHANGED <<key1, key2>>

\* A read of an unplugged device raises what the retry loop does not catch.
Escapes ==
    /\ pc \in {"sync", "key1", "key2", "echo", "close"} /\ pc' = "escaped"
    /\ UNCHANGED <<attempt, key1, key2, line>>

Ended == Over /\ UNCHANGED vars

Tester ==
    /\ \/ Refuse \/ Wake \/ ReadSync \/ ReadKey1 \/ ReadKey2
       \/ Reply \/ ReplySpoilt \/ DropEcho \/ Close \/ Escapes
    /\ UNCHANGED fixed

Next == EcuSends \/ Tester \/ Ended

Spec == Init /\ [][Next]_vars

----------------------------------------------------------------------------
\* Every variable holds a value of its kind, and there are no more attempts
\* than the configuration allows, one at least (common.py:395).
TypeOK ==
    /\ echoes \in BOOLEAN /\ supports \in BOOLEAN /\ twins \in BOOLEAN
    /\ pc \in {"wake", "sync", "key1", "key2", "reply", "echo", "close", "up", "failed",
              "escaped"}
    /\ attempt \in 1..Attempts
    /\ key1 \in Bytes \cup {"none"} /\ key2 \in Bytes \cup {"none"}
    /\ input \in Seq(Bytes) /\ out \in Seq(Bytes)
    /\ ecu \in {"quiet", "sending", "waiting"}
    /\ accepted \in BOOLEAN /\ damaged \in BOOLEAN /\ overdue \in BOOLEAN

\* A link that is up was accepted by the ECU in this very attempt, over the key
\* byte it sent: a garbled init is never half open (common.py:349-354).  The one
\* exception is the close of an earlier attempt that comes only now, over noise
\* that was taken for the sync and the keys.  The key bytes reported are the ECU's
\* unless noise posed as the sync.
UpMeansAccepted ==
    pc = "up" => (overdue \/ (accepted /\ key2 = Key2)) /\ (damaged \/ key1 = "kb1")

\* Without that exception ("reject so the caller's retry loop tries again rather
\* than proceeding on a dead link", common.py:353-354) TLC refutes it.
UpOnlyNow == pc = "up" => accepted

\* An attempt fails only if the ECU or the line failed in it, or the ECU had not
\* done with an earlier one: break-pulse noise that is no 55, and the echo of the
\* tester's own byte, do not spoil it
\* (common.py:328-346).
FailsForAReason ==
    [][attempt' # attempt \/ (pc' = "failed" /\ pc # "failed") =>
         damaged' \/ ~supports]_vars

\* "Returns the two key bytes" (common.py:311).  TLC refutes it: the first one
\* takes no part in the handshake and may be garbled, or be the sync itself where
\* both are the same and a 55 in the noise was taken for the sync.
KeysAsSent == pc = "up" => key1 = "kb1" /\ key2 = Key2

=============================================================================
