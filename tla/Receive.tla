------------------------------- MODULE Receive -------------------------------
(***************************************************************************)
(* What a request reads back (_transmit, _consume_echo, _collect and       *)
(* _collect_multi, iso9141.py), handed to the splitter of Framing.         *)
(*                                                                         *)
(* The line is a stream of bytes, each behind a pause.  A gap outlasts     *)
(* quiet_gap but lies within frame_gap; a silence outlasts both.  The echo *)
(* is at its head, if anywhere: behind noise, garbled, or missing.  A read *)
(* may run out of time before any byte.                                    *)
(***************************************************************************)
EXTENDS Framing

CONSTANTS
    Request,   \* the frame that was sent
    Lines      \* what the ECU sent, what the line carries and where on it the
               \* frames start and the last one ends, whether it echoes

Pauses  == {"none", "gap", "silence"}
OnLine  == [pause : Pauses, byte : Byte]

ASSUME ReceiveAssumption ==
    /\ Request \in Seq(Byte) /\ Request # <<>>
    /\ \A l \in Lines :
         /\ l.sent \in Seq(Seq(Byte)) /\ l.carried \in Seq(OnLine) /\ l.echoes \in BOOLEAN
         /\ l.starts \in Seq(Nat \ {0})

VARIABLES
    line,      \* one of Lines
    multi,     \* the request may be answered by several frames
    stream,    \* what of the line has not been read
    leftover,  \* what _consume_echo returned
    buf,       \* what the collector has
    batches,   \* follow-on frames waited for by _collect_multi
    late,      \* a read ran out of time before bytes that came after it
    step       \* "echo", "first", "follow", "done"

setting == <<line, multi>>
vars    == <<split, setting, stream, leftover, buf, batches, late, step>>

Init ==
    /\ line \in Lines /\ multi \in BOOLEAN
    /\ stream = line.carried
    /\ leftover = <<>> /\ buf = <<>> /\ batches = 0 /\ late = FALSE
    /\ step = IF line.echoes THEN "echo" ELSE "first"
    /\ sent = line.sent /\ raw = <<>> /\ NothingSplit
    /\ outcome = "receiving"

----------------------------------------------------------------------------
BytesOf(s) == [i \in DOMAIN s |-> s[i].byte]
Upto(n)    == BytesOf(SubSeq(stream, 1, n))
Behind(n)  == SubSeq(stream, n + 1, Len(stream))

\* _consume_echo: an exact match is dropped, anything else is inbound traffic.
Thrown(echoed) == <<>>                                             \* mutant
Kept(echoed)   == IF echoed = Request THEN <<>> ELSE echoed

\* _read_exact takes as many bytes as the request has, pauses or not, or fewer
\* when its time is up.
ConsumeEcho ==
    /\ step = "echo" /\ step' = "first"
    /\ \E n \in 0..Len(stream) :
         /\ n <= Len(Request)
         /\ leftover' = Kept(Upto(n)) /\ stream' = Behind(n)
    /\ UNCHANGED <<split, setting, buf, batches, late>>

\* A message ends before a silence, or before a gap; but the reader looks at the
\* line once per quiet_gap, and may overlook a gap.
MessageEnds(n) == n = Len(stream) \/ stream[n + 1].pause # "none"

\* _collect waits for a message and takes it, or as much as there is time for.
Collect ==
    /\ step = "first" \/ (step = "follow" /\ batches < MaxFrames)
    /\ \E n \in 1..Len(stream) :
         /\ \A i \in 1..n : stream[i].pause = "silence" => step = "first" /\ i = 1
         /\ buf' = buf \o Upto(n) /\ stream' = Behind(n)
         /\ late' = (late \/ ~MessageEnds(n))
    /\ batches' = IF step = "follow" THEN batches + 1 ELSE 0
    /\ step' = IF multi THEN "follow" ELSE "done"
    /\ UNCHANGED <<split, setting, leftover>>

\* No message comes, or not in time.
NoMessage ==
    /\ step = "first"
    /\ late' = (stream # <<>>) /\ step' = "done"
    /\ UNCHANGED <<split, setting, stream, leftover, buf, batches>>

\* A silent window ends the response, and so does the last follow-on wait.
Bounded == batches = MaxFrames
NoMore ==
    /\ step = "follow"
    /\ ~Bounded /\ stream # <<>> => Head(stream).pause = "silence"
    /\ step' = "done"
    /\ UNCHANGED <<split, setting, stream, leftover, buf, batches, late>>

\* _transmit returns what arrived, or fails.
HandOver ==
    /\ step = "done" /\ outcome = "receiving"
    /\ raw' = leftover \o buf
    /\ outcome' = IF raw' = <<>> THEN "no response" ELSE "splitting"
    /\ UNCHANGED <<sent, at, frames, junk, setting, stream, leftover, buf, batches, late, step>>

Frames ==
    /\ Split
    /\ UNCHANGED <<setting, stream, leftover, buf, batches, late, step>>

Ended == outcome \notin {"receiving", "splitting"} /\ UNCHANGED vars

Next == ConsumeEcho \/ Collect \/ NoMessage \/ NoMore \/ HandOver \/ Frames \/ Ended

Spec == Init /\ [][Next]_vars

----------------------------------------------------------------------------
\* Bytes were left on the line for a reason: time ran out, a pause ended the
\* message, or max_frames follow-on messages had been read.
LeftBehind ==
    \/ late \/ Bounded
    \/ stream # <<>> /\ Head(stream).pause \in (IF multi THEN {"silence"} ELSE {"gap", "silence"})

Carried == BytesOf(line.carried)

Response(frame) ==
    /\ Len(frame) - HeaderLen - 1 \in 1..MaxData
    /\ frame[1] = Fmt /\ frame[2] = Target
    /\ Last(frame) = Checksum(Front(frame))

\* The frames lie on the line whole, one behind the other, up to its end.
Whole ==
    /\ Len(line.starts) = Len(sent) + 1 /\ Last(line.starts) = Len(Carried) + 1
    /\ \A k \in DOMAIN sent :
         /\ Response(sent[k])
         /\ line.starts[k + 1] = line.starts[k] + Len(sent[k])
         /\ SubSeq(Carried, line.starts[k], line.starts[k + 1] - 1) = sent[k]

\* The request comes back whole, or not at all: it is not what is left of the echo
\* together with the first byte of the reply.
EchoApart ==
    line.echoes /\ IsPrefix(Request, Carried) => Len(Request) < Head(line.starts)

\* Only the frames of the ECU look like frames: no data, noise or echo does.
Headers     == {i \in 1..(Len(Carried) - 1) : Carried[i] = Fmt /\ Carried[i + 1] = Target}
NoImitation == Cardinality(Headers) = Len(sent)

Legible ==
    sent # <<>> /\ Len(sent) <= MaxFrames /\ Whole /\ EchoApart /\ NoImitation

Returned == outcome \in Splits \cup {"no response"}

\* Whatever became of the echo, the reply is decoded, all of it and nothing
\* else: a lost, garbled or delayed echo does not eat it, and neither does the
\* seam between two reads (iso9141.py:190-199).
ReplySurvives ==
    Returned /\ ~LeftBehind /\ Legible =>
        /\ outcome = "frames"
        /\ [k \in DOMAIN frames |-> SubSeq(raw, frames[k].start, frames[k].end - 1)] = sent

\* "an exact match (optionally behind leading line noise) is the echo and is
\* discarded" (iso9141.py:194-196).  TLC refutes it: as many bytes are read as
\* the request has, so the end of an echo behind noise is never among them.
NoisyEchoDropped ==
    line.echoes /\ Len(leftover) = Len(Request) /\ line.carried # <<>> =>
        ~IsPrefix(Request, Tail(Carried))
=============================================================================
