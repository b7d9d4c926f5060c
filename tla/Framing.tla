------------------------------- MODULE Framing -------------------------------
(***************************************************************************)
(* The frame splitter (split_response_frames, _frame_end, common.py) and   *)
(* what the client makes of its result (_frames, iso9141.py).              *)
(*                                                                         *)
(* ISO 9141-2 has no length byte: the end of a frame is a place where the  *)
(* running sum of the bytes equals the next byte.  A byte is a number      *)
(* below Base, 256 on the wire.  Offsets count from 1; an end is the       *)
(* offset after the checksum.                                              *)
(***************************************************************************)
EXTENDS Integers, SequencesExt

CONSTANTS
    Base,           \* values of a byte
    Fmt, Target,    \* the first two bytes of a response
    MaxData,        \* MAX_DATA_BYTES
    MaxFrames       \* config.max_frames

Byte      == 0..(Base - 1)
HeaderLen == 3
None      == 0

ASSUME FramingAssumption ==
    /\ Base \in Nat \ {0} /\ Fmt \in Byte /\ Target \in Byte /\ Fmt # Target
    /\ MaxData \in Nat \ {0} /\ MaxFrames \in Nat

VARIABLES
    sent,      \* the frames the ECU sent
    raw,       \* the collected buffer
    at,        \* the offset of the first byte not looked at yet
    frames,    \* the frames found: where each starts and ends
    junk,      \* the offsets of the bytes that belong to none
    outcome    \* "receiving" (see Receive), "splitting", then what _frames
               \* returns or raises

split == <<sent, raw, at, frames, junk, outcome>>

NothingSplit == at = 1 /\ frames = <<>> /\ junk = <<>>

----------------------------------------------------------------------------
IsFrameStart(i) ==
    /\ i + HeaderLen - 1 <= Len(raw)
    /\ raw[i] = Fmt /\ raw[i + 1] = Target

Checksum(bytes) == FoldLeft(+, 0, bytes) % Base
Sum(i, j)       == Checksum(SubSeq(raw, i, j))

AnySum(start, end)     == TRUE                                     \* mutant
ChecksumOk(start, end) == raw[end - 1] = Sum(start, end - 2)

\* The ends a frame from start may have, by its checksum.
Proven(start) ==
    {end \in (start + HeaderLen + 2)..(start + HeaderLen + MaxData + 1) :
        end <= Len(raw) + 1 /\ ChecksumOk(start, end)}

\* An end where the buffer ends or another frame starts leaves nothing unexplained.
AnyEnd(start) == Proven(start)                                     \* mutant
Exact(start)  == {end \in Proven(start) : end = Len(raw) + 1 \/ IsFrameStart(end)}

Smallest(S) == CHOOSE i \in S : \A j \in S : i <= j

FrameEnd(start) ==
    IF Exact(start) # {} THEN Smallest(Exact(start))
    ELSE IF Proven(start) # {} THEN Smallest(Proven(start))
    ELSE None

----------------------------------------------------------------------------
Found == IsFrameStart(at) /\ FrameEnd(at) # None

Discard ==
    /\ outcome = "splitting" /\ at <= Len(raw) /\ ~Found
    /\ junk' = Append(junk, at) /\ at' = at + 1
    /\ UNCHANGED <<sent, raw, frames, outcome>>

BeforeChecksum(end) == end - 1                                     \* mutant
NextOffset(end)     == end

TakeFrame ==
    /\ outcome = "splitting" /\ at <= Len(raw) /\ Found
    /\ frames' = Append(frames, [start |-> at, end |-> FrameEnd(at)])
    /\ at' = NextOffset(FrameEnd(at))
    /\ UNCHANGED <<sent, raw, junk, outcome>>

\* _frames: frames to decode, or one of three errors.
HeaderSeen == \E i \in 1..(Len(raw) - 1) : raw[i] = Fmt /\ raw[i + 1] = Target

TooMany == Len(frames) > MaxFrames

Report ==
    /\ outcome = "splitting" /\ at > Len(raw)
    /\ outcome' = IF frames = <<>> THEN IF HeaderSeen THEN "invalid" ELSE "no frame"
                  ELSE IF TooMany THEN "too many" ELSE "frames"
    /\ UNCHANGED <<sent, raw, at, frames, junk>>

Split == Discard \/ TakeFrame \/ Report

----------------------------------------------------------------------------
InFrame(k, i) == frames[k].start <= i /\ i < frames[k].end

\* Every byte read so far is in one frame or is junk, and never both: nothing is
\* decoded twice and nothing disappears (common.py:196-203).
EveryByteOnce ==
    \A i \in 1..(at - 1) :
        /\ (\E k \in DOMAIN frames : InFrame(k, i)) <=> i \notin Range(junk)
        /\ \A k, l \in DOMAIN frames : InFrame(k, i) /\ InFrame(l, i) => k = l

\* A corrupt byte never reaches a decoder: a frame has the header, a data field
\* of legal length and a checksum that adds up (iso9141.py:431-436).
OnlyProvenFrames ==
    \A k \in DOMAIN frames :
        LET f == frames[k]
        IN  /\ SubSeq(raw, f.start, f.start + 1) = <<Fmt, Target>>
            /\ f.end - f.start - HeaderLen - 1 \in 1..MaxData
            /\ raw[f.end - 1] = Sum(f.start, f.end - 2)

----------------------------------------------------------------------------
(* Where frames that no data imitates are told apart.                      *)

\* What _frames ends with.
Splits == {"frames", "invalid", "no frame", "too many"}

Starts == {i \in 1..Len(raw) : IsFrameStart(i)}

NextStart(i) == Smallest({j \in Starts : j > i} \cup {Len(raw) + 1})

\* From every header to the next the bytes are one whole frame.
Clean ==
    \A i \in Starts :
        /\ NextStart(i) - i - HeaderLen - 1 \in 1..MaxData
        /\ raw[NextStart(i) - 1] = Sum(i, NextStart(i) - 2)

\* Back-to-back frames are split where they really end, whatever checksums
\* happen to add up inside them, and noise ahead of them costs no frame, as long
\* as no data looks like a header (common.py:163-172).
SplitsAtHeaders ==
    outcome \in Splits /\ Clean =>
        Range(frames) = {[start |-> i, end |-> NextStart(i)] : i \in Starts}

\* "a concatenated multi-frame response splits where the frames really end
\* rather than at the first length whose checksum happens to add up"
\* (common.py:167-169), whatever the data.  TLC refutes it, with data that looks
\* like a header behind a sum that matches.
SplitsAsSent ==
    outcome \in Splits /\ raw = FlattenSeq(sent) =>
        [k \in DOMAIN frames |-> SubSeq(raw, frames[k].start, frames[k].end - 1)] = sent
=============================================================================
