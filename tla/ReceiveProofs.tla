----------------------------- MODULE ReceiveProofs -----------------------------
(***************************************************************************)
(* The splitter, for any buffer, any line and any width of a byte.  That   *)
(* frames overlap nowhere and lose nothing is no property of one step: it  *)
(* needs that all the frames lie in line, behind one another and before    *)
(* the offset the splitter has reached (InLine).  That a buffer of clean   *)
(* frames is split at its headers needs that no header was stepped over,   *)
(* so far (AtHeaders): the end that _frame_end proves for a frame is then  *)
(* the next header, for a smaller one would itself be a header.  That a    *)
(* reply comes back whole needs what the reads did (ReplyInv): the bytes   *)
(* read and unread are the line's own, in order, but for an echo that was  *)
(* dropped as a whole.                                                     *)
(***************************************************************************)
EXTENDS Receive, FiniteSetTheorems, SequenceTheorems, WellFoundedInduction, TLAPS

Span == [start : Nat, end : Nat]

Types ==
    /\ multi \in BOOLEAN
    /\ stream \in Seq(OnLine) /\ leftover \in Seq(Byte) /\ buf \in Seq(Byte)
    /\ raw \in Seq(Byte) /\ at \in 1..Len(raw) + 1
    /\ frames \in Seq(Span) /\ junk \in Seq(Nat)
    /\ outcome \in {"receiving", "splitting", "no response"} \cup Splits

\* A frame that split_response_frames may have taken (common.py:216-223).
IsFrame(f) ==
    /\ f.start \in 1..Len(raw) /\ f.end \in 1..at
    /\ IsFrameStart(f.start) /\ f.end \in Proven(f.start)

\* The frames come one behind the other, none beyond what has been looked at.
InLine ==
    /\ \A k \in DOMAIN frames : IsFrame(frames[k])
    /\ \A k, l \in DOMAIN frames : k < l => frames[k].end <= frames[l].start
    /\ \A i \in Range(junk) : i < at
    /\ \A i \in 1..(at - 1) : (\E k \in DOMAIN frames : InFrame(k, i)) <=> i \notin Range(junk)

\* On a clean buffer the frames are those at the headers passed.
AtHeaders ==
    Clean =>
      /\ \A k \in DOMAIN frames :
           frames[k].start \in Starts /\ frames[k].end = NextStart(frames[k].start)
      /\ \A i \in Starts : i < at =>
           \E k \in DOMAIN frames : frames[k] = [start |-> i, end |-> NextStart(i)]

\* How far the splitting is.
Progress ==
    /\ outcome \in {"receiving", "no response"} => NothingSplit
    /\ outcome \in Splits => at = Len(raw) + 1
    /\ outcome = "receiving" => raw = <<>>

IInv == Types /\ InLine /\ AtHeaders /\ Progress

----------------------------------------------------------------------------
\* The loop over data lengths stops at the first that fits (common.py:173): a
\* non-empty set of offsets has a smallest, which is in it.
LEMMA SmallestIsLeast ==
    ASSUME NEW S \in SUBSET Nat, S # {}
    PROVE  Smallest(S) \in S /\ \A j \in S : Smallest(S) <= j
<1>1. \E i \in S : \A j \in S : ~(<<j, i>> \in OpToRel(<, Nat))
  BY NatLessThanWellFounded, WFMin
<1>2. PICK i \in S : \A j \in S : ~(<<j, i>> \in OpToRel(<, Nat))
  BY <1>1
<1>3. \A j \in S : ~(j < i)
  BY <1>2 DEF OpToRel
<1>4. \A j \in S : i <= j
  BY <1>3
<1> QED
  BY <1>4 DEF Smallest

\* A proven end lies behind a header, a byte of data and a checksum
\* (common.py:173-174).
LEMMA ProvenEnds ==
    ASSUME NEW start \in Nat
    PROVE  /\ Proven(start) \subseteq Nat /\ Exact(start) \subseteq Proven(start)
           /\ \A end \in Proven(start) : start + 4 < end
BY FramingAssumption DEF Proven, Exact, HeaderLen

\* Whatever _frame_end returns, exact or fallback, has passed the checksum
\* (common.py:176-184).
LEMMA FrameEndIsProven ==
    ASSUME NEW start \in Nat, FrameEnd(start) # None
    PROVE  FrameEnd(start) \in Proven(start) /\ FrameEnd(start) \in Nat
<1>1. Proven(start) \in SUBSET Nat /\ Exact(start) \in SUBSET Nat
  BY ProvenEnds
<1>2. CASE Exact(start) # {}
  <2>1. Smallest(Exact(start)) \in Exact(start)
    BY <1>1, <1>2, SmallestIsLeast
  <2> QED
    BY <1>2, <2>1, ProvenEnds DEF FrameEnd
<1>3. CASE Exact(start) = {}
  <2>1. Proven(start) # {}
    BY <1>3 DEF FrameEnd
  <2>2. Smallest(Proven(start)) \in Proven(start)
    BY <1>1, <2>1, SmallestIsLeast
  <2> QED
    BY <1>1, <1>3, <2>1, <2>2 DEF FrameEnd
<1> QED
  BY <1>2, <1>3

\* What is read from the line are bytes (iso9141.py:524-535).
LEMMA BytesTyped ==
    ASSUME NEW s \in Seq(OnLine)
    PROVE  BytesOf(s) \in Seq(Byte)
<1>1. DOMAIN s = 1..Len(s) /\ Len(s) \in Nat
  BY LenProperties
<1>2. \A i \in 1..Len(s) : s[i] \in OnLine
  BY ElementOfSeq
<1>3. \A i \in 1..Len(s) : s[i].byte \in Byte
  BY <1>2 DEF OnLine
<1> QED
  BY <1>1, <1>3 DEF BytesOf

\* A read takes bytes from the head of the line and leaves the rest on it
\* (iso9141.py:150-168).
LEMMA PartsTyped ==
    ASSUME stream \in Seq(OnLine), NEW n \in 0..Len(stream)
    PROVE  Upto(n) \in Seq(Byte) /\ Behind(n) \in Seq(OnLine)
<1>1. Len(stream) \in Nat /\ \A i \in 1..Len(stream) : stream[i] \in OnLine
  BY LenProperties, ElementOfSeq
<1>2. SubSeq(stream, 1, n) \in Seq(OnLine) /\ SubSeq(stream, n + 1, Len(stream)) \in Seq(OnLine)
  BY <1>1, SubSeqProperties
<1> QED
  BY <1>2, BytesTyped DEF Upto, Behind

\* To append to a list adds one element (junk.append, common.py:213).
LEMMA RangeAppended ==
    ASSUME NEW S, NEW s \in Seq(S), NEW e \in S
    PROVE  Range(Append(s, e)) = Range(s) \cup {e}
<1>1. Append(s, e) \in Seq(S)
  BY AppendProperties
<1>2. Range(s) = {s[i] : i \in 1..Len(s)}
  BY RangeEquality
<1>3. Range(Append(s, e)) = {Append(s, e)[i] : i \in 1..Len(Append(s, e))}
  BY <1>1, RangeEquality
<1>4. /\ Len(s) \in Nat /\ Len(Append(s, e)) = Len(s) + 1
      /\ \A i \in 1..Len(s) : Append(s, e)[i] = s[i]
      /\ Append(s, e)[Len(s) + 1] = e
  BY AppendProperties, LenProperties
<1>5. ASSUME NEW x PROVE x \in Range(Append(s, e)) <=> x \in Range(s) \cup {e}
  <2>1. ASSUME x \in Range(Append(s, e)) PROVE x \in Range(s) \cup {e}
    <3>1. PICK i \in 1..Len(s) + 1 : x = Append(s, e)[i]
      BY <1>3, <1>4, <2>1
    <3>2. i \in 1..Len(s) \/ i = Len(s) + 1
      BY <1>4
    <3> QED
      BY <1>2, <1>4, <3>1, <3>2
  <2>2. ASSUME x \in Range(s) PROVE x \in Range(Append(s, e))
    <3>1. PICK i \in 1..Len(s) : x = s[i]
      BY <1>2, <2>2
    <3>2. i \in 1..Len(Append(s, e)) /\ x = Append(s, e)[i]
      BY <1>4, <3>1
    <3> QED
      BY <1>3, <3>2
  <2>3. e \in Range(Append(s, e))
    <3>1. Len(s) + 1 \in 1..Len(Append(s, e))
      BY <1>4
    <3> QED
      BY <1>3, <1>4, <3>1
  <2> QED
    BY <2>1, <2>2, <2>3
<1> QED
  BY <1>5

----------------------------------------------------------------------------
\* Before anything is read the invariant holds: _transmit starts with nothing
\* collected (iso9141.py:410-418).
LEMMA Initially == Init => IInv
<1> SUFFICES ASSUME Init PROVE IInv
  OBVIOUS
<1>1. /\ raw = <<>> /\ frames = <<>> /\ junk = <<>> /\ at = 1 /\ outcome = "receiving"
      /\ leftover = <<>> /\ buf = <<>> /\ NothingSplit
  BY DEF Init, NothingSplit
<1>2. stream \in Seq(OnLine)
  BY ReceiveAssumption DEF Init
<1>3. Len(<<>>) = 0 /\ DOMAIN <<>> = {} /\ Range(<<>>) = {}
  BY DEF Range
<1>4. Types
  BY <1>1, <1>2, <1>3 DEF Types, Init
<1>5. Starts = {}
  BY <1>1, <1>3 DEF Starts
<1>6. InLine /\ AtHeaders /\ Progress
  BY <1>1, <1>3, <1>5 DEF InLine, AtHeaders, Progress, Splits
<1> QED
  BY <1>4, <1>6 DEF IInv

\* Reading leaves the splitter alone.
Reading == ConsumeEcho \/ Collect \/ NoMessage \/ NoMore

\* The reads collect bytes and leave the splitter alone (_consume_echo, _collect,
\* _collect_multi, iso9141.py:150-211).
LEMMA ReadingTypes == Types /\ Reading => Types' /\ UNCHANGED split
<1> SUFFICES ASSUME Types, Reading PROVE Types' /\ UNCHANGED split
  OBVIOUS
<1>1. UNCHANGED <<split, setting>>
  BY DEF Reading, ConsumeEcho, Collect, NoMessage, NoMore
<1>2. stream' \in Seq(OnLine) /\ leftover' \in Seq(Byte) /\ buf' \in Seq(Byte)
  <2>1. CASE ConsumeEcho
    <3>1. PICK n \in 0..Len(stream) : leftover' = Kept(Upto(n)) /\ stream' = Behind(n)
      BY <2>1 DEF ConsumeEcho
    <3>2. Kept(Upto(n)) \in Seq(Byte)
      <4>1. stream \in Seq(OnLine)
        BY DEF Types
      <4>2. Upto(n) \in Seq(Byte) /\ <<>> \in Seq(Byte)
        BY <4>1, PartsTyped
      <4> QED
        BY <4>2 DEF Kept
    <3> QED
      BY <2>1, <3>1, <3>2, PartsTyped DEF ConsumeEcho, Types
  <2>2. CASE Collect
    <3>1. PICK n \in 1..Len(stream) : buf' = buf \o Upto(n) /\ stream' = Behind(n)
      BY <2>2 DEF Collect
    <3>2. n \in 0..Len(stream)
      <4>1. Len(stream) \in Nat
        BY LenProperties DEF Types
      <4> QED
        BY <4>1
    <3>3. buf \o Upto(n) \in Seq(Byte)
      BY <3>2, PartsTyped, ConcatProperties DEF Types
    <3> QED
      BY <2>2, <3>1, <3>2, <3>3, PartsTyped DEF Collect, Types
  <2>3. CASE NoMessage \/ NoMore
    BY <2>3 DEF NoMessage, NoMore, Types
  <2> QED
    BY <2>1, <2>2, <2>3 DEF Reading
<1> QED
  BY <1>1, <1>2 DEF Types, split, setting, Splits

\* What counts as a header, a proven end or a clean buffer depends on the bytes
\* collected and on nothing else (common.py:149-184).
LEMMA FramesStay ==
    ASSUME raw' = raw
    PROVE  /\ \A i : IsFrameStart(i)' <=> IsFrameStart(i)
           /\ \A i : Proven(i)' = Proven(i)
           /\ \A i, j : Sum(i, j)' = Sum(i, j)
           /\ Starts' = Starts /\ (Clean' <=> Clean)
           /\ \A i : NextStart(i)' = NextStart(i)
<1>1. \A i : IsFrameStart(i)' <=> IsFrameStart(i)
  BY DEF IsFrameStart
<1>2. \A i, j : Sum(i, j)' = Sum(i, j)
  BY DEF Sum
<1>3. \A i : Proven(i)' = Proven(i)
  BY <1>2 DEF Proven, ChecksumOk
<1>4. Starts' = Starts
  BY <1>1 DEF Starts
<1>5. \A i : NextStart(i)' = NextStart(i)
  BY <1>4 DEF NextStart
<1>6. Clean' <=> Clean
  BY <1>2, <1>4, <1>5 DEF Clean
<1> QED
  BY <1>1, <1>2, <1>3, <1>4, <1>5, <1>6

\* A step that leaves the splitter alone leaves its part of the invariant alone.
LEMMA SplitUnchanged ==
    InLine /\ AtHeaders /\ Progress /\ UNCHANGED split => InLine' /\ AtHeaders' /\ Progress'
<1> SUFFICES ASSUME InLine, AtHeaders, Progress, UNCHANGED split
             PROVE  InLine' /\ AtHeaders' /\ Progress'
  OBVIOUS
<1>1. UNCHANGED <<sent, raw, at, frames, junk, outcome>>
  BY DEF split
<1>2. InLine'
  BY <1>1, FramesStay DEF InLine, IsFrame, InFrame
<1>3. AtHeaders'
  BY <1>1, FramesStay DEF AtHeaders
<1>4. Progress'
  BY <1>1 DEF Progress, NothingSplit
<1> QED
  BY <1>2, <1>3, <1>4

\* The collected bytes are handed over before any of them is split
\* (iso9141.py:424-430).
LEMMA HandOverKeeps == IInv /\ HandOver => IInv'
<1> SUFFICES ASSUME IInv, HandOver PROVE IInv'
  OBVIOUS
<1>1. /\ raw' = leftover \o buf /\ outcome' \in {"no response", "splitting"}
      /\ outcome' = "no response" => raw' = <<>>
      /\ UNCHANGED <<sent, at, frames, junk, setting, stream, leftover, buf, batches, late, step>>
  BY DEF HandOver
<1>2. at = 1 /\ frames = <<>> /\ junk = <<>>
  BY DEF HandOver, IInv, Progress, NothingSplit
<1>3. raw' \in Seq(Byte) /\ Len(raw') \in Nat
  <2>1. leftover \in Seq(Byte) /\ buf \in Seq(Byte)
    BY DEF IInv, Types
  <2>2. leftover \o buf \in Seq(Byte)
    BY <2>1, ConcatProperties
  <2> QED
    BY <1>1, <2>2, LenProperties
<1>4. at' = 1 /\ frames' = <<>> /\ junk' = <<>> /\ DOMAIN <<>> = {} /\ Range(<<>>) = {}
  <2>1. at' = 1 /\ frames' = <<>> /\ junk' = <<>>
    BY <1>1, <1>2
  <2>2. DOMAIN <<>> = {} /\ Range(<<>>) = {}
    BY DEF Range
  <2> QED
    BY <2>1, <2>2
<1>5. Types'
  <2>1. at' \in 1..Len(raw') + 1
    BY <1>3, <1>4
  <2>2. frames' \in Seq(Span) /\ junk' \in Seq(Nat)
    BY <1>4
  <2>3. UNCHANGED <<multi, stream, leftover, buf>>
    BY <1>1 DEF setting
  <2> QED
    BY <1>1, <1>3, <2>1, <2>2, <2>3 DEF IInv, Types
<1>6. InLine'
  <2>1. 1..(at' - 1) = {}
    BY <1>4
  <2> QED
    BY <1>4, <2>1 DEF InLine
<1>7. AtHeaders'
  <2>1. \A i \in Starts' : i \in 1..Len(raw')
    BY DEF Starts
  <2>2. \A i \in Starts' : ~(i < at')
    BY <1>3, <1>4, <2>1
  <2> QED
    BY <1>4, <2>2 DEF AtHeaders
<1>8. Progress'
  BY <1>1, <1>2 DEF Progress, NothingSplit, Splits
<1> QED
  BY <1>5, <1>6, <1>7, <1>8 DEF IInv

----------------------------------------------------------------------------
\* The offsets and lists of the splitter are of the expected kind
\* (common.py:203-205).
LEMMA Sizes ==
    ASSUME Types
    PROVE  /\ Len(raw) \in Nat /\ at \in Nat \ {0} /\ at <= Len(raw) + 1
           /\ Len(frames) \in Nat /\ DOMAIN frames = 1..Len(frames)
           /\ frames \in Seq(Span) /\ junk \in Seq(Nat)
           /\ Starts \subseteq 1..Len(raw)
<1>1. raw \in Seq(Byte) /\ frames \in Seq(Span) /\ junk \in Seq(Nat) /\ at \in 1..Len(raw) + 1
  BY DEF Types
<1>2. Len(raw) \in Nat /\ Len(frames) \in Nat /\ DOMAIN frames = 1..Len(frames)
  BY <1>1, LenProperties
<1> QED
  BY <1>1, <1>2 DEF Starts

\* What the splitter leaves alone.
received == <<setting, stream, leftover, buf, batches, late, step>>

\* A step of the splitter on offsets and frames in range keeps the types.
LEMMA SplitTypes ==
    ASSUME Types, raw' = raw, UNCHANGED received,
           at' \in 1..Len(raw) + 1, frames' \in Seq(Span), junk' \in Seq(Nat),
           outcome' \in {outcome} \cup Splits
    PROVE  Types'
<1>1. UNCHANGED <<raw, multi, stream, leftover, buf>>
  BY DEF setting, received
<1>2. outcome' \in {"receiving", "splitting", "no response"} \cup Splits
  BY DEF Types
<1>3. at' \in 1..Len(raw') + 1
  BY <1>1
<1> QED
  BY <1>1, <1>2, <1>3 DEF Types

\* The next header lies behind this one, or there is none and the buffer ends
\* (common.py:180).
LEMMA NextStartIsNext ==
    ASSUME Types, NEW i \in Starts
    PROVE  /\ NextStart(i) \in Nat /\ i < NextStart(i) /\ NextStart(i) <= Len(raw) + 1
           /\ NextStart(i) = Len(raw) + 1 \/ NextStart(i) \in Starts
           /\ \A j \in Starts : i < j => NextStart(i) <= j
<1> DEFINE S == {j \in Starts : j > i} \cup {Len(raw) + 1}
<1>1. Len(raw) \in Nat /\ Starts \subseteq 1..Len(raw)
  BY Sizes
<1>2. S \in SUBSET Nat /\ S # {}
  <2>1. Starts \subseteq Nat /\ Len(raw) + 1 \in Nat
    BY <1>1
  <2>2. Len(raw) + 1 \in S
    OBVIOUS
  <2>3. S \subseteq Nat
    BY <2>1
  <2> QED
    BY <2>2, <2>3
<1>3. Smallest(S) \in S /\ \A j \in S : Smallest(S) <= j
  BY <1>2, SmallestIsLeast
<1>4. NextStart(i) = Smallest(S)
  BY DEF NextStart
<1>5. i \in Nat /\ \A j \in S : j \in Nat /\ i < j /\ j <= Len(raw) + 1
  BY <1>1
<1>6. \A j \in S : j = Len(raw) + 1 \/ j \in Starts
  OBVIOUS
<1>7. \A j \in Starts : i < j => j \in S
  BY <1>1
<1> HIDE DEF S
<1> QED
  BY <1>3, <1>4, <1>5, <1>6, <1>7

\* Where no data looks like a header, _frame_end gives the next header: it is an
\* exact end, and no smaller end is one (common.py:173-184).
LEMMA CleanFrame ==
    ASSUME Types, Clean, NEW i \in Starts
    PROVE  NextStart(i) \in Exact(i) /\ FrameEnd(i) = NextStart(i)
<1>1. Len(raw) \in Nat /\ Starts \subseteq 1..Len(raw)
  BY Sizes
<1>2. i \in Nat /\ NextStart(i) \in Nat
  BY <1>1, NextStartIsNext
<1>3. NextStart(i) \in (i + HeaderLen + 2)..(i + HeaderLen + MaxData + 1)
  BY <1>2, FramingAssumption DEF Clean, HeaderLen
<1>4. NextStart(i) <= Len(raw) + 1 /\ ChecksumOk(i, NextStart(i))
  BY NextStartIsNext DEF Clean, ChecksumOk
<1>5. NextStart(i) = Len(raw) + 1 \/ IsFrameStart(NextStart(i))
  BY NextStartIsNext DEF Starts
<1>6. NextStart(i) \in Exact(i)
  BY <1>3, <1>4, <1>5 DEF Exact, Proven
<1>7. Exact(i) \in SUBSET Nat
  BY <1>2, ProvenEnds
<1>8. Smallest(Exact(i)) \in Exact(i) /\ Smallest(Exact(i)) <= NextStart(i)
  BY <1>6, <1>7, SmallestIsLeast
<1>9. NextStart(i) <= Smallest(Exact(i))
  <2>1. i < Smallest(Exact(i)) /\ Smallest(Exact(i)) \in Nat
    BY <1>2, <1>7, <1>8, ProvenEnds
  <2>2. CASE Smallest(Exact(i)) = Len(raw) + 1
    BY <1>4, <2>2
  <2>3. CASE IsFrameStart(Smallest(Exact(i)))
    <3>1. Smallest(Exact(i)) \in Starts
      BY <1>1, <2>1, <2>3 DEF Starts, IsFrameStart, HeaderLen
    <3> QED
      BY <2>1, <3>1, NextStartIsNext
  <2> QED
    BY <1>8, <2>2, <2>3 DEF Exact
<1>10. Smallest(Exact(i)) = NextStart(i)
  BY <1>2, <1>7, <1>8, <1>9
<1> QED
  BY <1>6, <1>10 DEF FrameEnd

\* A byte that starts no frame is junk: it is in no frame, and on a clean buffer
\* it is no header (common.py:212-215).
LEMMA DiscardKeeps == IInv /\ Discard /\ UNCHANGED received => IInv'
<1> SUFFICES ASSUME IInv, Discard, UNCHANGED received PROVE IInv'
  OBVIOUS
<1>1. /\ outcome = "splitting" /\ at <= Len(raw) /\ ~Found
      /\ junk' = Append(junk, at) /\ at' = at + 1
      /\ UNCHANGED <<sent, raw, frames, outcome>>
  BY DEF Discard
<1>2. /\ at \in Nat \ {0} /\ Len(raw) \in Nat /\ junk \in Seq(Nat) /\ frames \in Seq(Span)
      /\ DOMAIN frames = 1..Len(frames) /\ at <= Len(raw) + 1 /\ Starts \subseteq 1..Len(raw)
  BY Sizes DEF IInv
<1>3. junk' \in Seq(Nat) /\ Range(junk') = Range(junk) \cup {at}
  BY <1>1, <1>2, AppendProperties, RangeAppended
<1>4. Types'
  <2>1. at' \in 1..Len(raw) + 1
    BY <1>1, <1>2
  <2> QED
    BY <1>1, <1>2, <1>3, <2>1, SplitTypes DEF IInv
<1>5. InLine'
  <2>1. \A k \in DOMAIN frames : IsFrame(frames[k])'
    BY <1>1, <1>2, FramesStay DEF IInv, InLine, IsFrame
  <2>2. \A i \in Range(junk') : i < at'
    BY <1>1, <1>2, <1>3, RangeOfSeq DEF IInv, InLine
  <2>3. ASSUME NEW i \in 1..(at' - 1)
        PROVE  (\E k \in DOMAIN frames : InFrame(k, i)) <=> i \notin Range(junk')
    <3>1. CASE i = at
      <4>1. \A k \in DOMAIN frames : frames[k].end <= at /\ frames[k].end \in Nat
        BY <1>2 DEF IInv, InLine, IsFrame
      <4> QED
        BY <1>2, <1>3, <3>1, <4>1 DEF InFrame
    <3>2. CASE i # at
      <4>1. i \in 1..(at - 1)
        BY <1>1, <1>2, <3>2
      <4> QED
        BY <1>3, <3>2, <4>1 DEF IInv, InLine
    <3> QED
      BY <3>1, <3>2
  <2> QED
    BY <1>1, <2>1, <2>2, <2>3 DEF IInv, InLine, InFrame
<1>6. AtHeaders'
  <2>1. ASSUME Clean, at \in Starts PROVE FALSE
    <3>1. NextStart(at) \in Exact(at)
      BY <2>1, CleanFrame DEF IInv
    <3>2. FrameEnd(at) = Smallest(Exact(at)) /\ Exact(at) \in SUBSET Nat
      BY <1>2, <3>1, ProvenEnds DEF FrameEnd
    <3>3. Smallest(Exact(at)) \in Exact(at)
      BY <3>1, <3>2, SmallestIsLeast
    <3>4. FrameEnd(at) # None
      BY <1>2, <3>2, <3>3, ProvenEnds DEF None
    <3> QED
      BY <1>1, <2>1, <3>4 DEF Found, Starts
  <2>2. Starts \subseteq Nat
    BY <1>2
  <2>3. ASSUME Clean, NEW i \in Starts, i < at' PROVE i < at
    BY <1>1, <1>2, <2>1, <2>2, <2>3
  <2> QED
    BY <1>1, <2>3, FramesStay DEF IInv, AtHeaders
<1>7. Progress'
  BY <1>1 DEF Progress, Splits
<1> QED
  BY <1>4, <1>5, <1>6, <1>7 DEF IInv

\* A frame is taken behind the ones before it, and splitting goes on at its end:
\* it covers exactly the bytes that were not looked at (common.py:216-223).
LEMMA TakeFrameKeeps == IInv /\ TakeFrame /\ UNCHANGED received => IInv'
<1> SUFFICES ASSUME IInv, TakeFrame, UNCHANGED received PROVE IInv'
  OBVIOUS
<1>0. PICK end, new, last :
        end = FrameEnd(at) /\ new = [start |-> at, end |-> end] /\ last = Len(frames) + 1
  OBVIOUS
<1>1. /\ outcome = "splitting" /\ at <= Len(raw) /\ IsFrameStart(at) /\ end # None
      /\ frames' = Append(frames, new) /\ at' = end
      /\ UNCHANGED <<sent, raw, junk, outcome>>
  BY <1>0 DEF TakeFrame, Found, NextOffset
<1>2. /\ at \in Nat \ {0} /\ Len(raw) \in Nat /\ junk \in Seq(Nat) /\ frames \in Seq(Span)
      /\ Len(frames) \in Nat /\ DOMAIN frames = 1..Len(frames) /\ Starts \subseteq 1..Len(raw)
  BY Sizes DEF IInv
<1>3. end \in Proven(at) /\ end \in Nat /\ at < end /\ end <= Len(raw) + 1
  <2>1. end \in Proven(at) /\ end \in Nat
    BY <1>0, <1>1, <1>2, FrameEndIsProven
  <2>2. at + 4 < end
    BY <1>2, <2>1, ProvenEnds
  <2> QED
    BY <1>2, <2>1, <2>2 DEF Proven
<1>4. new \in Span /\ new.start = at /\ new.end = end
  BY <1>0, <1>2, <1>3 DEF Span
<1>5. /\ frames' \in Seq(Span) /\ DOMAIN frames' = 1..last /\ last \in Nat
      /\ \A k \in 1..Len(frames) : frames'[k] = frames[k]
      /\ frames'[last] = new
  BY <1>0, <1>1, <1>2, <1>4, AppendProperties, LenProperties
<1>6. Types'
  <2>1. at' \in 1..Len(raw) + 1
    BY <1>1, <1>2, <1>3
  <2> QED
    BY <1>1, <1>2, <1>5, <2>1, SplitTypes DEF IInv
<1>7. ASSUME NEW k \in DOMAIN frames'
      PROVE  (k \in DOMAIN frames /\ frames'[k] = frames[k]) \/ (k = last /\ frames'[k] = new)
  BY <1>0, <1>2, <1>5
<1>8. \A k \in DOMAIN frames : /\ frames[k].start \in Nat /\ frames[k].end \in Nat
                               /\ frames[k].end <= at /\ IsFrame(frames[k])
  BY <1>2 DEF IInv, InLine, IsFrame
<1>9. InLine'
  <2>1. (\A k \in DOMAIN frames : IsFrame(frames[k]))'
    <3> SUFFICES ASSUME NEW k \in DOMAIN frames' PROVE IsFrame(frames[k])'
      OBVIOUS
    <3>1. CASE k = last /\ frames'[k] = new
      BY <1>1, <1>2, <1>3, <1>4, <3>1, FramesStay DEF IsFrame
    <3>2. CASE k \in DOMAIN frames /\ frames'[k] = frames[k]
      BY <1>1, <1>2, <1>3, <1>8, <3>2, FramesStay DEF IsFrame
    <3> QED
      BY <1>7, <3>1, <3>2
  <2>2. \A k, l \in DOMAIN frames' : k < l => frames'[k].end <= frames'[l].start
    <3> SUFFICES ASSUME NEW k \in DOMAIN frames', NEW l \in DOMAIN frames', k < l
                 PROVE  frames'[k].end <= frames'[l].start
      OBVIOUS
    <3>1. k \in DOMAIN frames /\ frames'[k] = frames[k]
      BY <1>0, <1>2, <1>5, <1>7
    <3>2. CASE l \in DOMAIN frames
      BY <1>2, <1>5, <3>1, <3>2 DEF IInv, InLine
    <3>3. CASE l = last
      BY <1>4, <1>5, <1>8, <3>1, <3>3
    <3> QED
      BY <1>7, <3>2, <3>3
  <2>3. \A i \in Range(junk') : i < at'
    BY <1>1, <1>2, <1>3, RangeOfSeq DEF IInv, InLine
  <2>4. ASSUME NEW i \in 1..(at' - 1)
        PROVE  (\E k \in DOMAIN frames' : InFrame(k, i)') <=> i \notin Range(junk')
    <3>1. CASE i < at
      <4>1. \A k \in DOMAIN frames : InFrame(k, i)' <=> InFrame(k, i)
        BY <1>2, <1>5 DEF InFrame
      <4>2. ~InFrame(last, i)'
        BY <1>1, <1>2, <1>3, <1>4, <1>5, <3>1 DEF InFrame
      <4>3. (\E k \in DOMAIN frames' : InFrame(k, i)') <=> (\E k \in DOMAIN frames : InFrame(k, i))
        BY <1>0, <1>2, <1>5, <1>7, <4>1, <4>2
      <4>4. i \in 1..(at - 1)
        BY <1>1, <1>2, <1>3, <3>1
      <4> QED
        BY <1>1, <4>3, <4>4 DEF IInv, InLine
    <3>2. CASE at <= i
      <4>1. InFrame(last, i)' /\ last \in DOMAIN frames'
        BY <1>0, <1>1, <1>2, <1>3, <1>4, <1>5, <3>2 DEF InFrame
      <4>2. i \notin Range(junk')
        BY <1>1, <1>2, <1>3, <3>2 DEF IInv, InLine
      <4> QED
        BY <4>1, <4>2
    <3> QED
      BY <1>1, <1>2, <1>3, <3>1, <3>2
  <2> QED
    BY <2>1, <2>2, <2>3, <2>4 DEF InLine
<1>10. AtHeaders'
  <2> SUFFICES ASSUME Clean PROVE AtHeaders'
    BY <1>1, FramesStay DEF AtHeaders
  <2>1. at \in Starts /\ Starts \subseteq Nat
    BY <1>1, <1>2 DEF Starts
  <2>2. end = NextStart(at)
    BY <1>0, <2>1, CleanFrame DEF IInv
  <2>3. new = [start |-> at, end |-> NextStart(at)]
    BY <1>0, <2>2
  <2>4. ASSUME NEW i \in Starts, i < end PROVE i <= at
    BY <2>1, <2>2, <2>4, NextStartIsNext DEF IInv
  <2>5. \A k \in DOMAIN frames' :
           frames'[k].start \in Starts /\ frames'[k].end = NextStart(frames'[k].start)
    BY <1>4, <1>7, <2>1, <2>2 DEF IInv, AtHeaders
  <2>6. ASSUME NEW i \in Starts, i < end
        PROVE  \E k \in DOMAIN frames' : frames'[k] = [start |-> i, end |-> NextStart(i)]
    <3>1. CASE i = at
      BY <1>0, <1>2, <1>5, <2>3, <3>1
    <3>2. CASE i < at
      BY <1>0, <1>2, <1>5, <3>2 DEF IInv, AtHeaders
    <3> QED
      BY <1>2, <2>1, <2>4, <2>6, <3>1, <3>2
  <2> QED
    BY <1>1, <2>5, <2>6, FramesStay DEF AtHeaders
<1>11. Progress'
  BY <1>1 DEF Progress, Splits
<1> QED
  BY <1>6, <1>9, <1>10, <1>11 DEF IInv

\* _frames judges what was split and changes none of it (iso9141.py:430-459).
LEMMA ReportKeeps == IInv /\ Report /\ UNCHANGED received => IInv'
<1> SUFFICES ASSUME IInv, Report, UNCHANGED received PROVE IInv'
  OBVIOUS
<1>1. /\ at > Len(raw) /\ outcome' \in Splits /\ UNCHANGED <<sent, raw, at, frames, junk>>
  BY DEF Report, Splits
<1>2. /\ at = Len(raw) + 1 /\ at \in 1..Len(raw) + 1
      /\ frames \in Seq(Span) /\ junk \in Seq(Nat)
  BY <1>1, Sizes DEF IInv
<1>3. InLine'
  BY <1>1, FramesStay DEF IInv, InLine, IsFrame, InFrame
<1>4. AtHeaders'
  BY <1>1, FramesStay DEF IInv, AtHeaders
<1>5. Progress'
  BY <1>1, <1>2 DEF Progress, Splits
<1>6. Types'
  BY <1>1, <1>2, SplitTypes DEF IInv
<1> QED
  BY <1>3, <1>4, <1>5, <1>6 DEF IInv

\* Every step of a read keeps the invariant.
LEMMA StepKeeps == IInv /\ [Next]_vars => IInv'
<1> SUFFICES ASSUME IInv, [Next]_vars PROVE IInv'
  OBVIOUS
<1>1. CASE Reading
  BY <1>1, ReadingTypes, SplitUnchanged DEF IInv
<1>2. CASE HandOver
  BY <1>2, HandOverKeeps
<1>3. CASE Frames
  <2>1. UNCHANGED received
    BY <1>3 DEF Frames, received, setting
  <2> QED
    BY <1>3, <2>1, DiscardKeeps, TakeFrameKeeps, ReportKeeps DEF Frames, Split
<1>4. CASE Ended \/ UNCHANGED vars
  <2>1. UNCHANGED split /\ UNCHANGED <<multi, stream, leftover, buf>>
    BY <1>4 DEF Ended, vars, setting
  <2>2. Types'
    BY <2>1 DEF IInv, Types, split
  <2> QED
    BY <2>1, <2>2, SplitUnchanged DEF IInv
<1> QED
  BY <1>1, <1>2, <1>3, <1>4 DEF Next, Reading

\* The invariant holds throughout: frames in line, junk between them, and on a
\* clean buffer a frame for every header passed (common.py:203-223).
THEOREM IInvHolds == Spec => []IInv
<1>1. Init => IInv
  BY Initially
<1>2. IInv /\ [Next]_vars => IInv'
  BY StepKeeps
<1> QED
  BY <1>1, <1>2, PTL DEF Spec

----------------------------------------------------------------------------
\* The bounds of a frame are offsets.
LEMMA Typed ==
    ASSUME IInv
    PROVE  /\ DOMAIN frames \subseteq Nat
           /\ \A k \in DOMAIN frames : /\ frames[k] \in Span
                                       /\ frames[k].start \in Nat /\ frames[k].end \in Nat
<1>1. frames \in Seq(Span) /\ DOMAIN frames = 1..Len(frames) /\ Len(frames) \in Nat
  BY Sizes DEF IInv
<1>2. \A k \in DOMAIN frames : frames[k] \in Span
  BY <1>1, ElementOfSeq
<1> QED
  BY <1>1, <1>2 DEF Span

\* Every byte looked at is in exactly one frame or in the junk, so nothing is
\* decoded twice and nothing disappears (common.py:196-203).
THEOREM SpecEveryByteOnce == Spec => []EveryByteOnce
<1>1. IInv => EveryByteOnce
  <2> SUFFICES ASSUME IInv PROVE EveryByteOnce
    OBVIOUS
  <2>1. \A i \in 1..(at - 1) : (\E k \in DOMAIN frames : InFrame(k, i)) <=> i \notin Range(junk)
    BY DEF IInv, InLine
  <2>2. /\ DOMAIN frames \subseteq Nat
        /\ \A k \in DOMAIN frames : frames[k].start \in Nat /\ frames[k].end \in Nat
    BY Typed
  <2>3. ASSUME NEW i \in 1..(at - 1), NEW k \in DOMAIN frames, NEW l \in DOMAIN frames,
               InFrame(k, i), InFrame(l, i)
        PROVE  k = l
    <3>1. ASSUME NEW m \in DOMAIN frames, NEW n \in DOMAIN frames,
                 InFrame(m, i), InFrame(n, i), m < n
          PROVE  FALSE
      <4>1. frames[m].end <= frames[n].start
        BY <3>1 DEF IInv, InLine
      <4>2. i < frames[m].end /\ frames[n].start <= i /\ i \in Nat
        BY <3>1, Sizes DEF InFrame, IInv
      <4> QED
        BY <2>2, <4>1, <4>2
    <3> QED
      BY <2>2, <2>3, <3>1
  <2> QED
    BY <2>1, <2>3 DEF EveryByteOnce
<1> QED
  BY <1>1, IInvHolds, PTL

\* A frame has the header, a data field of legal length and a checksum that adds
\* up, so that no corrupt byte reaches a decoder (iso9141.py:431-436).
THEOREM SpecOnlyProvenFrames == Spec => []OnlyProvenFrames
<1>1. IInv => OnlyProvenFrames
  <2> SUFFICES ASSUME IInv, NEW k \in DOMAIN frames
               PROVE  /\ SubSeq(raw, frames[k].start, frames[k].start + 1) = <<Fmt, Target>>
                      /\ frames[k].end - frames[k].start - HeaderLen - 1 \in 1..MaxData
                      /\ raw[frames[k].end - 1] = Sum(frames[k].start, frames[k].end - 2)
    BY DEF OnlyProvenFrames
  <2>1. PICK start, end : start = frames[k].start /\ end = frames[k].end
    OBVIOUS
  <2>2. /\ start \in 1..Len(raw) /\ end \in Nat /\ Len(raw) \in Nat /\ raw \in Seq(Byte)
        /\ IsFrameStart(start) /\ end \in Proven(start)
    <3>1. IsFrame(frames[k]) /\ Types
      BY DEF IInv, InLine
    <3> QED
      BY <2>1, <3>1, Sizes, Typed DEF IsFrame, Types
  <2>3. SubSeq(raw, start, start + 1) = <<Fmt, Target>>
    <3>1. start + 1 <= Len(raw) /\ raw[start] = Fmt /\ raw[start + 1] = Target
      BY <2>2 DEF IsFrameStart, HeaderLen
    <3>2. PICK two \in Seq(Byte) : two = SubSeq(raw, start, start + 1)
      <4>1. \A i \in start..(start + 1) : i \in 1..Len(raw)
        BY <2>2, <3>1
      <4>2. \A i \in start..(start + 1) : raw[i] \in Byte
        BY <2>2, <4>1, ElementOfSeq
      <4>3. SubSeq(raw, start, start + 1) \in Seq(Byte)
        BY <2>2, <4>1, <4>2, SubSeqProperties
      <4> QED
        BY <4>3
    <3>3. Len(two) = 2 /\ two[1] = Fmt /\ two[2] = Target
      BY <2>2, <3>1, <3>2, SubSeqProperties
    <3>4. Fmt \in Byte /\ Target \in Byte
      BY FramingAssumption
    <3>5. /\ <<Fmt, Target>> \in Seq(Byte) /\ Len(<<Fmt, Target>>) = 2
          /\ <<Fmt, Target>>[1] = Fmt /\ <<Fmt, Target>>[2] = Target
      BY <3>4
    <3>6. \A i \in 1..Len(two) : two[i] = <<Fmt, Target>>[i]
      BY <3>3, <3>5
    <3>7. two = <<Fmt, Target>>
      BY <3>2, <3>3, <3>5, <3>6, SeqEqual
    <3> QED
      BY <3>2, <3>7
  <2>4. end - start - HeaderLen - 1 \in 1..MaxData /\ raw[end - 1] = Sum(start, end - 2)
    BY <2>2, FramingAssumption DEF Proven, ChecksumOk, HeaderLen
  <2> QED
    BY <2>1, <2>3, <2>4
<1> QED
  BY <1>1, IInvHolds, PTL

\* On a clean buffer the splitter takes a frame at each header, and nothing else
\* (common.py:216-223).
LEMMA HeadersFound == IInv => SplitsAtHeaders
<1> SUFFICES ASSUME IInv, outcome \in Splits, Clean
             PROVE  Range(frames) = {[start |-> i, end |-> NextStart(i)] : i \in Starts}
  BY DEF SplitsAtHeaders
<1>1. at = Len(raw) + 1 /\ Len(raw) \in Nat /\ Starts \subseteq 1..Len(raw)
  BY Sizes DEF IInv, Progress
<1>2. \A i \in Starts : \E k \in DOMAIN frames : frames[k] = [start |-> i, end |-> NextStart(i)]
  BY <1>1 DEF IInv, AtHeaders
<1>3. \A k \in DOMAIN frames :
        /\ frames[k].start \in Starts
        /\ frames[k] = [start |-> frames[k].start, end |-> NextStart(frames[k].start)]
  <2>1. \A k \in DOMAIN frames : frames[k] \in Span
    BY Typed DEF IInv
  <2> QED
    BY <2>1 DEF IInv, AtHeaders, Span
<1> QED
  BY <1>2, <1>3 DEF Range

\* Where no data looks like a header, the frames found are those from each header
\* to the next, however checksums happen to add up inside them
\* (common.py:163-172).
THEOREM SpecSplitsAtHeaders == Spec => []SplitsAtHeaders
BY HeadersFound, IInvHolds, PTL

----------------------------------------------------------------------------
(* The reply.                                                              *)

\* d bytes of the line were dropped; then they were the bytes of the request.  What
\* was read and what was not are the rest of the line.
Dropped(d) ==
    /\ d > 0 => step # "echo" /\ line.echoes /\ d = Len(Request) /\ IsPrefix(Request, Carried)
    /\ d + Len(leftover) + Len(buf) + Len(stream) = Len(line.carried)
    /\ \A i \in DOMAIN leftover : leftover[i] = line.carried[d + i].byte
    /\ \A i \in DOMAIN buf : buf[i] = line.carried[d + Len(leftover) + i].byte
    /\ \A i \in DOMAIN stream : stream[i] = line.carried[d + Len(leftover) + Len(buf) + i]

\* Where the read is, and what it says in the end.
Reader ==
    /\ line \in Lines /\ sent = line.sent /\ late \in BOOLEAN
    /\ step \in {"echo", "first", "follow", "done"}
    /\ step = "echo" => line.echoes /\ leftover = <<>> /\ buf = <<>>
    /\ step = "follow" => multi
    /\ step = "done" /\ ~LeftBehind => stream = <<>>
    /\ outcome # "receiving" => step = "done" /\ raw = leftover \o buf
    /\ outcome \in Splits /\ frames # <<>> => outcome = IF TooMany THEN "too many" ELSE "frames"
    /\ outcome = "no response" => raw = <<>>

NoneLost == \E d \in 0..Len(Request) : Dropped(d)

ReplyInv == Reader /\ NoneLost

LEMMA BytesAre ==
    ASSUME NEW s \in Seq(OnLine)
    PROVE  /\ BytesOf(s) \in Seq(Byte) /\ Len(BytesOf(s)) = Len(s) /\ Len(s) \in Nat
           /\ DOMAIN s = 1..Len(s) /\ DOMAIN BytesOf(s) = 1..Len(s)
           /\ \A i \in 1..Len(s) : BytesOf(s)[i] = s[i].byte
<1>1. DOMAIN s = 1..Len(s) /\ Len(s) \in Nat
  BY LenProperties
<1>2. BytesOf(s) \in Seq(Byte)
  BY BytesTyped
<1>3. DOMAIN BytesOf(s) = 1..Len(s) /\ \A i \in 1..Len(s) : BytesOf(s)[i] = s[i].byte
  BY <1>1 DEF BytesOf
<1>4. Len(BytesOf(s)) = Len(s)
  BY <1>1, <1>2, <1>3, LenProperties
<1> QED
  BY <1>1, <1>2, <1>3, <1>4

\* What a read takes, and what it leaves, is the line in its order
\* (iso9141.py:524-535).
LEMMA PartsAre ==
    ASSUME stream \in Seq(OnLine), NEW n \in 0..Len(stream)
    PROVE  /\ Len(stream) \in Nat /\ n \in Nat
           /\ Upto(n) \in Seq(Byte) /\ Len(Upto(n)) = n
           /\ \A i \in 1..n : Upto(n)[i] = stream[i].byte
           /\ Behind(n) \in Seq(OnLine) /\ Len(Behind(n)) = Len(stream) - n
           /\ \A i \in 1..Len(stream) - n : Behind(n)[i] = stream[n + i]
<1>1. Len(stream) \in Nat /\ \A i \in 1..Len(stream) : stream[i] \in OnLine
  BY LenProperties, ElementOfSeq
<1>2. /\ SubSeq(stream, 1, n) \in Seq(OnLine) /\ Len(SubSeq(stream, 1, n)) = n
      /\ \A i \in 1..n : SubSeq(stream, 1, n)[i] = stream[i]
  <2>1. \A i \in 1..n : stream[i] \in OnLine
    BY <1>1
  <2>2. SubSeq(stream, 1, n) \in Seq(OnLine)
    BY <1>1, <2>1, SubSeqProperties
  <2>3. Len(SubSeq(stream, 1, n)) = IF 1 <= n THEN n - 1 + 1 ELSE 0
    BY <1>1, <2>1, SubSeqProperties
  <2>4. \A i \in 1..n - 1 + 1 : SubSeq(stream, 1, n)[i] = stream[1 + i - 1]
    BY <1>1, <2>1, SubSeqProperties
  <2> QED
    BY <1>1, <2>2, <2>3, <2>4
<1>3. /\ Behind(n) \in Seq(OnLine) /\ Len(Behind(n)) = Len(stream) - n
      /\ \A i \in 1..Len(stream) - n : Behind(n)[i] = stream[n + i]
  <2> DEFINE m == n + 1
  <2>1. \A i \in m..Len(stream) : stream[i] \in OnLine
    BY <1>1
  <2>2. m \in Int /\ Len(stream) \in Int
    BY <1>1
  <2> HIDE DEF m
  <2>3. /\ SubSeq(stream, m, Len(stream)) \in Seq(OnLine)
        /\ Len(SubSeq(stream, m, Len(stream))) = IF m <= Len(stream) THEN Len(stream) - m + 1 ELSE 0
        /\ \A i \in 1..Len(stream) - m + 1 : SubSeq(stream, m, Len(stream))[i] = stream[m + i - 1]
    BY <2>1, <2>2, SubSeqProperties
  <2>4. Behind(n) = SubSeq(stream, m, Len(stream)) /\ m = n + 1
    BY DEF Behind, m
  <2> QED
    BY <1>1, <2>3, <2>4
<1>4. /\ BytesOf(SubSeq(stream, 1, n)) \in Seq(Byte) /\ Len(BytesOf(SubSeq(stream, 1, n))) = n
      /\ \A i \in 1..n : BytesOf(SubSeq(stream, 1, n))[i] = SubSeq(stream, 1, n)[i].byte
  BY <1>2, BytesAre
<1> QED
  BY <1>1, <1>2, <1>3, <1>4 DEF Upto

\* The sizes of what was read.
LEMMA ReadSizes ==
    ASSUME Types, line \in Lines
    PROVE  /\ stream \in Seq(OnLine) /\ leftover \in Seq(Byte) /\ buf \in Seq(Byte)
           /\ Len(stream) \in Nat /\ Len(leftover) \in Nat /\ Len(buf) \in Nat
           /\ DOMAIN stream = 1..Len(stream) /\ DOMAIN leftover = 1..Len(leftover)
           /\ DOMAIN buf = 1..Len(buf)
           /\ line.carried \in Seq(OnLine) /\ Len(line.carried) \in Nat
           /\ Carried \in Seq(Byte) /\ Len(Carried) = Len(line.carried)
           /\ \A i \in 1..Len(line.carried) : Carried[i] = line.carried[i].byte
           /\ Len(Request) \in Nat \ {0} /\ Request \in Seq(Byte)
           /\ DOMAIN Request = 1..Len(Request) /\ line.echoes \in BOOLEAN
<1>1. stream \in Seq(OnLine) /\ leftover \in Seq(Byte) /\ buf \in Seq(Byte)
  BY DEF Types
<1>2. line.carried \in Seq(OnLine) /\ line.echoes \in BOOLEAN
  BY ReceiveAssumption
<1>3. Len(Request) \in Nat \ {0} /\ Request \in Seq(Byte) /\ DOMAIN Request = 1..Len(Request)
  BY ReceiveAssumption, LenProperties, EmptySeq
<1>4. /\ Len(stream) \in Nat /\ Len(leftover) \in Nat /\ Len(buf) \in Nat
      /\ DOMAIN stream = 1..Len(stream) /\ DOMAIN leftover = 1..Len(leftover)
      /\ DOMAIN buf = 1..Len(buf)
  BY <1>1, LenProperties
<1>5. /\ Carried \in Seq(Byte) /\ Len(Carried) = Len(line.carried) /\ Len(line.carried) \in Nat
      /\ \A i \in 1..Len(line.carried) : Carried[i] = line.carried[i].byte
  BY <1>2, BytesAre DEF Carried
<1> QED
  BY <1>1, <1>2, <1>3, <1>4, <1>5

LEMMA InitReply == Init => ReplyInv
<1> SUFFICES ASSUME Init PROVE ReplyInv
  OBVIOUS
<1>1. Types /\ line \in Lines
  BY Initially DEF Init, IInv
<1>2. Len(<<>>) = 0 /\ DOMAIN <<>> = {}
  OBVIOUS
<1>3. Reader
  BY DEF Init, Reader, Splits
<1>4. Dropped(0)
  BY <1>1, <1>2, ReadSizes DEF Init, Dropped
<1>5. 0 \in 0..Len(Request)
  BY <1>1, ReadSizes
<1> QED
  BY <1>3, <1>4, <1>5 DEF ReplyInv, NoneLost

\* What is taken for the echo is either dropped or kept for the splitter
\* (iso9141.py:190-199).
LEMMA EchoReply == Types /\ ReplyInv /\ Progress /\ ConsumeEcho => ReplyInv'
<1> SUFFICES ASSUME Types, ReplyInv, Progress, ConsumeEcho PROVE ReplyInv'
  OBVIOUS
<1>1. PICK n \in 0..Len(stream) :
        n <= Len(Request) /\ leftover' = Kept(Upto(n)) /\ stream' = Behind(n)
  BY DEF ConsumeEcho
<1>2. /\ step = "echo" /\ step' = "first"
      /\ UNCHANGED <<sent, raw, frames, outcome, line, multi, buf, late>>
  BY DEF ConsumeEcho, split, setting
<1>3. /\ line \in Lines /\ line.echoes /\ leftover = <<>> /\ buf = <<>>
  BY <1>2 DEF ReplyInv, Reader
<1>4. /\ Len(leftover) = 0 /\ Len(buf) = 0 /\ Len(stream) \in Nat /\ n \in Nat
      /\ DOMAIN stream = 1..Len(stream) /\ DOMAIN buf = {} /\ Len(Request) \in Nat \ {0}
      /\ stream \in Seq(OnLine)
  BY <1>3, ReadSizes
<1>5. Dropped(0)
  BY <1>2 DEF ReplyInv, NoneLost, Dropped
<1>6. /\ Len(stream) = Len(line.carried)
      /\ \A i \in 1..Len(stream) : stream[i] = line.carried[i]
  BY <1>4, <1>5 DEF Dropped
<1>7. /\ Upto(n) \in Seq(Byte) /\ Len(Upto(n)) = n
      /\ \A i \in 1..n : Upto(n)[i] = stream[i].byte
      /\ Len(stream') = Len(stream) - n /\ stream' \in Seq(OnLine)
      /\ \A i \in 1..Len(stream) - n : stream'[i] = stream[n + i]
  BY <1>1, <1>4, PartsAre
<1>8. outcome = "receiving"
  BY <1>2 DEF ReplyInv, Reader
<1>9. Reader'
  BY <1>2, <1>3, <1>8 DEF ReplyInv, Reader, Splits
<1>10. DOMAIN stream' = 1..Len(stream) - n
  BY <1>7, LenProperties
<1>11. CASE Upto(n) = Request
  <2>1. leftover' = <<>> /\ n = Len(Request)
    BY <1>1, <1>7, <1>11 DEF Kept
  <2>2. IsPrefix(Request, Carried)
    <3>1. /\ Carried \in Seq(Byte) /\ Len(Carried) = Len(line.carried)
          /\ \A i \in 1..Len(line.carried) : Carried[i] = line.carried[i].byte
      BY <1>3, ReadSizes
    <3>2. \A i \in 1..n : i \in 1..Len(stream)
      BY <1>4
    <3>3. \A i \in 1..n : Request[i] = Carried[i]
      BY <1>6, <1>7, <1>11, <3>1, <3>2
    <3>4. n <= Len(Carried)
      BY <1>4, <1>6, <3>1
    <3>5. SubSeq(Request, 1, n) = SubSeq(Carried, 1, n)
      <4>1. \A i \in 1..n : Request[i] \in Byte /\ Carried[i] \in Byte
        BY <1>7, <1>11, <3>3, ElementOfSeq
      <4> DEFINE r == SubSeq(Request, 1, n) c == SubSeq(Carried, 1, n)
      <4>2. r \in Seq(Byte) /\ Len(r) = IF 1 <= n THEN n - 1 + 1 ELSE 0
        BY <1>4, <4>1, SubSeqProperties
      <4>3. c \in Seq(Byte) /\ Len(c) = IF 1 <= n THEN n - 1 + 1 ELSE 0
        BY <1>4, <4>1, SubSeqProperties
      <4>4. \A i \in 1..n - 1 + 1 : r[i] = Request[1 + i - 1] /\ c[i] = Carried[1 + i - 1]
        BY <1>4, <4>1, SubSeqProperties
      <4> HIDE DEF r, c
      <4>5. \A i \in 1..Len(r) : r[i] = c[i]
        BY <1>4, <3>3, <4>2, <4>4
      <4>6. r = c
        BY <4>2, <4>3, <4>5, SeqEqual
      <4> QED
        BY <4>6 DEF r, c
    <3> QED
      BY <2>1, <3>4, <3>5 DEF IsPrefix
  <2>3. Carried' = Carried
    BY <1>2 DEF Carried
  <2>4. Len(leftover') = 0 /\ Len(buf') = 0 /\ DOMAIN leftover' = {} /\ DOMAIN buf' = {}
    BY <1>2, <1>3, <2>1
  <2>5. \A i \in 1..Len(stream) - n : stream'[i] = line.carried[n + 0 + 0 + i]
    BY <1>4, <1>6, <1>7
  <2>6. n > 0 => step' # "echo" /\ line'.echoes /\ n = Len(Request) /\ IsPrefix(Request, Carried')
    BY <1>2, <1>3, <2>1, <2>2, <2>3
  <2>7. n + Len(leftover') + Len(buf') + Len(stream') = Len(line'.carried)
    BY <1>2, <1>4, <1>6, <1>7, <2>4
  <2>8. \A i \in DOMAIN stream' :
          stream'[i] = line'.carried[n + Len(leftover') + Len(buf') + i]
    BY <1>2, <1>10, <2>4, <2>5
  <2>9. Dropped(n)'
    BY <2>4, <2>6, <2>7, <2>8 DEF Dropped
  <2> QED
    BY <1>4, <1>9, <2>1, <2>9 DEF ReplyInv, NoneLost
<1>12. CASE Upto(n) # Request
  <2>1. leftover' = Upto(n)
    BY <1>1, <1>12 DEF Kept
  <2>2. DOMAIN leftover' = 1..n /\ Len(leftover') = n
    BY <1>7, <2>1, LenProperties
  <2>3. \A i \in 1..n : leftover'[i] = line.carried[i].byte
    BY <1>4, <1>6, <1>7, <2>1
  <2>4. Len(buf') = 0 /\ DOMAIN buf' = {} /\ line' = line
    BY <1>2, <1>4
  <2>5. 0 + Len(leftover') + Len(buf') + Len(stream') = Len(line'.carried)
    BY <1>4, <1>6, <1>7, <2>2, <2>4
  <2>6. \A i \in DOMAIN leftover' : leftover'[i] = line'.carried[0 + i].byte
    BY <1>4, <2>2, <2>3, <2>4
  <2>7. \A i \in DOMAIN stream' :
          stream'[i] = line'.carried[0 + Len(leftover') + Len(buf') + i]
    <3>1. \A i \in 1..Len(stream) - n :
            n + i \in 1..Len(stream) /\ 0 + n + 0 + i = n + i
      BY <1>4
    <3>2. \A i \in 1..Len(stream) - n : stream'[i] = line.carried[n + i]
      BY <1>6, <1>7, <3>1
    <3> QED
      BY <1>10, <2>2, <2>4, <3>1, <3>2
  <2>8. Dropped(0)'
    BY <2>4, <2>5, <2>6, <2>7 DEF Dropped
  <2> QED
    BY <1>4, <1>9, <2>8 DEF ReplyInv, NoneLost
<1> QED
  BY <1>11, <1>12

\* A message is what comes next on the line; when the read ends with one it was the
\* last, or a pause ended it (iso9141.py:150-168).
LEMMA CollectReply == Types /\ ReplyInv /\ Collect => ReplyInv'
<1> SUFFICES ASSUME Types, ReplyInv, Collect PROVE ReplyInv'
  OBVIOUS
<1>1. PICK n \in 1..Len(stream) :
        buf' = buf \o Upto(n) /\ stream' = Behind(n) /\ late' = (late \/ ~MessageEnds(n))
  BY DEF Collect
<1>2. /\ step \in {"first", "follow"} /\ step' = IF multi THEN "follow" ELSE "done"
      /\ UNCHANGED <<sent, raw, frames, outcome, line, multi, leftover>>
  BY DEF Collect, split, setting
<1>3. /\ line \in Lines /\ late \in BOOLEAN
  BY DEF ReplyInv, Reader
<1>4. /\ Len(stream) \in Nat /\ Len(leftover) \in Nat /\ Len(buf) \in Nat
      /\ stream \in Seq(OnLine) /\ buf \in Seq(Byte) /\ DOMAIN leftover = 1..Len(leftover)
      /\ DOMAIN buf = 1..Len(buf) /\ DOMAIN stream = 1..Len(stream)
  BY <1>3, ReadSizes
<1>5. /\ n \in Nat /\ Upto(n) \in Seq(Byte) /\ Len(Upto(n)) = n
      /\ \A i \in 1..n : Upto(n)[i] = stream[i].byte
      /\ stream' \in Seq(OnLine) /\ Len(stream') = Len(stream) - n
      /\ \A i \in 1..Len(stream) - n : stream'[i] = stream[n + i]
  <2>1. n \in 0..Len(stream)
    BY <1>4
  <2> QED
    BY <1>1, <1>4, <2>1, PartsAre
<1>6. /\ Len(buf') = Len(buf) + n /\ DOMAIN buf' = 1..Len(buf) + n
      /\ \A i \in 1..Len(buf) : buf'[i] = buf[i]
      /\ \A i \in 1..n : buf'[Len(buf) + i] = Upto(n)[i]
  <2>1. PICK taken \in Seq(Byte) : taken = Upto(n) /\ Len(taken) = n
    BY <1>5
  <2>2. /\ buf' \in Seq(Byte) /\ Len(buf') = Len(buf) + Len(taken)
        /\ \A i \in 1..Len(buf) + Len(taken) :
             buf'[i] = IF i <= Len(buf) THEN buf[i] ELSE taken[i - Len(buf)]
    BY <1>1, <1>4, <2>1, ConcatProperties
  <2>3. DOMAIN buf' = 1..Len(buf) + n
    BY <2>1, <2>2, LenProperties
  <2>4. ASSUME NEW i \in 1..n PROVE buf'[Len(buf) + i] = taken[i]
    <3>1. Len(buf) + i \in 1..Len(buf) + n /\ ~(Len(buf) + i <= Len(buf))
      BY <1>4, <1>5
    <3>2. (Len(buf) + i) - Len(buf) = i
      BY <1>4
    <3> QED
      BY <2>1, <2>2, <3>1, <3>2
  <2>5. \A i \in 1..Len(buf) : buf'[i] = buf[i]
    BY <1>4, <1>5, <2>1, <2>2
  <2> QED
    BY <2>1, <2>2, <2>3, <2>4, <2>5
<1>7. outcome = "receiving"
  BY <1>2 DEF ReplyInv, Reader
<1>8. step' = "done" /\ ~LeftBehind' => stream' = <<>>
  <2> SUFFICES ASSUME step' = "done", ~LeftBehind', stream' # <<>> PROVE FALSE
    OBVIOUS
  <2>1. ~multi /\ multi' = multi
    BY <1>2
  <2>2. Head(stream').pause = "none"
    <3>1. Len(stream') \in Nat \ {0}
      BY <1>5, EmptySeq
    <3>2. Head(stream') = stream'[1] /\ stream'[1] \in OnLine
      BY <1>5, <3>1, HeadTailProperties, ElementOfSeq
    <3> QED
      BY <2>1, <3>2 DEF LeftBehind, OnLine, Pauses
  <2>3. MessageEnds(n)
    BY <1>1, <1>3 DEF LeftBehind
  <2>4. n # Len(stream)
    BY <1>5, EmptySeq
  <2>5. stream[n + 1].pause # "none"
    BY <2>3, <2>4 DEF MessageEnds
  <2>6. Head(stream') = stream[n + 1]
    <3>1. Len(stream) - n >= 1
      <4>1. n \in Nat /\ n <= Len(stream) /\ Len(stream) \in Nat
        BY <1>4
      <4> QED
        BY <2>4, <4>1
    <3>2. Head(stream') = stream'[1]
      BY <1>5, EmptySeq, HeadTailProperties
    <3> QED
      BY <1>4, <1>5, <3>1, <3>2
  <2> QED
    BY <2>2, <2>5, <2>6
<1>9. Reader'
  <2>1. late' \in BOOLEAN
    BY <1>1
  <2> QED
    BY <1>2, <1>3, <1>7, <1>8, <2>1 DEF ReplyInv, Reader, Splits
<1>10. PICK d \in 0..Len(Request) : Dropped(d)
  BY DEF ReplyInv, NoneLost
<1>11. d \in Nat /\ Len(line.carried) \in Nat
  BY <1>3, <1>10, ReadSizes
<1>12. /\ d + Len(leftover) + Len(buf) + Len(stream) = Len(line.carried)
       /\ \A i \in 1..Len(buf) : buf[i] = line.carried[d + Len(leftover) + i].byte
       /\ \A i \in 1..Len(stream) : stream[i] = line.carried[d + Len(leftover) + Len(buf) + i]
  BY <1>4, <1>10 DEF Dropped
<1>13. \A i \in 1..Len(buf) + n : buf'[i] = line.carried[d + Len(leftover) + i].byte
  <2> SUFFICES ASSUME NEW i \in 1..Len(buf) + n
               PROVE  buf'[i] = line.carried[d + Len(leftover) + i].byte
    OBVIOUS
  <2>1. CASE i <= Len(buf)
    BY <1>4, <1>6, <1>12, <2>1
  <2>2. CASE i > Len(buf)
    <3>1. PICK j \in 1..n : i = Len(buf) + j
      <4>1. i - Len(buf) \in 1..n /\ i = Len(buf) + (i - Len(buf))
        BY <1>4, <1>5, <2>2
      <4> QED
        BY <4>1
    <3>2. buf'[i] = stream[j].byte /\ j \in 1..Len(stream)
      BY <1>4, <1>5, <1>6, <3>1
    <3>3. stream[j] = line.carried[d + Len(leftover) + Len(buf) + j]
      BY <1>12, <3>2
    <3>4. d + Len(leftover) + Len(buf) + j = d + Len(leftover) + i
      BY <1>4, <1>11, <3>1
    <3> QED
      BY <3>2, <3>3, <3>4
  <2> QED
    BY <1>4, <2>1, <2>2
<1>14. \A i \in 1..Len(stream) - n :
         stream'[i] = line.carried[d + Len(leftover) + (Len(buf) + n) + i]
  <2> SUFFICES ASSUME NEW i \in 1..Len(stream) - n
               PROVE  stream'[i] = line.carried[d + Len(leftover) + (Len(buf) + n) + i]
    OBVIOUS
  <2>1. stream'[i] = stream[n + i] /\ n + i \in 1..Len(stream)
    BY <1>4, <1>5
  <2>2. d + Len(leftover) + Len(buf) + (n + i) = d + Len(leftover) + (Len(buf) + n) + i
    BY <1>4, <1>5, <1>11
  <2> QED
    BY <1>12, <2>1, <2>2
<1>15. Dropped(d)'
  <2>1. Carried' = Carried /\ DOMAIN stream' = 1..Len(stream) - n
    BY <1>2, <1>5, LenProperties DEF Carried
  <2>2. d > 0 => line.echoes /\ d = Len(Request) /\ IsPrefix(Request, Carried)
    BY <1>10 DEF Dropped
  <2>3. \A i \in DOMAIN leftover : leftover[i] = line.carried[d + i].byte
    BY <1>10 DEF Dropped
  <2>4. d + Len(leftover) + (Len(buf) + n) + (Len(stream) - n) = Len(line.carried)
    <3>1. n \in Nat /\ n <= Len(stream) /\ Len(stream) \in Nat
      BY <1>4
    <3>2. Len(buf) \in Nat /\ Len(leftover) \in Nat
      BY <1>4
    <3>3. \A a, b, c, e, m \in Nat : m <= e => a + b + (c + m) + (e - m) = a + b + c + e
      OBVIOUS
    <3>4. d + Len(leftover) + (Len(buf) + n) + (Len(stream) - n)
             = d + Len(leftover) + Len(buf) + Len(stream)
      BY <1>11, <3>1, <3>2, <3>3
    <3> QED
      BY <1>12, <3>4
  <2>5. step' # "echo"
    BY <1>2
  <2> QED
    BY <1>2, <1>5, <1>6, <1>13, <1>14, <2>1, <2>2, <2>3, <2>4, <2>5 DEF Dropped
<1> QED
  BY <1>9, <1>10, <1>15 DEF ReplyInv, NoneLost

\* A read that comes to its end says so (late, LeftBehind), and what it has stays.
LEMMA EndReply == Types /\ ReplyInv /\ (NoMessage \/ NoMore) => ReplyInv'
<1> SUFFICES ASSUME Types, ReplyInv, NoMessage \/ NoMore PROVE ReplyInv'
  OBVIOUS
<1>1. /\ step \in {"first", "follow"} /\ step' = "done"
      /\ UNCHANGED <<sent, raw, frames, outcome, line, multi, stream, leftover, buf, batches>>
  BY DEF NoMessage, NoMore, split, setting
<1>2. outcome = "receiving" /\ late \in BOOLEAN
  BY <1>1 DEF ReplyInv, Reader
<1>3. late' \in BOOLEAN
  BY <1>2 DEF NoMessage, NoMore
<1>4. ~LeftBehind' => stream' = <<>>
  <2>1. CASE NoMessage
    BY <1>1, <2>1 DEF NoMessage, LeftBehind
  <2>2. CASE NoMore
    <3>1. multi
      BY <2>2 DEF NoMore, ReplyInv, Reader
    <3>2. ~Bounded /\ stream # <<>> => Head(stream).pause = "silence"
      BY <2>2 DEF NoMore
    <3>3. Bounded' <=> Bounded
      BY <1>1 DEF Bounded
    <3> QED
      BY <1>1, <3>1, <3>2, <3>3 DEF LeftBehind
  <2> QED
    BY <2>1, <2>2
<1>5. Reader'
  BY <1>1, <1>2, <1>3, <1>4 DEF ReplyInv, Reader, Splits
<1>6. \A d \in 0..Len(Request) : Dropped(d) => Dropped(d)'
  BY <1>1 DEF Dropped, Carried
<1> QED
  BY <1>5, <1>6 DEF ReplyInv, NoneLost

\* The splitter works on what was read, and reads nothing itself.
LEMMA SplitReply ==
    Types /\ ReplyInv /\ (HandOver \/ Frames \/ Ended \/ UNCHANGED vars) => ReplyInv'
<1> SUFFICES ASSUME Types, ReplyInv, HandOver \/ Frames \/ Ended \/ UNCHANGED vars
             PROVE  ReplyInv'
  OBVIOUS
<1>1. /\ UNCHANGED <<line, multi, stream, leftover, buf, batches, late, step>>
      /\ UNCHANGED sent
  BY DEF HandOver, Frames, Split, Discard, TakeFrame, Report, Ended, vars, setting, split
<1>2. /\ LeftBehind' <=> LeftBehind
      /\ \A d \in 0..Len(Request) : Dropped(d) => Dropped(d)'
  BY <1>1 DEF Dropped, Carried, LeftBehind, Bounded
<1>3. /\ outcome' # "receiving" => step = "done" /\ raw' = leftover \o buf
      /\ outcome' \in Splits /\ frames' # <<>> =>
           outcome' = IF TooMany' THEN "too many" ELSE "frames"
      /\ outcome' = "no response" => raw' = <<>>
  <2>1. CASE HandOver
    BY <2>1 DEF HandOver, Splits
  <2>2. CASE Frames
    <3>1. outcome = "splitting" /\ raw' = raw /\ outcome' \in {"splitting"} \cup Splits
      BY <2>2 DEF Frames, Split, Discard, TakeFrame, Report, Splits
    <3>2. outcome' \in Splits => Report
      BY <2>2 DEF Frames, Split, Discard, TakeFrame, Splits
    <3>3. Report => frames' = frames /\ (TooMany' <=> TooMany)
      BY DEF Report, TooMany
    <3> QED
      BY <3>1, <3>2, <3>3 DEF ReplyInv, Reader, Report, Splits
  <2>3. CASE Ended \/ UNCHANGED vars
    <3>1. UNCHANGED <<outcome, raw, frames>> /\ (TooMany' <=> TooMany)
      BY <2>3 DEF Ended, vars, split, TooMany
    <3> QED
      BY <3>1 DEF ReplyInv, Reader
  <2> QED
    BY <2>1, <2>2, <2>3
<1>4. Reader'
  BY <1>1, <1>2, <1>3 DEF ReplyInv, Reader
<1> QED
  BY <1>2, <1>4 DEF ReplyInv, NoneLost

LEMMA ReplyHolds == Spec => [](IInv /\ ReplyInv)
<1>1. IInv /\ ReplyInv /\ [Next]_vars => ReplyInv'
  BY EchoReply, CollectReply, EndReply, SplitReply DEF IInv, Next
<1> QED
  BY <1>1, IInvHolds, InitReply, PTL DEF Spec

\* What grows at every step grows between any two.
LEMMA Growing ==
    ASSUME NEW n \in Nat, NEW b, \A k \in 1..n : b[k] \in Nat,
           \A k \in 1..n : k < n => b[k] < b[k + 1]
    PROVE  \A k, l \in 1..n : k < l => b[k] < b[l]
<1> SUFFICES ASSUME NEW k \in 1..n, NEW l \in 1..n, k < l, ~(b[k] < b[l]) PROVE FALSE
  OBVIOUS
<1> DEFINE S == {j \in 1..n : k < j /\ ~(b[k] < b[j])}
<1>1. S \in SUBSET Nat /\ S # {}
  <2>1. l \in S
    OBVIOUS
  <2> QED
    BY <2>1
<1>2. PICK m \in S : \A j \in S : m <= j
  BY <1>1, SmallestIsLeast
<1>3. m \in 1..n /\ k < m /\ ~(b[k] < b[m]) /\ m - 1 \in 1..n /\ m - 1 < n /\ m - 1 + 1 = m
  OBVIOUS
<1>4. b[m - 1] < b[m]
  BY <1>3
<1>5. CASE m - 1 = k
  BY <1>3, <1>4, <1>5
<1>6. CASE m - 1 # k
  <2>1. m - 1 \notin S
    BY <1>2, <1>3
  <2>2. b[k] < b[m - 1]
    BY <1>3, <1>6, <2>1
  <2> QED
    BY <1>3, <1>4, <2>2
<1> QED
  BY <1>5, <1>6

Ascends(f, n) == \A k \in 1..n : f[k] \in Nat /\ \A l \in 1..n : k < l => f[k] < f[l]
Within(f, m, g, n) == \A k \in 1..m : \E l \in 1..n : f[k] = g[l]

\* Two lists that grow and hold the same numbers are the same.
LEMMA SameNumbers ==
    ASSUME NEW m \in Nat, NEW n \in Nat, NEW f, NEW g,
           Ascends(f, m), Ascends(g, n), Within(f, m, g, n), Within(g, n, f, m)
    PROVE  m = n /\ \A k \in 1..m : f[k] = g[k]
<1> USE DEF Ascends, Within
<1>1. \A k \in 1..m : k \in 1..n /\ f[k] = g[k]
  <2> SUFFICES ASSUME NEW i \in 1..m, ~(i \in 1..n /\ f[i] = g[i]) PROVE FALSE
    OBVIOUS
  <2> DEFINE S == {k \in 1..m : ~(k \in 1..n /\ f[k] = g[k])}
  <2>1. S \in SUBSET Nat /\ S # {}
    <3>1. i \in S
      OBVIOUS
    <3>2. S \subseteq 1..m
      OBVIOUS
    <3> HIDE DEF S
    <3> QED
      BY <3>1, <3>2
  <2>2. PICK k \in S : \A j \in S : k <= j
    BY <2>1, SmallestIsLeast
  <2>3. k \in 1..m /\ ~(k \in 1..n /\ f[k] = g[k]) /\ k \in Nat
    OBVIOUS
  <2>4. \A j \in 1..m : j < k => j \in 1..n /\ f[j] = g[j]
    BY <2>2, <2>3
  <2> HIDE DEF S
  <2>5. PICK l \in 1..n : f[k] = g[l]
    BY <2>3
  <2>6. ~(l < k)
    <3> SUFFICES ASSUME l < k PROVE FALSE
      OBVIOUS
    <3>1. l \in 1..m /\ f[l] = g[l]
      BY <2>3, <2>4
    <3>2. f[l] < f[k]
      BY <2>3, <3>1
    <3> QED
      BY <2>3, <2>5, <3>1, <3>2
  <2>7. k < l
    BY <2>3, <2>5, <2>6
  <2>8. k \in 1..n
    BY <2>3, <2>7
  <2>9. PICK p \in 1..m : f[p] = g[k]
    BY <2>8
  <2>10. f[p] < f[k]
    BY <2>5, <2>7, <2>8, <2>9
  <2>11. p < k
    <3> SUFFICES ASSUME ~(p < k) PROVE FALSE
      OBVIOUS
    <3>1. p = k \/ k < p
      BY <2>3
    <3>2. f[p] = f[k] \/ f[k] < f[p]
      BY <2>3, <3>1
    <3>3. f[p] \in Nat /\ f[k] \in Nat
      BY <2>3
    <3> QED
      BY <2>10, <3>2, <3>3
  <2>12. p \in 1..n /\ g[p] = g[k]
    BY <2>4, <2>9, <2>11
  <2>13. g[p] < g[k] /\ g[k] \in Nat
    BY <2>8, <2>11, <2>12
  <2> QED
    BY <2>12, <2>13
<1>2. m <= n
  BY <1>1
<1>3. n <= m
  <2> SUFFICES ASSUME m < n PROVE FALSE
    OBVIOUS
  <2>1. n \in 1..n
    BY <1>2
  <2>2. PICK k \in 1..m : f[k] = g[n]
    BY <2>1
  <2>3. g[k] = g[n] /\ k \in 1..n /\ k < n
    BY <1>1, <2>2
  <2>4. g[k] < g[n] /\ g[n] \in Nat
    BY <2>1, <2>3
  <2> QED
    BY <2>3, <2>4
<1> QED
  BY <1>1, <1>2, <1>3

\* Where the frames that were sent lie on the line.
Laid ==
    LET n == Len(sent)
        b == line.starts
    IN  /\ n \in Nat \ {0} /\ DOMAIN sent = 1..n
        /\ \A k \in 1..(n + 1) : b[k] \in Nat \ {0}
        /\ b[n + 1] = Len(Carried) + 1
        /\ \A k \in 1..n :
             /\ sent[k] \in Seq(Byte) /\ Len(sent[k]) \in Nat /\ Len(sent[k]) > 4
             /\ b[k + 1] = b[k] + Len(sent[k])
        /\ \A k, l \in 1..(n + 1) : k < l => b[k] < b[l]
        /\ \A k \in 1..n : \A j \in 1..Len(sent[k]) : Carried[b[k] + j - 1] = sent[k][j]

LEMMA WholeIsLaid == ASSUME Types, ReplyInv, sent # <<>>, Whole PROVE Laid
<1> DEFINE n == Len(sent)
           b == line.starts
<1>1. line \in Lines /\ sent = line.sent
  BY DEF ReplyInv, Reader
<1>2. sent \in Seq(Seq(Byte)) /\ b \in Seq(Nat \ {0})
  BY <1>1, ReceiveAssumption
<1>3. n \in Nat \ {0} /\ DOMAIN sent = 1..n
  BY <1>2, LenProperties, EmptySeq
<1>4. Len(b) = n + 1 /\ \A k \in 1..(n + 1) : b[k] \in Nat \ {0}
  <2>1. Len(b) = n + 1
    BY DEF Whole
  <2>2. \A k \in 1..Len(b) : b[k] \in Nat \ {0}
    BY <1>2, ElementOfSeq
  <2> QED
    BY <2>1, <2>2
<1>5. b[n + 1] = Len(Carried) + 1
  BY <1>4 DEF Whole, Last
<1>6. ASSUME NEW k \in 1..n
      PROVE  /\ sent[k] \in Seq(Byte) /\ Len(sent[k]) \in Nat /\ Len(sent[k]) > 4
             /\ b[k + 1] = b[k] + Len(sent[k])
             /\ SubSeq(Carried, b[k], b[k + 1] - 1) = sent[k]
  <2>1. sent[k] \in Seq(Byte)
    BY <1>2, ElementOfSeq
  <2>2. Len(sent[k]) \in Nat
    BY <2>1, LenProperties
  <2>3. /\ Len(sent[k]) - HeaderLen - 1 \in 1..MaxData
        /\ b[k + 1] = b[k] + Len(sent[k])
        /\ SubSeq(Carried, b[k], b[k + 1] - 1) = sent[k]
    BY <1>3 DEF Whole, Response
  <2>4. Len(sent[k]) > 4
    BY <2>2, <2>3, FramingAssumption DEF HeaderLen
  <2> QED
    BY <2>1, <2>2, <2>3, <2>4
<1> HIDE DEF n, b
<1>7. \A k, l \in 1..(n + 1) : k < l => b[k] < b[l]
  <2>1. \A k \in 1..(n + 1) : b[k] \in Nat
    BY <1>4
  <2>2. ASSUME NEW k \in 1..(n + 1), k < n + 1 PROVE b[k] < b[k + 1]
    <3>1. k \in 1..n
      BY <1>3, <2>2
    <3>2. b[k + 1] = b[k] + Len(sent[k]) /\ Len(sent[k]) \in Nat /\ Len(sent[k]) > 4
      BY <1>6, <3>1
    <3> QED
      BY <2>1, <3>2
  <2>3. n + 1 \in Nat
    BY <1>3
  <2> QED
    BY <2>1, <2>2, <2>3, Growing
<1>8. ASSUME NEW k \in 1..n, NEW j \in 1..Len(sent[k])
      PROVE  Carried[b[k] + j - 1] = sent[k][j]
  <2> DEFINE first == b[k]
             last  == b[k + 1] - 1
  <2>1. k \in 1..(n + 1) /\ k + 1 \in 1..(n + 1) /\ n + 1 \in 1..(n + 1)
    BY <1>3
  <2>2. first \in Nat \ {0} /\ b[k + 1] \in Nat \ {0} /\ b[n + 1] \in Nat
    BY <1>4, <2>1
  <2>3. b[k + 1] <= b[n + 1]
    <3>1. k + 1 = n + 1 \/ k + 1 < n + 1
      BY <1>3
    <3> QED
      BY <1>7, <2>1, <2>2, <3>1
  <2>4. Carried \in Seq(Byte) /\ Len(Carried) \in Nat
    BY <1>1, ReadSizes
  <2>5. \A i \in first..last : i \in 1..Len(Carried)
    BY <1>5, <2>2, <2>3, <2>4
  <2>6. \A i \in first..last : Carried[i] \in Byte
    BY <2>4, <2>5, ElementOfSeq
  <2>7. last - first + 1 = Len(sent[k]) /\ first \in Int /\ last \in Int /\ Len(sent[k]) \in Nat
    BY <1>6, <2>2, SMTT(30)
  <2>8. SubSeq(Carried, first, last) = sent[k]
    BY <1>6
  <2> HIDE DEF first, last
  <2>9. \A i \in 1..last - first + 1 : SubSeq(Carried, first, last)[i] = Carried[first + i - 1]
    BY <2>6, <2>7, SubSeqProperties
  <2>10. sent[k][j] = Carried[first + j - 1]
    BY <2>7, <2>8, <2>9
  <2> QED
    BY <2>10 DEF first
<1> QED
  BY <1>3, <1>4, <1>5, <1>6, <1>7, <1>8 DEF Laid, n, b

\* As many headers as frames: they are the frames' (common.py:207-210).
LEMMA HeadersAreSent ==
    ASSUME Laid, Whole, NoImitation, Len(Carried) \in Nat
    PROVE  Headers = {line.starts[k] : k \in 1..Len(sent)}
<1> DEFINE n == Len(sent)
           b == line.starts
           f == [k \in 1..n |-> b[k]]
<1>1. /\ n \in Nat \ {0} /\ DOMAIN sent = 1..n /\ b[n + 1] = Len(Carried) + 1
      /\ \A k \in 1..(n + 1) : b[k] \in Nat \ {0}
      /\ \A k \in 1..n : Len(sent[k]) \in Nat /\ Len(sent[k]) > 4 /\ b[k + 1] = b[k] + Len(sent[k])
      /\ \A k, l \in 1..(n + 1) : k < l => b[k] < b[l]
      /\ \A k \in 1..n : \A j \in 1..Len(sent[k]) : Carried[b[k] + j - 1] = sent[k][j]
  BY DEF Laid
<1>2. Cardinality(Headers) = n
  BY DEF NoImitation
<1>3. \A k \in 1..n : sent[k][1] = Fmt /\ sent[k][2] = Target
  BY <1>1 DEF Whole, Response
<1> HIDE DEF n, b
<1>4. ASSUME NEW k \in 1..n PROVE b[k] \in Headers
  <2>1. /\ k \in 1..(n + 1) /\ k + 1 \in 1..(n + 1) /\ n + 1 \in 1..(n + 1)
        /\ b[k] \in Nat \ {0} /\ b[k + 1] = b[k] + Len(sent[k]) /\ Len(sent[k]) \in Nat
        /\ Len(sent[k]) > 4
    BY <1>1
  <2>2. b[k + 1] <= b[n + 1]
    <3>1. k + 1 = n + 1 \/ k + 1 < n + 1
      BY <1>1
    <3> QED
      BY <1>1, <2>1, <3>1
  <2>3. b[k] \in 1..(Len(Carried) - 1)
    BY <1>1, <2>1, <2>2
  <2>4. Carried[b[k] + 1 - 1] = Fmt /\ Carried[b[k] + 2 - 1] = Target
    <3>1. 1 \in 1..Len(sent[k]) /\ 2 \in 1..Len(sent[k])
      BY <2>1
    <3> QED
      BY <1>1, <1>3, <3>1
  <2>5. b[k] + 1 - 1 = b[k] /\ b[k] + 2 - 1 = b[k] + 1
    BY <2>1
  <2> QED
    BY <2>3, <2>4, <2>5 DEF Headers
<1>5. f \in Injection(1..n, Headers)
  <2>1. f \in [1..n -> Headers]
    BY <1>4
  <2>2. ASSUME NEW k \in 1..n, NEW l \in 1..n, f[k] = f[l] PROVE k = l
    <3>1. b[k] = b[l] /\ b[k] \in Nat /\ k \in 1..(n + 1) /\ l \in 1..(n + 1)
      BY <1>1, <2>2
    <3>2. ~(k < l) /\ ~(l < k)
      BY <1>1, <3>1, SMTT(30)
    <3> QED
      BY <3>2
  <2> QED
    BY <2>1, <2>2 DEF Injection, IsInjective
<1>6. IsFiniteSet(Headers)
  <2>1. IsFiniteSet(1..(Len(Carried) - 1))
    BY FS_Interval
  <2> QED
    BY <2>1, FS_Subset DEF Headers
<1>7. Cardinality(1..n) = n
  <2>1. n \in Int /\ ~(1 > n) /\ n - 1 + 1 = n
    BY <1>1
  <2> QED
    BY <2>1, FS_Interval
<1>8. f \in Surjection(1..n, Headers)
  BY <1>2, <1>5, <1>6, <1>7, FS_Injection
<1>9. \A h \in Headers : \E k \in 1..n : b[k] = h
  BY <1>8 DEF Surjection
<1>10. Headers = {b[k] : k \in 1..n}
  BY <1>4, <1>9
<1> QED
  BY <1>10 DEF n, b

\* The buffer is the line without its first d bytes, and the reply is in it.
From(d) ==
    /\ d < line.starts[1] /\ d + Len(raw) = Len(Carried)
    /\ \A i \in 1..Len(raw) : raw[i] = Carried[d + i]

\* What is handed to the splitter is the line, from behind the echo that was dropped
\* or from its first byte (iso9141.py:424-430).
LEMMA RawIsLine ==
    ASSUME Types, ReplyInv, Laid, EchoApart, outcome # "receiving", ~LeftBehind
    PROVE  \E d \in Nat : From(d)
<1>1. line \in Lines /\ stream = <<>> /\ raw = leftover \o buf
  BY DEF ReplyInv, Reader
<1>2. PICK d \in 0..Len(Request) : Dropped(d)
  BY DEF ReplyInv, NoneLost
<1>3. /\ Len(leftover) \in Nat /\ Len(buf) \in Nat /\ Len(Request) \in Nat
      /\ DOMAIN leftover = 1..Len(leftover) /\ DOMAIN buf = 1..Len(buf)
      /\ leftover \in Seq(Byte) /\ buf \in Seq(Byte)
      /\ Len(line.carried) \in Nat /\ Len(Carried) = Len(line.carried)
      /\ \A i \in 1..Len(line.carried) : Carried[i] = line.carried[i].byte
  BY <1>1, ReadSizes
<1>4. d \in Nat
  BY <1>3
<1>5. d < line.starts[1]
  <2>1. line.starts[1] \in Nat \ {0}
    BY DEF Laid
  <2>2. CASE d > 0
    <3>1. line.echoes /\ IsPrefix(Request, Carried) /\ d = Len(Request)
      BY <1>2, <2>2 DEF Dropped
    <3> QED
      BY <3>1 DEF EchoApart
  <2>3. CASE d = 0
    BY <2>1, <2>3
  <2> QED
    BY <1>4, <2>2, <2>3
<1>6. /\ Len(raw) = Len(leftover) + Len(buf)
      /\ \A i \in 1..Len(leftover) + Len(buf) :
           raw[i] = IF i <= Len(leftover) THEN leftover[i] ELSE buf[i - Len(leftover)]
  BY <1>1, <1>3, ConcatProperties
<1>7. d + Len(raw) = Len(line.carried)
  <2>1. d + Len(leftover) + Len(buf) + 0 = Len(line.carried)
    BY <1>1, <1>2 DEF Dropped
  <2> QED
    BY <1>3, <1>4, <1>6, <2>1
<1>8. /\ \A i \in 1..Len(leftover) : leftover[i] = line.carried[d + i].byte
      /\ \A i \in 1..Len(buf) : buf[i] = line.carried[d + Len(leftover) + i].byte
  BY <1>2, <1>3 DEF Dropped
<1>9. ASSUME NEW i \in 1..Len(raw) PROVE raw[i] = Carried[d + i]
  <2>1. d + i \in 1..Len(line.carried)
    BY <1>3, <1>4, <1>6, <1>7
  <2>2. raw[i] = line.carried[d + i].byte
    <3>1. CASE i <= Len(leftover)
      BY <1>3, <1>6, <1>8, <3>1
    <3>2. CASE ~(i <= Len(leftover))
      <4>1. i - Len(leftover) \in 1..Len(buf) /\ d + Len(leftover) + (i - Len(leftover)) = d + i
        BY <1>3, <1>4, <1>6, <3>2
      <4>2. raw[i] = buf[i - Len(leftover)]
        BY <1>3, <1>6, <3>2
      <4> QED
        BY <1>8, <4>1, <4>2
    <3> QED
      BY <3>1, <3>2
  <2> QED
    BY <1>3, <2>1, <2>2
<1> QED
  BY <1>3, <1>4, <1>5, <1>7, <1>9 DEF From

\* Behind the echo the splitter finds the headers that were sent, and from each to the
\* next a whole frame.
LEMMA RawIsClean ==
    ASSUME Types, Laid, Whole, NoImitation, NEW d \in Nat, From(d)
    PROVE  /\ Clean /\ Starts = {line.starts[k] - d : k \in 1..Len(sent)}
           /\ \A k \in 1..Len(sent) :
                /\ NextStart(line.starts[k] - d) = line.starts[k + 1] - d
                /\ SubSeq(raw, line.starts[k] - d, line.starts[k + 1] - d - 1) = sent[k]
<1> DEFINE n == Len(sent)
           b == line.starts
<1>1. /\ n \in Nat \ {0} /\ b[n + 1] = Len(Carried) + 1
      /\ \A k \in 1..(n + 1) : b[k] \in Nat \ {0}
      /\ \A k \in 1..n : /\ Len(sent[k]) \in Nat /\ Len(sent[k]) > 4
                         /\ b[k + 1] = b[k] + Len(sent[k])
      /\ \A k, l \in 1..(n + 1) : k < l => b[k] < b[l]
  BY DEF Laid
<1>14. /\ DOMAIN sent = 1..n
       /\ \A k \in 1..n : sent[k] \in Seq(Byte)
       /\ \A k \in 1..n : \A j \in 1..Len(sent[k]) : Carried[b[k] + j - 1] = sent[k][j]
  BY DEF Laid
<1>2. Len(raw) \in Nat /\ raw \in Seq(Byte) /\ Len(Carried) \in Nat
  <2>1. raw \in Seq(Byte)
    BY DEF Types
  <2>2. Len(raw) \in Nat
    BY <2>1, LenProperties
  <2> QED
    BY <2>1, <2>2
<1>3. Headers = {b[k] : k \in 1..n}
  BY <1>2, HeadersAreSent
<1>4. ASSUME NEW k \in 1..n
      PROVE  /\ Len(sent[k]) - HeaderLen - 1 \in 1..MaxData
             /\ sent[k][Len(sent[k])] = Checksum(SubSeq(sent[k], 1, Len(sent[k]) - 1))
  BY <1>14 DEF Whole, Response, Last, Front
<1>13. d < b[1] /\ d + Len(raw) = Len(Carried)
  BY DEF From
<1>15. \A i \in 1..Len(raw) : raw[i] = Carried[d + i]
  BY DEF From
<1> HIDE DEF n, b
<1>5. ASSUME NEW k \in 1..(n + 1)
      PROVE  /\ b[k] \in Nat /\ d < b[k] /\ b[k] <= b[n + 1] /\ b[k] - d \in Nat \ {0}
             /\ b[k] - d <= Len(raw) + 1
  <2>1. 1 \in 1..(n + 1) /\ n + 1 \in 1..(n + 1)
    BY <1>1
  <2>2. b[k] \in Nat /\ b[1] \in Nat /\ b[n + 1] \in Nat
    BY <1>1, <2>1
  <2>3. (k = 1 \/ 1 < k) /\ (k = n + 1 \/ k < n + 1)
    BY <1>1
  <2>4. b[1] <= b[k] /\ b[k] <= b[n + 1]
    BY <1>1, <2>1, <2>2, <2>3
  <2> QED
    BY <1>1, <1>2, <1>13, <2>2, <2>4
<1>6. ASSUME NEW k \in 1..n
      PROVE  /\ k \in 1..(n + 1) /\ k + 1 \in 1..(n + 1)
             /\ b[k] - d \in Nat \ {0} /\ b[k + 1] - d = b[k] - d + Len(sent[k])
             /\ b[k] - d + 4 <= Len(raw) /\ b[k] + Len(sent[k]) <= Len(Carried) + 1
  <2>1. k \in 1..(n + 1) /\ k + 1 \in 1..(n + 1)
    BY <1>1
  <2>2. b[k + 1] <= b[n + 1] /\ b[k] \in Nat /\ b[k] - d \in Nat \ {0}
    BY <1>5, <2>1
  <2>3. b[k + 1] = b[k] + Len(sent[k]) /\ Len(sent[k]) \in Nat /\ Len(sent[k]) > 4
    BY <1>1
  <2>4. b[k + 1] \in Nat
    BY <1>5, <2>1
  <2> QED
    <3>1. b[k] + Len(sent[k]) <= Len(Carried) + 1 /\ b[k + 1] - d = b[k] - d + Len(sent[k])
      BY <1>1, <1>2, <2>2, <2>3, <2>4, SMTT(30)
    <3>2. b[k] - d + Len(sent[k]) <= Len(raw) + 1
      BY <1>2, <1>13, <2>2, <2>3, <3>1, SMTT(30)
    <3>3. b[k] - d + 4 <= Len(raw)
      BY <1>2, <2>2, <2>3, <3>2, SMTT(30)
    <3> QED
      BY <2>1, <2>2, <3>1, <3>3
<1>7. ASSUME NEW k \in 1..n, NEW j \in 1..Len(sent[k])
      PROVE  b[k] - d + j - 1 \in 1..Len(raw) /\ raw[b[k] - d + j - 1] = sent[k][j]
  <2>1. Len(sent[k]) \in Nat /\ b[k] \in Nat /\ j \in Nat
    BY <1>1, <1>5, <1>6
  <2>2. b[k] - d + j - 1 \in 1..Len(raw) /\ d + (b[k] - d + j - 1) = b[k] + j - 1
    <3>1. b[k] - d \in Nat \ {0} /\ b[k] + Len(sent[k]) <= Len(Carried) + 1 /\ j <= Len(sent[k])
      BY <1>6, <2>1
    <3>2. j - 1 \in Nat /\ b[k] + j - 1 <= Len(Carried) /\ b[k] - d + j - 1 = b[k] + j - 1 - d
      BY <1>2, <2>1, <3>1, SMTT(30)
    <3>3. b[k] - d + j - 1 \in Nat \ {0}
      BY <2>1, <3>1, <3>2, SMTT(30)
    <3>4. b[k] - d + j - 1 <= Len(raw)
      BY <1>2, <1>13, <2>1, <3>2
    <3>5. d + (b[k] - d + j - 1) = b[k] + j - 1
      BY <2>1
    <3> QED
      BY <1>2, <3>3, <3>4, <3>5
  <2>3. Carried[b[k] + j - 1] = sent[k][j]
    BY <1>14
  <2> QED
    BY <1>15, <2>2, <2>3
<1>8. ASSUME NEW k \in 1..n, NEW m \in 1..Len(sent[k])
      PROVE  SubSeq(raw, b[k] - d, b[k] - d + m - 1) = SubSeq(sent[k], 1, m)
  <2> DEFINE first == b[k] - d
             last  == b[k] - d + m - 1
             r     == SubSeq(raw, first, last)
             s     == SubSeq(sent[k], 1, m)
  <2>1. /\ first \in Nat \ {0} /\ last \in Int /\ m \in Nat \ {0} /\ last - first + 1 = m
        /\ m <= Len(sent[k]) /\ Len(sent[k]) \in Nat /\ first <= last
    <3>1. Len(sent[k]) \in Nat /\ b[k] - d \in Nat \ {0}
      BY <1>1, <1>6
    <3> QED
      BY <3>1
  <2>2. \A j \in 1..m : first + j - 1 \in 1..Len(raw) /\ raw[first + j - 1] = sent[k][j]
    <3> SUFFICES ASSUME NEW j \in 1..m
                 PROVE  first + j - 1 \in 1..Len(raw) /\ raw[first + j - 1] = sent[k][j]
      OBVIOUS
    <3>1. j \in 1..Len(sent[k])
      BY <2>1
    <3> QED
      BY <1>7, <3>1
  <2>3. \A i \in first..last : raw[i] \in Byte
    <3> SUFFICES ASSUME NEW i \in first..last PROVE raw[i] \in Byte
      OBVIOUS
    <3>1. i - first + 1 \in 1..m /\ first + (i - first + 1) - 1 = i
      BY <2>1
    <3>2. i \in 1..Len(raw)
      BY <2>2, <3>1
    <3> QED
      BY <1>2, <3>2, ElementOfSeq
  <2>4. \A j \in 1..m : sent[k][j] \in Byte
    BY <1>14, <2>1, ElementOfSeq
  <2> HIDE DEF first, last
  <2>5. /\ r \in Seq(Byte) /\ Len(r) = m
        /\ \A j \in 1..m : r[j] = raw[first + j - 1]
    BY <2>1, <2>3, SubSeqProperties
  <2>6. /\ s \in Seq(Byte) /\ Len(s) = IF 1 <= m THEN m - 1 + 1 ELSE 0
        /\ \A j \in 1..m - 1 + 1 : s[j] = sent[k][1 + j - 1]
    BY <2>1, <2>4, SubSeqProperties
  <2> HIDE DEF r, s
  <2>7. Len(s) = m /\ \A j \in 1..m : s[j] = sent[k][j]
    BY <2>1, <2>6
  <2>8. r = s
    BY <2>2, <2>5, <2>6, <2>7, SeqEqual
  <2> QED
    BY <2>8 DEF r, s, first, last
<1>9. Starts = {b[k] - d : k \in 1..n}
  <2>1. ASSUME NEW i \in Starts PROVE \E k \in 1..n : i = b[k] - d
    <3>1. i \in 1..Len(raw) /\ i + 2 <= Len(raw) /\ raw[i] = Fmt /\ raw[i + 1] = Target
      BY <1>2 DEF Starts, IsFrameStart, HeaderLen
    <3>2. Carried[d + i] = Fmt /\ Carried[d + i + 1] = Target /\ d + i \in 1..(Len(Carried) - 1)
      <4>1. i + 1 \in 1..Len(raw) /\ d + (i + 1) = d + i + 1
        BY <1>2, <3>1
      <4>2. d + i \in 1..(Len(Carried) - 1)
        BY <1>2, <1>13, <3>1
      <4>3. raw[i] = Carried[d + i] /\ raw[i + 1] = Carried[d + (i + 1)]
        BY <1>15, <3>1, <4>1
      <4> QED
        BY <3>1, <4>1, <4>2, <4>3
    <3>3. d + i \in Headers
      BY <3>2 DEF Headers
    <3>4. PICK k \in 1..n : d + i = b[k]
      BY <1>3, <3>3
    <3> QED
      BY <3>1, <3>4
  <2>2. ASSUME NEW k \in 1..n PROVE b[k] - d \in Starts
    <3>1. /\ b[k] - d \in Nat \ {0} /\ b[k] - d + 4 <= Len(raw)
          /\ 1 \in 1..Len(sent[k]) /\ 2 \in 1..Len(sent[k])
      BY <1>1, <1>6
    <3>2. raw[b[k] - d + 1 - 1] = sent[k][1] /\ raw[b[k] - d + 2 - 1] = sent[k][2]
      BY <1>7, <3>1
    <3>3. b[k] - d + 1 - 1 = b[k] - d /\ b[k] - d + 2 - 1 = b[k] - d + 1
      BY <3>1
    <3>4. sent[k][1] = Fmt /\ sent[k][2] = Target
      BY <1>14 DEF Whole, Response
    <3> QED
      BY <1>2, <3>1, <3>2, <3>3, <3>4 DEF Starts, IsFrameStart, HeaderLen
  <2> QED
    BY <2>1, <2>2
<1>10. ASSUME NEW k \in 1..n PROVE NextStart(b[k] - d) = b[k + 1] - d
  <2> DEFINE i == b[k] - d
             e == b[k + 1] - d
  <2>1. i \in Starts /\ i \in Nat /\ e \in Nat /\ i < e
    <3>1. /\ b[k] - d \in Nat \ {0} /\ b[k + 1] - d = b[k] - d + Len(sent[k])
          /\ Len(sent[k]) \in Nat /\ Len(sent[k]) > 4
      BY <1>1, <1>6
    <3>2. i \in Starts
      BY <1>9
    <3> QED
      BY <3>1, <3>2
  <2>2. /\ NextStart(i) \in Nat /\ i < NextStart(i)
        /\ NextStart(i) = Len(raw) + 1 \/ NextStart(i) \in Starts
        /\ NextStart(i) <= Len(raw) + 1
        /\ \A j \in Starts : i < j => NextStart(i) <= j
    BY <2>1, NextStartIsNext
  <2>3. NextStart(i) <= e
    <3>1. CASE k = n
      <4>1. e = Len(raw) + 1
        BY <1>1, <1>2, <1>13, <3>1
      <4> QED
        BY <2>2, <4>1
    <3>2. CASE k # n
      <4>1. k + 1 \in 1..n
        BY <1>1, <3>2
      <4>2. e \in Starts
        BY <1>9, <4>1
      <4> QED
        BY <2>1, <2>2, <4>2
    <3> QED
      BY <3>1, <3>2
  <2>4. PICK l \in 1..(n + 1) : NextStart(i) = b[l] - d
    <3>1. CASE NextStart(i) = Len(raw) + 1
      <4>1. n + 1 \in 1..(n + 1) /\ b[n + 1] - d = Len(raw) + 1
        BY <1>1, <1>2, <1>13
      <4> QED
        BY <3>1, <4>1
    <3>2. CASE NextStart(i) \in Starts
      <4>1. \A l \in 1..n : l \in 1..(n + 1)
        BY <1>1
      <4> QED
        BY <1>9, <3>2, <4>1
    <3> QED
      BY <2>2, <3>1, <3>2
  <2>5. /\ b[l] \in Nat /\ b[k] \in Nat /\ b[k + 1] \in Nat
        /\ k \in 1..(n + 1) /\ k + 1 \in 1..(n + 1)
    BY <1>5, <1>6
  <2>6. b[k] < b[l]
    BY <2>2, <2>4, <2>5
  <2>7. k < l
    <3>1. l = k \/ l < k \/ k < l
      BY <1>1
    <3> QED
      BY <1>1, <2>5, <2>6, <3>1
  <2>8. b[k + 1] <= b[l]
    <3>1. l = k + 1 \/ k + 1 < l
      BY <1>1, <2>7
    <3> QED
      BY <1>1, <2>5, <3>1
  <2>9. e <= NextStart(i)
    BY <2>4, <2>5, <2>8
  <2> QED
    BY <2>1, <2>2, <2>3, <2>9
<1>11. ASSUME NEW k \in 1..n PROVE SubSeq(raw, b[k] - d, b[k + 1] - d - 1) = sent[k]
  <2>1. Len(sent[k]) \in 1..Len(sent[k]) /\ b[k + 1] - d - 1 = b[k] - d + Len(sent[k]) - 1
    <3>1. Len(sent[k]) \in Nat /\ Len(sent[k]) > 4
      BY <1>1
    <3>2. b[k] - d \in Nat \ {0} /\ b[k + 1] - d = b[k] - d + Len(sent[k])
      BY <1>6
    <3> QED
      BY <3>1, <3>2
  <2>2. SubSeq(raw, b[k] - d, b[k + 1] - d - 1) = SubSeq(sent[k], 1, Len(sent[k]))
    BY <1>8, <2>1
  <2>3. SubSeq(sent[k], 1, Len(sent[k])) = sent[k]
    BY <1>14, SubSeqFull
  <2> QED
    BY <2>2, <2>3
<1>12. Clean
  <2> SUFFICES ASSUME NEW i \in Starts
               PROVE  /\ NextStart(i) - i - HeaderLen - 1 \in 1..MaxData
                      /\ raw[NextStart(i) - 1] = Sum(i, NextStart(i) - 2)
    BY DEF Clean
  <2>1. PICK k \in 1..n : i = b[k] - d
    BY <1>9
  <2> DEFINE size == Len(sent[k])
  <2>2. size \in Nat /\ size > 4 /\ i \in Nat /\ NextStart(i) = i + size
    BY <1>1, <1>6, <1>10, <2>1
  <2>3. NextStart(i) - i - HeaderLen - 1 = size - HeaderLen - 1
    BY <2>2
  <2>4. NextStart(i) - 1 = i + size - 1 /\ NextStart(i) - 2 = i + (size - 1) - 1
    BY <2>2
  <2>5. size \in 1..size /\ size - 1 \in 1..size
    BY <2>2
  <2>6. raw[i + size - 1] = sent[k][size]
    BY <1>7, <2>1, <2>5
  <2>7. SubSeq(raw, i, i + (size - 1) - 1) = SubSeq(sent[k], 1, size - 1)
    BY <1>8, <2>1, <2>5
  <2> QED
    BY <1>4, <2>3, <2>4, <2>6, <2>7 DEF Sum
<1> QED
  BY <1>9, <1>10, <1>11, <1>12 DEF n, b

\* Whatever became of the echo and wherever the reads were cut, a reply of frames that
\* nothing imitates is decoded, all of it and nothing else (iso9141.py:190-199).
THEOREM SpecReplySurvives == Spec => []ReplySurvives
<1>1. IInv /\ ReplyInv => ReplySurvives
  <2> SUFFICES ASSUME IInv, ReplyInv,
                      Legible, Returned, ~LeftBehind
               PROVE  /\ outcome = "frames"
                      /\ [k \in DOMAIN frames |->
                            SubSeq(raw, frames[k].start, frames[k].end - 1)] = sent
    BY DEF ReplySurvives
  <2> DEFINE n == Len(sent)
             b == line.starts
  <2>1. /\ Types /\ Laid /\ outcome # "receiving"
        /\ Len(sent) <= MaxFrames /\ Whole /\ EchoApart /\ NoImitation
    BY WholeIsLaid DEF IInv, Splits, Legible, Returned
  <2>2. PICK d \in Nat : From(d)
    BY <2>1, RawIsLine
  <2>3. /\ Clean /\ Starts = {b[k] - d : k \in 1..n}
        /\ \A k \in 1..n : /\ NextStart(b[k] - d) = b[k + 1] - d
                           /\ SubSeq(raw, b[k] - d, b[k + 1] - d - 1) = sent[k]
    BY <2>1, <2>2, RawIsClean
  <2>4. /\ n \in Nat \ {0} /\ DOMAIN sent = 1..n
        /\ \A k \in 1..(n + 1) : b[k] \in Nat
        /\ \A k, l \in 1..(n + 1) : k < l => b[k] < b[l]
        /\ \A k \in 1..n : k \in 1..(n + 1) /\ b[k] - d \in Starts
    <3>1. /\ n \in Nat \ {0} /\ DOMAIN sent = 1..n
          /\ \A k \in 1..(n + 1) : b[k] \in Nat
          /\ \A k, l \in 1..(n + 1) : k < l => b[k] < b[l]
      BY <2>1 DEF Laid
    <3>2. \A k \in 1..n : k \in 1..(n + 1)
      BY <3>1
    <3> QED
      BY <2>3, <3>1, <3>2
  <2> HIDE DEF n, b
  <2>5. Len(raw) \in Nat /\ Starts \subseteq 1..Len(raw)
    BY <2>1, Sizes
  <2>6. outcome \in Splits
    <3>1. 1 \in 1..n
      BY <2>4
    <3>2. b[1] - d \in Starts
      BY <2>4, <3>1
    <3>3. raw # <<>>
      <4>1. raw = <<>> => Len(raw) = 0
        OBVIOUS
      <4>2. b[1] - d \in 1..Len(raw)
        BY <2>5, <3>2
      <4>3. 1..0 = {}
        OBVIOUS
      <4> QED
        BY <4>1, <4>2, <4>3
    <3> QED
      BY <2>1, <3>3 DEF ReplyInv, Reader, Returned
  <2>7. Range(frames) = {[start |-> i, end |-> NextStart(i)] : i \in Starts}
    BY <2>3, <2>6, HeadersFound DEF SplitsAtHeaders
  <2>8. /\ Len(frames) \in Nat /\ DOMAIN frames = 1..Len(frames)
        /\ \A k \in 1..Len(frames) : frames[k].start \in Nat /\ frames[k].end \in Nat
        /\ \A k \in 1..Len(frames) : frames[k].start < frames[k].end
        /\ \A k, l \in 1..Len(frames) : k < l => frames[k].end <= frames[l].start
    <3>1. /\ Len(frames) \in Nat /\ DOMAIN frames = 1..Len(frames)
          /\ \A k \in 1..Len(frames) : frames[k].start \in Nat /\ frames[k].end \in Nat
      BY <2>1, Sizes, Typed
    <3>2. ASSUME NEW k \in 1..Len(frames) PROVE frames[k].start < frames[k].end
      <4>1. frames[k].end \in Proven(frames[k].start)
        BY <3>1 DEF IInv, InLine, IsFrame
      <4>2. frames[k].start + 4 < frames[k].end
        BY <3>1, <4>1, ProvenEnds
      <4> QED
        BY <3>1, <4>2
    <3>3. \A k, l \in 1..Len(frames) : k < l => frames[k].end <= frames[l].start
      BY <3>1 DEF IInv, InLine
    <3> QED
      BY <3>1, <3>2, <3>3
  <2>9. ASSUME NEW k \in 1..Len(frames)
        PROVE  \E l \in 1..n : frames[k].start = b[l] - d
    <3>1. frames[k] \in Range(frames)
      BY <2>8 DEF Range
    <3>2. PICK i \in Starts : frames[k] = [start |-> i, end |-> NextStart(i)]
      BY <2>7, <3>1
    <3> QED
      BY <2>3, <3>2
  <2>10. ASSUME NEW l \in 1..n
         PROVE  \E k \in 1..Len(frames) : frames[k].start = b[l] - d
    <3>1. [start |-> b[l] - d, end |-> NextStart(b[l] - d)] \in Range(frames)
      BY <2>4, <2>7
    <3>2. PICK k \in 1..Len(frames) :
            frames[k] = [start |-> b[l] - d, end |-> NextStart(b[l] - d)]
      BY <2>8, <3>1 DEF Range
    <3> QED
      BY <3>2
  <2>11. n = Len(frames) /\ \A k \in 1..n : frames[k].start = b[k] - d
    <3> DEFINE f == [k \in 1..Len(frames) |-> frames[k].start]
               g == [k \in 1..n |-> b[k] - d]
    <3>1. \A k, l \in 1..Len(frames) : k < l => f[k] < f[l]
      <4> SUFFICES ASSUME NEW k \in 1..Len(frames), NEW l \in 1..Len(frames), k < l
                   PROVE  frames[k].start < frames[l].start
        OBVIOUS
      <4>1. frames[k].start < frames[k].end /\ frames[k].end <= frames[l].start
        BY <2>8
      <4>2. /\ frames[k].start \in Nat /\ frames[k].end \in Nat /\ frames[l].start \in Nat
        BY <2>8
      <4> QED
        BY <4>1, <4>2
    <3>2. \A k, l \in 1..n : k < l => g[k] < g[l]
      <4> SUFFICES ASSUME NEW k \in 1..n, NEW l \in 1..n, k < l PROVE b[k] - d < b[l] - d
        OBVIOUS
      <4>1. b[k] < b[l] /\ b[k] \in Nat /\ b[l] \in Nat
        BY <2>4
      <4> QED
        BY <4>1
    <3>3. /\ \A k \in 1..Len(frames) : f[k] \in Nat
          /\ \A l \in 1..n : g[l] \in Nat
      <4>1. \A l \in 1..n : b[l] - d \in Nat
        BY <2>4, <2>5
      <4> QED
        BY <2>8, <4>1
    <3>4. /\ \A k \in 1..Len(frames) : \E l \in 1..n : f[k] = g[l]
          /\ \A l \in 1..n : \E k \in 1..Len(frames) : f[k] = g[l]
      BY <2>9, <2>10
    <3>5. f = [k \in 1..Len(frames) |-> frames[k].start] /\ g = [k \in 1..n |-> b[k] - d]
      OBVIOUS
    <3>6. Len(frames) \in Nat /\ n \in Nat
      BY <2>4, <2>8
    <3> HIDE DEF f, g
    <3>7. Len(frames) = n /\ \A k \in 1..Len(frames) : f[k] = g[k]
      <4>1. Ascends(f, Len(frames)) /\ Ascends(g, n)
        BY <3>1, <3>2, <3>3 DEF Ascends
      <4>2. Within(f, Len(frames), g, n) /\ Within(g, n, f, Len(frames))
        BY <3>4 DEF Within
      <4> QED
        BY <3>6, <4>1, <4>2, SameNumbers
    <3> QED
      BY <3>5, <3>7
  <2>12. \A k \in 1..n : frames[k].end = b[k + 1] - d
    <3> SUFFICES ASSUME NEW k \in 1..n PROVE frames[k].end = b[k + 1] - d
      OBVIOUS
    <3>1. frames[k] \in Range(frames)
      BY <2>8, <2>11 DEF Range
    <3>2. PICK i \in Starts : frames[k] = [start |-> i, end |-> NextStart(i)]
      BY <2>7, <3>1
    <3>3. i = b[k] - d
      BY <2>11, <3>2
    <3> QED
      BY <2>3, <3>2, <3>3
  <2>13. [k \in DOMAIN frames |-> SubSeq(raw, frames[k].start, frames[k].end - 1)] = sent
    <3>1. \A k \in 1..n : SubSeq(raw, frames[k].start, frames[k].end - 1) = sent[k]
      BY <2>3, <2>11, <2>12
    <3>2. sent = [k \in 1..n |-> sent[k]]
      <4>1. sent \in Seq(Seq(Byte))
        BY ReceiveAssumption DEF ReplyInv, Reader
      <4> QED
        BY <2>4, <4>1, LenProperties
    <3>3. DOMAIN frames = 1..n
      BY <2>8, <2>11
    <3> QED
      BY <3>1, <3>2, <3>3
  <2>14. outcome = "frames"
    <3>1. frames # <<>> /\ ~TooMany
      <4>1. Len(frames) # 0 /\ ~(Len(frames) > MaxFrames)
        BY <2>1, <2>4, <2>11, FramingAssumption DEF n
      <4> QED
        BY <4>1 DEF TooMany
    <3> QED
      BY <2>6, <3>1 DEF ReplyInv, Reader
  <2> QED
    BY <2>13, <2>14
<1> QED
  BY <1>1, ReplyHolds, PTL
=============================================================================
