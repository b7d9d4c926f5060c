-------------------------- MODULE CapabilityProofs ---------------------------
(***************************************************************************)
(* Capability, for any page size, any number of pages and any table: what  *)
(* a session knows of the ECU is what the page walk was told, and nothing  *)
(* else is asked for.                                                      *)
(***************************************************************************)
EXTENDS Capability, FiniteSetTheorems, TLAPS

End == Span * PageCount

\* The walk is on a page that the one before advertised, and has gathered what it
\* was told; before it is over nothing has been learned or asked for.
Walking ==
    /\ found = claimed /\ (known <=> read # {})
    /\ read \subseteq claimed \cup {0}
    /\ ~Discovered => /\ walk = 0 \/ walk \in claimed
                      /\ supported = Unknown /\ wire = {}

\* What it gathered is what the session goes by.
Knows == Discovered => supported = IF known THEN claimed ELSE Unknown

\* A live read, and a probe, ask for what is known to be there.
Asks == supported # Unknown => wire \subseteq supported

\* A report is about the probe that was the last request.
Reports ==
    \A p \in DOMAIN report :
       /\ report[p] = "no"  <=> p \in probed.asked \ probed.replied
       /\ report[p] = "yes" <=> p \in probed.replied

\* What page 0 said when it was read is among what the ECU told, and a warning was
\* given over something else that it told.
FirstPage == {p \in claimed : p <= Span}
Warned ==
    /\ IsFiniteSet(told) /\ warnings = IF logged THEN 1 ELSE 0
    /\ ~Discovered => ~logged
    /\ ~Discovered /\ walk = 0 => claimed = {}
    /\ read = {} => claimed = {}
    /\ read # {} => FirstPage \in told
    /\ logged => \E page \in told : page # FirstPage /\ FirstPage \in told

\* The inductive invariant.
CapInv == TypeOK /\ Walking /\ Knows /\ Asks /\ Reports /\ Warned

----------------------------------------------------------------------------
\* A page's bits are PIDs; no page lies behind the last.
LEMMA PageBits ==
    ASSUME NEW b \in Pages, NEW n \in 1..Span
    PROVE  b + n \in Pids /\ b # End
<1>1. PICK k \in 0..PageCount-1 : b = Span * k
  BY DEF Pages
<1>2. Span \in Nat /\ PageCount \in Nat /\ Span > 0
  BY CapabilityAssumption
<1>3. Span * k + Span <= Span * PageCount /\ Span * k >= 0
  BY <1>2, <1>1
<1> QED
  BY <1>1, <1>2, <1>3 DEF Pids, End

\* The walk starts on a page, and its end is none.
LEMMA PageFacts == 0 \in Pages /\ End \in Nat /\ Pages \subseteq Nat /\ End \notin Pages
<1>1. 1 \in 1..Span /\ Span \in Nat /\ PageCount \in Nat \ {0}
  BY CapabilityAssumption
<1>2. Span * 0 = 0 /\ End \in Nat /\ \A k \in 0..PageCount-1 : Span * k \in Nat
  BY <1>1 DEF End
<1>3. 0 \in Pages
  BY <1>1, <1>2 DEF Pages
<1> QED
  BY <1>1, <1>2, <1>3, PageBits DEF Pages

\* The bits of a page but the first lie behind the first page's.
LEMMA LaterPage ==
    ASSUME NEW b \in Pages, b # 0, NEW n \in 1..Span
    PROVE  b + n > Span
<1>1. PICK k \in 0..PageCount-1 : b = Span * k
  BY DEF Pages
<1>2. Span \in Nat /\ k \in Nat /\ k # 0
  BY <1>1, CapabilityAssumption
<1>3. Span * k >= Span
  BY <1>2
<1> QED
  BY <1>1, <1>2, <1>3

\* A bitmap that is read whole says what the page says.
LEMMA WholeIsSaid ==
    ASSUME TypeOK, NEW b \in DOMAIN pages, NEW d \in Answered(b), Whole(d)
    PROVE  Parsed(b, d.bits) = Said(b) /\ Said(b) \subseteq Pids
<1>1. PICK l \in Span-1..Span+1 : d = [len |-> l, bits |-> {n \in pages[b] : n <= l}]
  BY DEF Answered
<1>2. l >= Span /\ pages[b] \subseteq 1..Span /\ b \in Pages
  BY <1>1 DEF Whole, TypeOK
<1>3. d.bits = pages[b]
  BY <1>1, <1>2, CapabilityAssumption
<1>4. d.bits \cap 1..Span = pages[b]
  BY <1>2, <1>3
<1>5. Parsed(b, d.bits) = Said(b)
  BY <1>4 DEF Parsed, Said
<1> QED
  BY <1>2, <1>5, PageBits DEF Said

----------------------------------------------------------------------------
\* CapInv holds at the start and no action breaks it.
LEMMA InitCapInv == Init => CapInv
<1> SUFFICES ASSUME Init PROVE CapInv
  OBVIOUS
<1>1. DOMAIN pages \subseteq Pages /\ \A b \in DOMAIN pages : pages[b] \subseteq 1..Span
  BY DEF Init, EncodedPages
<1>2. DOMAIN report = {} /\ wire = {} /\ claimed = {} /\ told = {} /\ read = {}
  BY DEF Init
<1>3. TypeOK
  <2>1. wanted \subseteq Pids /\ changes \in 0..MaxChanges /\ connects \in 1..MaxConnects
    BY CapabilityAssumption DEF Init
  <2>2. walk \in Pages /\ warnings \in 0..1 /\ supported = Unknown /\ found = {}
    BY PageFacts DEF Init
  <2>3. logged \in BOOLEAN /\ known \in BOOLEAN /\ broken \in BOOLEAN
    BY Zenon DEF Init
  <2> QED
    BY <1>1, <1>2, <2>1, <2>2, <2>3 DEF TypeOK
<1> QED
  BY <1>2, <1>3, PageFacts, FS_EmptySet DEF Warned, Init, CapInv, Walking, Knows, Asks,
                                            Reports, Discovered, End

LEMMA ConnectCapInv == CapInv /\ Connect => CapInv'
<1> SUFFICES ASSUME CapInv, Connect PROVE CapInv'
  OBVIOUS
<1>1. DOMAIN report' = {} /\ wire' = {} /\ claimed' = {} /\ told' = {} /\ read' = {}
  BY DEF Connect, Begun
<1>2. TypeOK'
  <2>1. walk' \in Pages /\ warnings' \in 0..1 /\ supported' = Unknown /\ found' = {}
        /\ connects' \in 1..MaxConnects
    BY PageFacts, CapabilityAssumption DEF CapInv, TypeOK, Connect, Begun
  <2>2. logged' \in BOOLEAN /\ known' \in BOOLEAN /\ broken' \in BOOLEAN
    BY Zenon DEF Connect, Begun
  <2> QED
    BY <1>1, <2>1, <2>2 DEF CapInv, TypeOK, Connect, ecu
<1> QED
  BY <1>1, <1>2, PageFacts, FS_EmptySet
     DEF Warned, Connect, Begun, CapInv, Walking, Knows, Asks, Reports, Discovered, End

LEMMA ChangeCapInv == CapInv /\ Change => CapInv'
<1> SUFFICES ASSUME CapInv, Change PROVE CapInv'
  OBVIOUS
<1>1. DOMAIN pages' \subseteq Pages /\ \A b \in DOMAIN pages' : pages'[b] \subseteq 1..Span
  BY DEF CapInv, TypeOK, Change
<1>2. TypeOK'
  BY <1>1, CapabilityAssumption DEF CapInv, TypeOK, Change, so_far, probe, ghost
<1> QED
  BY <1>2 DEF Change, so_far, probe, ghost, CapInv, Walking, Knows, Warned, FirstPage, Asks,
              Reports, Discovered

\* A page adds the same bits to found and to claimed; page 0 gives the set the
\* keepalive will compare with, and later pages leave that part of it alone.
LEMMA PageReadCapInv == CapInv /\ PageRead => CapInv'
<1> SUFFICES ASSUME CapInv, PageRead PROVE CapInv'
  OBVIOUS
<1>1. walk \in DOMAIN pages /\ walk \in Pages /\ ~Discovered
  BY DEF CapInv, TypeOK, PageRead
<1>2. found' = found \cup Said(walk) /\ Said(walk) \subseteq Pids
  BY <1>1, WholeIsSaid DEF CapInv, PageRead
<1>3. /\ walk' \in Pages \cup {End}
      /\ walk' # End => walk' \in found'
  BY DEF PageRead, WalkTo, NextPage, End
<1>4. supported' = IF Discovered' THEN found' ELSE Unknown
  BY <1>1 DEF CapInv, Walking, PageRead, Learned, Discovered
<1>5. TypeOK'
  <2>1. told' \subseteq SUBSET Pids
    BY <1>2 DEF CapInv, TypeOK, PageRead
  <2>2. supported' = Unknown \/ supported' \subseteq Pids
    BY <1>2, <1>4 DEF CapInv, TypeOK
  <2> QED
    BY <1>1, <1>2, <1>3, <2>1, <2>2 DEF CapInv, TypeOK, PageRead, ecu, probe, End
<1>6. Walking'
  BY <1>1, <1>2, <1>3, <1>4 DEF CapInv, Walking, PageRead, Discovered, End
<1>7. Knows' /\ Asks' /\ Reports'
  BY <1>1, <1>4, <1>6
     DEF CapInv, Walking, Knows, Asks, Reports, PageRead, probe
<1>8. Warned'
  <2>1. /\ claimed' = claimed \cup Said(walk) /\ read' # {} /\ walk' # 0
        /\ UNCHANGED <<logged, warnings>> /\ ~logged
        /\ told' = IF walk = 0 THEN {Said(0)} ELSE told
    <3>1. walk' \in {walk + Span, Span * PageCount}
      BY DEF PageRead, WalkTo
    <3>2. walk' # 0
      BY <1>1, <3>1, PageFacts, CapabilityAssumption DEF End
    <3> QED
      BY <1>1, <3>2 DEF CapInv, Warned, PageRead
  <2>2. IsFiniteSet(told')
    BY <2>1, FS_Singleton DEF CapInv, Warned
  <2>3. FirstPage' \in told'
    <3>1. CASE walk = 0
      <4>1. claimed' = Said(0) /\ Said(0) \subseteq 1..Span
        BY <1>1, <2>1, <3>1 DEF CapInv, TypeOK, Warned, Said
      <4> QED
        BY <2>1, <3>1, <4>1, CapabilityAssumption DEF FirstPage
    <3>2. CASE walk # 0
      <4>1. \A n \in pages[walk] : walk + n > Span
        BY <1>1, <3>2, LaterPage DEF CapInv, TypeOK
      <4>2. \A p \in Said(walk) : p > Span
        BY <4>1 DEF Said
      <4>3. FirstPage' = FirstPage
        BY <1>2, <2>1, <4>2, CapabilityAssumption DEF FirstPage, Pids
      <4>4. read # {}
        BY <1>1, <3>2 DEF CapInv, Walking, Warned
      <4> QED
        BY <2>1, <3>2, <4>3, <4>4 DEF CapInv, Warned
    <3> QED
      BY <3>1, <3>2
  <2> QED
    BY <2>1, <2>2, <2>3 DEF CapInv, Warned, Discovered
<1> QED
  BY <1>5, <1>6, <1>7, <1>8 DEF CapInv

LEMMA PageFailsCapInv == CapInv /\ PageFails => CapInv'
<1> SUFFICES ASSUME CapInv, PageFails PROVE CapInv'
  OBVIOUS
<1>1. TypeOK'
  BY PageFacts DEF CapInv, TypeOK, PageFails, Learned, ecu, so_far, probe, End
<1> QED
  BY <1>1 DEF PageFails, Learned, so_far, probe, CapInv, Walking, Knows, Warned, FirstPage,
              Asks, Reports, Discovered

\* The beat compares with the part of the set that page 0 gave: a difference is one
\* between two things the ECU told.
LEMMA BeatCapInv == CapInv /\ Beat => CapInv'
<1> SUFFICES ASSUME CapInv, Beat PROVE CapInv'
  OBVIOUS
<1>1. 0 \in DOMAIN pages /\ Said(0) \subseteq Pids /\ Parsed(0, pages[0]) = Said(0)
  BY PageBits, PageFacts DEF CapInv, TypeOK, Beat, Said, Parsed
<1>2. TypeOK'
  <2>1. warnings' \in 0..1
    BY DEF CapInv, TypeOK, Warned, Beat
  <2>2. logged' \in BOOLEAN
    BY Zenon DEF CapInv, TypeOK, Beat
  <2>3. told' \subseteq SUBSET Pids
    BY <1>1 DEF CapInv, TypeOK, Beat
  <2> QED
    BY <2>1, <2>2, <2>3 DEF CapInv, TypeOK, Beat, ecu, so_far, probe
<1>3. Warned'
  <2>1. told' = told \cup {Said(0)} /\ FirstPage' = FirstPage /\ IsFiniteSet(told')
    BY FS_AddElement DEF CapInv, Warned, Beat, FirstPage
  <2>2. CASE UNCHANGED <<logged, warnings>>
    BY <2>1, <2>2 DEF CapInv, Warned, Beat, Discovered
  <2>3. CASE logged' = TRUE /\ warnings' = warnings + 1 /\ ~logged
             /\ supported # Unknown /\ Said(0) # CachedPage
    <3>1. CachedPage = FirstPage /\ FirstPage \in told
      BY <2>3 DEF CapInv, Walking, Knows, Warned, Beat, CachedPage, FirstPage
    <3> QED
      BY <2>1, <2>3, <3>1 DEF CapInv, Warned, Beat, Discovered
  <2> QED
    BY <1>1, <2>2, <2>3 DEF Beat
<1> QED
  BY <1>2, <1>3
     DEF Beat, so_far, probe, CapInv, Walking, Knows, Asks, Reports, Discovered

LEMMA ReadLiveCapInv == CapInv /\ ReadLive => CapInv'
<1> SUFFICES ASSUME CapInv, ReadLive PROVE CapInv'
  OBVIOUS
<1>1. wire' \subseteq Pids /\ (supported # Unknown => wire' \subseteq supported)
  BY DEF ReadLive, Plan, LivePlan
<1>2. TypeOK'
  BY <1>1 DEF CapInv, TypeOK, ReadLive, ecu, so_far, ghost
<1> QED
  BY <1>1, <1>2 DEF ReadLive, so_far, ghost, CapInv, Walking, Knows, Warned, FirstPage, Asks,
                    Reports, Discovered

\* The probe asks for the whole set, and its report is about just that.
LEMMA ProbeCapInv == CapInv /\ Probe => CapInv'
<1> SUFFICES ASSUME CapInv, Probe PROVE CapInv'
  OBVIOUS
<1> DEFINE own == IF supported = Unknown THEN {} ELSE supported
<1>1. own \subseteq Pids /\ wire' = own
  BY DEF CapInv, TypeOK, Probe, LivePlan
<1>2. PICK replied \in SUBSET own :
         /\ probed' = [asked |-> own, replied |-> replied]
         /\ report' = [p \in own \cup Decodable |-> Status(p, replied)]
  BY <1>1 DEF Probe
<1>3. Reports'
  BY <1>2 DEF Reports, Status, MayHave, Flag
<1>4. TypeOK'
  BY <1>1, <1>2, CapabilityAssumption DEF CapInv, TypeOK, Probe, ecu, so_far, ghost
<1> QED
  BY <1>1, <1>3, <1>4 DEF Probe, so_far, ghost, CapInv, Walking, Knows, Warned, FirstPage,
                          Asks, Discovered

LEMMA NextCapInv == CapInv /\ [Next]_vars => CapInv'
<1>1. CapInv /\ UNCHANGED vars => CapInv'
  BY DEF vars, ecu, so_far, probe, ghost, CapInv, TypeOK, Warned, FirstPage, Walking, Knows,
         Asks, Reports,
         Discovered
<1> QED
  BY <1>1, ConnectCapInv, ChangeCapInv, PageReadCapInv, PageFailsCapInv, BeatCapInv,
     ReadLiveCapInv, ProbeCapInv DEF Next, BeatFails

\* At all times what is gathered is what was told, and what is asked for is in it:
\* iso9141.py:281-304, 346-354.
THEOREM SpecCapInv == Spec => []CapInv
  BY InitCapInv, NextCapInv, PTL DEF Spec

\* No PID and no page is asked for that this session was not told of:
\* iso9141.py:293-295, 346-354.
THEOREM SpecOnlyClaimedIsAsked == Spec => []OnlyClaimedIsAsked
<1>1. CapInv => OnlyClaimedIsAsked
  BY DEF CapInv, Walking, Knows, Asks, OnlyClaimedIsAsked
<1> QED
  BY <1>1, SpecCapInv, PTL

\* However the walk ends, what it leaves is what was read, and nothing read is
\* unknown, not empty: iso9141.py:281-288, 300-304.
THEOREM SpecUnknownIsNotEmpty == Spec => UnknownIsNotEmpty
<1>1. CapInv' /\ CapInv /\ [Next]_vars =>
        [~Discovered /\ Discovered' =>
           supported' = IF read' = {} THEN Unknown ELSE claimed']_vars
  BY DEF CapInv, Walking, Knows
<1> QED
  BY <1>1, SpecCapInv, PTL DEF Spec, UnknownIsNotEmpty

\* One warning a session at most, and none over what the ECU has always said, of
\* however many pages the cached set is: iso9141.py:256-261.
THEOREM SpecWarnedOfRealChange == Spec => []WarnedOfRealChange
<1>1. CapInv => WarnedOfRealChange
  <2> SUFFICES ASSUME CapInv, warnings > 0 PROVE Cardinality(told) > 1
    BY DEF CapInv, Warned, WarnedOfRealChange
  <2>1. PICK page \in told : page # FirstPage /\ FirstPage \in told
    BY DEF CapInv, Warned
  <2>2. Cardinality({page} \cup {FirstPage}) = 2
    <3>1. IsFiniteSet({page}) /\ Cardinality({page}) = 1 /\ FirstPage \notin {page}
      BY <2>1, FS_Singleton
    <3>2. Cardinality({page} \cup {FirstPage}) = Cardinality({page}) + 1
      BY <3>1, FS_AddElement
    <3> QED
      BY <3>1, <3>2
  <2>3. Cardinality({page} \cup {FirstPage}) <= Cardinality(told) /\ Cardinality(told) \in Nat
    BY <2>1, FS_Subset, FS_CardinalityType DEF CapInv, Warned
  <2> QED
    BY <2>2, <2>3
<1> QED
  BY <1>1, SpecCapInv, PTL

\* The status list agrees with the poll and with what the probe has seen:
\* service.py:144-168, 434-450, 498-503.
THEOREM SpecStatusIsTrue == Spec => []StatusIsTrue
<1>1. CapInv => StatusIsTrue
  <2>1. \A p \in Pids : Polled(p) <=> p \in Plan(Pids)
    BY DEF Polled, Flag, Plan, LivePlan
  <2> QED
    BY <2>1, CapabilityAssumption DEF StatusIsTrue, CapInv, Reports, Plan, LivePlan
<1> QED
  BY <1>1, SpecCapInv, PTL

----------------------------------------------------------------------------
(* The encoder of an ECU double against the parser and the walk.           *)

\* Behind a page comes the next, or the end; nothing lies between.
LEMMA NextPageOf ==
    ASSUME NEW b \in Pages
    PROVE  /\ b + Span \in Pages \cup {End} /\ b + Span <= End
           /\ \A c \in Pages : c > b => c >= b + Span
<1>1. PICK k \in 0..PageCount-1 : b = Span * k
  BY DEF Pages
<1>2. Span \in Nat /\ k \in Nat /\ PageCount \in Nat /\ Span > 0
  BY <1>1, CapabilityAssumption
<1>3. b + Span = Span * (k + 1) /\ (k + 1 < PageCount => k + 1 \in 0..PageCount-1)
  BY <1>1, <1>2
<1>4. b + Span \in Pages \cup {End}
  <2>1. CASE k + 1 < PageCount
    <3>1. k + 1 \in 0..PageCount-1
      BY <1>3, <2>1
    <3>2. Span * (k + 1) \in Pages
      BY <3>1 DEF Pages
    <3> QED
      BY <1>3, <3>2
  <2>2. CASE k + 1 = PageCount
    BY <1>3, <2>2 DEF End
  <2>3. k + 1 < PageCount \/ k + 1 = PageCount
    BY <1>1, <1>2
  <2> QED
    BY <2>1, <2>2, <2>3
<1>5. ASSUME NEW c \in Pages, c > b PROVE c >= b + Span
  <2>1. PICK j \in 0..PageCount-1 : c = Span * j
    BY DEF Pages
  <2>2. j >= k + 1
    BY <1>1, <1>2, <1>5, <2>1
  <2> QED
    BY <1>2, <1>3, <2>1, <2>2
<1>6. b + Span <= End
  BY <1>2, <1>3 DEF End
<1> QED
  BY <1>4, <1>5, <1>6

\* What an ECU built for wanted tells of itself up to PID b.
Upto(b) ==
    {p \in wanted : p <= b} \cup {c \in Pages \ {0} : c <= b /\ \E p \in wanted : p > c}

\* Without losses and changes the walk gathers just that.
DoubleInv ==
    changes = 0 =>
       /\ pages = EncodedPages(wanted)
       /\ read # {} => wanted # {}
       /\ ~broken => claimed = Upto(walk)

\* A page adds the PIDs behind it, up to the next page.
LEMMA PageSays ==
    ASSUME CapInv, NEW b \in Pages, pages = EncodedPages(wanted), b \in DOMAIN pages
    PROVE  Upto(b) \cup Said(b) = Upto(b + Span)
<1>1. pages[b] = {n \in 1..Span : \/ b + n \in wanted
                                  \/ n = Span /\ \E p \in wanted : p > b + Span}
  BY DEF EncodedPages, Followed
<1>2. /\ b \in Nat /\ Span \in Nat /\ Span > 0 /\ End \in Nat /\ Pages \subseteq Nat
      /\ wanted \subseteq 1..End /\ b + Span # 0
  BY PageFacts, CapabilityAssumption DEF CapInv, TypeOK, Pids, End
<1>3. ASSUME NEW x \in Said(b) PROVE x \in Upto(b + Span)
  <2>1. PICK n \in pages[b] : x = b + n
    BY DEF Said
  <2>2. n \in 1..Span
    BY <1>1, <2>1
  <2>3. CASE x \in wanted
    BY <1>2, <2>1, <2>2, <2>3 DEF Upto
  <2>4. CASE n = Span /\ \E p \in wanted : p > b + Span
    <3>1. b + Span \in Pages
      BY <1>2, <2>4, NextPageOf
    <3> QED
      BY <1>2, <2>1, <2>4, <3>1 DEF Upto
  <2> QED
    BY <1>1, <2>1, <2>3, <2>4
<1>4. ASSUME NEW x \in Upto(b) PROVE x \in Upto(b + Span)
  BY <1>2 DEF Upto
<1>5. ASSUME NEW x \in Upto(b + Span), x \notin Upto(b) PROVE x \in Said(b)
  <2>1. CASE x \in wanted
    <3>1. x > b /\ x <= b + Span /\ x \in Nat
      BY <1>2, <1>5, <2>1, NextPageOf DEF Upto
    <3>2. x - b \in 1..Span /\ x = b + (x - b)
      BY <1>2, <3>1
    <3> QED
      BY <1>1, <2>1, <3>2 DEF Said
  <2>2. CASE x \in Pages \ {0} /\ x <= b + Span /\ \E p \in wanted : p > x
    <3>1. x = b + Span
      BY <1>2, <1>5, <2>2, NextPageOf DEF Upto
    <3>2. Span \in pages[b]
      BY <1>1, <1>2, <2>2, <3>1
    <3> QED
      BY <3>1, <3>2 DEF Said
  <2> QED
    BY <1>5, <2>1, <2>2 DEF Upto
<1> QED
  BY <1>3, <1>4, <1>5

\* Where nothing is wanted behind b, b is as far as the end.
LEMMA NothingBehind ==
    ASSUME CapInv, NEW b \in Nat, b <= End, \A p \in wanted : ~(p > b)
    PROVE  Upto(b) = Upto(End)
<1>1. End \in Nat /\ Pages \subseteq Nat /\ wanted \subseteq 1..End
  BY PageFacts DEF CapInv, TypeOK, Pids, End
<1>2. \A p \in wanted : p <= b /\ p <= End
  BY <1>1
<1>3. {p \in wanted : p <= b} = {p \in wanted : p <= End}
  BY <1>2
<1>4. ASSUME NEW c \in Pages \ {0}, \E p \in wanted : p > c PROVE c <= b /\ c <= End
  <2>1. PICK p \in wanted : p > c
    BY <1>4
  <2>2. p <= b /\ p <= End /\ p \in Nat /\ c \in Nat
    BY <1>1, <1>2
  <2> QED
    BY <1>1, <2>1, <2>2
<1>5. {c \in Pages \ {0} : c <= b /\ \E p \in wanted : p > c}
        = {c \in Pages \ {0} : c <= End /\ \E p \in wanted : p > c}
  BY <1>4
<1> QED
  BY <1>3, <1>5 DEF Upto

\* An ECU tells nothing of the PIDs up to 0: there are none.
LEMMA UptoNothing == ASSUME wanted \subseteq Pids PROVE Upto(0) = {}
<1>1. \A p \in wanted : ~(p <= 0)
  BY CapabilityAssumption DEF Pids
<1>2. \A c \in Pages \ {0} : ~(c <= 0)
  BY PageFacts
<1> QED
  BY <1>1, <1>2 DEF Upto

\* A page read takes the walk, and what was told, one page further, or to the end.
LEMMA PageReadDoubleInv == CapInv /\ DoubleInv /\ PageRead => DoubleInv'
<1> SUFFICES ASSUME CapInv, DoubleInv, PageRead, changes = 0 PROVE DoubleInv'
  BY DEF DoubleInv, PageRead, ecu
<1>1. walk \in DOMAIN pages /\ walk \in Pages /\ pages = EncodedPages(wanted)
  BY DEF CapInv, TypeOK, PageRead, DoubleInv
<1>2. UNCHANGED <<wanted, pages, changes, broken>> /\ claimed' = claimed \cup Said(walk)
  BY DEF PageRead, ecu
<1>3. wanted # {}
  BY <1>1 DEF EncodedPages
<1>4. ASSUME ~broken PROVE claimed' = Upto(walk')
  <2>1. claimed' = Upto(walk + Span)
    BY <1>1, <1>2, <1>4, PageSays DEF DoubleInv
  <2>2. CASE walk' = walk + Span
    BY <2>1, <2>2
  <2>3. CASE walk' # walk + Span
    <3>1. found' = claimed'
      BY <1>1, WholeIsSaid DEF CapInv, Walking, PageRead
    <3>2. walk' = End /\ ~(walk + Span \in Pages /\ walk + Span \in Upto(walk + Span))
      BY <2>1, <2>3, <3>1 DEF PageRead, WalkTo, NextPage, End
    <3>3. walk + Span \in Pages /\ walk + Span <= End /\ walk + Span \in Nat /\ walk + Span # 0
      BY <1>1, <2>3, <3>2, NextPageOf, PageFacts, CapabilityAssumption
    <3>4. \A p \in wanted : ~(p > walk + Span)
      BY <3>2, <3>3 DEF Upto
    <3> QED
      BY <2>1, <3>2, <3>3, <3>4, NothingBehind
  <2> QED
    BY <2>2, <2>3
<1> QED
  BY <1>1, <1>2, <1>3, <1>4 DEF DoubleInv, Upto

\* A page an unchanged ECU does not answer is one behind its last.
LEMMA PageFailsDoubleInv == CapInv /\ DoubleInv /\ PageFails => DoubleInv'
<1> SUFFICES ASSUME CapInv, DoubleInv, PageFails, changes = 0 PROVE DoubleInv'
  BY DEF DoubleInv, PageFails, ecu
<1>1. walk \in Pages /\ walk \in Nat /\ walk <= End
  <2>1. walk \in Pages
    BY DEF CapInv, TypeOK, PageFails, Discovered
  <2>2. walk \in Nat /\ End \in Nat /\ Span \in Nat
    BY <2>1, PageFacts, CapabilityAssumption
  <2>3. walk + Span <= End
    BY <2>1, NextPageOf
  <2> QED
    BY <2>1, <2>2, <2>3
<1>2. /\ UNCHANGED <<wanted, pages, changes, claimed, read>> /\ walk' = End
      /\ ~broken' => ~broken /\ walk \notin DOMAIN pages
  BY DEF PageFails, ecu, End
<1>3. ~broken' => \A p \in wanted : ~(p > walk)
  BY <1>1, <1>2 DEF DoubleInv, EncodedPages
<1> QED
  BY <1>1, <1>2, <1>3, NothingBehind DEF DoubleInv, Upto

LEMMA NextDoubleInv == CapInv /\ DoubleInv /\ [Next]_vars => DoubleInv'
<1> SUFFICES ASSUME CapInv, DoubleInv, [Next]_vars PROVE DoubleInv'
  OBVIOUS
<1>1. CASE Connect
  <2>1. /\ claimed' = {} /\ walk' = 0 /\ read' = {} /\ broken' = FALSE
        /\ UNCHANGED <<wanted, pages, changes>>
    BY <1>1 DEF Connect, Begun, ecu
  <2> QED
    BY <2>1, UptoNothing DEF CapInv, TypeOK, DoubleInv, Upto
<1>2. CASE Change
  BY <1>2 DEF Change, DoubleInv, CapInv, TypeOK
<1>3. CASE Beat \/ ReadLive \/ Probe \/ UNCHANGED vars
  BY <1>3 DEF Beat, ReadLive, Probe, vars, ecu, so_far, ghost, DoubleInv, Upto
<1> QED
  BY <1>1, <1>2, <1>3, PageReadDoubleInv, PageFailsDoubleInv DEF Next, BeatFails

LEMMA InitDoubleInv == Init => DoubleInv
<1> SUFFICES ASSUME Init PROVE DoubleInv
  OBVIOUS
<1>1. walk = 0 /\ claimed = {} /\ read = {} /\ pages = EncodedPages(wanted)
  BY DEF Init
<1>2. Upto(0) = {}
  BY UptoNothing DEF Init
<1> QED
  BY <1>1, <1>2 DEF DoubleInv

\* The encoder is the inverse of the parser and the walk: common.py:89-98.
THEOREM SpecDoubleIsDiscovered == Spec => []DoubleIsDiscovered
<1>1. CapInv /\ DoubleInv => DoubleIsDiscovered
  <2> SUFFICES ASSUME CapInv, DoubleInv, Discovered, changes = 0, ~broken
               PROVE  DoubleIsDiscovered
    BY DEF DoubleIsDiscovered
  <2>1. claimed = wanted \cup {b \in Pages \ {0} : \E p \in wanted : p > b}
    <3>1. End \in Nat /\ wanted \subseteq 1..End /\ \A b \in Pages : b <= End
      BY PageFacts, NextPageOf, CapabilityAssumption DEF CapInv, TypeOK, Pids, End
    <3>2. claimed = Upto(End)
      BY DEF DoubleInv, Discovered, End
    <3>3. {p \in wanted : p <= End} = wanted
      <4>1. \A p \in wanted : p <= End
        BY <3>1
      <4> QED
        BY <4>1
    <3>4. {b \in Pages \ {0} : b <= End /\ \E p \in wanted : p > b}
            = {b \in Pages \ {0} : \E p \in wanted : p > b}
      BY <3>1
    <3> QED
      BY <3>2, <3>3, <3>4 DEF Upto
  <2>2. known <=> wanted # {}
    BY <2>1 DEF CapInv, Walking, Warned, DoubleInv
  <2> QED
    BY <2>1, <2>2 DEF CapInv, Knows, DoubleIsDiscovered
<1> QED
  BY <1>1, InitDoubleInv, NextDoubleInv, SpecCapInv, PTL DEF Spec
=============================================================================
