----------------------------- MODULE Capability -----------------------------
(***************************************************************************)
(* What the ECU says it supports, and who relies on it: the page walk of   *)
(* connect() (discover_supported_pids, iso9141.py), the keepalive that     *)
(* reads page 0 again, and the live requests that are narrowed to the set  *)
(* (live_plan of client and service, read_live, pid_capabilities).         *)
(*                                                                         *)
(* Page b is a bitmap: bit n stands for the PID b + n, the last one for the *)
(* next page itself.  The ECU starts as a double built for a set of PIDs   *)
(* (encode_pid_support_pages, mock_obd.py) and may change any bit later;    *)
(* any request may go unanswered, refused, or answered too short.          *)
(***************************************************************************)
EXTENDS Integers, FiniteSets

CONSTANTS
    Span,         \* PID_PAGE_SPAN
    PageCount,    \* how many PID_SUPPORT_PAGES there are
    Decodable,    \* PIDs of the sensor table
    Unknown,      \* None: no bitmap was ever read
    MaxConnects,  \* bound: sessions
    MaxChanges    \* bound: changes of what the ECU advertises

Pages == {Span * k : k \in 0..PageCount-1}
Pids  == 1..Span * PageCount

ASSUME CapabilityAssumption ==
    /\ Span \in Nat \ {0, 1} /\ PageCount \in Nat \ {0}
    /\ Decodable \subseteq Pids
    /\ MaxConnects \in Nat \ {0} /\ MaxChanges \in Nat

VARIABLES
    wanted,      \* the PIDs the ECU was built to advertise, until it changes
    pages,       \* its bitmaps: page -> bits that are set
    changes,
    connects,
    supported,   \* _supported_pids
    logged,      \* _capability_change_logged
    walk,        \* the page to ask next; Span * PageCount or more when done
    found, known,
    wire,        \* the PIDs the last live read or probe put on the wire
    report,      \* if it was a probe: PidStatus.answered by PID
    probed,      \* what it asked for, and what was answered
    broken,      \* a page of this session's walk was not read
    told,        \* page 0 as the ECU told it in this session, all versions
    claimed,     \* PIDs the page walk of this session was told of
    read,        \* pages the walk has read
    warnings     \* of a changed capability, in this session

ecu    == <<wanted, pages, changes>>
so_far == <<found, known>>
probe  == <<report, probed>>
ghost  == <<told, claimed, read, warnings, broken>>
vars   == <<ecu, connects, supported, logged, walk, so_far, wire, probe, ghost>>

Discovered == walk = Span * PageCount

\* encode_pid_support_pages: every page up to the highest PID, each but the last
\* with its continuation bit.
NeverFollowed(b, pids) == FALSE                                    \* mutant
Followed(b, pids)      == \E p \in pids : p > b + Span
EncodedPages(pids) ==
    [b \in {b \in Pages : \E p \in pids : p > b} |->
        {n \in 1..Span : b + n \in pids \/ (n = Span /\ Followed(b, pids))}]

\* What page b says, and parse_pid_support_bitmap of an answer to it: bits
\* behind the bitmap are padding, an answer shorter than it is refused.
Said(b)         == {b + n : n \in pages[b]}
Answered(b)     == {[len |-> l, bits |-> {n \in pages[b] : n <= l}] : l \in Span-1..Span+1}
Whole(d)        == d.len >= Span
Parsed(b, bits) == {b + n : n \in bits \cap 1..Span}

NoProbe == [asked |-> {}, replied |-> {}]

\* connect() after the handshake: the session starts without a set.
Begun ==
    /\ supported' = Unknown /\ logged' = FALSE
    /\ walk' = 0 /\ found' = {} /\ known' = FALSE
    /\ wire' = {} /\ report' = <<>> /\ probed' = NoProbe
    /\ told' = {} /\ claimed' = {} /\ read' = {} /\ warnings' = 0 /\ broken' = FALSE

Init ==
    /\ wanted \in SUBSET Pids /\ pages = EncodedPages(wanted)
    /\ changes = 0 /\ connects = 1
    /\ supported = Unknown /\ logged = FALSE
    /\ walk = 0 /\ found = {} /\ known = FALSE
    /\ wire = {} /\ report = <<>> /\ probed = NoProbe
    /\ told = {} /\ claimed = {} /\ read = {} /\ warnings = 0 /\ broken = FALSE

Connect ==
    /\ Discovered /\ connects < MaxConnects /\ connects' = connects + 1
    /\ Begun
    /\ UNCHANGED ecu

\* A bit of a bitmap flips, or a page is answered no more.
Change ==
    /\ changes < MaxChanges /\ changes' = changes + 1
    /\ \E b \in DOMAIN pages :
         \/ \E n \in 1..Span :
              pages' = [pages EXCEPT ![b] = IF n \in @ THEN @ \ {n} ELSE @ \cup {n}]
         \/ pages' = [c \in DOMAIN pages \ {b} |-> pages[c]]
    /\ wanted' = {}
    /\ UNCHANGED <<connects, supported, logged, walk, so_far, wire, probe, ghost>>

----------------------------------------------------------------------------
(* discover_supported_pids: one page per step.                             *)

\* Whether the walk goes on to page b with what has been found.
NextPage(b, pids)  == b \in pids

WalkTo(b, pids) ==
    IF b \in Pages /\ NextPage(b, pids) THEN b ELSE Span * PageCount

\* The walk is over: what was learned is kept for the session.
EmptySet(pids, k) == pids                                          \* mutant
Learned(pids, k)  == IF k THEN pids ELSE Unknown

PageRead ==
    /\ ~Discovered /\ walk \in DOMAIN pages
    /\ \E d \in {d \in Answered(walk) : Whole(d)} :
         found' = found \cup Parsed(walk, d.bits)
    /\ known' = TRUE
    /\ claimed' = claimed \cup Said(walk) /\ read' = read \cup {walk}
    /\ told' = IF walk = 0 THEN {Said(0)} ELSE told
    /\ walk' = WalkTo(walk + Span, found')
    /\ supported' = IF walk' = Span * PageCount THEN Learned(found', TRUE) ELSE supported
    /\ UNCHANGED <<ecu, connects, logged, wire, probe, warnings, broken>>

\* No answer, a refusal, or a bitmap that is too short.
PageFails ==
    /\ ~Discovered
    /\ walk' = Span * PageCount
    /\ supported' = Learned(found, known)
    /\ broken' = (broken \/ walk \in DOMAIN pages)
    /\ UNCHANGED <<ecu, connects, logged, so_far, wire, probe, told, claimed, read, warnings>>

----------------------------------------------------------------------------
(* keepalive.                                                              *)

\* What the beat compares page 0 with; it leaves the cached set alone.
WholeSet   == supported                                            \* mutant
CachedPage == {p \in supported : p <= Span}

\* A beat that fails, or reads a short bitmap, leaves everything as it was.
BeatFails == Discovered /\ UNCHANGED vars

Beat ==
    /\ Discovered /\ 0 \in DOMAIN pages
    /\ told' = told \cup {Said(0)}
    /\ IF supported # Unknown /\ ~logged /\ Parsed(0, pages[0]) # CachedPage
         THEN logged' = TRUE /\ warnings' = warnings + 1
         ELSE UNCHANGED <<logged, warnings>>
    /\ UNCHANGED <<ecu, connects, supported, walk, so_far, wire, probe, claimed, read, broken>>

----------------------------------------------------------------------------
(* Live requests.                                                          *)

\* Iso9141Client.live_plan.
Unfiltered(pids) == pids                                           \* mutant
LivePlan(pids) == IF supported = Unknown THEN pids ELSE pids \cap supported

\* DiagnosticService._plan: what the client allows, and the table decodes.
Plan(pids) == LivePlan(pids) \cap Decodable

\* A live read of one PID, or of all, puts its plan on the wire.
ReadLive ==
    /\ Discovered
    /\ \E requested \in {Pids} \cup {{p} : p \in Pids} : wire' = Plan(requested)
    /\ report' = <<>> /\ probed' = NoProbe
    /\ UNCHANGED <<ecu, connects, supported, logged, walk, so_far, ghost>>

\* PidStatus of a PID: whether it is advertised, would be polled, has answered.
Flag(p)     == IF supported = Unknown THEN "unknown" ELSE
               IF p \in supported THEN "yes" ELSE "no"
SaidYes(p)  == Flag(p) = "yes" /\ p \in Decodable                  \* mutant
Polled(p)   == Flag(p) # "no" /\ p \in Decodable
EachHas(p)  == TRUE                                                \* mutant
MayHave(p)  == Flag(p) = "yes"
Status(p, replied) ==
    IF ~MayHave(p) THEN "not asked" ELSE IF p \in replied THEN "yes" ELSE "no"

\* pid_capabilities(probe=True): all that is advertised, decodable or not.
Probe ==
    /\ Discovered
    /\ LET own == IF supported = Unknown THEN {} ELSE supported
       IN  /\ wire' = LivePlan(own)
           /\ \E replied \in SUBSET wire' :
                /\ probed' = [asked |-> wire', replied |-> replied]
                /\ report' = [p \in own \cup Decodable |-> Status(p, replied)]
    /\ UNCHANGED <<ecu, connects, supported, logged, walk, so_far, ghost>>

Next ==
    \/ Connect \/ Change
    \/ PageRead \/ PageFails
    \/ BeatFails \/ Beat
    \/ ReadLive \/ Probe

Spec == Init /\ [][Next]_vars

----------------------------------------------------------------------------
\* Every variable holds a value of its kind; one warning a session at most.
TypeOK ==
    /\ wanted \subseteq Pids /\ DOMAIN pages \subseteq Pages
    /\ \A b \in DOMAIN pages : pages[b] \subseteq 1..Span
    /\ changes \in 0..MaxChanges /\ connects \in 1..MaxConnects
    /\ (supported = Unknown \/ supported \subseteq Pids) /\ logged \in BOOLEAN
    /\ walk \in Pages \cup {Span * PageCount}
    /\ found \subseteq Pids /\ known \in BOOLEAN /\ wire \subseteq Pids
    /\ DOMAIN report \subseteq Pids
    /\ claimed \subseteq Pids /\ read \subseteq Pages /\ broken \in BOOLEAN
    /\ told \subseteq SUBSET Pids /\ warnings \in 0..1

\* Nothing is asked for that the ECU did not claim when the session began: no
\* live read of an unadvertised PID while the capability is known (iso9141.py:
\* 346-354), and no page that the one before did not advertise (293-295).
OnlyClaimedIsAsked ==
    /\ supported # Unknown => wire \subseteq claimed
    /\ read \subseteq claimed \cup {0}

\* "Unknown" and "supports nothing" are kept apart: the set is unknown exactly
\* when no page of this session was read, and otherwise what was read, a walk
\* that broke off included (iso9141.py:281-288, 300-304).
UnknownIsNotEmpty ==
    [][~Discovered /\ Discovered' =>
         supported' = IF read' = {} THEN Unknown ELSE claimed']_vars

\* A change is warned of once a session, and only if the ECU has told page 0 in
\* two ways, however many pages the cached set spans (iso9141.py:256-261).
WarnedOfRealChange ==
    warnings <= 1 /\ (warnings > 0 => Cardinality(told) > 1)

\* The encoder is the inverse of the parser and the walk: an ECU double built for
\* a set of PIDs, read without a loss, is found to support just these and the
\* pages on the way; one built for none is unknown (common.py:89-98).
DoubleIsDiscovered ==
    Discovered /\ changes = 0 /\ ~broken =>
        supported = IF wanted = {} THEN Unknown
                    ELSE wanted \cup {b \in Pages \ {0} : \E p \in wanted : p > b}

\* What the status list says of a PID is so: the PIDs it plans to ask for are
\* those a poll reads, with a known capability and without one, and the probe
\* calls a PID silent only if it was asked for and did not answer, answering only
\* if it did (service.py:144-168, 434-450 and 498-503).
StatusIsTrue ==
    /\ Discovered => {p \in Pids : Polled(p)} = Plan(Pids)
    /\ \A p \in DOMAIN report :
         /\ report[p] = "no"  <=> p \in probed.asked \ probed.replied
         /\ report[p] = "yes" <=> p \in probed.replied
=============================================================================
