-------------------------- MODULE EcuExchangeProofs --------------------------
(***************************************************************************)
(* EcuExchange: a session decodes one module, and while modules answer in  *)
(* time what it decodes, and how it ends, is about the question just asked.*)
(***************************************************************************)
EXTENDS EcuExchange, TLAPS

\* With modules that answer in time, all that is owed or in the input while a
\* request is out is about that request: the purge of Send forgets the rest.
Prompt ==
    ~late => /\ request # None => /\ \A r \in owed  : r.to = request
                                  /\ \A f \in input : f.to = request
             /\ \A f \in answer : f.to.serial = asked

Latched == pinned # None => ecuAddress = pinned

Numbered == request # None => request.serial = asked

\* The inductive invariant.
XInv == TypeOK /\ Latched /\ OneModule /\ Prompt /\ Numbered

----------------------------------------------------------------------------
LEMMA InitXInv == Init => XInv
BY ExchangeAssumption, SMT
   DEF Init, XInv, TypeOK, Latched, OneModule, Prompt, Numbered, Outcomes, Frames, Requests

LEMMA ConnectXInv == XInv /\ Connect => XInv'
BY ExchangeAssumption, SMT
   DEF Connect, setting, XInv, TypeOK, Latched, OneModule, Prompt, Numbered

LEMMA SendXInv == ASSUME NEW q \in Questions, XInv, Send(q) PROVE XInv'
<1>1. request' \in Requests /\ request' # None /\ request'.serial = asked' /\ asked' \in 0..MaxRequests
  BY ExchangeAssumption, SMT DEF XInv, TypeOK, Send, Questions, Requests
<1>2. PICK hearers \in SUBSET Modules :
        owed' = owed \cup {[source |-> m, to |-> request'] : m \in hearers}
  BY DEF Send
<1>3. TypeOK'
  BY <1>1, <1>2, ExchangeAssumption, SMT DEF XInv, TypeOK, Send, setting, Purged
<1>4. Latched' /\ OneModule' /\ Numbered'
  BY <1>1, SMT DEF XInv, Send, setting, Latched, OneModule, Numbered
<1>5. Prompt'
  <2>1. ~late' => owed = {}
    BY DEF Send, setting
  <2>2. ~late' => \A r \in owed' : r.to = request'
    BY <1>2, <2>1
  <2> QED
    BY <2>2 DEF Send, Purged, Prompt
<1> QED
  BY <1>3, <1>4, <1>5 DEF XInv

LEMMA SendFailsXInv == XInv /\ SendFails => XInv'
BY ExchangeAssumption, SMT
   DEF SendFails, setting, Purged, XInv, TypeOK, Latched, OneModule, Prompt, Numbered, Outcomes

LEMMA ReplyXInv == ASSUME NEW r \in owed, XInv, Reply(r) PROVE XInv'
<1>1. r \in [source : Modules, to : Requests]
  BY DEF XInv, TypeOK
<1>2. PICK k \in {"positive", "negative"} :
        \/ input' = input \cup {[source |-> r.source, kind |-> k, to |-> r.to]}
        \/ input' = input
  BY DEF Reply
<1>3. [source |-> r.source, kind |-> k, to |-> r.to] \in Frames
  BY <1>1, SMT DEF Frames
<1>4. TypeOK'
  BY <1>2, <1>3, SMT DEF XInv, TypeOK, Reply, setting
<1>5. Latched' /\ OneModule' /\ Numbered'
  BY SMT DEF XInv, Reply, setting, Latched, OneModule, Numbered
<1>6. Prompt'
  <2>1. ASSUME ~late', request' # None
        PROVE  \A f \in input' : f.to = request'
    BY <2>1, <1>2, SMT DEF XInv, Prompt, Reply, setting
  <2> QED
    BY <2>1, SMT DEF XInv, Prompt, Reply, setting
<1> QED
  BY <1>4, <1>5, <1>6 DEF XInv

\* What every end of an exchange does.
LEMMA EndsTypeOK ==
    ASSUME NEW o \in Outcomes, NEW returned \in SUBSET input, XInv, Ends(o, returned),
           ecuAddress' \in Modules \cup {None}, o = "answered" <=> returned # {}
    PROVE  TypeOK' /\ Numbered'
<1>1. \A f \in returned : f.source \in Modules
  BY SMT DEF XInv, TypeOK, Frames
<1> QED
  BY <1>1, SMT DEF XInv, TypeOK, Numbered, Ends, setting

LEMMA EndsPrompt ==
    ASSUME NEW o, NEW returned \in SUBSET input, XInv, request # None, Ends(o, returned)
    PROVE  Prompt'
<1>1. ~late => \A f \in returned : f.to.serial = asked
  BY DEF XInv, Prompt, Numbered
<1> QED
  BY <1>1 DEF Ends, setting, Prompt

LEMMA NoAnswerXInv == XInv /\ NoAnswer => XInv'
<1> SUFFICES ASSUME XInv, NoAnswer PROVE XInv'
  OBVIOUS
<1>1. PICK o \in {"timeout", "overflow", "rejected", "unrelated"} : Ends(o, {})
  BY DEF NoAnswer
<1>2. ecuAddress' = ecuAddress /\ request # None
  BY DEF NoAnswer
<1>3. TypeOK' /\ Numbered'
  BY <1>1, <1>2, EndsTypeOK DEF Outcomes, XInv, TypeOK
<1>4. Prompt'
  BY <1>1, <1>2, EndsPrompt
<1>5. Latched' /\ OneModule'
  BY <1>1, <1>2, SMT DEF XInv, Latched, OneModule, Ends, setting
<1> QED
  BY <1>3, <1>4, <1>5 DEF XInv

LEMMA MatchedXInv == XInv /\ Matched => XInv'
<1> SUFFICES ASSUME XInv, Matched PROVE XInv'
  OBVIOUS
<1>1. PICK m \in Expected : ecuAddress' = m /\ Ends(Verdict(m), Mine(m))
  BY DEF Matched
<1>2. m \in Modules
  BY ExchangeAssumption, SMT DEF XInv, TypeOK, Expected, Related, Frames
<1>3. Mine(m) \subseteq input /\ Verdict(m) \in Outcomes /\ (Verdict(m) = "answered" <=> Mine(m) # {})
  BY SMT DEF Mine, Related, Verdict, Outcomes
<1>4. TypeOK' /\ Numbered'
  BY <1>1, <1>2, <1>3, EndsTypeOK
<1>5. Prompt'
  BY <1>1, <1>3, EndsPrompt DEF Matched
<1>6. Latched'
  BY <1>1 DEF XInv, Latched, Expected, Ends, setting
<1>7. OneModule'
  <2>1. \A f \in Mine(m) : f.source = m
    BY DEF Mine
  <2>2. heard' \subseteq heard \cup {m}
    BY <1>1, <2>1 DEF Ends
  <2>3. heard \subseteq {m}
    <3>1. CASE ecuAddress = None
      BY <3>1, ExchangeAssumption DEF XInv, TypeOK, OneModule
    <3>2. CASE ecuAddress # None
      BY <3>2 DEF XInv, OneModule, Expected
    <3> QED BY <3>1, <3>2
  <2>4. pinned # None => m = pinned
    BY <1>1 DEF XInv, Latched, Expected
  <2> QED
    BY <1>1, <1>2, <2>2, <2>3, <2>4 DEF OneModule, Ends, setting
<1> QED
  BY <1>4, <1>5, <1>6, <1>7 DEF XInv

LEMMA StutterXInv == XInv /\ UNCHANGED vars => XInv'
BY DEF vars, setting, XInv, TypeOK, Latched, OneModule, Prompt, Numbered

----------------------------------------------------------------------------
\* The invariant is inductive.
THEOREM SpecXInv == Spec => []XInv
<1>1. XInv /\ [Next]_vars => XInv'
  <2> SUFFICES ASSUME XInv, [Next]_vars PROVE XInv'
    OBVIOUS
  <2>1. CASE Connect      BY <2>1, ConnectXInv
  <2>2. ASSUME NEW q \in Questions, Send(q) PROVE XInv'
    BY <2>2, SendXInv
  <2>3. CASE SendFails    BY <2>3, SendFailsXInv
  <2>4. ASSUME NEW r \in owed, Reply(r) PROVE XInv'
    BY <2>4, ReplyXInv
  <2>5. CASE NoAnswer     BY <2>5, NoAnswerXInv
  <2>6. CASE Matched      BY <2>6, MatchedXInv
  <2>7. CASE Idle \/ UNCHANGED vars
    BY <2>7, StutterXInv DEF Idle
  <2> QED
    BY <2>1, <2>2, <2>3, <2>4, <2>5, <2>6, <2>7 DEF Next
<1> QED
  BY <1>1, InitXInv, PTL DEF Spec

\* All a session decodes comes from the module it has latched, however many
\* modules there are (iso9141.py:484-498).
THEOREM SpecOneModule == Spec => []OneModule
<1>1. XInv => OneModule
  BY DEF XInv
<1> QED
  BY <1>1, SpecXInv, PTL

\* No reading is older than its request if modules answer before the next
\* request (iso9141.py:417).
THEOREM SpecFreshWhenPrompt == Spec => []FreshWhenPrompt
<1>1. XInv => FreshWhenPrompt
  BY DEF XInv, Prompt, FreshWhenPrompt
<1> QED
  BY <1>1, SpecXInv, PTL

\* Every exchange ends as its own request fared, as long as modules answer in
\* time (iso9141.py:461-498).
THEOREM SpecVerdictOfThisRequest == Spec => VerdictOfThisRequest
<1>1. XInv /\ [Next]_vars => [EndsAsItFared]_vars
  <2> SUFFICES ASSUME XInv, Next, ~late, request # None, request' = None
               PROVE  EndsAsItFared
    BY DEF vars, EndsAsItFared
  <2>1. \A f \in input : f.to = request
    BY DEF XInv, Prompt
  <2>2. NoAnswer \/ Matched
    <3>1. ~Connect /\ ~SendFails /\ ~Idle
      BY DEF Connect, SendFails, Idle
    <3>2. \A q \in Questions : ~Send(q)
      BY DEF Send
    <3>3. \A r \in owed : ~Reply(r)
      BY DEF Reply
    <3> QED
      BY <3>1, <3>2, <3>3 DEF Next
  <2>3. ASSUME NEW f \in input, Refuses(f) PROVE f \in ToThis("negative")
    BY <2>1, <2>3 DEF Refuses, ToThis
  <2>4. ASSUME NEW f \in ToThis("positive") PROVE f \in Related
    BY <2>4 DEF Related, Answers, ToThis
  <2>5. CASE NoAnswer
    <3>1. \/ input = {} /\ outcome' = "timeout"
          \/ TooMany /\ outcome' = "overflow"
          \/ (\E f \in input : Refuses(f)) /\ outcome' = "rejected"
          \/ Related = {} /\ outcome' = "unrelated"
      BY <2>5 DEF NoAnswer, Ends
    <3>2. ToThis("positive") \cup ToThis("negative") = input
      BY <2>1 DEF ToThis, XInv, TypeOK, Frames
    <3>3. outcome' = "overflow" =>
            Cardinality(ToThis("positive") \cup ToThis("negative")) > maxFrames
      BY <3>1, <3>2 DEF TooMany
    <3> QED
      BY <3>1, <3>3, <2>3, <2>4, <2>1 DEF EndsAsItFared, ToThis
  <2>6. CASE Matched
    <3>1. PICK m \in Expected : outcome' = Verdict(m)
      BY <2>6 DEF Matched, Ends
    <3>2. outcome' \in {"answered", "foreign"}
      BY <3>1 DEF Verdict
    <3>3. ASSUME NEW f \in ToThis("positive"), f.source = ecuAddress PROVE outcome' = "answered"
      <4>1. f.source \in Modules
        BY SMT DEF XInv, TypeOK, Frames, ToThis
      <4>2. m = ecuAddress
        BY <3>3, <4>1, ExchangeAssumption DEF Expected
      <4>3. f \in Mine(m)
        BY <3>3, <2>4, <4>2 DEF Mine
      <4> QED
        BY <3>1, <4>3 DEF Verdict
    <3> QED
      BY <3>2, <3>3 DEF EndsAsItFared
  <2> QED
    BY <2>2, <2>5, <2>6
<1> QED
  BY <1>1, SpecXInv, PTL DEF Spec, VerdictOfThisRequest
=============================================================================
