--------------------------- MODULE EsgSourceProofs ---------------------------
(***************************************************************************)
(* Theorems about EsgSource, for any number of calls and topics.           *)
(***************************************************************************)
EXTENDS EsgSource, TLAPS

USE DEF Undecided, Free, vars

(* Of two sources the other one is the other one, both ways.               *)
LEMMA OtherSource ==
  ASSUME NEW src \in Sources
  PROVE  /\ Other(src) \in Sources /\ Other(src) # src
         /\ Sources = {src, Other(src)}
<1>1. Twse # Mops /\ Sources = {Twse, Mops}
  BY DEF Twse, Mops, Sources
<1>2. \E s \in Sources : s # src
  BY <1>1
<1>3. Other(src) \in Sources /\ Other(src) # src
  BY <1>2 DEF Other
<1> QED BY <1>1, <1>3
-----------------------------------------------------------------------------
(* What a call has learnt so far accounts for where it stands: its topics  *)
(* asked for in vain are recorded as failed, a source that answered as     *)
(* served, and it fails over or gives up with the records that takes.      *)
CallRecord ==
  [pc : {"idle", "resolve", "probe", "decide", "fetch", "swap"} \cup Ended,
   wanted : SUBSET Topics, primary : Sources \cup {Undecided}, src : Sources \cup {Undecided},
   todo : SUBSET Topics, got : BOOLEAN, failed : SUBSET (Topics \X Sources), served : SUBSET Sources,
   cut : BOOLEAN]

Probed(r, src) == src \in r.served \/ <<ProbeTopic, src>> \in r.failed
AllFailed(r, topics, src) == \A t \in topics : <<t, src>> \in r.failed

Accounted(r) ==
  /\ r.todo \subseteq r.wanted
  /\ r.pc = "idle" => r.todo = {}
  /\ r.pc \in {"probe", "decide"} => r.src \in Sources
  /\ r.pc = "probe" /\ r.src = Mops => Probed(r, Twse)
  /\ r.pc = "decide" => Probed(r, Twse) /\ Probed(r, Mops)
  /\ r.pc \in {"fetch", "swap"} => r.primary \in Sources /\ r.src \in Sources
  /\ r.pc = "fetch" =>
       /\ IF r.got THEN r.src \in r.served ELSE AllFailed(r, r.wanted \ r.todo, r.src)
       /\ r.src # r.primary => AllFailed(r, r.wanted, r.primary)
  /\ r.pc = "swap" => /\ r.src # r.primary /\ r.src \in r.served
                      /\ AllFailed(r, r.wanted, r.primary)
  /\ r.pc = "unavailable" => \A src \in Sources : <<ProbeTopic, src>> \in r.failed
  /\ r.pc = "bothFailed" => \A src \in Sources : AllFailed(r, r.wanted, src)

EsgInv ==
  /\ preference \in Sources \cup {Undecided} /\ lock \in Calls \cup {Free}
  /\ kept \subseteq Topics \X Sources
  /\ call \in [Calls -> CallRecord]
  /\ \A c \in Calls : Accounted(call[c])
  /\ \A c \in Calls : Probing(c) => lock = c /\ preference = Undecided
-----------------------------------------------------------------------------
LEMMA NoCallAccounted == NoCall \in CallRecord /\ Accounted(NoCall)
BY DEF NoCall, CallRecord, Accounted, Ended

LEMMA InitEsg == Init => EsgInv
<1> SUFFICES ASSUME Init PROVE EsgInv
  OBVIOUS
<1>1. \A c \in Calls : call[c] = NoCall
  BY DEF Init
<1>2. NoCall.pc = "idle"
  BY DEF NoCall
<1>3. \A c \in Calls : ~Probing(c)
  BY <1>1, <1>2 DEF Probing
<1> QED BY <1>1, <1>3, NoCallAccounted DEF Init, EsgInv

(* A step that changes the record of one call keeps the invariant when the *)
(* new record is accounted for and the mutex still goes with the probes.   *)
LEMMA OneCallMoves ==
  ASSUME EsgInv, NEW c \in Calls, NEW r \in CallRecord, Accounted(r),
         call' = [call EXCEPT ![c] = r],
         preference' \in Sources \cup {Undecided}, lock' \in Calls \cup {Free},
         kept' \subseteq Topics \X Sources,
         r.pc \in {"probe", "decide"} => lock' = c /\ preference' = Undecided,
         \A d \in Calls \ {c} : Probing(d) => lock' = lock /\ preference' = preference
  PROVE  EsgInv'
<1>1. call' \in [Calls -> CallRecord] /\ call'[c] = r /\ \A d \in Calls \ {c} : call'[d] = call[d]
  BY DEF EsgInv
<1>2. \A d \in Calls : Accounted(call'[d])
  BY <1>1 DEF EsgInv
<1>3. \A d \in Calls : Probing(d)' => lock' = d /\ preference' = Undecided
  BY <1>1 DEF Probing, EsgInv
<1> QED BY <1>1, <1>2, <1>3 DEF EsgInv

(* A request for a topic leaves in the cache what it may hold.             *)
LEMMA KeptType ==
  ASSUME EsgInv, NEW c \in Calls, NEW topic \in Topics, NEW outcome,
         call[c].src \in Sources, FetchESGTopic(c, topic, outcome)
  PROVE  kept' \subseteq Topics \X Sources
BY DEF EsgInv, FetchESGTopic

LEMMA GetESGReportEsg ==
  ASSUME EsgInv, NEW c \in Calls, GetESGReport(c)
  PROVE  EsgInv'
<1>1. PICK topics \in (SUBSET Topics) \ {{}} :
        call' = [call EXCEPT ![c].pc = "resolve", ![c].wanted = topics]
  BY DEF GetESGReport
<1> DEFINE r == [call[c] EXCEPT !.pc = "resolve", !.wanted = topics]
<1>2. call' = [call EXCEPT ![c] = r]
  BY <1>1 DEF EsgInv, CallRecord
<1>3. r \in CallRecord /\ r.pc = "resolve"
  BY DEF EsgInv, CallRecord
<1>4. Accounted(r)
  <2>1. call[c].todo = {}
    BY DEF GetESGReport, EsgInv, Accounted
  <2>2. r.todo = call[c].todo
    BY DEF EsgInv, CallRecord
  <2> HIDE DEF r
  <2> QED BY <1>3, <2>1, <2>2 DEF Accounted
<1> QED
  BY <1>2, <1>3, <1>4, OneCallMoves DEF GetESGReport, EsgInv

(* A call that starts to ask has all its topics before it.                 *)
LEMMA AskingAccounted ==
  ASSUME EsgInv, NEW c \in Calls, NEW src \in Sources
  PROVE  Asking(c, src) \in CallRecord /\ Accounted(Asking(c, src)) /\ Asking(c, src).pc = "fetch"
<1>1. call[c].wanted \subseteq Topics
  BY DEF EsgInv, CallRecord
<1> QED BY <1>1 DEF Asking, NoCall, CallRecord, Accounted, AllFailed, Ended

LEMMA ResolveEsg ==
  ASSUME EsgInv, NEW c \in Calls, ResolveESGPrimary(c)
  PROVE  EsgInv'
<1>1. CASE preference # Undecided
  <2>1. preference \in Sources
    BY <1>1 DEF EsgInv
  <2> QED
    BY <1>1, <2>1, AskingAccounted, OneCallMoves DEF ResolveESGPrimary, EsgInv
<1>2. CASE preference = Undecided
  <2> DEFINE r == [call[c] EXCEPT !.pc = "probe", !.src = Twse]
  <2>1. call' = [call EXCEPT ![c] = r] /\ lock' = c
    BY <1>2 DEF ResolveESGPrimary, EsgInv, CallRecord
  <2>2. r \in CallRecord /\ Accounted(r)
    <3>1. call[c] \in CallRecord /\ call[c].todo \subseteq call[c].wanted
      BY DEF EsgInv, Accounted
    <3>2. /\ r \in CallRecord /\ r.pc = "probe" /\ r.src = Twse
          /\ r.todo = call[c].todo /\ r.wanted = call[c].wanted
      BY <3>1 DEF CallRecord, Sources
    <3> HIDE DEF r
    <3> QED BY <3>1, <3>2 DEF Accounted, Sources, Twse, Mops
  <2>3. \A d \in Calls : ~Probing(d)
    BY EsgAssumption DEF ResolveESGPrimary, EsgInv
  <2> QED
    BY <1>2, <2>1, <2>2, <2>3, OneCallMoves DEF ResolveESGPrimary, EsgInv
<1> QED BY <1>1, <1>2

LEMMA ProbeEsg ==
  ASSUME EsgInv, NEW c \in Calls, ProbeESGSource(c)
  PROVE  EsgInv'
<1>1. call[c] \in CallRecord /\ Accounted(call[c]) /\ call[c].pc = "probe" /\ call[c].src \in Sources
  BY DEF ProbeESGSource, EsgInv, Accounted
<1>2. PICK outcome \in {"rows", "empty", "failure"} :
        /\ FetchESGTopic(c, ProbeTopic, outcome)
        /\ \E late \in {call[c].cut, outcome = "failure" \/ call[c].cut} :
             call' = [call EXCEPT ![c] =
               [Learnt(c, ProbeTopic, outcome = "rows") EXCEPT
                 !.cut = late, !.src = Mops, !.pc = IF call[c].src = Twse THEN "probe" ELSE "decide"]]
  BY DEF ProbeESGSource
<1>3. PICK late \in {call[c].cut, outcome = "failure" \/ call[c].cut} :
        call' = [call EXCEPT ![c] =
               [Learnt(c, ProbeTopic, outcome = "rows") EXCEPT
                 !.cut = late, !.src = Mops, !.pc = IF call[c].src = Twse THEN "probe" ELSE "decide"]]
  BY <1>2
<1> DEFINE learnt == Learnt(c, ProbeTopic, outcome = "rows")
           r == [learnt EXCEPT !.cut = late, !.src = Mops,
                               !.pc = IF call[c].src = Twse THEN "probe" ELSE "decide"]
<1>4. /\ learnt \in CallRecord
      /\ learnt.served = call[c].served \/ learnt.served = call[c].served \cup {call[c].src}
      /\ call[c].failed \subseteq learnt.failed
      /\ Probed(learnt, call[c].src) /\ (Probed(call[c], Twse) => Probed(learnt, Twse))
      /\ learnt.todo = call[c].todo /\ learnt.wanted = call[c].wanted
  BY <1>1, EsgAssumption DEF Learnt, CallRecord, Probed
<1>5. late \in BOOLEAN
  BY <1>1 DEF CallRecord
<1> HIDE DEF learnt
<1>6. r \in CallRecord /\ r.pc \in {"probe", "decide"}
  BY <1>4, <1>5 DEF CallRecord, Sources
<1>7. Accounted(r)
  <2>1. r.served = learnt.served /\ r.failed = learnt.failed /\ r.src = Mops
        /\ r.todo = learnt.todo /\ r.wanted = learnt.wanted
    BY <1>4 DEF CallRecord
  <2>2. Probed(r, Twse)
    BY <1>1, <1>4, <2>1 DEF Probed, Accounted, Sources
  <2>3. r.pc = "decide" => Probed(r, Mops)
    BY <1>1, <1>4, <2>1 DEF Probed, Sources, CallRecord
  <2> QED BY <1>1, <1>6, <2>1, <2>2, <2>3, <1>4 DEF Accounted, Sources
<1>8. kept' \subseteq Topics \X Sources
  BY <1>1, <1>2, EsgAssumption, KeptType
<1>9. lock = c /\ preference = Undecided
  BY <1>1 DEF EsgInv, Probing
<1>10. call' = [call EXCEPT ![c] = r]
  BY <1>3 DEF learnt
<1> HIDE DEF r
<1> QED
  BY <1>6, <1>7, <1>8, <1>9, <1>10, OneCallMoves DEF ProbeESGSource, EsgInv

LEMMA DecideEsg ==
  ASSUME EsgInv, NEW c \in Calls, Decide(c)
  PROVE  EsgInv'
<1>1. call[c] \in CallRecord /\ Accounted(call[c]) /\ call[c].pc = "decide"
  BY DEF Decide, EsgInv
<1>2. lock = c /\ preference = Undecided
  BY <1>1 DEF EsgInv, Probing
<1>3. \A d \in Calls \ {c} : ~Probing(d)
  BY <1>2 DEF EsgInv
<1>4. CASE call[c].served = {}
  <2> DEFINE r == [call[c] EXCEPT !.pc = "unavailable"]
  <2>1. call' = [call EXCEPT ![c] = r] /\ preference' = preference
    BY <1>4 DEF Decide
  <2>2. r \in CallRecord /\ Accounted(r) /\ r.pc = "unavailable"
    BY <1>1, <1>4 DEF CallRecord, Accounted, Probed, Sources, Ended
  <2> HIDE DEF r
  <2> QED BY <1>3, <2>1, <2>2, OneCallMoves DEF Decide, EsgInv
<1>5. CASE call[c].served # {}
  <2>1. PICK src \in call[c].served :
          preference' = src /\ call' = [call EXCEPT ![c] = Asking(c, src)]
    BY <1>5 DEF Decide
  <2>2. src \in Sources
    BY <1>1 DEF CallRecord
  <2> QED BY <1>3, <2>1, <2>2, AskingAccounted, OneCallMoves DEF Decide, EsgInv
<1> QED BY <1>4, <1>5

LEMMA FetchAllEsg ==
  ASSUME EsgInv, NEW c \in Calls, FetchAll(c)
  PROVE  EsgInv'
<1>1. /\ call[c] \in CallRecord /\ Accounted(call[c]) /\ call[c].pc = "fetch"
      /\ call[c].src \in Sources /\ call[c].todo \subseteq Topics
  BY DEF FetchAll, EsgInv, Accounted, CallRecord
<1>2. PICK topic \in call[c].todo, outcome \in {"rows", "empty", "failure"} :
        /\ FetchESGTopic(c, topic, outcome)
        /\ call' = [call EXCEPT ![c] =
             [Learnt(c, topic, outcome # "failure") EXCEPT !.todo = @ \ {topic}, !.got = @ \/ outcome # "failure"]]
  BY DEF FetchAll
<1> DEFINE answered == outcome # "failure"
           learnt == Learnt(c, topic, answered)
           r == [learnt EXCEPT !.todo = @ \ {topic}, !.got = @ \/ answered]
<1>3. /\ learnt \in CallRecord /\ learnt.pc = "fetch"
      /\ learnt.src = call[c].src /\ learnt.primary = call[c].primary
      /\ learnt.todo = call[c].todo /\ learnt.wanted = call[c].wanted /\ learnt.got = call[c].got
      /\ call[c].served \subseteq learnt.served /\ call[c].failed \subseteq learnt.failed
      /\ IF answered THEN call[c].src \in learnt.served ELSE <<topic, call[c].src>> \in learnt.failed
  BY <1>1 DEF Learnt, CallRecord
<1>4. answered \in BOOLEAN /\ learnt.got \in BOOLEAN
  BY <1>3 DEF CallRecord
<1> HIDE DEF learnt, answered
<1>5. /\ r \in CallRecord /\ r.pc = "fetch" /\ r.src = call[c].src /\ r.primary = call[c].primary
      /\ r.todo = call[c].todo \ {topic} /\ r.wanted = call[c].wanted
      /\ r.got = (call[c].got \/ answered)
      /\ r.served = learnt.served /\ r.failed = learnt.failed
  BY <1>3, <1>4 DEF CallRecord
<1>6. Accounted(r)
  BY <1>1, <1>3, <1>5 DEF Accounted, AllFailed
<1>7. kept' \subseteq Topics \X Sources
  BY <1>1, <1>2, KeptType
<1>8. call' = [call EXCEPT ![c] = r]
  BY <1>2 DEF learnt, answered
<1> HIDE DEF r
<1> QED
  BY <1>5, <1>6, <1>7, <1>8, OneCallMoves DEF FetchAll, EsgInv

LEMMA FetchedEsg ==
  ASSUME EsgInv, NEW c \in Calls, Fetched(c)
  PROVE  EsgInv'
<1>1. /\ call[c] \in CallRecord /\ Accounted(call[c]) /\ call[c].pc = "fetch" /\ call[c].todo = {}
      /\ call[c].src \in Sources /\ call[c].primary \in Sources
  BY DEF Fetched, EsgInv, Accounted
<1>2. IF call[c].got THEN call[c].src \in call[c].served
                     ELSE AllFailed(call[c], call[c].wanted, call[c].src)
  BY <1>1 DEF Accounted, AllFailed
<1>3. call[c].src # call[c].primary => AllFailed(call[c], call[c].wanted, call[c].primary)
  BY <1>1 DEF Accounted
<1>4. CASE call[c].src = call[c].primary /\ ~call[c].got
  <2> DEFINE r == [call[c] EXCEPT !.src = Other(@), !.todo = call[c].wanted]
  <2>1. call' = [call EXCEPT ![c] = r]
    BY <1>4 DEF Fetched
  <2>2. Other(call[c].src) \in Sources /\ Other(call[c].src) # call[c].src
    BY <1>1, OtherSource
  <2>3. /\ r \in CallRecord /\ r.pc = "fetch" /\ r.src = Other(call[c].src) /\ r.primary = call[c].src
        /\ r.todo = r.wanted /\ r.wanted = call[c].wanted /\ r.got = FALSE /\ r.failed = call[c].failed
    BY <1>1, <1>4, <2>2 DEF CallRecord
  <2> HIDE DEF r
  <2>4. Accounted(r)
    BY <1>1, <1>2, <1>4, <2>2, <2>3 DEF Accounted, AllFailed
  <2> QED
    BY <2>1, <2>3, <2>4, OneCallMoves DEF Fetched, EsgInv
<1>5. CASE ~(call[c].src = call[c].primary /\ ~call[c].got)
  <2> DEFINE r == [call[c] EXCEPT !.pc = IF ~call[c].got THEN "bothFailed"
                                         ELSE IF call[c].src = call[c].primary THEN "report" ELSE "swap"]
  <2>1. call' = [call EXCEPT ![c] = r]
    BY <1>5 DEF Fetched
  <2>2. /\ r \in CallRecord /\ r.pc \in {"bothFailed", "report", "swap"}
        /\ r.src = call[c].src /\ r.primary = call[c].primary /\ r.todo = {} /\ r.wanted = call[c].wanted
        /\ r.failed = call[c].failed /\ r.served = call[c].served
        /\ r.pc = "bothFailed" => ~call[c].got /\ call[c].src # call[c].primary
        /\ r.pc = "swap" => call[c].got /\ call[c].src # call[c].primary
    BY <1>1, <1>5 DEF CallRecord, Ended
  <2> HIDE DEF r
  <2>3. r.pc = "bothFailed" => \A src \in Sources : AllFailed(r, r.wanted, src)
    <3> SUFFICES ASSUME r.pc = "bothFailed", NEW src \in Sources PROVE AllFailed(r, r.wanted, src)
      OBVIOUS
    <3>1. src = call[c].src \/ src = call[c].primary
      BY <1>1, <2>2 DEF Sources
    <3> QED BY <1>2, <1>3, <2>2, <3>1 DEF AllFailed
  <2>4. Accounted(r)
    BY <1>1, <1>2, <1>3, <2>2, <2>3 DEF Accounted, AllFailed
  <2> QED
    BY <2>1, <2>2, <2>4, OneCallMoves DEF Fetched, EsgInv
<1> QED BY <1>4, <1>5

LEMMA SwapEsg ==
  ASSUME EsgInv, NEW c \in Calls, SwapESGPrimary(c)
  PROVE  EsgInv'
<1>1. call[c] \in CallRecord /\ Accounted(call[c]) /\ call[c].pc = "swap" /\ call[c].primary \in Sources
  BY DEF SwapESGPrimary, EsgInv, Accounted
<1>2. \A d \in Calls : ~Probing(d)
  BY EsgAssumption DEF SwapESGPrimary, EsgInv
<1>3. preference' \in Sources \cup {Undecided}
  BY <1>1, OtherSource DEF SwapESGPrimary, EsgInv
<1> DEFINE r == [call[c] EXCEPT !.pc = "report"]
<1>4. call' = [call EXCEPT ![c] = r]
  BY DEF SwapESGPrimary
<1>5. r \in CallRecord /\ r.pc = "report" /\ r.todo = call[c].todo /\ r.wanted = call[c].wanted
  BY <1>1 DEF CallRecord, Ended
<1> HIDE DEF r
<1>6. Accounted(r)
  BY <1>1, <1>5 DEF Accounted
<1> QED
  BY <1>2, <1>3, <1>4, <1>5, <1>6, OneCallMoves DEF SwapESGPrimary, EsgInv

LEMMA ReplyEsg ==
  ASSUME EsgInv, NEW c \in Calls, Reply(c)
  PROVE  EsgInv'
<1>1. NoCall.pc = "idle"
  BY DEF NoCall
<1> QED
  BY <1>1, NoCallAccounted, OneCallMoves DEF Reply, EsgInv

LEMMA NextEsg == EsgInv /\ [Next]_vars => EsgInv'
<1> SUFFICES ASSUME EsgInv, [Next]_vars PROVE EsgInv'
  OBVIOUS
<1>1. ASSUME NEW c \in Calls, GetESGReport(c) \/ Acquire(c) \/ Go(c)
      PROVE  EsgInv'
  BY <1>1, GetESGReportEsg, ResolveEsg, SwapEsg, ProbeEsg, DecideEsg, FetchAllEsg, FetchedEsg, ReplyEsg
     DEF Acquire, Go
<1>2. CASE Expire
  BY <1>2 DEF Expire, EsgInv, Probing
<1>3. CASE Restart
  <2>1. NoCall.pc = "idle"
    BY DEF NoCall
  <2>2. \A c \in Calls : call'[c] = NoCall
    BY <1>3 DEF Restart
  <2>3. \A c \in Calls : ~Probing(c)'
    BY <2>1, <2>2 DEF Probing
  <2> QED BY <1>3, <2>2, <2>3, NoCallAccounted DEF Restart, EsgInv
<1>4. CASE UNCHANGED vars
  BY <1>4 DEF EsgInv, Probing
<1> QED
  BY <1>1, <1>2, <1>3, <1>4 DEF Next

LEMMA EsgInvariant == Spec => []EsgInv
BY InitEsg, NextEsg, PTL DEF Spec
-----------------------------------------------------------------------------
(* The types, and: only the call that holds the mutex probes, and only     *)
(* while nothing is preferred (resolveESGPrimary).                         *)
THEOREM TypeCorrect == Spec => []TypeOK
<1>1. EsgInv => TypeOK
  BY DEF EsgInv, TypeOK, CallRecord, Accounted
<1> QED
  BY <1>1, EsgInvariant, PTL

(* A call is refused only after both sources failed it: the probe, or      *)
(* every topic it wanted (probeESGSource, fetchESGTopics).                 *)
THEOREM Refused == Spec => []RefusedOnlyByBoth
<1>1. EsgInv => RefusedOnlyByBoth
  <2> SUFFICES ASSUME EsgInv, NEW c \in Calls
               PROVE  /\ call[c].pc = "unavailable" => {ProbeTopic} \X Sources \subseteq call[c].failed
                      /\ call[c].pc = "bothFailed" => \A src \in Sources : Failed(c, src)
    BY DEF RefusedOnlyByBoth
  <2>1. Accounted(call[c])
    BY DEF EsgInv
  <2>2. call[c].pc = "unavailable" => {ProbeTopic} \X Sources \subseteq call[c].failed
    BY <2>1 DEF Accounted
  <2>3. call[c].pc = "bothFailed" => \A src \in Sources : Failed(c, src)
    BY <2>1 DEF Accounted, AllFailed, Failed
  <2> QED BY <2>2, <2>3
<1> QED
  BY <1>1, EsgInvariant, PTL

(* The preference goes to a source that has just answered a call, and from *)
(* one that has just failed all of that call's topics; two calls that fail *)
(* over at once do not turn each other's choice round (swapESGPrimary).    *)
THEOREM Swaps == Spec => SwapsAreEarned
<1> DEFINE Earned ==
      preference' \notin {preference, Undecided} =>
        \E c \in Calls : /\ preference' \in call[c].served
                         /\ preference # Undecided => Failed(c, preference)
<1>1. EsgInv /\ [Next]_vars => [Earned]_vars
  <2> SUFFICES ASSUME EsgInv, Next, preference' \notin {preference, Undecided}
               PROVE  \E c \in Calls : /\ preference' \in call[c].served
                                       /\ preference # Undecided => Failed(c, preference)
    OBVIOUS
  <2>1. PICK c \in Calls : Decide(c) \/ SwapESGPrimary(c)
    BY DEF Next, Acquire, Go, GetESGReport, ResolveESGPrimary, ProbeESGSource, FetchAll, Fetched,
           Reply, Expire, Restart
  <2>2. Accounted(call[c])
    BY DEF EsgInv
  <2>3. CASE Decide(c)
    <3>1. preference = Undecided
      BY <2>3 DEF Decide, EsgInv, Probing
    <3> QED BY <2>3, <3>1 DEF Decide
  <2>4. CASE SwapESGPrimary(c)
    <3>1. preference = call[c].primary /\ preference' = Other(preference)
      BY <2>4 DEF SwapESGPrimary
    <3>2. /\ call[c].primary \in Sources /\ call[c].src \in Sources /\ call[c].src # call[c].primary
          /\ call[c].src \in call[c].served /\ AllFailed(call[c], call[c].wanted, call[c].primary)
      BY <2>2, <2>4 DEF SwapESGPrimary, Accounted
    <3>3. preference' = call[c].src
      BY <3>1, <3>2, OtherSource
    <3> QED BY <3>1, <3>2, <3>3 DEF AllFailed, Failed
  <2> QED BY <2>1, <2>3, <2>4
<1> QED
  BY <1>1, EsgInvariant, PTL DEF Spec, SwapsAreEarned
=============================================================================
