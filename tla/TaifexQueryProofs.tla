-------------------------- MODULE TaifexQueryProofs --------------------------
(***************************************************************************)
(* Theorems about TaifexQuery, for any callers, datasets, trading days,    *)
(* window, lifetime and length of range.                                   *)
(***************************************************************************)
EXTENDS TaifexQuery, WellFoundedInduction, TLAPS

USE DEF sourceVars, sharedVars, callVars, vars, Days, NoDay

-----------------------------------------------------------------------------
(* Choices among days.                                                      *)
Less == {p \in Nat \X Nat : p[1] < p[2]}

LEMMA LessIsWellFounded == IsWellFoundedOn(Less, Nat)
<1>1. Less = OpToRel(<, Nat)
  BY Zenon DEF OpToRel, Less
<1> QED BY <1>1, NatLessThanWellFounded, Zenon

LEMMA LeastExists ==
  ASSUME NEW S, S \subseteq Nat, S # {}
  PROVE  \E d \in S : \A e \in S : d <= e
<1>1. PICK d \in S : \A e \in S : ~(<<e, d>> \in Less)
  BY LessIsWellFounded, WFMin, Zenon
<1>2. ASSUME NEW e \in S, e < d PROVE FALSE
  <2> DEFINE p == <<e, d>>
  <2>1. p \in Nat \X Nat /\ p[1] < p[2]
    BY <1>2
  <2> HIDE DEF p
  <2>2. p \in Less
    BY <2>1, Zenon DEF Less
  <2> QED BY <1>1, <2>2 DEF p
<1> QED BY <1>2

LEMMA EarliestIsLeast ==
  ASSUME NEW S, S \subseteq Days, S # {}
  PROVE  Earliest(S) \in S /\ \A e \in S : Earliest(S) <= e
<1>1. S \subseteq Nat
  BY TaifexAssumption
<1> QED BY <1>1, LeastExists DEF Earliest

LEMMA NewestIsIn ==
  ASSUME NEW S, S \subseteq Days, S # {}
  PROVE  Newest(S) \in S
<1> DEFINE T == {LastDay - d : d \in S}
<1>1. \A d \in S : LastDay - d \in Nat
  BY TaifexAssumption
<1>a. T \subseteq Nat /\ T # {}
  BY <1>1
<1>2. PICK t \in T : \A u \in T : t <= u
  BY <1>a, LeastExists
<1>3. PICK d \in S : t = LastDay - d
  BY <1>2
<1>4. \A e \in S : LastDay - d <= LastDay - e
  BY <1>2, <1>3
<1>5. \A e \in S : e <= d
  BY <1>4, TaifexAssumption
<1> QED BY <1>5 DEF Newest

(* What a download is made into, for a day asked alone and within a range.  *)
LEMMA FetchResultOfItsDay ==
  ASSUME NEW d \in Days, NEW G \in SUBSET TradingDays
  PROVE  FetchResult(d, G) \in Result /\ OfItsDay(FetchResult(d, G), d)
<1> DEFINE near == G \cap (d - GapWindow)..(d - 1)
<1>1. CASE near = {}
  BY <1>1, TaifexAssumption DEF FetchResult, OfItsDay, Result, Rows, Gap
<1>2. CASE near # {}
  <2>1. Earliest(near) \in near
    BY <1>2, EarliestIsLeast, TaifexAssumption
  <2> HIDE DEF near
  <2>2. Earliest(near) \in Days /\ Earliest(near) \in (d - GapWindow)..(d - 1)
    BY <2>1, TaifexAssumption DEF near
  <2>3. FetchResult(d, G) \in {Rows(d), Substitute(Earliest(near))}
    BY <1>2 DEF FetchResult, near
  <2> QED BY <2>2, <2>3, TaifexAssumption DEF OfItsDay, Result, Rows, Substitute
<1> QED BY <1>1, <1>2

LEMMA RangeResultOfItsDay ==
  ASSUME NEW c \in Callers, groups[c] \in SUBSET TradingDays, NEW d \in Days
  PROVE  RangeResult(c, d) \in Result /\ OfItsDay(RangeResult(c, d), d)
<1> DEFINE near == groups[c] \cap (d - GapWindow)..(d - 1)
<1>1. CASE near = {}
  BY <1>1, TaifexAssumption DEF RangeResult, OfItsDay, Result, Rows, Gap
<1>2. CASE near # {}
  <2>1. Newest(near) \in near
    BY <1>2, NewestIsIn, TaifexAssumption
  <2> HIDE DEF near
  <2>2. Newest(near) \in Days /\ Newest(near) \in (d - GapWindow)..(d - 1)
    BY <2>1, TaifexAssumption DEF near
  <2>3. RangeResult(c, d) \in {Rows(d), Substitute(Newest(near))}
    BY <1>2 DEF RangeResult, near
  <2> QED BY <2>2, <2>3, TaifexAssumption DEF OfItsDay, Result, Rows, Substitute
<1> QED BY <1>1, <1>2

LEMMA GotIsAnswer ==
  ASSUME NEW r \in Result, NEW src \in {"own", "shared", "store"}
  PROVE  Got(r, src) \in Answer /\ Got(r, src) # NoAnswer
BY DEF Got, Answer, NoAnswer
-----------------------------------------------------------------------------
(* Types.  They need to know where a call stands: from "look" on its day is *)
(* resolved, a scan has days left, and a download has days to put.          *)
Resolved(c) == pc[c] \in {"look", "wait", "latest", "discoverLatest", "api", "dl"} =>
                 query[c].first \in Days
AskedOn(c)  == pc[c] \in {"date", "discoverDate", "latest", "discoverLatest"} =>
                 asOf[c] \in Days
Ranged(c)   == pc[c] \in {"scan", "rangeDl", "put", "putWait"} => query[c].first \in Days
Scanning(c) == pc[c] = "scan" =>
                 todo[c] # {} /\ todo[c] \subseteq query[c].first..query[c].last
Filling(c)  == pc[c] \in {"rangeDl", "put", "putWait"} => Missing(c) # {}
Stands(c)   == Resolved(c) /\ AskedOn(c) /\ Ranged(c) /\ Scanning(c) /\ Filling(c)
TypeInv == TypeOK /\ \A c \in Callers : Stands(c)

(* TypeOK in three parts: most steps leave at least one of them alone.      *)
SourceTypes ==
  /\ today \in Days /\ ratioDay \in 0..LastDay /\ apiDay \in 0..LastDay
  /\ dlDays \subseteq TradingDays /\ dawn \in 0..LastDay
SharedTypes ==
  /\ memo \in [at : 0..LastDay, day : 0..LastDay]
  /\ memo.at = NoDay <=> memo.day = NoDay
  /\ lock \in Callers \cup {NoCaller}
  /\ flight \in [Keys -> Callers \cup {NoCaller}]
  /\ store \in [Keys -> Kept]
CallTypes ==
  /\ pc \in [Callers -> Pcs]
  /\ query \in [Callers -> Query]
  /\ asOf \in [Callers -> 0..LastDay]
  /\ todo \in [Callers -> SUBSET Days]
  /\ groups \in [Callers -> SUBSET TradingDays]
  /\ answer \in [Callers -> [Days -> Answer]]
  /\ failed \in [Callers -> {"no", "upstream", "gap"}]

LEMMA TypeParts == TypeOK <=> SourceTypes /\ SharedTypes /\ CallTypes
BY Zenon DEF TypeOK, SourceTypes, SharedTypes, CallTypes

LEMMA TypePartsNext == SourceTypes' /\ SharedTypes' /\ CallTypes' => TypeOK'
BY Zenon DEF TypeOK, SourceTypes, SharedTypes, CallTypes

LEMMA SameSources == SourceTypes /\ UNCHANGED sourceVars => SourceTypes'
BY DEF SourceTypes
LEMMA SameShared == SharedTypes /\ UNCHANGED sharedVars => SharedTypes'
BY DEF SharedTypes
LEMMA SameCalls == CallTypes /\ UNCHANGED callVars => CallTypes'
BY DEF CallTypes

(* A step leaves the standing of a caller it does not touch as it was.      *)
Untouched(c) ==
  pc'[c] = pc[c] /\ query'[c] = query[c] /\ asOf'[c] = asOf[c] /\ todo'[c] = todo[c]
  /\ answer'[c] = answer[c]

LEMMA UntouchedStands ==
  ASSUME NEW c \in Callers, Stands(c), Untouched(c)
  PROVE  Stands(c)'
BY DEF Stands, Untouched, Resolved, AskedOn, Ranged, Scanning, Filling, Missing

LEMMA RangeIsOfDays ==
  ASSUME TypeOK, NEW c \in Callers, Ranged(c), pc[c] \in {"scan", "rangeDl", "put", "putWait"}
  PROVE  query[c].first..query[c].last \subseteq Days
BY TaifexAssumption DEF TypeOK, Query, Ranged

LEMMA PutDayIsMissing ==
  ASSUME TypeOK, NEW c \in Callers, Stands(c), pc[c] \in {"put", "putWait"}
  PROVE  PutDay(c) \in Missing(c) /\ PutDay(c) \in Days
<1>1. query[c].first..query[c].last \subseteq Days
  BY RangeIsOfDays DEF Stands
<1>2. Missing(c) \subseteq Days /\ Missing(c) # {}
  BY <1>1 DEF Stands, Filling, Missing
<1> QED BY <1>2, EarliestIsLeast DEF PutDay

LEMMA Put1Type ==
  ASSUME TypeOK, NEW c \in Callers, Stands(c), pc[c] \in {"put", "putWait"}
  PROVE  Put1(c) \in [Days -> Answer]
<1>1. PutDay(c) \in Days
  BY PutDayIsMissing
<1>2. RangeResult(c, PutDay(c)) \in Result
  BY <1>1, RangeResultOfItsDay DEF TypeOK
<1>3. Got(RangeResult(c, PutDay(c)), "own") \in Answer
  BY <1>2, GotIsAnswer
<1> QED BY <1>1, <1>3 DEF Put1, TypeOK

LEMMA OneStands ==
  ASSUME NEW c \in Callers, \A d \in Callers : Stands(d), Stands(c)',
         \A d \in Callers \ {c} : Untouched(d)
  PROVE  \A d \in Callers : Stands(d)'
BY UntouchedStands

LEMMA ExchangeTypeInv == TypeInv /\ (Exchange \/ Restart) => TypeInv'
<1> SUFFICES ASSUME TypeInv, Exchange \/ Restart PROVE TypeInv'
  OBVIOUS
<1> USE TaifexAssumption DEF TypeInv
<1>1. CASE Exchange
  <2>1. \A c \in Callers : Untouched(c)
    BY <1>1 DEF Exchange, Midnight, PublishRatio, PublishApi, PublishDl, Untouched
  <2>2. CASE Midnight
    <3>1. store' \in [Keys -> Kept]
      BY <2>2 DEF Midnight, TypeOK, NotKept, Kept, Gap, Result
    <3> QED BY <2>1, <2>2, <3>1, UntouchedStands DEF Midnight, TypeOK
  <2>3. CASE \E d \in Days : PublishRatio(d) \/ PublishApi(d) \/ PublishDl(d)
    <3>1. PICK d \in Days : PublishRatio(d) \/ PublishApi(d) \/ PublishDl(d)
      BY <2>3
    <3>2. SourceTypes'
      BY <3>1, TypeParts DEF PublishRatio, PublishApi, PublishDl, SourceTypes
    <3>3. UNCHANGED <<sharedVars, callVars>>
      BY <3>1 DEF PublishRatio, PublishApi, PublishDl
    <3>4. TypeOK'
      BY <3>2, <3>3, TypeParts, TypePartsNext, SameShared, SameCalls
    <3> QED BY <2>1, <3>4, UntouchedStands
  <2> QED BY <1>1, <2>2, <2>3 DEF Exchange
<1>2. CASE Restart
  <2>1. NoQuery \in Query
    BY DEF NoQuery, Query
  <2> QED
    BY <1>2, <2>1 DEF Restart, TypeOK, Stands, Resolved, AskedOn, Ranged, Scanning, Filling,
       NoAnswers, NoAnswer, Answer, Gap, Result, Pcs
<1> QED BY <1>1, <1>2

LEMMA AskTypeInv ==
  ASSUME TypeInv, NEW c \in Callers, Ask(c)
  PROVE  TypeInv'
<1> USE TaifexAssumption DEF TypeInv
<1>1. PICK ds \in Datasets :
         \/ \E d \in QueryDays : AskDay(c, ds, d)
         \/ AskLatest(c, ds)
         \/ \E f, l \in QueryDays : AskRange(c, ds, f, l)
  BY DEF Ask
<1>2. \A d \in Callers \ {c} : Untouched(d)
  BY <1>1 DEF AskDay, AskLatest, AskRange, Start, Goto, Untouched, TypeOK
<1>3. CASE \E d \in QueryDays : AskDay(c, ds, d)
  <2>1. PICK d \in QueryDays : AskDay(c, ds, d)
    BY <1>3
  <2>2. TypeOK'
    BY <2>1 DEF AskDay, Start, Goto, TypeOK, Query, Pcs
  <2>3. Stands(c)'
    BY <2>1 DEF AskDay, Start, Goto, TypeOK, Stands, Resolved, AskedOn, Ranged, Scanning, Filling
  <2> QED BY <1>2, <2>2, <2>3, OneStands
<1>4. CASE AskLatest(c, ds)
  <2>2. TypeOK'
    BY <1>4 DEF AskLatest, Start, Goto, TypeOK, Query, Pcs
  <2>3. Stands(c)'
    BY <1>4 DEF AskLatest, Start, Goto, TypeOK, Stands, Resolved, AskedOn, Ranged, Scanning, Filling
  <2> QED BY <1>2, <2>2, <2>3, OneStands
<1>5. CASE \E f, l \in QueryDays : AskRange(c, ds, f, l)
  <2>1. PICK f \in QueryDays, l \in QueryDays : AskRange(c, ds, f, l)
    BY <1>5
  <2>d. f \in Days /\ l \in Days /\ f <= l
    BY <2>1 DEF AskRange
  <2>2. TypeOK'
    BY <2>1, <2>d DEF AskRange, Start, Goto, TypeOK, Query, Pcs
  <2>3. Stands(c)'
    <3>1. pc'[c] = "scan" /\ query'[c].first = f /\ query'[c].last = l /\ todo'[c] = f..l
      BY <2>1 DEF AskRange, Start, Goto, TypeOK
    <3>2. f \in f..l
      BY <2>d
    <3> QED
      BY <2>d, <3>1, <3>2 DEF Stands, Resolved, AskedOn, Ranged, Scanning, Filling
  <2> QED BY <1>2, <2>2, <2>3, OneStands
<1> QED BY <1>1, <1>3, <1>4, <1>5

LEMMA LatestTypeInv ==
  ASSUME TypeInv, NEW c \in Callers, Consult(c) \/ DiscoverOk(c) \/ DiscoverFail(c)
  PROVE  TypeInv'
<1> USE TaifexAssumption DEF TypeInv
<1>1. \A d \in Callers \ {c} : Untouched(d)
  BY DEF Consult, DiscoverOk, DiscoverFail, Learn, Forget, Goto, Untouched, TypeOK
<1>2. ASSUME NEW d \in Days, Learn(c, d), Forget(c), UNCHANGED todo,
             pc[c] \in {"date", "discoverDate", "latest", "discoverLatest"}
      PROVE  /\ pc' \in [Callers -> Pcs] /\ query' \in [Callers -> Query]
             /\ asOf' \in [Callers -> 0..LastDay]
             /\ Stands(c)'
  <2>1. asOf'[c] = NoDay /\ todo'[c] = todo[c] /\ asOf' \in [Callers -> 0..LastDay]
    BY <1>2 DEF Forget, TypeOK
  <2>2. CASE pc[c] \in {"date", "discoverDate"}
    <3>1. pc' = [pc EXCEPT ![c] = "look"]
      BY <1>2, <2>2 DEF Learn, Goto
    <3>2. query' = [query EXCEPT ![c] = [query[c] EXCEPT !.first = d, !.last = d]]
      BY <1>2, <2>2 DEF Learn, TypeOK
    <3>3. query[c] \in Query
      BY DEF TypeOK
    <3>r. ASSUME NEW q \in Query PROVE [q EXCEPT !.first = d, !.last = d] \in Query
      <4>1. d \in 0..LastDay
        OBVIOUS
      <4>2. [q EXCEPT !.first = d] \in Query
        BY <4>1 DEF Query
      <4>3. ASSUME NEW p \in Query PROVE [p EXCEPT !.last = d] \in Query
        BY <4>1 DEF Query
      <4> QED BY <4>2, <4>3
    <3>4. [query[c] EXCEPT !.first = d, !.last = d] \in Query
      BY <3>3, <3>r
    <3>5. query'[c].first = d
      BY <3>2, <3>3 DEF TypeOK, Query
    <3>6. pc' \in [Callers -> Pcs] /\ pc'[c] = "look" /\ query' \in [Callers -> Query]
      BY <3>1, <3>2, <3>4 DEF TypeOK, Pcs
    <3> QED
      BY <2>1, <3>5, <3>6 DEF Stands, Resolved, AskedOn, Ranged, Scanning, Filling
  <2>3. CASE pc[c] \in {"latest", "discoverLatest"}
    <3>1. pc'[c] \in {"api", "dl"} /\ pc' \in [Callers -> Pcs] /\ query' = query
      BY <1>2, <2>3 DEF Learn, Goto, TypeOK, Pcs
    <3>2. query[c].first \in Days
      BY <2>3 DEF Stands, Resolved
    <3> QED
      BY <2>1, <3>1, <3>2 DEF TypeOK, Stands, Resolved, AskedOn, Ranged, Scanning, Filling
  <2> QED BY <1>2, <2>2, <2>3
<1>3. CASE Consult(c) /\ Remembered(c)
  <2>1. memo.day \in Days
    BY <1>3 DEF Consult, Remembered, Stands, AskedOn, TypeOK
  <2>2. Learn(c, memo.day) /\ Forget(c) /\ UNCHANGED <<lock, todo>>
    BY <1>3 DEF Consult
  <2>3. pc[c] \in {"date", "discoverDate", "latest", "discoverLatest"}
    BY <1>3 DEF Consult
  <2>4. /\ pc' \in [Callers -> Pcs] /\ query' \in [Callers -> Query]
        /\ asOf' \in [Callers -> 0..LastDay] /\ Stands(c)'
    BY <1>2, <2>1, <2>2, <2>3
  <2>5. TypeOK'
    BY <1>3, <2>2, <2>4 DEF Consult, TypeOK
  <2> QED BY <1>1, <2>4, <2>5, OneStands
<1>4. CASE Consult(c) /\ ~Remembered(c)
  <2>1. TypeOK'
    BY <1>4 DEF Consult, TypeOK, Goto, Pcs
  <2>2. Stands(c)'
    BY <1>4 DEF Consult, TypeOK, Goto, Stands, Resolved, AskedOn, Ranged, Scanning, Filling
  <2> QED BY <1>1, <2>1, <2>2, OneStands
<1>5. CASE DiscoverOk(c)
  <2>1. ratioDay \in Days /\ asOf[c] \in Days
    BY <1>5 DEF DiscoverOk, TypeOK, Stands, AskedOn
  <2>2. /\ pc' \in [Callers -> Pcs] /\ query' \in [Callers -> Query]
        /\ asOf' \in [Callers -> 0..LastDay] /\ Stands(c)'
    BY <1>2, <1>5, <2>1 DEF DiscoverOk
  <2>3. TypeOK'
    BY <1>5, <2>1, <2>2 DEF DiscoverOk, Unlock, TypeOK
  <2> QED BY <1>1, <2>2, <2>3, OneStands
<1>6. CASE DiscoverFail(c)
  <2>1. TypeOK'
    <3>1. pc' \in [Callers -> Pcs] /\ failed' \in [Callers -> {"no", "upstream", "gap"}]
      BY <1>6 DEF DiscoverFail, TypeOK, Goto, Pcs
    <3>2. CallTypes'
      BY <1>6, <3>1, TypeParts DEF DiscoverFail, Forget, CallTypes
    <3>3. SharedTypes'
      BY <1>6, TypeParts DEF DiscoverFail, Unlock, LearnNothing, SharedTypes
    <3>4. UNCHANGED sourceVars
      BY <1>6 DEF DiscoverFail
    <3> QED
      BY <3>2, <3>3, <3>4, TypeParts, TypePartsNext, SameSources
  <2>2. Stands(c)'
    BY <1>6 DEF DiscoverFail, Unlock, LearnNothing, Forget, TypeOK, Goto,
       Stands, Resolved, AskedOn, Ranged, Scanning, Filling
  <2> QED BY <1>1, <2>1, <2>2, OneStands
<1> QED BY <1>3, <1>4, <1>5, <1>6

LEMMA LookTypeInv ==
  ASSUME TypeInv, NEW c \in Callers, Look(c)
  PROVE  TypeInv'
<1> USE TaifexAssumption DEF TypeInv
<1>1. \A d \in Callers \ {c} : Untouched(d)
  BY DEF Look, Goto, Untouched, TypeOK
<1>2. query[c].first \in Days /\ query[c].ds \in Datasets
  BY DEF Look, Stands, Resolved, TypeOK, Query
<1>3. KeyOf(c) \in Keys
  BY <1>2 DEF KeyOf, Keys
<1>4. store[KeyOf(c)].res \in Result
  BY <1>3 DEF TypeOK, Kept
<1>5. Got(store[KeyOf(c)].res, "store") \in Answer
  BY <1>4, GotIsAnswer
<1>6. UNCHANGED sourceVars
  BY DEF Look
<1>7. SharedTypes'
  BY TypeParts, <1>3 DEF Look, SharedTypes
<1>8. CallTypes'
  <2>1. pc' \in [Callers -> Pcs]
    <3>1. PICK l \in {"done", "wait", "latest"} : pc' = [pc EXCEPT ![c] = l]
      BY DEF Look, Goto
    <3> QED BY <3>1 DEF TypeOK, Pcs
  <2>2. asOf' \in [Callers -> 0..LastDay]
    <3>1. asOf' = asOf \/ asOf' = [asOf EXCEPT ![c] = today]
      BY DEF Look
    <3>2. today \in 0..LastDay /\ asOf \in [Callers -> 0..LastDay]
      BY DEF TypeOK
    <3> QED BY <3>1, <3>2
  <2>4. answer' \in [Callers -> [Days -> Answer]]
    <3>1. CASE answer' = [answer EXCEPT ![c][query[c].first] =
                             Got(store[KeyOf(c)].res, "store")]
      BY <1>2, <1>5, <3>1 DEF TypeOK
    <3>2. CASE answer' = answer
      BY <3>2 DEF TypeOK
    <3> QED BY <3>1, <3>2 DEF Look
  <2>3. UNCHANGED <<query, todo, groups, failed>>
    BY DEF Look
  <2> QED BY <2>1, <2>2, <2>3, <2>4, TypeParts DEF CallTypes
<1>9. TypeOK'
  BY <1>6, <1>7, <1>8, TypeParts, TypePartsNext, SameSources
<1>10. pc'[c] \in {"done", "wait", "latest"} /\ query' = query
       /\ (pc'[c] = "latest" => asOf'[c] = today)
  BY DEF Look, Goto, TypeOK
<1>11. Stands(c)'
  BY <1>2, <1>10 DEF TypeOK, Stands, Resolved, AskedOn, Ranged, Scanning, Filling
<1> QED BY <1>1, <1>9, <1>11, OneStands

(* The end of a load.                                                       *)
LEMMA SettleTypeInv ==
  ASSUME TypeInv, NEW c \in Callers, NEW r \in Result, Settle(c, r),
         pc[c] \in {"api", "dl"},
         UNCHANGED <<sourceVars, memo, lock, query, asOf, todo, groups>>
  PROVE  TypeInv'
<1> USE TaifexAssumption DEF TypeInv
<1> DEFINE k == KeyOf(c)
<1>1. query[c].first \in Days /\ query[c].ds \in Datasets
  BY DEF Stands, Resolved, TypeOK, Query
<1>2. k \in Keys /\ k[2] \in Days
  BY <1>1 DEF KeyOf, Keys
<1>3. /\ Keep(k, r)
      /\ flight' = [flight EXCEPT ![k] = NoCaller]
      /\ answer' = [d \in Callers |->
           IF d = c THEN [answer[d] EXCEPT ![k[2]] = Got(r, "own")]
           ELSE IF d \in Loaders(k) THEN [answer[d] EXCEPT ![k[2]] = Got(r, "shared")]
           ELSE IF d \in Putters(k) /\ r # Gap THEN Put1(d) ELSE answer[d]]
      /\ pc' = [d \in Callers |->
           IF d \in {c} \cup Loaders(k) THEN "done"
           ELSE IF d \in Putters(k) THEN IF r = Gap THEN "done" ELSE AfterPut(d) ELSE pc[d]]
      /\ failed' = [d \in Callers |-> IF d \in Putters(k) /\ r = Gap THEN "gap" ELSE failed[d]]
  BY DEF Settle
<1> HIDE DEF k
<1>4. SharedTypes'
  <2>1. store' \in [Keys -> Kept]
    <3>1. [res |-> r, exp |-> today + Ttl] \in Kept
      BY TypeParts DEF SourceTypes, Kept
    <3> QED BY <1>2, <1>3, <3>1, TypeParts DEF Keep, SharedTypes
  <2>2. flight' \in [Keys -> Callers \cup {NoCaller}]
    BY <1>3, TypeParts DEF SharedTypes
  <2> QED BY <2>1, <2>2, TypeParts DEF SharedTypes
<1>5. \A d \in Putters(k) : d \in Callers /\ pc[d] = "putWait"
  BY DEF Putters
<1>6. \A d \in Putters(k) : Put1(d) \in [Days -> Answer]
  BY <1>5, Put1Type
<1>7. Got(r, "own") \in Answer /\ Got(r, "shared") \in Answer
  BY GotIsAnswer
<1>8. answer' \in [Callers -> [Days -> Answer]]
  <2>1. \A d \in Callers : answer[d] \in [Days -> Answer]
    BY DEF TypeOK
  <2>2. ASSUME NEW d \in Callers PROVE answer'[d] \in [Days -> Answer]
    BY <1>2, <1>3, <1>6, <1>7, <2>1
  <2> QED BY <1>3, <2>2
<1>9. CallTypes'
  <2>1. pc' \in [Callers -> Pcs]
    BY <1>3, TypeParts DEF CallTypes, Pcs, AfterPut
  <2>2. failed' \in [Callers -> {"no", "upstream", "gap"}]
    BY <1>3, TypeParts DEF CallTypes
  <2> QED BY <1>8, <2>1, <2>2, TypeParts DEF CallTypes
<1>10. TypeOK'
  BY <1>4, <1>9, TypeParts, TypePartsNext, SameSources
<1>11. ASSUME NEW d \in Callers PROVE Stands(d)'
  <2>1. CASE pc'[d] = "done"
    BY <2>1 DEF Stands, Resolved, AskedOn, Ranged, Scanning, Filling
  <2>2. CASE d \in Putters(k) /\ pc'[d] # "done"
    <3>1. pc[d] = "putWait" /\ answer'[d] = Put1(d) /\ pc'[d] = "put"
          /\ Missing(d) # {PutDay(d)}
      <4>1. pc[d] = "putWait" /\ d # c /\ d \notin Loaders(k)
        BY <1>5, <2>2 DEF Loaders
      <4> QED BY <1>3, <2>2, <4>1 DEF AfterPut
    <3>2. PutDay(d) \in Missing(d) /\ PutDay(d) \in Days
      BY <3>1, PutDayIsMissing
    <3>3. PICK e \in Missing(d) : e # PutDay(d)
      BY <3>1, <3>2
    <3>4. e \in Days
      <4>1. query[d].first..query[d].last \subseteq Days
        BY <3>1, RangeIsOfDays DEF Stands
      <4> QED BY <4>1 DEF Missing
    <3>5. answer'[d][e] = answer[d][e]
      BY <3>1, <3>2, <3>3, <3>4 DEF Put1, TypeOK
    <3>6. Missing(d)' # {}
      BY <3>3, <3>5 DEF Missing
    <3> QED BY <3>1, <3>6 DEF Stands, Resolved, AskedOn, Ranged, Scanning, Filling
  <2>3. CASE d \notin Putters(k) /\ d # c /\ d \notin Loaders(k)
    <3>1. Untouched(d)
      BY <1>3, <2>3 DEF Untouched
    <3> QED BY <3>1, UntouchedStands
  <2>4. (d = c \/ d \in Loaders(k)) => pc'[d] = "done"
    BY <1>3
  <2> QED BY <2>1, <2>2, <2>3, <2>4
<1> QED BY <1>10, <1>11

LEMMA LoadTypeInv ==
  ASSUME TypeInv, NEW c \in Callers, ApiOk(c) \/ ApiMiss(c) \/ DlOk(c) \/ DlFail(c)
  PROVE  TypeInv'
<1> USE TaifexAssumption DEF TypeInv
<1>f. query[c].first \in Days
  BY DEF ApiOk, ApiMiss, DlOk, DlFail, Stands, Resolved
<1>1. CASE ApiOk(c)
  <2>1. PICK r \in ApiRows(query[c].ds, query[c].first) : Settle(c, r)
    BY <1>1 DEF ApiOk
  <2>2. r \in Result
    BY <2>1 DEF ApiRows, Rows, Result, TypeOK
  <2> QED BY <1>1, <2>1, <2>2, SettleTypeInv DEF ApiOk
<1>2. CASE ApiMiss(c)
  <2>1. \A d \in Callers \ {c} : Untouched(d)
    BY <1>2 DEF ApiMiss, Goto, Untouched, TypeOK
  <2>2. CallTypes'
    BY <1>2, TypeParts DEF ApiMiss, Goto, CallTypes, Pcs
  <2>3. TypeOK'
    BY <1>2, <2>2, TypeParts, TypePartsNext, SameSources, SameShared DEF ApiMiss
  <2>4. Stands(c)'
    BY <1>2, <1>f DEF ApiMiss, Goto, TypeOK, Stands, Resolved, AskedOn, Ranged, Scanning, Filling
  <2> QED BY <2>1, <2>3, <2>4, OneStands
<1>3. CASE DlOk(c)
  <2>1. Downloaded(query[c].first, query[c].first) \in SUBSET TradingDays
    BY DEF Downloaded, TypeOK
  <2>2. FetchResult(query[c].first, Downloaded(query[c].first, query[c].first)) \in Result
    BY <1>f, <2>1, FetchResultOfItsDay
  <2> QED BY <1>3, <2>2, SettleTypeInv DEF DlOk
<1>4. CASE DlFail(c)
  <2>1. ASSUME NEW d \in Callers PROVE Stands(d)'
    <3>1. CASE pc'[d] = "done"
      BY <3>1 DEF Stands, Resolved, AskedOn, Ranged, Scanning, Filling
    <3>2. CASE pc'[d] # "done"
      <4>1. Untouched(d)
        BY <1>4, <3>2 DEF DlFail, Untouched
      <4> QED BY <4>1, UntouchedStands
    <3> QED BY <3>1, <3>2
  <2>2. KeyOf(c) \in Keys
    BY <1>f DEF KeyOf, Keys, TypeOK, Query
  <2>3. SharedTypes'
    BY <1>4, <2>2, TypeParts DEF DlFail, SharedTypes
  <2>4. CallTypes'
    BY <1>4, TypeParts DEF DlFail, CallTypes, Pcs
  <2> QED BY <1>4, <2>1, <2>3, <2>4, TypeParts, TypePartsNext, SameSources DEF DlFail
<1> QED BY <1>1, <1>2, <1>3, <1>4

(* FetchRange.                                                              *)
LEMMA ScanTypeInv ==
  ASSUME TypeInv, NEW c \in Callers, Scan(c)
  PROVE  TypeInv'
<1> USE TaifexAssumption DEF TypeInv
<1> DEFINE d == Earliest(todo[c])
           k == <<query[c].ds, d>>
           span == query[c].first..query[c].last
<1>1. \A e \in Callers \ {c} : Untouched(e)
  BY DEF Scan, Goto, Untouched, TypeOK
<1>2. span \subseteq Days /\ todo[c] # {} /\ todo[c] \subseteq span
  BY RangeIsOfDays DEF Scan, Stands, Scanning
<1>3. d \in todo[c] /\ d \in Days
  BY <1>2, EarliestIsLeast
<1>4. k \in Keys
  BY <1>3 DEF Keys, TypeOK, Query
<1> HIDE DEF d
<1>5. Got(store[k].res, "store") \in Answer
  BY <1>4, GotIsAnswer DEF TypeOK, Kept
<1>6. /\ answer' \in [Callers -> [Days -> Answer]]
      /\ todo' = [todo EXCEPT ![c] = @ \ {d}]
      /\ pc' = [pc EXCEPT ![c] = IF todo[c] # {d} THEN "scan"
                  ELSE IF \A e \in span : answer'[c][e] # NoAnswer THEN "done" ELSE "rangeDl"]
  BY <1>3, <1>5 DEF Scan, Goto, TypeOK, d
<1>7. UNCHANGED <<sourceVars, sharedVars, query, asOf, groups, failed>>
  BY DEF Scan
<1>8. CallTypes'
  BY <1>6, <1>7, TypeParts DEF CallTypes, Pcs
<1>9. TypeOK'
  BY <1>7, <1>8, TypeParts, TypePartsNext, SameSources, SameShared
<1>10. Stands(c)'
  <2>1. query[c].first \in Days /\ query' = query
    BY <1>7 DEF Scan, Stands, Ranged
  <2>2. CASE todo[c] # {d}
    <3>1. pc'[c] = "scan" /\ todo'[c] = todo[c] \ {d}
      BY <1>6, <2>2 DEF TypeOK
    <3>2. todo'[c] # {} /\ todo'[c] \subseteq query'[c].first..query'[c].last
      BY <1>2, <1>3, <2>1, <2>2, <3>1
    <3> QED BY <2>1, <3>1, <3>2 DEF Stands, Resolved, AskedOn, Ranged, Scanning, Filling
  <2>3. CASE todo[c] = {d} /\ pc'[c] = "done"
    BY <2>3 DEF Stands, Resolved, AskedOn, Ranged, Scanning, Filling
  <2>4. CASE todo[c] = {d} /\ pc'[c] # "done"
    <3>1. pc'[c] = "rangeDl" /\ ~(\A e \in span : answer'[c][e] # NoAnswer)
      BY <1>6, <2>4 DEF TypeOK
    <3>2. Missing(c)' # {}
      BY <2>1, <3>1 DEF Missing
    <3> QED BY <2>1, <3>1, <3>2 DEF Stands, Resolved, AskedOn, Ranged, Scanning, Filling
  <2> QED BY <2>2, <2>3, <2>4
<1> QED BY <1>1, <1>9, <1>10, OneStands

LEMMA PutTypeInv ==
  ASSUME TypeInv, NEW c \in Callers, Put(c)
  PROVE  TypeInv'
<1> USE TaifexAssumption DEF TypeInv
<1> DEFINE d == PutDay(c)
           k == <<query[c].ds, d>>
<1>1. \A e \in Callers \ {c} : Untouched(e)
  BY DEF Put, Goto, Untouched, TypeOK
<1>2. d \in Days /\ d \in Missing(c)
  BY PutDayIsMissing DEF Put
<1>3. k \in Keys
  BY <1>2 DEF Keys, TypeOK, Query
<1>4. Put1(c) \in [Days -> Answer]
  BY Put1Type DEF Put
<1>5. RangeResult(c, d) \in Result
  BY <1>2, RangeResultOfItsDay DEF TypeOK
<1> HIDE DEF d
<1>6. UNCHANGED <<sourceVars, memo, lock, flight, query, asOf, todo, groups, failed>>
  BY DEF Put
<1>7. store' \in [Keys -> Kept]
  <2>1. [res |-> RangeResult(c, d), exp |-> today + Ttl] \in Kept
    BY <1>5 DEF Kept, TypeOK
  <2>2. store' = store \/ store' = [store EXCEPT ![k] = [res |-> RangeResult(c, d), exp |-> today + Ttl]]
    BY DEF Put, d
  <2> QED BY <1>3, <2>1, <2>2 DEF TypeOK
<1>8. SharedTypes'
  BY <1>6, <1>7, TypeParts DEF SharedTypes
<1>9. CallTypes'
  <2>1. pc' \in [Callers -> Pcs]
    <3>1. PICK l \in {"done", "put", "putWait"} : pc' = [pc EXCEPT ![c] = l]
      BY DEF Put, Goto, AfterPut
    <3> QED BY <3>1 DEF TypeOK, Pcs
  <2>2. answer' \in [Callers -> [Days -> Answer]]
    BY <1>4 DEF Put, TypeOK
  <2> QED BY <1>6, <2>1, <2>2, TypeParts DEF CallTypes
<1>10. TypeOK'
  BY <1>6, <1>8, <1>9, TypeParts, TypePartsNext, SameSources
<1>11. query[c].first \in Days /\ Missing(c) # {} /\ pc[c] = "put"
  BY DEF Put, Stands, Ranged, Filling
<1>12. Stands(c)'
  <2>1. CASE pc'[c] = "putWait" /\ answer' = answer
    BY <1>6, <1>11, <2>1 DEF Missing, Stands, Resolved, AskedOn, Ranged, Scanning, Filling
  <2>2. CASE answer' = [answer EXCEPT ![c] = Put1(c)] /\ pc' = [pc EXCEPT ![c] = AfterPut(c)]
    <3>1. CASE Missing(c) = {d}
      <4>1. pc'[c] = "done"
        BY <2>2, <3>1 DEF AfterPut, TypeOK, d
      <4> QED BY <4>1 DEF Stands, Resolved, AskedOn, Ranged, Scanning, Filling
    <3>2. CASE Missing(c) # {d}
      <4>1. pc'[c] = "put"
        BY <2>2, <3>2 DEF AfterPut, TypeOK, d
      <4>2. PICK e \in Missing(c) : e # d
        BY <1>2, <3>2
      <4>3. e \in Days
        <5>1. query[c].first..query[c].last \subseteq Days
          BY <1>11, RangeIsOfDays DEF Stands
        <5> QED BY <5>1 DEF Missing
      <4>4. answer'[c][e] = answer[c][e]
        BY <1>2, <2>2, <4>2, <4>3 DEF Put1, TypeOK, d
      <4>5. Missing(c)' # {}
        BY <1>6, <4>2, <4>4 DEF Missing
      <4> QED BY <1>6, <1>11, <4>1, <4>5 DEF Stands, Resolved, AskedOn, Ranged, Scanning, Filling
    <3> QED BY <3>1, <3>2
  <2> QED BY <2>1, <2>2 DEF Put, Goto, TypeOK
<1> QED BY <1>1, <1>10, <1>12, OneStands

LEMMA RangeTypeInv ==
  ASSUME TypeInv, NEW c \in Callers, RangeDlOk(c) \/ RangeDlFail(c) \/ Return(c)
  PROVE  TypeInv'
<1> USE TaifexAssumption DEF TypeInv
<1>1. \A d \in Callers \ {c} : Untouched(d)
  BY DEF RangeDlOk, RangeDlFail, Return, Goto, Untouched, TypeOK
<1>2. CASE RangeDlOk(c)
  <2>1. CallTypes'
    BY <1>2, TypeParts DEF RangeDlOk, Goto, Downloaded, CallTypes, SourceTypes, Pcs
  <2>2. TypeOK'
    BY <1>2, <2>1, TypeParts, TypePartsNext, SameSources, SameShared DEF RangeDlOk
  <2>3. Stands(c)'
    BY <1>2 DEF RangeDlOk, Goto, TypeOK, Missing, Stands, Resolved, AskedOn, Ranged, Scanning, Filling
  <2> QED BY <1>1, <2>2, <2>3, OneStands
<1>3. CASE RangeDlFail(c)
  <2>1. CallTypes'
    BY <1>3, TypeParts DEF RangeDlFail, Goto, CallTypes, Pcs
  <2>2. TypeOK'
    BY <1>3, <2>1, TypeParts, TypePartsNext, SameSources, SameShared DEF RangeDlFail
  <2>3. Stands(c)'
    BY <1>3 DEF RangeDlFail, Goto, TypeOK, Stands, Resolved, AskedOn, Ranged, Scanning, Filling
  <2> QED BY <1>1, <2>2, <2>3, OneStands
<1>4. CASE Return(c)
  <2>1. CallTypes'
    <3>1. NoQuery \in Query /\ NoAnswers \in [Days -> Answer]
      BY DEF NoQuery, Query, NoAnswers, NoAnswer, Answer, Gap, Result
    <3> QED BY <1>4, <3>1, TypeParts DEF Return, CallTypes, Pcs
  <2>2. TypeOK'
    BY <1>4, <2>1, TypeParts, TypePartsNext, SameSources, SameShared DEF Return
  <2>3. Stands(c)'
    BY <1>4 DEF Return, TypeOK, Stands, Resolved, AskedOn, Ranged, Scanning, Filling
  <2> QED BY <1>1, <2>2, <2>3, OneStands
<1> QED BY <1>2, <1>3, <1>4

LEMMA NextTypeInv == TypeInv /\ [Next]_vars => TypeInv'
<1> SUFFICES ASSUME TypeInv, [Next]_vars PROVE TypeInv'
  OBVIOUS
<1>1. CASE Next
  BY <1>1, ExchangeTypeInv, AskTypeInv, LatestTypeInv, LookTypeInv, LoadTypeInv, ScanTypeInv,
     PutTypeInv, RangeTypeInv DEF Next, Progress
<1>2. CASE UNCHANGED vars
  <2>1. TypeOK'
    BY <1>2, TypeParts, TypePartsNext, SameSources, SameShared, SameCalls DEF TypeInv
  <2>2. \A c \in Callers : Untouched(c)
    BY <1>2 DEF Untouched
  <2> QED BY <2>1, <2>2, UntouchedStands DEF TypeInv
<1> QED BY <1>1, <1>2

(* The types, and where each caller stands in its query.                   *)
THEOREM TypeInvariance == Spec => []TypeInv
<1>1. Init => TypeInv
  <2> SUFFICES ASSUME Init PROVE TypeInv
    OBVIOUS
  <2> USE TaifexAssumption
  <2>1. SourceTypes
    BY DEF Init, SourceTypes
  <2>2. SharedTypes
    BY DEF Init, SharedTypes, NotKept, Kept, Gap, Result
  <2>3. CallTypes
    <3>1. NoQuery \in Query /\ NoAnswers \in [Days -> Answer]
      BY DEF NoQuery, Query, NoAnswers, NoAnswer, Answer, Gap, Result
    <3> QED BY <3>1 DEF Init, CallTypes, Pcs
  <2>4. \A c \in Callers : Stands(c)
    BY DEF Init, Stands, Resolved, AskedOn, Ranged, Scanning, Filling
  <2> QED BY <2>1, <2>2, <2>3, <2>4, TypeParts DEF TypeInv
<1> QED BY <1>1, NextTypeInv, PTL DEF Spec

(* Every variable keeps its type; in particular a day counts as learnt only *)
(* with the day that was learnt.                                            *)
THEOREM TypeCorrect == Spec => []TypeOK
BY TypeInvariance, PTL DEF TypeInv
-----------------------------------------------------------------------------
(* The rows of a day.  Nothing is left in an idle caller's answer, so that  *)
(* a new question cannot be given the rows of the last one.                 *)
IdleIsEmpty == \A c \in Callers : pc[c] = "idle" => answer[c] = NoAnswers
KeptRows    == \A k \in Keys : k[1] \notin RawSets /\ store[k].exp > 0 =>
                 OfItsDay(store[k].res, k[2])
AnswerRows(c) == query[c].ds \notin RawSets => \A d \in Days : OfItsDay(answer[c][d].res, d)
RowsInv == IdleIsEmpty /\ KeptRows /\ \A c \in Callers : AnswerRows(c)

LEMMA GapIsOfItsDay == \A d \in Days : OfItsDay(NoAnswers[d].res, d)
BY DEF OfItsDay, NoAnswers, NoAnswer

(* Neither an answer nor what is asked changes, and nobody comes to rest.   *)
SameAnswers ==
  /\ UNCHANGED answer
  /\ \A c \in Callers : query'[c].ds = query[c].ds /\ (pc'[c] = "idle" => pc[c] = "idle")

LEMMA SameRows ==
  ASSUME RowsInv, SameAnswers, UNCHANGED store
  PROVE  RowsInv'
<1>1. IdleIsEmpty'
  BY DEF RowsInv, SameAnswers, IdleIsEmpty
<1>2. KeptRows'
  BY DEF RowsInv, KeptRows
<1>3. \A c \in Callers : AnswerRows(c)'
  BY DEF RowsInv, SameAnswers, AnswerRows
<1> QED BY <1>1, <1>2, <1>3 DEF RowsInv

LEMMA WorldRows ==
  ASSUME TypeInv, RowsInv, Exchange \/ Restart
  PROVE  RowsInv'
<1> USE TaifexAssumption DEF RowsInv
<1>1. CASE Midnight
  <2>1. IdleIsEmpty' /\ \A c \in Callers : AnswerRows(c)'
    BY <1>1 DEF Midnight, IdleIsEmpty, AnswerRows
  <2>2. KeptRows'
    BY <1>1 DEF Midnight, KeptRows, NotKept
  <2> QED BY <2>1, <2>2
<1>2. CASE \E d \in Days : PublishRatio(d) \/ PublishApi(d) \/ PublishDl(d)
  BY <1>2, SameRows DEF PublishRatio, PublishApi, PublishDl, SameAnswers
<1>3. CASE Restart
  <2>1. IdleIsEmpty'
    BY <1>3 DEF Restart, IdleIsEmpty
  <2>2. KeptRows'
    BY <1>3 DEF Restart, KeptRows
  <2>3. \A c \in Callers : AnswerRows(c)'
    BY <1>3, GapIsOfItsDay DEF Restart, AnswerRows
  <2> QED BY <2>1, <2>2, <2>3
<1> QED BY <1>1, <1>2, <1>3 DEF Exchange

LEMMA AskRows ==
  ASSUME TypeInv, RowsInv, NEW c \in Callers, Ask(c)
  PROVE  RowsInv'
<1> USE DEF TypeInv, RowsInv
<1>1. /\ pc[c] = "idle" /\ UNCHANGED <<store, answer>>
      /\ pc'[c] # "idle"
      /\ \A d \in Callers \ {c} : pc'[d] = pc[d] /\ query'[d] = query[d]
  BY DEF Ask, AskDay, AskLatest, AskRange, Start, Goto, TypeOK
<1>2. answer[c] = NoAnswers
  BY <1>1 DEF IdleIsEmpty
<1>3. IdleIsEmpty' /\ KeptRows'
  BY <1>1 DEF IdleIsEmpty, KeptRows
<1>4. AnswerRows(c)'
  BY <1>1, <1>2, GapIsOfItsDay DEF AnswerRows
<1>5. \A d \in Callers \ {c} : AnswerRows(d)'
  BY <1>1 DEF AnswerRows
<1> QED BY <1>3, <1>4, <1>5

LEMMA LatestRows ==
  ASSUME TypeInv, RowsInv, NEW c \in Callers, Consult(c) \/ DiscoverOk(c) \/ DiscoverFail(c)
  PROVE  RowsInv'
<1> USE DEF TypeInv
<1>1. UNCHANGED <<store, answer>>
  BY DEF Consult, DiscoverOk, DiscoverFail
<1>2. \A d \in Callers \ {c} : pc'[d] = pc[d] /\ query'[d] = query[d]
  BY DEF Consult, DiscoverOk, DiscoverFail, Learn, Goto, TypeOK
<1>3. pc'[c] # "idle"
  BY DEF Consult, DiscoverOk, DiscoverFail, Learn, Goto, TypeOK
<1>4. query'[c].ds = query[c].ds
  BY DEF Consult, DiscoverOk, DiscoverFail, Learn, Goto, TypeOK, Query
<1> QED BY <1>1, <1>2, <1>3, <1>4, SameRows DEF SameAnswers

LEMMA LookRows ==
  ASSUME TypeInv, RowsInv, NEW c \in Callers, Look(c)
  PROVE  RowsInv'
<1> USE TaifexAssumption DEF TypeInv, RowsInv
<1> DEFINE k == KeyOf(c)
<1>1. query[c].first \in Days /\ query[c].ds \in Datasets
  BY DEF Look, Stands, Resolved, TypeOK, Query
<1>2. k \in Keys /\ k[1] = query[c].ds /\ k[2] = query[c].first
  BY <1>1 DEF KeyOf, Keys
<1>3. /\ pc[c] = "look" /\ UNCHANGED <<store, query>>
      /\ \A d \in Callers : pc'[d] = "idle" => pc[d] = "idle" /\ d # c
      /\ \A d \in Callers \ {c} : answer'[d] = answer[d]
  BY DEF Look, Goto, TypeOK
<1>4. IdleIsEmpty' /\ KeptRows'
  BY <1>3 DEF IdleIsEmpty, KeptRows
<1>5. CASE Cached(k) /\ answer' = [answer EXCEPT ![c][query[c].first] = Got(store[k].res, "store")]
  <2>1. query[c].ds \notin RawSets => OfItsDay(store[k].res, query[c].first)
    <3>1. store[k].exp > 0
      BY <1>2, <1>5 DEF Cached, TypeOK, Kept
    <3> QED BY <1>2, <3>1 DEF KeptRows
  <2>2. answer'[c] = [answer[c] EXCEPT ![query[c].first] = Got(store[k].res, "store")]
    BY <1>5 DEF TypeOK
  <2>3. answer'[c][query[c].first].res = store[k].res
    BY <1>1, <2>2 DEF Got, TypeOK
  <2>4. \A d \in Days : d # query[c].first => answer'[c][d] = answer[c][d]
    BY <2>2 DEF TypeOK
  <2>5. AnswerRows(c)'
    BY <1>3, <2>1, <2>3, <2>4 DEF AnswerRows
  <2>6. \A d \in Callers \ {c} : AnswerRows(d)'
    BY <1>3 DEF AnswerRows
  <2> QED BY <1>4, <2>5, <2>6
<1>6. CASE answer' = answer
  <2>1. \A d \in Callers : AnswerRows(d)'
    BY <1>3, <1>6 DEF AnswerRows
  <2> QED BY <1>4, <2>1
<1> QED BY <1>5, <1>6 DEF Look

(* A caller that puts its day, whether itself or because a load it waited   *)
(* for has ended, shows the rows of that day.                               *)
LEMMA Put1Rows ==
  ASSUME TypeInv, NEW c \in Callers, AnswerRows(c), pc[c] \in {"put", "putWait"},
         query' = query, answer'[c] = Put1(c)
  PROVE  AnswerRows(c)'
<1> USE DEF TypeInv
<1>1. PutDay(c) \in Days
  BY PutDayIsMissing
<1>2. OfItsDay(RangeResult(c, PutDay(c)), PutDay(c))
  BY <1>1, RangeResultOfItsDay DEF TypeOK
<1>3. answer'[c][PutDay(c)].res = RangeResult(c, PutDay(c))
  <2>1. answer'[c][PutDay(c)] = Got(RangeResult(c, PutDay(c)), "own")
    BY <1>1 DEF Put1, TypeOK
  <2> QED BY <2>1 DEF Got
<1>4. \A d \in Days : d # PutDay(c) => answer'[c][d] = answer[c][d]
  BY DEF Put1, TypeOK
<1> QED BY <1>2, <1>3, <1>4 DEF AnswerRows

LEMMA SettleRows ==
  ASSUME TypeInv, RowsInv, NEW c \in Callers, NEW r \in Result, Settle(c, r),
         pc[c] \in {"api", "dl"}, UNCHANGED <<today, query>>,
         query[c].ds \notin RawSets => OfItsDay(r, query[c].first)
  PROVE  RowsInv'
<1> USE TaifexAssumption DEF TypeInv, RowsInv
<1> DEFINE k == KeyOf(c)
<1>1. query[c].first \in Days /\ query[c].ds \in Datasets
  BY DEF Stands, Resolved, TypeOK, Query
<1>2. k \in Keys /\ k[1] = query[c].ds /\ k[2] = query[c].first
  BY <1>1 DEF KeyOf, Keys
<1>3. /\ Keep(k, r)
      /\ answer' = [d \in Callers |->
           IF d = c THEN [answer[d] EXCEPT ![k[2]] = Got(r, "own")]
           ELSE IF d \in Loaders(k) THEN [answer[d] EXCEPT ![k[2]] = Got(r, "shared")]
           ELSE IF d \in Putters(k) /\ r # Gap THEN Put1(d) ELSE answer[d]]
      /\ pc' = [d \in Callers |->
           IF d \in {c} \cup Loaders(k) THEN "done"
           ELSE IF d \in Putters(k) THEN IF r = Gap THEN "done" ELSE AfterPut(d) ELSE pc[d]]
  BY DEF Settle
<1>4. \A d \in Loaders(k) : query[d].ds = k[1] /\ query[d].first = k[2]
  BY <1>2 DEF Loaders, KeyOf
<1> HIDE DEF k
<1>5. KeptRows'
  <2>1. store' = store \/ store' = [store EXCEPT ![k] = [res |-> r, exp |-> today + Ttl]]
    BY <1>3 DEF Keep
  <2>2. ASSUME NEW j \in Keys, j[1] \notin RawSets, store'[j].exp > 0
        PROVE  OfItsDay(store'[j].res, j[2])
    <3>1. CASE j = k /\ store' # store
      BY <1>2, <2>1, <2>2, <3>1 DEF TypeOK
    <3>2. CASE j # k \/ store' = store
      BY <2>1, <2>2, <3>2 DEF TypeOK, KeptRows
    <3> QED BY <3>1, <3>2
  <2> QED BY <2>2 DEF KeptRows
<1>6. IdleIsEmpty'
  <2>1. ASSUME NEW d \in Callers, pc'[d] = "idle" PROVE pc[d] = "idle" /\ answer'[d] = answer[d]
    BY <1>3, <2>1 DEF AfterPut, Loaders, Putters
  <2> QED BY <2>1 DEF IdleIsEmpty
<1>7. ASSUME NEW d \in Callers PROVE AnswerRows(d)'
  <2>1. CASE d = c \/ d \in Loaders(k)
    <3>1. PICK src \in {"own", "shared"} : answer'[d] = [answer[d] EXCEPT ![k[2]] = Got(r, src)]
      BY <1>3, <2>1
    <3>2. answer'[d][k[2]].res = r /\ \A e \in Days : e # k[2] => answer'[d][e] = answer[d][e]
      BY <1>1, <1>2, <3>1 DEF Got, TypeOK
    <3>3. query[d].ds \notin RawSets => OfItsDay(r, k[2])
      BY <1>2, <1>4, <2>1
    <3> QED BY <3>2, <3>3 DEF AnswerRows
  <2>2. CASE d # c /\ d \notin Loaders(k) /\ d \in Putters(k) /\ r # Gap
    <3>1. answer'[d] = Put1(d) /\ pc[d] = "putWait"
      BY <1>3, <2>2 DEF Putters
    <3> QED BY <3>1, Put1Rows
  <2>3. CASE d # c /\ d \notin Loaders(k) /\ ~(d \in Putters(k) /\ r # Gap)
    BY <1>3, <2>3 DEF AnswerRows
  <2> QED BY <2>1, <2>2, <2>3
<1> QED BY <1>5, <1>6, <1>7

(* The API's rows of a dated dataset are those of the day asked for.        *)
LEMMA LoadRows ==
  ASSUME TypeInv, RowsInv, NEW c \in Callers, ApiOk(c) \/ ApiMiss(c) \/ DlOk(c) \/ DlFail(c)
  PROVE  RowsInv'
<1> USE TaifexAssumption DEF TypeInv
<1>f. query[c].first \in Days
  BY DEF ApiOk, ApiMiss, DlOk, DlFail, Stands, Resolved
<1>1. CASE ApiOk(c)
  <2>1. PICK r \in ApiRows(query[c].ds, query[c].first) : Settle(c, r)
    BY <1>1 DEF ApiOk
  <2>2. r \in Result
    BY <2>1 DEF ApiRows, Rows, Result, TypeOK
  <2>3. query[c].ds \notin RawSets => OfItsDay(r, query[c].first)
    BY <2>1 DEF ApiRows, OfItsDay
  <2> QED BY <1>1, <2>1, <2>2, <2>3, SettleRows DEF ApiOk
<1>2. CASE ApiMiss(c)
  BY <1>2, SameRows DEF ApiMiss, Goto, SameAnswers, TypeOK
<1>3. CASE DlOk(c)
  <2>1. Downloaded(query[c].first, query[c].first) \in SUBSET TradingDays
    BY DEF Downloaded, TypeOK
  <2> DEFINE r == FetchResult(query[c].first, Downloaded(query[c].first, query[c].first))
  <2>2. r \in Result /\ OfItsDay(r, query[c].first)
    BY <1>f, <2>1, FetchResultOfItsDay
  <2>3. Settle(c, r) /\ pc[c] \in {"api", "dl"} /\ UNCHANGED <<today, query>>
    BY <1>3 DEF DlOk
  <2> HIDE DEF r
  <2> QED BY <2>2, <2>3, SettleRows
<1>4. CASE DlFail(c)
  BY <1>4, SameRows DEF DlFail, SameAnswers
<1> QED BY <1>1, <1>2, <1>3, <1>4

LEMMA RangeRows ==
  ASSUME TypeInv, RowsInv, NEW c \in Callers,
         Scan(c) \/ RangeDlOk(c) \/ RangeDlFail(c) \/ Put(c) \/ Return(c)
  PROVE  RowsInv'
<1> USE TaifexAssumption DEF TypeInv
<1>1. CASE Scan(c)
  <2> DEFINE d == Earliest(todo[c])
             k == <<query[c].ds, d>>
  <2>1. d \in Days
    <3>1. todo[c] \subseteq Days /\ todo[c] # {}
      BY <1>1 DEF Scan, Stands, Scanning, TypeOK
    <3> QED BY <3>1, EarliestIsLeast
  <2>2. k \in Keys /\ k[1] = query[c].ds /\ k[2] = d
    BY <2>1 DEF Keys, TypeOK, Query
  <2>3. /\ UNCHANGED <<store, query>>
        /\ \A e \in Callers : pc'[e] = "idle" => pc[e] = "idle" /\ e # c
        /\ \A e \in Callers \ {c} : answer'[e] = answer[e]
    BY <1>1 DEF Scan, Goto, TypeOK
  <2>4. answer' = IF Cached(k) THEN [answer EXCEPT ![c][d] = Got(store[k].res, "store")] ELSE answer
    BY <1>1 DEF Scan
  <2> HIDE DEF d
  <2>5. IdleIsEmpty' /\ KeptRows' /\ \A e \in Callers \ {c} : AnswerRows(e)'
    BY <2>3 DEF RowsInv, IdleIsEmpty, KeptRows, AnswerRows
  <2>6. CASE Cached(k)
    <3>1. query[c].ds \notin RawSets => OfItsDay(store[k].res, d)
      <4>1. store[k].exp > 0
        BY <2>2, <2>6 DEF Cached, TypeOK, Kept
      <4> QED BY <2>2, <4>1 DEF RowsInv, KeptRows
    <3>2. answer'[c][d].res = store[k].res /\ \A e \in Days : e # d => answer'[c][e] = answer[c][e]
      BY <2>1, <2>4, <2>6 DEF Got, TypeOK
    <3>3. AnswerRows(c)'
      BY <2>3, <3>1, <3>2 DEF RowsInv, AnswerRows
    <3> QED BY <2>5, <3>3 DEF RowsInv
  <2>7. CASE ~Cached(k)
    <3>1. AnswerRows(c)'
      BY <2>3, <2>4, <2>7 DEF RowsInv, AnswerRows
    <3> QED BY <2>5, <3>1 DEF RowsInv
  <2> QED BY <2>6, <2>7
<1>2. CASE RangeDlOk(c) \/ RangeDlFail(c)
  BY <1>2, SameRows DEF RangeDlOk, RangeDlFail, Goto, SameAnswers, TypeOK
<1>3. CASE Put(c)
  <2> DEFINE d == PutDay(c)
             k == <<query[c].ds, d>>
  <2>1. d \in Days
    BY <1>3, PutDayIsMissing DEF Put
  <2>2. k \in Keys /\ k[1] = query[c].ds /\ k[2] = d
    BY <2>1 DEF Keys, TypeOK, Query
  <2>3. RangeResult(c, d) \in Result /\ OfItsDay(RangeResult(c, d), d)
    BY <2>1, RangeResultOfItsDay DEF TypeOK
  <2>4. /\ query' = query /\ pc[c] = "put"
        /\ \A e \in Callers : pc'[e] = "idle" => pc[e] = "idle" /\ e # c
        /\ \A e \in Callers \ {c} : answer'[e] = answer[e]
        /\ answer'[c] = answer[c] \/ answer'[c] = Put1(c)
    BY <1>3 DEF Put, Goto, AfterPut, TypeOK
  <2>5. store' = store \/ store' = [store EXCEPT ![k] = [res |-> RangeResult(c, d), exp |-> today + Ttl]]
    BY <1>3 DEF Put
  <2> HIDE DEF d
  <2>6. KeptRows'
    <3>1. ASSUME NEW j \in Keys, j[1] \notin RawSets, store'[j].exp > 0
          PROVE  OfItsDay(store'[j].res, j[2])
      <4>1. CASE j = k /\ store' # store
        BY <2>2, <2>3, <2>5, <4>1 DEF TypeOK
      <4>2. CASE j # k \/ store' = store
        BY <2>5, <3>1, <4>2 DEF TypeOK, RowsInv, KeptRows
      <4> QED BY <4>1, <4>2
    <3> QED BY <3>1 DEF KeptRows
  <2>7. IdleIsEmpty' /\ \A e \in Callers \ {c} : AnswerRows(e)'
    BY <2>4 DEF RowsInv, IdleIsEmpty, AnswerRows
  <2>8. AnswerRows(c)'
    <3>1. CASE answer'[c] = answer[c]
      BY <2>4, <3>1 DEF RowsInv, AnswerRows
    <3>2. CASE answer'[c] = Put1(c)
      BY <2>4, <3>2, Put1Rows DEF RowsInv
    <3> QED BY <2>4, <3>1, <3>2
  <2> QED BY <2>6, <2>7, <2>8 DEF RowsInv
<1>4. CASE Return(c)
  <2>1. /\ answer'[c] = NoAnswers /\ UNCHANGED store
        /\ \A d \in Callers \ {c} : answer'[d] = answer[d] /\ query'[d] = query[d] /\ pc'[d] = pc[d]
    BY <1>4 DEF Return, TypeOK
  <2>2. IdleIsEmpty' /\ KeptRows'
    BY <2>1 DEF RowsInv, IdleIsEmpty, KeptRows
  <2>3. \A d \in Callers : AnswerRows(d)'
    BY <2>1, GapIsOfItsDay DEF RowsInv, AnswerRows
  <2> QED BY <2>2, <2>3 DEF RowsInv
<1> QED BY <1>1, <1>2, <1>3, <1>4

LEMMA NextRows == TypeInv /\ RowsInv /\ [Next]_vars => RowsInv'
<1> SUFFICES ASSUME TypeInv, RowsInv, [Next]_vars PROVE RowsInv'
  OBVIOUS
<1>1. CASE Next
  BY <1>1, WorldRows, AskRows, LatestRows, LookRows, LoadRows, RangeRows DEF Next, Progress
<1>2. CASE UNCHANGED vars
  BY <1>2, SameRows DEF SameAnswers
<1> QED BY <1>1, <1>2

(* No rows of one day are kept or shown as another's without saying so,     *)
(* whatever the tier, the joining of calls, the day's end and restarts.     *)
THEOREM DatedRowsHold == Spec => []DatedRowsOfTheirDay
<1>1. Init => RowsInv
  <2> SUFFICES ASSUME Init PROVE RowsInv
    OBVIOUS
  <2>1. IdleIsEmpty /\ KeptRows
    BY DEF Init, IdleIsEmpty, KeptRows, NotKept
  <2>2. \A c \in Callers : AnswerRows(c)
    BY GapIsOfItsDay DEF Init, AnswerRows
  <2> QED BY <2>1, <2>2 DEF RowsInv
<1>2. RowsInv => DatedRowsOfTheirDay
  BY DEF RowsInv, KeptRows, AnswerRows, DatedRowsOfTheirDay
<1> QED BY <1>1, <1>2, TypeInvariance, NextRows, PTL DEF Spec
-----------------------------------------------------------------------------
(* The default date.  What is remembered for a calendar day is at least as  *)
(* new as what was known when that day began, and whoever still asks for a  *)
(* date finds so: he asked on that day, or finds nothing remembered.        *)
InDate(c) == pc[c] \in {"date", "discoverDate"}
DawnBehind == dawn <= ratioDay /\ \A c \in Callers : query[c].dawn <= ratioDay
NotAhead   == memo.at <= today /\ \A c \in Callers : asOf[c] <= today
MemoFresh  ==
  /\ memo.at = today => dawn <= memo.day
  /\ \A c \in Callers : InDate(c) /\ memo.at = asOf[c] => query[c].dawn <= memo.day
FailedIsDone == \A c \in Callers : failed[c] = "upstream" => pc[c] = "done"
DawnInv == DawnBehind /\ NotAhead /\ MemoFresh /\ FailedIsDone /\ NotOlderThanDawn

LEMMA WorldDawn ==
  ASSUME TypeInv, DawnInv, Exchange \/ Restart
  PROVE  DawnInv'
<1> USE TaifexAssumption DEF TypeInv, TypeOK, Query, DawnInv
<1>1. CASE Midnight
  <2>1. DawnBehind' /\ NotAhead'
    BY <1>1 DEF Midnight, DawnBehind, NotAhead
  <2>2. MemoFresh'
    BY <1>1 DEF Midnight, DawnBehind, NotAhead, MemoFresh, InDate
  <2>3. FailedIsDone' /\ NotOlderThanDawn'
    BY <1>1 DEF Midnight, FailedIsDone, NotOlderThanDawn
  <2> QED BY <2>1, <2>2, <2>3
<1>2. CASE \E d \in Days : PublishRatio(d) \/ PublishApi(d) \/ PublishDl(d)
  <2>1. ratioDay' >= ratioDay /\ UNCHANGED <<today, dawn, memo, callVars>> /\ ratioDay' \in Int
    BY <1>2 DEF PublishRatio, PublishApi, PublishDl
  <2>2. DawnBehind' /\ NotAhead' /\ MemoFresh'
    BY <2>1 DEF DawnBehind, NotAhead, MemoFresh, InDate
  <2>3. FailedIsDone' /\ NotOlderThanDawn'
    BY <2>1 DEF FailedIsDone, NotOlderThanDawn
  <2> QED BY <2>2, <2>3
<1>3. CASE Restart
  <2>1. \A c \in Callers : query'[c].dawn = NoDay /\ query'[c].kind = "fetch"
    BY <1>3 DEF Restart, NoQuery
  <2>2. DawnBehind' /\ NotAhead'
    BY <1>3, <2>1 DEF Restart, DawnBehind, NotAhead
  <2>3. MemoFresh' /\ FailedIsDone'
    BY <1>3, <2>1 DEF Restart, MemoFresh, InDate, FailedIsDone
  <2>4. NotOlderThanDawn'
    BY <2>1 DEF NotOlderThanDawn
  <2> QED BY <2>2, <2>3, <2>4
<1> QED BY <1>1, <1>2, <1>3 DEF Exchange

LEMMA DawnTypes ==
  ASSUME TypeInv
  PROVE  /\ today \in Int /\ ratioDay \in Int /\ dawn \in Int
         /\ memo.at \in Int /\ memo.day \in Int
         /\ \A c \in Callers : asOf[c] \in 0..LastDay /\ query[c] \in Query
         /\ \A c \in Callers : query[c].first \in Int /\ query[c].dawn \in Int
BY TaifexAssumption DEF TypeInv, TypeOK, Query

(* A step that resolves no date, asks for none, and returns to nobody.      *)
QuietFor(c) ==
  /\ asOf'[c] # asOf[c] => asOf'[c] \in {today, NoDay} /\ ~InDate(c)'
  /\ InDate(c)' => InDate(c)
  /\ InDate(c) => InDate(c)' \/ failed'[c] = "upstream"
  /\ failed'[c] = "upstream" => pc'[c] = "done"
  /\ failed[c] = "upstream" /\ pc[c] = "done" => failed'[c] = "upstream"
Quiet == UNCHANGED <<today, ratioDay, dawn, memo, query>> /\ \A c \in Callers : QuietFor(c)

LEMMA QuietDawn ==
  ASSUME TypeInv, DawnInv, Quiet
  PROVE  DawnInv'
<1> USE TaifexAssumption, DawnTypes DEF DawnInv, QuietFor
<1>1. DawnBehind' /\ NotAhead'
  <2>1. today \in Nat
    BY DEF TypeInv, TypeOK
  <2> QED BY <2>1 DEF Quiet, DawnBehind, NotAhead
<1>2. MemoFresh'
  BY DEF Quiet, MemoFresh
<1>3. FailedIsDone'
  BY DEF Quiet, FailedIsDone
<1>4. NotOlderThanDawn'
  <2>1. ASSUME NEW c \in Callers, query'[c].kind = "latest", ~InDate(c)'
        PROVE  failed'[c] = "upstream" \/ query'[c].first >= query'[c].dawn
    <3>1. CASE InDate(c)
      BY <2>1, <3>1 DEF Quiet
    <3>2. CASE ~InDate(c)
      BY <2>1, <3>2 DEF Quiet, NotOlderThanDawn, InDate, FailedIsDone
    <3> QED BY <3>1, <3>2
  <2> QED BY <2>1 DEF NotOlderThanDawn, InDate
<1> QED BY <1>1, <1>2, <1>3, <1>4

LEMMA AskDawn ==
  ASSUME TypeInv, DawnInv, NEW c \in Callers, Ask(c)
  PROVE  DawnInv'
<1> USE TaifexAssumption, DawnTypes DEF TypeInv, TypeOK, DawnInv
<1>1. /\ UNCHANGED <<today, ratioDay, dawn, memo, failed>>
      /\ \A d \in Callers \ {c} : /\ pc'[d] = pc[d] /\ query'[d] = query[d]
                                 /\ asOf'[d] = asOf[d]
      /\ query'[c].dawn = dawn /\ pc[c] = "idle"
      /\ \/ pc'[c] = "date" /\ asOf'[c] = today
         \/ pc'[c] \in {"look", "scan"} /\ asOf'[c] = asOf[c] /\ query'[c].kind # "latest"
  BY DEF Ask, AskDay, AskLatest, AskRange, Start, Goto
<1>2. DawnBehind' /\ NotAhead'
  <2>1. today \in Nat /\ dawn <= ratioDay /\ memo'.at <= today
    BY <1>1 DEF TypeOK, DawnBehind, NotAhead
  <2>2. ASSUME NEW e \in Callers PROVE query'[e].dawn <= ratioDay /\ asOf'[e] <= today
    <3>1. query[e].dawn <= ratioDay /\ asOf[e] <= today
      BY DEF DawnBehind, NotAhead
    <3>2. CASE e = c
      BY <1>1, <2>1, <3>1, <3>2
    <3>3. CASE e # c
      BY <1>1, <3>1, <3>3
    <3> QED BY <3>2, <3>3
  <2> QED BY <1>1, <2>1, <2>2 DEF DawnBehind, NotAhead
<1>3. MemoFresh'
  BY <1>1 DEF MemoFresh, InDate
<1>4. FailedIsDone'
  BY <1>1 DEF FailedIsDone
<1>5. NotOlderThanDawn'
  BY <1>1 DEF NotOlderThanDawn
<1> QED BY <1>2, <1>3, <1>4, <1>5

(* A caller that learns a day that is new enough for it.                    *)
LEMMA LearnDawn ==
  ASSUME TypeInv, DawnInv, NEW c \in Callers, NEW d \in Days,
         Learn(c, d), Forget(c), UNCHANGED <<today, ratioDay, dawn, failed>>,
         InDate(c) => query[c].dawn <= d,
         pc[c] \in {"date", "discoverDate", "latest", "discoverLatest"},
         memo'.at \in 0..LastDay, memo'.at <= today, MemoFresh'
  PROVE  DawnInv'
<1> USE TaifexAssumption, DawnTypes DEF TypeInv, TypeOK, DawnInv
<1>1. /\ asOf'[c] = NoDay /\ pc'[c] \in {"look", "api", "dl"}
      /\ \A e \in Callers \ {c} : asOf'[e] = asOf[e] /\ pc'[e] = pc[e] /\ query'[e] = query[e]
  BY DEF Learn, Forget, Goto
<1>2. query'[c].dawn = query[c].dawn /\ query'[c].kind = query[c].kind
  <2>1. CASE query' = query
    BY <2>1
  <2>2. CASE query' = [query EXCEPT ![c].first = d, ![c].last = d]
    <3>1. query'[c] = [query[c] EXCEPT !.first = d, !.last = d]
      BY <2>2
    <3> QED BY <3>1 DEF Query
  <2> QED BY <2>1, <2>2 DEF Learn
<1>3. InDate(c) => query'[c].first = d
  BY DEF Learn, Query, InDate
<1>4. ~InDate(c) => query'[c] = query[c]
  BY DEF Learn, InDate
<1>5. DawnBehind' /\ NotAhead'
  <2>1. today \in Nat /\ dawn <= ratioDay /\ memo'.at <= today
    BY <1>1, <1>2 DEF TypeOK, DawnBehind, NotAhead
  <2>2. ASSUME NEW e \in Callers PROVE query'[e].dawn <= ratioDay /\ asOf'[e] <= today
    <3>1. query[e].dawn <= ratioDay /\ asOf[e] <= today
      BY DEF DawnBehind, NotAhead
    <3>2. CASE e = c
      BY <1>1, <1>2, <2>1, <3>1, <3>2
    <3>3. CASE e # c
      BY <1>1, <1>2, <3>1, <3>3
    <3> QED BY <3>2, <3>3
  <2> QED BY <1>1, <1>2, <2>1, <2>2 DEF DawnBehind, NotAhead
<1>6. FailedIsDone'
  BY <1>1 DEF FailedIsDone
<1>7. NotOlderThanDawn'
  <2>1. ASSUME NEW e \in Callers, query'[e].kind = "latest", ~InDate(e)'
        PROVE  failed'[e] = "upstream" \/ query'[e].first >= query'[e].dawn
    <3>1. CASE e = c /\ InDate(c)
      BY <1>2, <1>3, <3>1 DEF Query
    <3>2. CASE e = c /\ ~InDate(c)
      BY <1>4, <2>1, <3>2 DEF NotOlderThanDawn, InDate
    <3>3. CASE e # c
      BY <1>1, <2>1, <3>3 DEF NotOlderThanDawn, InDate
    <3> QED BY <3>1, <3>2, <3>3
  <2> QED BY <2>1 DEF NotOlderThanDawn, InDate
<1> QED BY <1>5, <1>6, <1>7

LEMMA LatestDawn ==
  ASSUME TypeInv, DawnInv, NEW c \in Callers, Consult(c) \/ DiscoverOk(c) \/ DiscoverFail(c)
  PROVE  DawnInv'
<1> USE TaifexAssumption DEF TypeInv
<1>1. CASE Consult(c) /\ Remembered(c)
  <2>1. /\ pc[c] \in {"date", "latest"} /\ Learn(c, memo.day) /\ Forget(c)
        /\ UNCHANGED <<today, ratioDay, dawn, memo, failed>>
    BY <1>1 DEF Consult
  <2>2. memo.day \in Days
    BY <1>1, <2>1 DEF Remembered, Stands, AskedOn, TypeOK
  <2>3. InDate(c) => query[c].dawn <= memo.day
    BY <1>1 DEF Remembered, DawnInv, MemoFresh
  <2>4. MemoFresh'
    <3>1. \A e \in Callers : InDate(e)' => InDate(e) /\ asOf'[e] = asOf[e] /\ query'[e] = query[e]
      BY <2>1 DEF Learn, Goto, Forget, InDate, TypeOK
    <3> QED BY <2>1, <3>1 DEF DawnInv, MemoFresh
  <2> QED BY <2>1, <2>2, <2>3, <2>4, LearnDawn DEF DawnInv, NotAhead, TypeOK
<1>2. CASE Consult(c) /\ ~Remembered(c)
  <2>1. Quiet
    <3>1. ASSUME NEW d \in Callers PROVE QuietFor(d)
      BY <1>2 DEF Consult, Goto, QuietFor, InDate, TypeOK, DawnInv, FailedIsDone
    <3> QED BY <1>2, <3>1 DEF Consult, Quiet
  <2> QED BY <2>1, QuietDawn
<1>3. CASE DiscoverOk(c)
  <2>1. /\ pc[c] \in {"discoverDate", "discoverLatest"} /\ Learn(c, ratioDay) /\ Forget(c)
        /\ memo' = [at |-> asOf[c], day |-> ratioDay]
        /\ UNCHANGED <<today, ratioDay, dawn, failed>>
    BY <1>3 DEF DiscoverOk
  <2>2. ratioDay \in Days /\ asOf[c] \in 0..LastDay /\ asOf[c] <= today
    BY <1>3 DEF DiscoverOk, TypeOK, DawnInv, NotAhead
  <2>3. query[c].dawn <= ratioDay
    BY DEF DawnInv, DawnBehind
  <2>4. MemoFresh'
    <3>1. \A e \in Callers : InDate(e)' => query'[e].dawn <= ratioDay
      <4>1. \A e \in Callers : InDate(e)' => query'[e] = query[e]
        BY <2>1 DEF Learn, Goto, InDate, TypeOK
      <4> QED BY <4>1 DEF DawnInv, DawnBehind
    <3> QED BY <2>1, <3>1 DEF DawnInv, DawnBehind, MemoFresh
  <2> QED BY <2>1, <2>2, <2>3, <2>4, LearnDawn
<1>4. CASE DiscoverFail(c)
  <2>1. Quiet
    <3>1. ASSUME NEW d \in Callers PROVE QuietFor(d)
      BY <1>4 DEF DiscoverFail, Forget, Goto, QuietFor, InDate, TypeOK, DawnInv, FailedIsDone
    <3> QED BY <1>4, <3>1 DEF DiscoverFail, LearnNothing, Quiet
  <2> QED BY <2>1, QuietDawn
<1> QED BY <1>1, <1>2, <1>3, <1>4

LEMMA CallDawn ==
  ASSUME TypeInv, DawnInv, NEW c \in Callers,
         \/ Look(c) \/ ApiOk(c) \/ ApiMiss(c) \/ DlOk(c) \/ DlFail(c)
         \/ Scan(c) \/ RangeDlOk(c) \/ RangeDlFail(c) \/ Put(c)
  PROVE  DawnInv'
<1> USE DEF TypeInv, DawnInv, FailedIsDone
<1>1. CASE Look(c)
  <2>1. ASSUME NEW d \in Callers PROVE QuietFor(d)
    BY <1>1 DEF Look, Goto, QuietFor, InDate, TypeOK
  <2> QED BY <1>1, <2>1, QuietDawn DEF Look, Quiet
<1>2. CASE ApiMiss(c) \/ Scan(c)
  <2>1. ASSUME NEW d \in Callers PROVE QuietFor(d)
    BY <1>2 DEF ApiMiss, Scan, Goto, QuietFor, InDate, TypeOK
  <2> QED BY <1>2, <2>1, QuietDawn DEF ApiMiss, Scan, Quiet
<1>3. CASE RangeDlOk(c) \/ RangeDlFail(c)
  <2>1. ASSUME NEW d \in Callers PROVE QuietFor(d)
    BY <1>3 DEF RangeDlOk, RangeDlFail, Goto, QuietFor, InDate, TypeOK
  <2> QED BY <1>3, <2>1, QuietDawn DEF RangeDlOk, RangeDlFail, Quiet
<1>4. CASE DlFail(c)
  <2>1. ASSUME NEW d \in Callers PROVE QuietFor(d)
    BY <1>4 DEF DlFail, Loaders, Putters, QuietFor, InDate, TypeOK
  <2> QED BY <1>4, <2>1, QuietDawn DEF DlFail, Quiet
<1>5. CASE Put(c)
  <2>1. ASSUME NEW d \in Callers PROVE QuietFor(d)
    BY <1>5 DEF Put, Goto, AfterPut, QuietFor, InDate, TypeOK
  <2> QED BY <1>5, <2>1, QuietDawn DEF Put, Quiet
<1>6. ASSUME NEW r, Settle(c, r), pc[c] \in {"api", "dl"},
             UNCHANGED <<sourceVars, memo, lock, query, asOf, todo, groups>>
      PROVE  Quiet
  <2>1. ASSUME NEW d \in Callers PROVE QuietFor(d)
    BY <1>6 DEF Settle, Loaders, Putters, AfterPut, QuietFor, InDate, TypeOK
  <2> QED BY <1>6, <2>1 DEF Quiet
<1>7. CASE ApiOk(c) \/ DlOk(c)
  BY <1>6, <1>7, QuietDawn DEF ApiOk, DlOk
<1> QED BY <1>1, <1>2, <1>3, <1>4, <1>5, <1>7

LEMMA ReturnDawn ==
  ASSUME TypeInv, DawnInv, NEW c \in Callers, Return(c)
  PROVE  DawnInv'
<1> USE TaifexAssumption, DawnTypes DEF TypeInv, TypeOK, DawnInv
<1>1. /\ UNCHANGED <<today, ratioDay, dawn, memo>>
      /\ pc'[c] = "idle" /\ asOf'[c] = NoDay /\ failed'[c] = "no"
      /\ query'[c].dawn = NoDay /\ query'[c].kind = "fetch"
      /\ \A d \in Callers \ {c} : /\ pc'[d] = pc[d] /\ query'[d] = query[d]
                                 /\ asOf'[d] = asOf[d] /\ failed'[d] = failed[d]
  BY DEF Return, NoQuery
<1>2. DawnBehind' /\ NotAhead'
  <2>1. today \in Nat /\ dawn <= ratioDay /\ memo'.at <= today
    BY <1>1 DEF TypeOK, DawnBehind, NotAhead
  <2>2. ASSUME NEW e \in Callers PROVE query'[e].dawn <= ratioDay /\ asOf'[e] <= today
    <3>1. query[e].dawn <= ratioDay /\ asOf[e] <= today
      BY DEF DawnBehind, NotAhead
    <3>2. CASE e = c
      BY <1>1, <2>1, <3>1, <3>2
    <3>3. CASE e # c
      BY <1>1, <3>1, <3>3
    <3> QED BY <3>2, <3>3
  <2> QED BY <1>1, <2>1, <2>2 DEF DawnBehind, NotAhead
<1>3. MemoFresh' /\ FailedIsDone' /\ NotOlderThanDawn'
  BY <1>1 DEF MemoFresh, InDate, FailedIsDone, NotOlderThanDawn
<1> QED BY <1>2, <1>3

LEMMA NextDawn == TypeInv /\ DawnInv /\ [Next]_vars => DawnInv'
<1> SUFFICES ASSUME TypeInv, DawnInv, [Next]_vars PROVE DawnInv'
  OBVIOUS
<1>1. CASE Next
  BY <1>1, WorldDawn, AskDawn, LatestDawn, CallDawn, ReturnDawn DEF Next, Progress
<1>2. CASE UNCHANGED vars
  BY <1>2, QuietDawn DEF Quiet, QuietFor, InDate, DawnInv, FailedIsDone
<1> QED BY <1>1, <1>2

(* A tool called without a date never gets one older than what was known at *)
(* the start of the calendar day of the call.                               *)
THEOREM DefaultDateHolds == Spec => []NotOlderThanDawn
<1>1. Init => DawnInv
  <2> SUFFICES ASSUME Init PROVE DawnInv
    OBVIOUS
  <2>1. \A c \in Callers : query[c].dawn = NoDay /\ query[c].kind = "fetch"
    BY DEF Init, NoQuery
  <2>2. DawnBehind /\ NotAhead
    BY <2>1, TaifexAssumption DEF Init, DawnBehind, NotAhead
  <2>3. MemoFresh /\ FailedIsDone
    BY TaifexAssumption DEF Init, MemoFresh, InDate, FailedIsDone
  <2>4. NotOlderThanDawn
    BY <2>1 DEF NotOlderThanDawn
  <2> QED BY <2>2, <2>3, <2>4 DEF DawnInv
<1>2. DawnInv => NotOlderThanDawn
  BY DEF DawnInv
<1> QED BY <1>1, <1>2, TypeInvariance, NextDawn, PTL DEF Spec
-----------------------------------------------------------------------------
(* What was published is found.  known, the days the download offered when  *)
(* the call began, is offered still when the call downloads, and whatever   *)
(* a call loads for itself is made from such a download, or is the day.     *)
Finding(r, d, known) ==
  /\ d \in known => r = Rows(d)
  /\ r = Gap => known \cap (d - GapWindow)..d = {}

KnownOffered  == \A c \in Callers : query[c].known \subseteq dlDays
Downloads(c)  == pc[c] \in {"put", "putWait"} =>
  query[c].known \cap (query[c].first - GapWindow)..query[c].last \subseteq groups[c]
SingleDay(c)  == pc[c] \in {"look", "wait", "latest", "discoverLatest", "api", "dl"} =>
  query[c].last = query[c].first
OwnFinds(c)   == query[c].ds \notin RawSets => \A d \in Days :
  answer[c][d].src = "own" => Finding(answer[c][d].res, d, query[c].known)
Sourced(c)    == \A d \in Days : answer[c][d] = NoAnswer \/ answer[c][d].src # "none"
Complete(c)   == pc[c] = "done" /\ failed[c] = "no" =>
  \A d \in query[c].first..query[c].last : d \in Days /\ answer[c][d].src # "none"
Finds(c) == Downloads(c) /\ SingleDay(c) /\ OwnFinds(c) /\ Sourced(c) /\ Complete(c)
FoundInv == KnownOffered /\ \A c \in Callers : Finds(c)

LEMMA FetchResultFinds ==
  ASSUME NEW d \in Days, NEW G \in SUBSET TradingDays, NEW S, S \cap (d - GapWindow)..d \subseteq G
  PROVE  Finding(FetchResult(d, G), d, S)
<1> DEFINE near == G \cap (d - GapWindow)..(d - 1)
<1>1. GapWindow \in Nat /\ d \in Int /\ TradingDays \subseteq Int
  BY TaifexAssumption
<1>2. d \in S => d \in G
  BY <1>1
<1>3. ASSUME FetchResult(d, G) = Gap
      PROVE  d \notin G /\ near = {}
  BY <1>3 DEF FetchResult, Rows, Substitute, Gap
<1>4. ASSUME near = {}, d \notin G, NEW e \in S \cap (d - GapWindow)..d
      PROVE  FALSE
  BY <1>1, <1>4
<1>5. d \in S => FetchResult(d, G) = Rows(d)
  BY <1>2 DEF FetchResult
<1>6. FetchResult(d, G) = Gap => S \cap (d - GapWindow)..d = {}
  BY <1>3, <1>4
<1> QED BY <1>5, <1>6 DEF Finding

LEMMA RangeResultFinds ==
  ASSUME NEW c \in Callers, groups[c] \in SUBSET TradingDays, NEW d \in Days, NEW S,
         S \cap (d - GapWindow)..d \subseteq groups[c]
  PROVE  Finding(RangeResult(c, d), d, S)
<1> DEFINE near == groups[c] \cap (d - GapWindow)..(d - 1)
<1>1. GapWindow \in Nat /\ d \in Int /\ TradingDays \subseteq Int
  BY TaifexAssumption
<1>2. d \in S => d \in groups[c]
  BY <1>1
<1>3. ASSUME RangeResult(c, d) = Gap
      PROVE  d \notin groups[c] /\ near = {}
  BY <1>3 DEF RangeResult, Rows, Substitute, Gap
<1>4. ASSUME near = {}, d \notin groups[c], NEW e \in S \cap (d - GapWindow)..d
      PROVE  FALSE
  BY <1>1, <1>4
<1>5. d \in S => RangeResult(c, d) = Rows(d)
  BY <1>2 DEF RangeResult
<1>6. RangeResult(c, d) = Gap => S \cap (d - GapWindow)..d = {}
  BY <1>3, <1>4
<1> QED BY <1>5, <1>6 DEF Finding

(* A caller whose call stands as it did.                                    *)
Same(c) == pc'[c] = pc[c] /\ query'[c] = query[c] /\ groups'[c] = groups[c]
           /\ answer'[c] = answer[c] /\ failed'[c] = failed[c]

LEMMA SameFinds ==
  ASSUME NEW c \in Callers, Finds(c), Same(c)
  PROVE  Finds(c)'
BY DEF Finds, Same, Downloads, SingleDay, OwnFinds, Sourced, Complete

(* What is asked, apart from the day, stays while the latest day is found.  *)
LEMMA LatestKeepsKnown ==
  ASSUME TypeInv, NEW c \in Callers, Consult(c) \/ DiscoverOk(c) \/ DiscoverFail(c)
  PROVE  /\ UNCHANGED <<sourceVars, store, groups, answer>>
         /\ \A d \in Callers \ {c} : Same(d)
         /\ query'[c].known = query[c].known /\ query'[c].ds = query[c].ds
         /\ query'[c].last = query'[c].first \/ query'[c] = query[c]
         /\ \/ pc[c] = "date" /\ pc'[c] \in {"look", "discoverDate"}
            \/ pc[c] = "discoverDate" /\ pc'[c] = "look"
            \/ /\ pc[c] \in {"latest", "discoverLatest"} /\ query'[c] = query[c]
               /\ pc'[c] \in {"discoverLatest", "api", "dl"}
            \/ pc'[c] = "done" /\ failed'[c] = "upstream"
         /\ pc'[c] = "look" => query'[c].last = query'[c].first
<1> DEFINE Goal ==
         /\ UNCHANGED <<sourceVars, store, groups, answer>>
         /\ \A d \in Callers \ {c} : Same(d)
         /\ query'[c].known = query[c].known /\ query'[c].ds = query[c].ds
         /\ query'[c].last = query'[c].first \/ query'[c] = query[c]
         /\ \/ pc[c] = "date" /\ pc'[c] \in {"look", "discoverDate"}
            \/ pc[c] = "discoverDate" /\ pc'[c] = "look"
            \/ /\ pc[c] \in {"latest", "discoverLatest"} /\ query'[c] = query[c]
               /\ pc'[c] \in {"discoverLatest", "api", "dl"}
            \/ pc'[c] = "done" /\ failed'[c] = "upstream"
         /\ pc'[c] = "look" => query'[c].last = query'[c].first
<1> SUFFICES Goal
  OBVIOUS
<1> USE DEF TypeInv, TypeOK, Same
<1>1. ASSUME NEW day, Learn(c, day), pc[c] \in {"date", "discoverDate", "latest", "discoverLatest"},
             UNCHANGED <<sourceVars, store, groups, answer, failed>>
      PROVE  Goal
  <2>1. CASE pc[c] \in {"date", "discoverDate"}
    <3>1. query' = [query EXCEPT ![c] = [@ EXCEPT !.first = day, !.last = day]]
      BY <1>1, <2>1 DEF Learn, Query
    <3>2. query'[c].first = day /\ query'[c].last = day /\ query'[c].known = query[c].known
          /\ query'[c].ds = query[c].ds
      BY <3>1 DEF Query
    <3> QED BY <1>1, <2>1, <3>1, <3>2 DEF Learn, Goto
  <2>2. CASE pc[c] \in {"latest", "discoverLatest"}
    BY <1>1, <2>2 DEF Learn, Goto
  <2> QED BY <1>1, <2>1, <2>2
<1>2. CASE Consult(c)
  <2>1. CASE Remembered(c)
    <3> HIDE DEF Goal
    <3> QED BY <1>1, <1>2, <2>1 DEF Consult
  <2>2. CASE ~Remembered(c)
    BY <1>2, <2>2 DEF Consult, Goto
  <2> QED BY <2>1, <2>2
<1>3. CASE DiscoverOk(c)
  <2> HIDE DEF Goal
  <2> QED BY <1>1, <1>3 DEF DiscoverOk
<1>4. CASE DiscoverFail(c)
  BY <1>4 DEF DiscoverFail, Goto
<1> QED BY <1>2, <1>3, <1>4

(* A call begins with nothing and knows what the download offers.           *)
LEMMA AskBegins ==
  ASSUME TypeInv, NEW c \in Callers, Ask(c)
  PROVE  /\ UNCHANGED <<sourceVars, store, groups, answer>>
         /\ \A d \in Callers \ {c} : Same(d)
         /\ query'[c].known = dlDays /\ pc[c] = "idle"
         /\ pc'[c] \in {"look", "date", "scan"} /\ (pc'[c] = "look" => query'[c].last = query'[c].first)
<1> DEFINE Goal ==
         /\ UNCHANGED <<sourceVars, store, groups, answer>>
         /\ \A d \in Callers \ {c} : Same(d)
         /\ query'[c].known = dlDays /\ pc[c] = "idle"
         /\ pc'[c] \in {"look", "date", "scan"} /\ (pc'[c] = "look" => query'[c].last = query'[c].first)
<1> SUFFICES Goal
  OBVIOUS
<1>1. ASSUME NEW kind, NEW ds, NEW first, NEW last, NEW label \in {"look", "date", "scan"},
             Start(c, kind, ds, first, last, label), label = "look" => last = first
      PROVE  Goal
  <2>1. query'[c] = [kind |-> kind, ds |-> ds, first |-> first, last |-> last,
                     known |-> dlDays, dawn |-> dawn]
    BY <1>1 DEF Start, TypeInv, TypeOK
  <2> QED BY <1>1, <2>1 DEF Start, Goto, Same, TypeInv, TypeOK
<1> HIDE DEF Goal
<1> QED BY <1>1 DEF Ask, AskDay, AskLatest, AskRange

LEMMA NextKnown ==
  ASSUME TypeInv, KnownOffered, [Next]_vars
  PROVE  KnownOffered'
<1> USE TaifexAssumption DEF KnownOffered
<1>1. CASE Exchange
  BY <1>1 DEF Exchange, Midnight, PublishRatio, PublishApi, PublishDl
<1>2. CASE Restart
  BY <1>2 DEF Restart, NoQuery
<1>3. ASSUME NEW c \in Callers, Ask(c)
      PROVE  KnownOffered'
  <2>1. UNCHANGED dlDays /\ \A d \in Callers : query'[d].known \in {query[d].known, dlDays}
    BY <1>3, AskBegins DEF Same
  <2> QED BY <2>1
<1>4. ASSUME NEW c \in Callers, Consult(c) \/ DiscoverOk(c) \/ DiscoverFail(c)
      PROVE  KnownOffered'
  <2>1. UNCHANGED dlDays /\ \A d \in Callers : query'[d].known = query[d].known
    BY <1>4, LatestKeepsKnown DEF Same
  <2> QED BY <2>1
<1>5. ASSUME NEW c \in Callers, Return(c)
      PROVE  KnownOffered'
  BY <1>5 DEF Return, NoQuery, TypeInv, TypeOK
<1>6. ASSUME NEW c \in Callers, Look(c) \/ ApiOk(c) \/ ApiMiss(c) \/ DlOk(c) \/ DlFail(c)
                               \/ Scan(c) \/ RangeDlOk(c) \/ RangeDlFail(c) \/ Put(c)
      PROVE  KnownOffered'
  BY <1>6 DEF Look, ApiOk, ApiMiss, DlOk, DlFail, Scan, RangeDlOk, RangeDlFail, Put
<1>7. CASE UNCHANGED vars
  BY <1>7
<1> QED BY <1>1, <1>2, <1>3, <1>4, <1>5, <1>6, <1>7 DEF Next, Progress

LEMMA WorldFinds ==
  ASSUME TypeInv, FoundInv, Exchange \/ Restart, NEW d \in Callers
  PROVE  Finds(d)'
<1>0. Finds(d)
  BY DEF FoundInv
<1>1. CASE Exchange
  BY <1>0, <1>1, SameFinds DEF Exchange, Midnight, PublishRatio, PublishApi, PublishDl, Same
<1>2. CASE Restart
  <2>1. pc'[d] = "idle" /\ answer'[d] = NoAnswers
    BY <1>2 DEF Restart
  <2> QED BY <2>1 DEF Finds, Downloads, SingleDay, OwnFinds, Sourced, Complete, NoAnswers, NoAnswer
<1> QED BY <1>1, <1>2

LEMMA AskFinds ==
  ASSUME TypeInv, RowsInv, FoundInv, NEW c \in Callers, Ask(c) \/ Return(c), NEW d \in Callers
  PROVE  Finds(d)'
<1>0. Finds(d)
  BY DEF FoundInv
<1>1. CASE d # c
  <2>1. Same(d)
    BY <1>1, AskBegins DEF Return, Same, TypeInv, TypeOK
  <2> QED BY <1>0, <2>1, SameFinds
<1>2. CASE d = c /\ Ask(c)
  <2>1. answer'[c] = NoAnswers /\ pc'[c] \in {"look", "date", "scan"}
        /\ (pc'[c] = "look" => query'[c].last = query'[c].first)
    BY <1>2, AskBegins DEF RowsInv, IdleIsEmpty
  <2> QED BY <1>2, <2>1 DEF Finds, Downloads, SingleDay, OwnFinds, Sourced, Complete, NoAnswers, NoAnswer
<1>3. CASE d = c /\ Return(c)
  <2>1. answer'[c] = NoAnswers /\ pc'[c] = "idle"
    BY <1>3 DEF Return, TypeInv, TypeOK
  <2> QED BY <1>3, <2>1 DEF Finds, Downloads, SingleDay, OwnFinds, Sourced, Complete, NoAnswers, NoAnswer
<1> QED BY <1>1, <1>2, <1>3

LEMMA LatestFinds ==
  ASSUME TypeInv, FoundInv, NEW c \in Callers, Consult(c) \/ DiscoverOk(c) \/ DiscoverFail(c),
         NEW d \in Callers
  PROVE  Finds(d)'
<1>0. Finds(d)
  BY DEF FoundInv
<1>1. CASE d # c
  BY <1>0, <1>1, LatestKeepsKnown, SameFinds
<1>2. CASE d = c
  <2>1. OwnFinds(c)' /\ Sourced(c)'
    BY <1>0, <1>2, LatestKeepsKnown DEF Finds, OwnFinds, Sourced
  <2>2. Downloads(c)' /\ SingleDay(c)' /\ Complete(c)'
    BY <1>0, <1>2, LatestKeepsKnown DEF Finds, Downloads, SingleDay, Complete
  <2> QED BY <1>2, <2>1, <2>2 DEF Finds
<1> QED BY <1>1, <1>2

(* A call for one day that is given a result for it.                        *)
LEMMA OneDayFinds ==
  ASSUME TypeInv, NEW c \in Callers, Finds(c), NEW r, NEW src \in {"own", "shared", "store"},
         pc[c] \in {"look", "wait", "latest", "discoverLatest", "api", "dl"}, pc'[c] = "done",
         query'[c] = query[c], answer'[c] = [answer[c] EXCEPT ![query[c].first] = Got(r, src)],
         src = "own" /\ query[c].ds \notin RawSets => Finding(r, query[c].first, query[c].known)
  PROVE  Finds(c)'
<1>1. query[c].first \in Days /\ query[c].last = query[c].first
  BY DEF TypeInv, Stands, Resolved, Finds, SingleDay
<1>2. /\ answer'[c][query[c].first].res = r /\ answer'[c][query[c].first].src = src
      /\ \A d \in Days : d # query[c].first => answer'[c][d] = answer[c][d]
  <2>1. answer[c] \in [Days -> Answer]
    BY DEF TypeInv, TypeOK
  <2>2. answer'[c][query[c].first] = Got(r, src) /\ \A d \in Days : d # query[c].first => answer'[c][d] = answer[c][d]
    BY <1>1, <2>1
  <2> QED BY <2>2 DEF Got
<1>3. OwnFinds(c)' /\ Sourced(c)'
  BY <1>2 DEF Finds, OwnFinds, Sourced
<1>4. \A d \in query[c].first..query[c].last : d = query[c].first
  BY <1>1, TaifexAssumption
<1>5. Downloads(c)' /\ SingleDay(c)' /\ Complete(c)'
  BY <1>1, <1>2, <1>4 DEF Downloads, SingleDay, Complete
<1> QED BY <1>3, <1>5 DEF Finds

LEMMA LookFinds ==
  ASSUME TypeInv, FoundInv, NEW c \in Callers, Look(c), NEW d \in Callers
  PROVE  Finds(d)'
<1>0. Finds(d)
  BY DEF FoundInv
<1>1. CASE d # c
  <2>1. Same(d)
    BY <1>1 DEF Look, Goto, Same, TypeInv, TypeOK
  <2> QED BY <1>0, <2>1, SameFinds
<1>2. CASE d = c /\ Cached(KeyOf(c))
        /\ answer' = [answer EXCEPT ![c][query[c].first] = Got(store[KeyOf(c)].res, "store")]
        /\ Goto(c, "done")
  <2>1. answer'[c] = [answer[c] EXCEPT ![query[c].first] = Got(store[KeyOf(c)].res, "store")]
    BY <1>2 DEF TypeInv, TypeOK
  <2>2. pc[c] = "look" /\ pc'[c] = "done" /\ query'[c] = query[c]
    BY <1>2 DEF Look, Goto, TypeInv, TypeOK
  <2> QED BY <1>0, <1>2, <2>1, <2>2, OneDayFinds
<1>3. CASE d = c /\ answer' = answer /\ (Goto(c, "wait") \/ Goto(c, "latest"))
  <2>1. pc[c] = "look" /\ pc'[c] \in {"wait", "latest"} /\ query' = query
    BY <1>3 DEF Look, Goto, TypeInv, TypeOK
  <2> QED BY <1>0, <1>3, <2>1 DEF Finds, Downloads, SingleDay, OwnFinds, Sourced, Complete
<1> QED BY <1>1, <1>2, <1>3 DEF Look

(* A range that puts one of its days.                                       *)
LEMMA Put1Finds ==
  ASSUME TypeInv, NEW c \in Callers, Finds(c), pc[c] \in {"put", "putWait"},
         query'[c] = query[c], groups'[c] = groups[c], answer'[c] = Put1(c), pc'[c] = AfterPut(c)
  PROVE  Finds(c)'
<1> DEFINE d == PutDay(c)
           r == RangeResult(c, d)
<1>1. d \in Days /\ d \in Missing(c)
  BY PutDayIsMissing DEF TypeInv
<1>2. query[c].first..query[c].last \subseteq Days /\ query[c].first \in Int /\ query[c].last \in Int
  BY RangeIsOfDays, TaifexAssumption DEF TypeInv, TypeOK, Stands, Query
<1>3. answer[c] \in [Days -> Answer] /\ groups[c] \in SUBSET TradingDays
  BY DEF TypeInv, TypeOK
<1>4. d \in query[c].first..query[c].last
  BY <1>1 DEF Missing
<1>5. Finding(r, d, query[c].known)
  <2>1. query[c].known \cap (d - GapWindow)..d \subseteq groups[c]
    <3>1. (d - GapWindow)..d \subseteq (query[c].first - GapWindow)..query[c].last
      BY <1>2, <1>4, TaifexAssumption
    <3> QED BY <3>1 DEF Finds, Downloads
  <2> QED BY <1>1, <1>3, <2>1, RangeResultFinds
<1> HIDE DEF d, r
<1>6. answer'[c] = [answer[c] EXCEPT ![d] = Got(r, "own")]
  BY DEF Put1, d, r
<1>7. /\ answer'[c][d].res = r /\ answer'[c][d].src = "own"
      /\ \A e \in Days : e # d => answer'[c][e] = answer[c][e]
  <2>1. answer'[c][d] = Got(r, "own") /\ \A e \in Days : e # d => answer'[c][e] = answer[c][e]
    BY <1>1, <1>3, <1>6
  <2> QED BY <2>1 DEF Got
<1>8. OwnFinds(c)' /\ Sourced(c)' /\ Downloads(c)'
  BY <1>5, <1>7 DEF Finds, OwnFinds, Sourced, Downloads
<1>9. SingleDay(c)' /\ Complete(c)'
  <2>1. pc'[c] = "done" => Missing(c) = {d}
    BY DEF AfterPut, d
  <2>2. pc'[c] \in {"done", "put"}
    BY DEF AfterPut
  <2>3. Missing(c) = {d} => \A e \in query[c].first..query[c].last : e = d \/ answer[c][e] # NoAnswer
    BY DEF Missing
  <2> QED BY <1>2, <1>7, <2>1, <2>2, <2>3 DEF Finds, Sourced, SingleDay, Complete
<1> QED BY <1>8, <1>9 DEF Finds

LEMMA SettleFinds ==
  ASSUME TypeInv, FoundInv, NEW c \in Callers, NEW r, Settle(c, r),
         pc[c] \in {"api", "dl"}, UNCHANGED <<query, groups>>,
         query[c].ds \notin RawSets => Finding(r, query[c].first, query[c].known),
         NEW d \in Callers
  PROVE  Finds(d)'
<1>0. Finds(d) /\ Finds(c)
  BY DEF FoundInv
<1> DEFINE k == KeyOf(c)
<1>1. query[c].first \in Days
  BY DEF TypeInv, Stands, Resolved
<1>2. k[2] = query[c].first
  BY DEF KeyOf
<1>3. /\ answer'[d] = IF d = c THEN [answer[d] EXCEPT ![k[2]] = Got(r, "own")]
           ELSE IF d \in Loaders(k) THEN [answer[d] EXCEPT ![k[2]] = Got(r, "shared")]
           ELSE IF d \in Putters(k) /\ r # Gap THEN Put1(d) ELSE answer[d]
      /\ pc'[d] =
           IF d \in {c} \cup Loaders(k) THEN "done"
           ELSE IF d \in Putters(k) THEN IF r = Gap THEN "done" ELSE AfterPut(d) ELSE pc[d]
      /\ failed'[d] = IF d \in Putters(k) /\ r = Gap THEN "gap" ELSE failed[d]
      /\ query'[d] = query[d] /\ groups'[d] = groups[d]
  BY DEF Settle
<1>4. d \in Loaders(k) => pc[d] = "wait" /\ query[d].first = k[2]
  BY <1>2 DEF Loaders, KeyOf
<1>5. d \in Putters(k) => pc[d] = "putWait"
  BY DEF Putters
<1> HIDE DEF k
<1>6. CASE d = c
  <2>1. answer'[c] = [answer[c] EXCEPT ![query[c].first] = Got(r, "own")] /\ pc'[c] = "done"
    BY <1>2, <1>3, <1>6
  <2> QED BY <1>0, <1>3, <1>6, <2>1, OneDayFinds
<1>7. CASE d # c /\ d \in Loaders(k)
  <2>1. answer'[d] = [answer[d] EXCEPT ![query[d].first] = Got(r, "shared")] /\ pc'[d] = "done"
    BY <1>3, <1>4, <1>7
  <2> QED BY <1>0, <1>3, <1>4, <1>7, <2>1, OneDayFinds
<1>8. CASE d # c /\ d \notin Loaders(k) /\ d \in Putters(k) /\ r # Gap
  BY <1>0, <1>3, <1>5, <1>8, Put1Finds
<1>9. CASE d # c /\ d \notin Loaders(k) /\ d \in Putters(k) /\ r = Gap
  BY <1>0, <1>3, <1>9 DEF Finds, Downloads, SingleDay, OwnFinds, Sourced, Complete
<1>10. CASE d # c /\ d \notin Loaders(k) /\ d \notin Putters(k)
  BY <1>0, <1>3, <1>10, SameFinds DEF Same
<1> QED BY <1>6, <1>7, <1>8, <1>9, <1>10

LEMMA LoadFinds ==
  ASSUME TypeInv, FoundInv, NEW c \in Callers, ApiOk(c) \/ ApiMiss(c) \/ DlOk(c) \/ DlFail(c),
         NEW d \in Callers
  PROVE  Finds(d)'
<1>0. Finds(d) /\ query[c].first \in Days
  BY DEF FoundInv, TypeInv, Stands, Resolved, ApiOk, ApiMiss, DlOk, DlFail
<1>1. CASE ApiOk(c)
  <2>1. PICK r \in ApiRows(query[c].ds, query[c].first) : Settle(c, r)
    BY <1>1 DEF ApiOk
  <2>2. query[c].ds \notin RawSets => r = Rows(query[c].first)
    BY <2>1 DEF ApiRows
  <2>3. query[c].ds \notin RawSets => Finding(r, query[c].first, query[c].known)
    BY <2>2 DEF Finding, Rows, Gap
  <2> QED BY <1>1, <2>1, <2>3, SettleFinds DEF ApiOk
<1>2. CASE ApiMiss(c)
  BY <1>0, <1>2 DEF ApiMiss, Goto, Finds, Downloads, SingleDay, OwnFinds, Sourced, Complete, TypeInv, TypeOK
<1>3. CASE DlOk(c)
  <2> DEFINE G == Downloaded(query[c].first, query[c].first)
             r == FetchResult(query[c].first, G)
  <2>1. G \in SUBSET TradingDays
    BY DEF Downloaded, TypeInv, TypeOK
  <2>2. query[c].known \cap (query[c].first - GapWindow)..query[c].first \subseteq G
    BY DEF Downloaded, FoundInv, KnownOffered
  <2>3. Finding(r, query[c].first, query[c].known)
    BY <1>0, <2>1, <2>2, FetchResultFinds
  <2>4. Settle(c, r) /\ pc[c] \in {"api", "dl"} /\ UNCHANGED <<query, groups>>
    BY <1>3 DEF DlOk
  <2> HIDE DEF r
  <2> QED BY <2>3, <2>4, SettleFinds
<1>4. CASE DlFail(c)
  <2> DEFINE all == {c} \cup Loaders(KeyOf(c)) \cup Putters(KeyOf(c))
  <2>1. /\ pc'[d] = IF d \in all THEN "done" ELSE pc[d]
        /\ failed'[d] = IF d \in all THEN "upstream" ELSE failed[d]
        /\ query'[d] = query[d] /\ groups'[d] = groups[d] /\ answer'[d] = answer[d]
    BY <1>4 DEF DlFail
  <2> HIDE DEF all
  <2>2. CASE d \in all
    BY <1>0, <2>1, <2>2 DEF Finds, Downloads, SingleDay, OwnFinds, Sourced, Complete
  <2>3. CASE d \notin all
    BY <1>0, <2>1, <2>3, SameFinds DEF Same
  <2> QED BY <2>2, <2>3
<1> QED BY <1>1, <1>2, <1>3, <1>4

LEMMA RangeFinds ==
  ASSUME TypeInv, FoundInv, NEW c \in Callers,
         Scan(c) \/ RangeDlOk(c) \/ RangeDlFail(c) \/ Put(c), NEW d \in Callers
  PROVE  Finds(d)'
<1>0. Finds(d) /\ Finds(c)
  BY DEF FoundInv
<1>1. CASE d # c
  <2>1. Same(d)
    BY <1>1 DEF Scan, RangeDlOk, RangeDlFail, Put, Goto, Same, TypeInv, TypeOK
  <2> QED BY <1>0, <2>1, SameFinds
<1>2. CASE d = c /\ Scan(c)
  <2> DEFINE e == Earliest(todo[c])
             k == <<query[c].ds, e>>
             full == \A b \in query[c].first..query[c].last : answer'[c][b] # NoAnswer
  <2>1. e \in Days
    <3>1. todo[c] \subseteq Days /\ todo[c] # {}
      BY <1>2 DEF Scan, TypeInv, Stands, Scanning, TypeOK
    <3> QED BY <3>1, EarliestIsLeast
  <2>2. query[c].first..query[c].last \subseteq Days
    BY <1>2, RangeIsOfDays DEF Scan, TypeInv, Stands
  <2>3. /\ answer' = answer \/ answer' = [answer EXCEPT ![c][e] = Got(store[k].res, "store")]
        /\ pc' = [pc EXCEPT ![c] =
             IF todo[c] # {e} THEN "scan" ELSE IF full THEN "done" ELSE "rangeDl"]
        /\ pc[c] = "scan" /\ query' = query /\ groups' = groups
    BY <1>2 DEF Scan, Goto
  <2> HIDE DEF e, k, full
  <2>4. \A b \in Days : \/ answer'[c][b] = answer[c][b]
                       \/ answer'[c][b].src = "store"
    <3>1. answer[c] \in [Days -> Answer] /\ answer \in [Callers -> [Days -> Answer]]
      BY DEF TypeInv, TypeOK
    <3>2. CASE answer' = answer
      BY <3>2
    <3>3. CASE answer' = [answer EXCEPT ![c][e] = Got(store[k].res, "store")]
      <4>1. answer'[c] = [answer[c] EXCEPT ![e] = Got(store[k].res, "store")]
        BY <3>1, <3>3
      <4>2. answer'[c][e] = Got(store[k].res, "store") /\ \A b \in Days : b # e => answer'[c][b] = answer[c][b]
        BY <2>1, <3>1, <4>1
      <4> QED BY <4>2 DEF Got
    <3> QED BY <2>3, <3>2, <3>3
  <2>5. OwnFinds(c)' /\ Sourced(c)'
    BY <1>0, <2>3, <2>4 DEF Finds, OwnFinds, Sourced
  <2>6. pc'[c] \in {"scan", "rangeDl"} \/ (pc'[c] = "done" /\ full)
    BY <2>3 DEF TypeInv, TypeOK
  <2>7. Downloads(c)' /\ SingleDay(c)' /\ Complete(c)'
    BY <2>2, <2>3, <2>5, <2>6 DEF full, Downloads, SingleDay, Complete, Sourced
  <2> QED BY <1>2, <2>5, <2>7 DEF Finds
<1>3. CASE d = c /\ RangeDlOk(c)
  <2>1. /\ groups'[c] = Downloaded(query[c].first, query[c].last) /\ pc'[c] = "put"
        /\ UNCHANGED <<query, answer, failed>>
    BY <1>3 DEF RangeDlOk, Goto, TypeInv, TypeOK
  <2>2. Downloads(c)'
    BY <2>1 DEF Downloads, Downloaded, FoundInv, KnownOffered
  <2> QED BY <1>0, <1>3, <2>1, <2>2 DEF Finds, SingleDay, OwnFinds, Sourced, Complete
<1>4. CASE d = c /\ RangeDlFail(c)
  <2>1. /\ pc'[c] = "done" /\ failed'[c] = "upstream" /\ UNCHANGED <<query, answer, groups>>
    BY <1>4 DEF RangeDlFail, Goto, TypeInv, TypeOK
  <2> QED BY <1>0, <1>4, <2>1 DEF Finds, Downloads, SingleDay, OwnFinds, Sourced, Complete
<1>5. CASE d = c /\ Put(c)
  <2>1. /\ pc[c] = "put" /\ UNCHANGED <<query, groups, failed>>
        /\ \/ pc'[c] = "putWait" /\ answer' = answer
           \/ pc'[c] = AfterPut(c) /\ answer'[c] = Put1(c)
    BY <1>5 DEF Put, Goto, TypeInv, TypeOK
  <2>2. CASE pc'[c] = "putWait" /\ answer' = answer
    BY <1>0, <1>5, <2>1, <2>2 DEF Finds, Downloads, SingleDay, OwnFinds, Sourced, Complete
  <2>3. CASE pc'[c] = AfterPut(c) /\ answer'[c] = Put1(c)
    BY <1>0, <1>5, <2>1, <2>3, Put1Finds
  <2> QED BY <2>1, <2>2, <2>3
<1> QED BY <1>1, <1>2, <1>3, <1>4, <1>5

LEMMA NextFound ==
  ASSUME TypeInv, RowsInv, FoundInv, [Next]_vars
  PROVE  FoundInv'
<1>1. KnownOffered'
  BY NextKnown DEF FoundInv
<1>2. ASSUME NEW d \in Callers PROVE Finds(d)'
  <2>1. CASE Next
    BY <2>1, WorldFinds, AskFinds, LatestFinds, LookFinds, LoadFinds, RangeFinds DEF Next, Progress
  <2>2. CASE UNCHANGED vars
    BY <2>2, SameFinds DEF FoundInv, Same
  <2> QED BY <2>1, <2>2
<1> QED BY <1>1, <1>2 DEF FoundInv

(* What the download offered when a call began is found by a call that      *)
(* loads for itself, and a range that ends well lacks no day.               *)
THEOREM PublishedDayHolds == Spec => []PublishedDayIsFound
<1>1. Init => RowsInv /\ FoundInv
  <2> SUFFICES ASSUME Init PROVE RowsInv /\ FoundInv
    OBVIOUS
  <2>1. IdleIsEmpty /\ KeptRows /\ \A c \in Callers : AnswerRows(c)
    BY GapIsOfItsDay DEF Init, IdleIsEmpty, KeptRows, NotKept, AnswerRows
  <2>2. KnownOffered
    BY DEF Init, NoQuery, KnownOffered
  <2>3. \A c \in Callers : Finds(c)
    BY DEF Init, Finds, Downloads, SingleDay, OwnFinds, Sourced, Complete, NoAnswers, NoAnswer
  <2> QED BY <2>1, <2>2, <2>3 DEF RowsInv, FoundInv
<1>2. FoundInv => PublishedDayIsFound
  BY DEF FoundInv, Finds, OwnFinds, Complete, Finding, PublishedDayIsFound
<1>3. TypeInv /\ RowsInv /\ FoundInv /\ [Next]_vars => RowsInv' /\ FoundInv'
  BY NextRows, NextFound
<1> QED BY <1>1, <1>2, <1>3, TypeInvariance, PTL DEF Spec
=============================================================================
