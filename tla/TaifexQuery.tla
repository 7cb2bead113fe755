----------------------------- MODULE TaifexQuery -----------------------------
(***************************************************************************)
(* The TAIFEX query layer of pkg/provider: one day's rows of a dataset come *)
(* from the API while that day is the latest trading day (hot tier), else   *)
(* from a CSV download of a window of days (cold tier), with a neighbouring *)
(* day as a substitute; results are kept under (dataset, day) for Ttl days. *)
(*                                                                         *)
(* Days are numbers, contracts are left out, and rows are abstracted to the *)
(* day they are of.  A look at the cache with the joining of a flight, and  *)
(* a load's end with the store and the release of the waiters, are one step *)
(* each here; ReadThroughCache takes them apart.                           *)
(* known and dawn only record history.                                     *)
(***************************************************************************)
EXTENDS Integers, FiniteSets

CONSTANTS
  Callers, NoCaller,
  Datasets,
  ApiSets,      \* datasets the API offers (apiSupported)
  DlSets,       \* datasets the download offers (dlSupported)
  RawSets,      \* datasets whose API rows are passed through unfiltered
  TradingDays,
  FirstDay,     \* the calendar day on which the process starts
  LastDay,      \* bound: the calendar stops here
  QueryDays,    \* bound: the dates callers ask for, once they have come
  GapWindow,    \* gapRetryWindow
  Ttl,          \* the policy's lifetime of a result, in days
  RangeDays     \* bound: how many days a range has

ASSUME TaifexAssumption ==
  /\ NoCaller \notin Callers
  /\ Datasets # {}
  /\ ApiSets \subseteq Datasets /\ DlSets \subseteq Datasets
  /\ RawSets \subseteq Datasets \ DlSets
  /\ TradingDays \subseteq 1..LastDay
  /\ FirstDay \in 1..LastDay /\ LastDay \in Nat
  /\ QueryDays \subseteq 1..LastDay
  /\ GapWindow \in Nat /\ Ttl \in Nat \ {0} /\ RangeDays \in Nat \ {0}

VARIABLES
  today,      \* the calendar day of q.now
  ratioDay,   \* the newest day in the API's PutCallRatio
  apiDay,     \* the day the API's other endpoints serve
  dlDays,     \* the days the download offers
  dawn,       \* ratioDay when the current calendar day began
  memo,       \* latestAt and latestDay
  lock,       \* who holds q.mu
  flight,     \* per key, the leader of its load
  store,      \* per key, the kept result
  pc, query, asOf,        \* per caller
  todo, groups,           \* per caller, FetchRange: days to look up, rows downloaded
  answer, failed          \* per caller

sourceVars == <<today, ratioDay, apiDay, dlDays, dawn>>
sharedVars == <<memo, lock, flight, store>>
callVars   == <<pc, query, asOf, todo, groups, answer, failed>>
vars == <<sourceVars, sharedVars, callVars>>
-----------------------------------------------------------------------------
Days == 1..LastDay
Keys == Datasets \X Days
NoDay == 0

(* A result: rows of the day of; from names the substituted day (DerivedFrom),*)
(* and a gap has a Note and no rows.                                        *)
Result   == [kind : {"data", "gap"}, of : 0..LastDay, from : 0..LastDay]
Rows(d)       == [kind |-> "data", of |-> d, from |-> NoDay]
Substitute(d) == [kind |-> "data", of |-> d, from |-> d]
Gap           == [kind |-> "gap", of |-> NoDay, from |-> NoDay]
Kept     == [res : Result, exp : Nat]
NotKept  == [res |-> Gap, exp |-> 0]

(* src: the call's own load, another call's load it joined, or the store.   *)
Answer   == [res : Result, src : {"none", "own", "shared", "store"}]
NoAnswer == [res |-> Gap, src |-> "none"]
NoAnswers == [d \in Days |-> NoAnswer]
Got(r, src) == [res |-> r, src |-> src]

Query == [kind : {"fetch", "latest", "range"}, ds : Datasets, first : 0..LastDay,
          last : 0..LastDay, known : SUBSET Days, dawn : 0..LastDay]
NoQuery == [kind |-> "fetch", ds |-> CHOOSE ds \in Datasets : TRUE, first |-> NoDay,
            last |-> NoDay, known |-> {}, dawn |-> NoDay]

Pcs == {"idle", "date", "discoverDate", "look", "wait", "latest", "discoverLatest",
        "api", "dl", "scan", "rangeDl", "put", "putWait", "done"}

KeyOf(c)   == <<query[c].ds, query[c].first>>
Cached(k)  == today < store[k].exp
Earliest(S) == CHOOSE d \in S : \A e \in S : d <= e
Newest(S)   == CHOOSE d \in S : \A e \in S : e <= d
(* In FetchRange, once the days have been looked up, the missing ones.      *)
Missing(c) == {d \in query[c].first..query[c].last : answer[c][d] = NoAnswer}
PutDay(c)  == Earliest(Missing(c))
Loaders(k) == {d \in Callers : pc[d] = "wait" /\ KeyOf(d) = k}
Putters(k) == {d \in Callers : pc[d] = "putWait" /\ <<query[d].ds, PutDay(d)>> = k}

Init ==
  /\ today = FirstDay
  /\ ratioDay \in {d \in 0..FirstDay : d \in TradingDays \cup {0} /\
                     \A e \in TradingDays : e < FirstDay => e <= d}
  /\ apiDay = ratioDay
  /\ dlDays = {d \in TradingDays : d < FirstDay}
  /\ dawn = ratioDay
  /\ memo = [at |-> NoDay, day |-> NoDay]
  /\ lock = NoCaller
  /\ flight = [k \in Keys |-> NoCaller]
  /\ store = [k \in Keys |-> NotKept]
  /\ pc = [c \in Callers |-> "idle"]
  /\ query = [c \in Callers |-> NoQuery]
  /\ asOf = [c \in Callers |-> NoDay]
  /\ todo = [c \in Callers |-> {}]
  /\ groups = [c \in Callers |-> {}]
  /\ answer = [c \in Callers |-> NoAnswers]
  /\ failed = [c \in Callers |-> "no"]
-----------------------------------------------------------------------------
(* The exchange and the calendar: each publication comes on its trading day *)
(* or later, the endpoints independently of one another.                    *)
(* What has expired is never read again, and dropped at once here.          *)

Midnight ==
  /\ today < LastDay
  /\ today' = today + 1
  /\ dawn' = ratioDay
  /\ store' = [k \in Keys |-> IF today' < store[k].exp THEN store[k] ELSE NotKept]
  /\ UNCHANGED <<ratioDay, apiDay, dlDays, memo, lock, flight, callVars>>

PublishRatio(d) ==
  /\ d \in TradingDays /\ ratioDay < d /\ d <= today
  /\ ratioDay' = d
  /\ UNCHANGED <<today, apiDay, dlDays, dawn, sharedVars, callVars>>

PublishApi(d) ==
  /\ d \in TradingDays /\ apiDay < d /\ d <= today
  /\ apiDay' = d
  /\ UNCHANGED <<today, ratioDay, dlDays, dawn, sharedVars, callVars>>

PublishDl(d) ==
  /\ d \in TradingDays \ dlDays /\ d <= today
  /\ dlDays' = dlDays \cup {d}
  /\ UNCHANGED <<today, ratioDay, apiDay, dawn, sharedVars, callVars>>

(* The process starts again: SQLite keeps the results.                      *)
Restart ==
  /\ memo' = [at |-> NoDay, day |-> NoDay]
  /\ lock' = NoCaller
  /\ flight' = [k \in Keys |-> NoCaller]
  /\ pc' = [c \in Callers |-> "idle"]
  /\ query' = [c \in Callers |-> NoQuery]
  /\ asOf' = [c \in Callers |-> NoDay]
  /\ todo' = [c \in Callers |-> {}]
  /\ groups' = [c \in Callers |-> {}]
  /\ answer' = [c \in Callers |-> NoAnswers]
  /\ failed' = [c \in Callers |-> "no"]
  /\ UNCHANGED <<sourceVars, store>>
-----------------------------------------------------------------------------
Goto(c, label) == pc' = [pc EXCEPT ![c] = label]

Start(c, kind, ds, first, last, label) ==
  /\ pc[c] = "idle"
  /\ Goto(c, label)
  /\ query' = [query EXCEPT ![c] =
       [kind |-> kind, ds |-> ds, first |-> first, last |-> last,
        known |-> dlDays, dawn |-> dawn]]
  /\ UNCHANGED <<sourceVars, sharedVars, groups, answer, failed>>

(* A tool call that names its date, and one that leaves it to the latest.   *)
AskDay(c, ds, d) ==
  d <= today /\ Start(c, "fetch", ds, d, d, "look") /\ UNCHANGED <<asOf, todo>>
AskLatest(c, ds) ==
  /\ Start(c, "latest", ds, NoDay, NoDay, "date")
  /\ asOf' = [asOf EXCEPT ![c] = today] /\ UNCHANGED todo
AskRange(c, ds, first, last) ==
  /\ ds \in DlSets /\ last = first + RangeDays - 1 /\ last <= today
  /\ Start(c, "range", ds, first, last, "scan")
  /\ todo' = [todo EXCEPT ![c] = first..last] /\ UNCHANGED asOf
-----------------------------------------------------------------------------
(* latestTradingDay, for a tool's default date and within load.            *)

(* What the caller does with the latest trading day d.                      *)
Learn(c, d) ==
  IF pc[c] \in {"date", "discoverDate"}
    THEN Goto(c, "look") /\ query' = [query EXCEPT ![c].first = d, ![c].last = d]
    ELSE /\ Goto(c, IF d = query[c].first /\ query[c].ds \in ApiSets THEN "api" ELSE "dl")
         /\ UNCHANGED query
Forget(c) == asOf' = [asOf EXCEPT ![c] = NoDay]

(* Mutant: a remembered day is good for ever.                               *)
EverRemembered(c) == memo.at # NoDay
(* The caller's calendar day was read before the mutex is taken.            *)
Remembered(c) == memo.at = asOf[c]
Consult(c) ==
  /\ pc[c] \in {"date", "latest"} /\ lock = NoCaller
  /\ IF Remembered(c)
       THEN Learn(c, memo.day) /\ Forget(c) /\ UNCHANGED lock
       ELSE /\ lock' = c
            /\ Goto(c, IF pc[c] = "date" THEN "discoverDate" ELSE "discoverLatest")
            /\ UNCHANGED <<query, asOf>>
  /\ UNCHANGED <<sourceVars, memo, flight, store, todo, groups, answer, failed>>

(* Mutant: the mutex stays locked.                                          *)
StayLocked == UNCHANGED lock
Unlock == lock' = NoCaller

DiscoverOk(c) ==
  /\ pc[c] \in {"discoverDate", "discoverLatest"} /\ ratioDay # NoDay
  /\ memo' = [at |-> asOf[c], day |-> ratioDay]
  /\ Unlock
  /\ Learn(c, ratioDay) /\ Forget(c)
  /\ UNCHANGED <<sourceVars, flight, store, todo, groups, answer, failed>>

(* Mutant: the day counts as learnt although it was not.                    *)
MarkLearnt(c) == memo' = [at |-> asOf[c], day |-> NoDay]
LearnNothing(c) == UNCHANGED memo

(* No default date without the latest day; load then turns to the download. *)
DiscoverFail(c) ==
  /\ pc[c] \in {"discoverDate", "discoverLatest"}
  /\ Unlock /\ LearnNothing(c) /\ Forget(c)
  /\ IF pc[c] = "discoverDate"
       THEN Goto(c, "done") /\ failed' = [failed EXCEPT ![c] = "upstream"]
       ELSE Goto(c, "dl") /\ UNCHANGED failed
  /\ UNCHANGED <<sourceVars, flight, store, query, todo, groups, answer>>
-----------------------------------------------------------------------------
(* Fetch: the look at the cache, the load, and its end.                     *)

(* loadDL looks for a substitute from the far end of the window.            *)
FetchResult(d, G) ==
  IF d \in G THEN Rows(d)
  ELSE IF G \cap (d - GapWindow)..(d - 1) = {} THEN Gap
  ELSE Substitute(Earliest(G \cap (d - GapWindow)..(d - 1)))

(* Mutant: the API's rows count whatever day they are of.                   *)
UncheckedApiRows(ds, d) == {Rows(apiDay)}
(* What loadAPI may return for ds and day d: normalize drops the rows of    *)
(* other days, except for RawSets, and nothing left is an error.            *)
ApiRows(ds, d) == IF ds \in RawSets \/ apiDay = d THEN {Rows(apiDay)} ELSE {}

(* Mutant: the download ends the day before.                                *)
DownloadedBefore(first, last) == dlDays \cap (first - GapWindow)..(last - 1)
(* The days found in one CSV download.                                      *)
Downloaded(first, last) == dlDays \cap (first - GapWindow)..last

Look(c) ==
  /\ pc[c] = "look"
  /\ LET k == KeyOf(c) IN
     \/ /\ Cached(k)
        /\ answer' = [answer EXCEPT ![c][query[c].first] = Got(store[k].res, "store")]
        /\ Goto(c, "done")
        /\ UNCHANGED <<flight, asOf>>
     \/ /\ ~Cached(k) /\ flight[k] # NoCaller
        /\ Goto(c, "wait")
        /\ UNCHANGED <<flight, asOf, answer>>
     \/ /\ ~Cached(k) /\ flight[k] = NoCaller
        /\ flight' = [flight EXCEPT ![k] = c]
        /\ asOf' = [asOf EXCEPT ![c] = today]
        /\ Goto(c, "latest")
        /\ UNCHANGED answer
  /\ UNCHANGED <<sourceVars, memo, lock, store, query, todo, groups, failed>>

(* A gap travels as an error, which GetOrFetch does not keep.               *)
Keep(k, r) ==
  IF r = Gap THEN UNCHANGED store
  ELSE store' = [store EXCEPT ![k] = [res |-> r, exp |-> today + Ttl]]

(* What FetchRange gives for a day it has not found in the cache.           *)
RangeResult(c, d) ==
  LET near == groups[c] \cap (d - GapWindow)..(d - 1)
  IN IF d \in groups[c] THEN Rows(d)
     ELSE IF near = {} THEN Gap ELSE Substitute(Newest(near))

(* The callers C have put the range's next day, each its own result.        *)
Put1(c) == [answer[c] EXCEPT ![PutDay(c)] = Got(RangeResult(c, PutDay(c)), "own")]
AfterPut(c) == IF Missing(c) = {PutDay(c)} THEN "done" ELSE "put"

(* The load of c ends with r: it is kept, its flight is over, and every     *)
(* joiner has r; a FetchRange that joined the flight fails on a gap.        *)
Settle(c, r) ==
  LET k == KeyOf(c) IN
  /\ Keep(k, r)
  /\ flight' = [flight EXCEPT ![k] = NoCaller]
  /\ answer' = [d \in Callers |->
       IF d = c THEN [answer[d] EXCEPT ![k[2]] = Got(r, "own")]
       ELSE IF d \in Loaders(k) THEN [answer[d] EXCEPT ![k[2]] = Got(r, "shared")]
       ELSE IF d \in Putters(k) /\ r # Gap THEN Put1(d) ELSE answer[d]]
  /\ pc' = [d \in Callers |->
       IF d \in {c} \cup Loaders(k) THEN "done"
       ELSE IF d \in Putters(k) THEN IF r = Gap THEN "done" ELSE AfterPut(d) ELSE pc[d]]
  /\ failed' = [d \in Callers |-> IF d \in Putters(k) /\ r = Gap THEN "gap" ELSE failed[d]]

ApiOk(c) ==
  /\ pc[c] = "api" /\ apiDay # NoDay
  /\ \E r \in ApiRows(query[c].ds, query[c].first) : Settle(c, r)
  /\ UNCHANGED <<sourceVars, memo, lock, query, asOf, todo, groups>>

(* The request or the check of its rows failed: the download is the refuge. *)
ApiMiss(c) ==
  /\ pc[c] = "api"
  /\ Goto(c, "dl")
  /\ UNCHANGED <<sourceVars, sharedVars, query, asOf, todo, groups, answer, failed>>

DlOk(c) ==
  /\ pc[c] = "dl" /\ query[c].ds \in DlSets
  /\ Settle(c, FetchResult(query[c].first, Downloaded(query[c].first, query[c].first)))
  /\ UNCHANGED <<sourceVars, memo, lock, query, asOf, todo, groups>>

(* The download failed, or there is none for this dataset: all joiners fail.*)
DlFail(c) ==
  LET k == KeyOf(c)
      all == {c} \cup Loaders(k) \cup Putters(k)
  IN
  /\ pc[c] = "dl"
  /\ flight' = [flight EXCEPT ![k] = NoCaller]
  /\ pc' = [d \in Callers |-> IF d \in all THEN "done" ELSE pc[d]]
  /\ failed' = [d \in Callers |-> IF d \in all THEN "upstream" ELSE failed[d]]
  /\ UNCHANGED <<sourceVars, memo, lock, store, query, asOf, todo, groups, answer>>
-----------------------------------------------------------------------------
(* FetchRange: look up every day, download once, put the missing days.      *)

Scan(c) ==
  /\ pc[c] = "scan"
  /\ LET d == Earliest(todo[c])
         k == <<query[c].ds, d>>
         found == [answer EXCEPT ![c][d] = Got(store[k].res, "store")]
         allFound == \A e \in query[c].first..query[c].last :
                        (IF Cached(k) THEN found ELSE answer)[c][e] # NoAnswer
     IN /\ answer' = IF Cached(k) THEN found ELSE answer
        /\ todo' = [todo EXCEPT ![c] = @ \ {d}]
        /\ Goto(c, IF todo[c] # {d} THEN "scan" ELSE IF allFound THEN "done" ELSE "rangeDl")
  /\ UNCHANGED <<sourceVars, sharedVars, query, asOf, groups, failed>>

RangeDlOk(c) ==
  /\ pc[c] = "rangeDl"
  /\ groups' = [groups EXCEPT ![c] = Downloaded(query[c].first, query[c].last)]
  /\ Goto(c, "put")
  /\ UNCHANGED <<sourceVars, sharedVars, query, asOf, todo, answer, failed>>

RangeDlFail(c) ==
  /\ pc[c] = "rangeDl"
  /\ failed' = [failed EXCEPT ![c] = "upstream"]
  /\ Goto(c, "done")
  /\ UNCHANGED <<sourceVars, sharedVars, query, asOf, todo, groups, answer>>

(* GetOrFetch with a loader that returns what is already there: a day kept  *)
(* meanwhile stays, another call's flight is waited for, and otherwise the  *)
(* result is kept, a gap as well.                                           *)
Put(c) ==
  /\ pc[c] = "put"
  /\ LET d == PutDay(c)
         k == <<query[c].ds, d>>
     IN \/ /\ ~Cached(k) /\ flight[k] # NoCaller
           /\ Goto(c, "putWait")
           /\ UNCHANGED <<store, answer>>
        \/ /\ Cached(k) \/ flight[k] = NoCaller
           /\ store' = IF Cached(k) THEN store ELSE
                [store EXCEPT ![k] = [res |-> RangeResult(c, d), exp |-> today + Ttl]]
           /\ answer' = [answer EXCEPT ![c] = Put1(c)]
           /\ Goto(c, AfterPut(c))
  /\ UNCHANGED <<sourceVars, memo, lock, flight, query, asOf, todo, groups, failed>>

Return(c) ==
  /\ pc[c] = "done"
  /\ pc' = [pc EXCEPT ![c] = "idle"]
  /\ query' = [query EXCEPT ![c] = NoQuery]
  /\ asOf' = [asOf EXCEPT ![c] = NoDay]
  /\ todo' = [todo EXCEPT ![c] = {}]
  /\ groups' = [groups EXCEPT ![c] = {}]
  /\ answer' = [answer EXCEPT ![c] = NoAnswers]
  /\ failed' = [failed EXCEPT ![c] = "no"]
  /\ UNCHANGED <<sourceVars, sharedVars>>
-----------------------------------------------------------------------------
(* q.mu is handed over in order of arrival once a waiter has starved.       *)
Progress(c) ==
  \/ DiscoverOk(c) \/ DiscoverFail(c)
  \/ Look(c) \/ ApiOk(c) \/ ApiMiss(c) \/ DlOk(c) \/ DlFail(c)
  \/ Scan(c) \/ RangeDlOk(c) \/ RangeDlFail(c) \/ Put(c)

Exchange ==
  \/ Midnight
  \/ \E d \in Days : PublishRatio(d) \/ PublishApi(d) \/ PublishDl(d)

Ask(c) ==
  \E ds \in Datasets :
    \/ \E d \in QueryDays : AskDay(c, ds, d)
    \/ AskLatest(c, ds)
    \/ \E f, l \in QueryDays : AskRange(c, ds, f, l)

Next ==
  \/ Exchange \/ Restart
  \/ \E c \in Callers : Ask(c) \/ Consult(c) \/ Progress(c) \/ Return(c)

Spec == Init /\ [][Next]_vars

(* Every request ends (the client's own promise), and Go schedules every    *)
(* goroutine that can run.                                                  *)
Fairness == \A c \in Callers :
  WF_vars(Progress(c)) /\ SF_vars(Consult(c)) /\ WF_vars(Return(c))
FairSpec == Spec /\ Fairness
-----------------------------------------------------------------------------
TypeOK ==
  /\ today \in Days /\ ratioDay \in 0..LastDay /\ apiDay \in 0..LastDay
  /\ dlDays \subseteq TradingDays /\ dawn \in 0..LastDay
  /\ memo \in [at : 0..LastDay, day : 0..LastDay]
  /\ memo.at = NoDay <=> memo.day = NoDay
  /\ lock \in Callers \cup {NoCaller}
  /\ flight \in [Keys -> Callers \cup {NoCaller}]
  /\ store \in [Keys -> Kept]
  /\ pc \in [Callers -> Pcs]
  /\ query \in [Callers -> Query]
  /\ asOf \in [Callers -> 0..LastDay]
  /\ todo \in [Callers -> SUBSET Days]
  /\ groups \in [Callers -> SUBSET TradingDays]
  /\ answer \in [Callers -> [Days -> Answer]]
  /\ failed \in [Callers -> {"no", "upstream", "gap"}]

(* A result that a caller asking for day d may be shown: d's own rows, or   *)
(* those of an earlier day in the window that the result names, or a gap.   *)
OfItsDay(r, d) ==
  \/ r = Gap
  \/ r = Rows(d)
  \/ \E e \in (d - GapWindow)..(d - 1) : r = Substitute(e)

(* Of a dataset whose rows are dated, whatever the tier, the joining, the   *)
(* day's end and a restart, no rows of one day are kept or handed out as    *)
(* another's without saying so (load, loadAPI, loadDL, FetchRange).         *)
DatedRowsOfTheirDay ==
  /\ \A k \in Keys : k[1] \notin RawSets /\ store[k].exp > 0 => OfItsDay(store[k].res, k[2])
  /\ \A c \in Callers : query[c].ds \notin RawSets =>
       \A d \in Days : OfItsDay(answer[c][d].res, d)

(* What the download already offered when the call began is found by a call *)
(* that loads for itself: the day's rows, and a gap only when the whole     *)
(* window has none; and a range that ends well lacks no day.                *)
PublishedDayIsFound ==
  \A c \in Callers : pc[c] = "done" /\ failed[c] = "no" /\ query[c].ds \notin RawSets =>
    \A d \in query[c].first..query[c].last :
      LET a == answer[c][d] IN
      /\ a.src # "none"
      /\ a.src = "own" /\ d \in query[c].known => a.res = Rows(d)
      /\ a.src = "own" /\ a.res = Gap => query[c].known \cap (d - GapWindow)..d = {}

(* A tool called without a date is never given a day older than the latest  *)
(* trading day known at the start of the calendar day on which it was       *)
(* called, even if the answer was remembered, or the mutex was waited for   *)
(* across midnight (latestTradingDay).                                      *)
NotOlderThanDawn ==
  \A c \in Callers : query[c].kind = "latest" /\ pc[c] \notin {"date", "discoverDate"} =>
    failed[c] = "upstream" \/ query[c].first >= query[c].dawn

(* Every query ends: nobody waits for ever on q.mu or on a flight.          *)
EveryQueryEnds == \A c \in Callers : pc[c] # "idle" ~> pc[c] = "idle"
-----------------------------------------------------------------------------
(* What the comments promise and the code does not keep.                    *)

(* taifex_query.go:14-16: a gap is not kept, so that data which comes late  *)
(* is not locked out: what was published when the call began is found.      *)
LateDataIsFound ==
  \A c \in Callers : pc[c] = "done" /\ failed[c] = "no" =>
    \A d \in query[c].known \cap query[c].first..query[c].last :
      answer[c][d].src = "store" => answer[c][d].res # Gap

(* taifex_api.go:17-18: the API serves the latest day whatever is asked, and *)
(* Normalize drops the rows of other days: a call that names a day, or asks *)
(* for the latest one, is shown that day's rows.                            *)
RowsOfTheirDay ==
  \A c \in Callers : \A d \in Days : OfItsDay(answer[c][d].res, d)
=============================================================================
