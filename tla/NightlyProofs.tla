---------------------------- MODULE NightlyProofs ----------------------------
(***************************************************************************)
(* Theorems about Nightly, for any number of clients, stocks, days and     *)
(* restarts, and every calendar.                                           *)
(***************************************************************************)
EXTENDS Nightly, FiniteSetTheorems, LeastNumbers, TLAPS

USE DEF vars, OthersUnchanged

Stamps == [day : Days, part : Parts] \X (1..MaxLives)
Row == [date : Days, code : Codes, at : Stamps]
Scopes == Markets \cup {""}
Kinds == {"alert", "daytrade"}
BuildRecord == [pc : {"begin", "insert"}, date : Days, at : Stamps, todo : SUBSET Codes]
Entries == [scope : Scopes, code : Codes, asked : 0..LastDay, own : BOOLEAN]
Lists == [date : 0..LastDay, loaded : BOOLEAN, byKey : SUBSET Entries, read : SUBSET Markets]
IndexCall == [pc : {"built", "again", "rows", "count", "page"}, date : Days, market : Scopes,
              rows : SUBSET Row, total : Nat]
ListCall == [pc : {"add"}, market : Scopes, date : 0..LastDay, kind : Kinds]

ClockType ==
  /\ clock \in [day : Days, part : Parts] /\ life \in 1..MaxLives
  /\ closed \subseteq Closures
SchedType ==
  /\ sched \in [day : 0..LastDay, done : SUBSET Stages, due : SUBSET Stages]
  /\ sched.due \cap sched.done = {}
StoreType ==
  /\ build = NoBuild \/ build \in BuildRecord
  /\ file \subseteq Row
  /\ undo = NoTx \/ \E f \in SUBSET Row : undo = <<f>>
CallType ==
  /\ scanner \in Lists
  /\ call \in [Clients \cup {Prewarm} -> {NoCall} \cup IndexCall \cup ListCall]

(* What a crash would leave of the index.                                  *)
Committed == IF undo = NoTx THEN file ELSE undo[1]
OfDay(rows, date) == {r \in rows : r.date = date}
WholeDay(date, at) == {[date |-> date, code |-> c, at |-> at] : c \in Codes}
OfMarket(rows, market) == {r \in rows : market # "" => MarketOf(r.code) = market}
Whole(rows, date) == \E at \in Stamps : rows = WholeDay(date, at)

(* Every day of the committed index is one whole rebuild or absent, and    *)
(* the writer's view differs from it by the rows its transaction has       *)
(* deleted and inserted so far.                                            *)
StoreInv ==
  /\ \A d \in Days : OfDay(Committed, d) = {} \/ Whole(OfDay(Committed, d), d)
  /\ build = NoBuild \/ build.pc = "begin" => undo = NoTx
  /\ build # NoBuild /\ build.pc = "begin" => build.todo = Codes
  /\ build # NoBuild /\ build.pc = "insert" =>
       /\ undo # NoTx
       /\ file = (undo[1] \ OfDay(undo[1], build.date))
                   \cup {[date |-> build.date, code |-> c, at |-> build.at] : c \in Codes \ build.todo}

(* A screen past its first visit reads a day that is there to stay; the    *)
(* rows it has taken are those of one rebuild.                             *)
Screened(r) ==
  /\ r.pc \in {"again", "rows", "count", "page"} => OfDay(Committed, r.date) # {}
  /\ r.pc \in {"count", "page"} => r.rows # {} /\ Whole(r.rows, r.date)
  /\ r.pc = "page" =>
       r.total = IF r.market = "" THEN Cardinality(Codes) ELSE Cardinality(CodesOf(r.market))
ScreenInv == \A c \in Clients : Screened(call[c])

(* The scanner's entries were read for its date.                           *)
ListInv == /\ \A e \in scanner.byKey : e.asked = scanner.date
           /\ scanner.byKey # {} => scanner.loaded

NightlyType == ClockType /\ SchedType /\ StoreType /\ CallType
NightlyInv == NightlyType /\ StoreInv /\ ScreenInv /\ ListInv
-----------------------------------------------------------------------------
(* The operators.                                                          *)

(* The stocks of a market are stocks, finitely many, and all those whose   *)
(* registered market it is.                                                *)
LEMMA MarketCodes ==
  ASSUME NEW market
  PROVE  /\ CodesOf(market) \subseteq Codes
         /\ IsFiniteSet(Codes) /\ IsFiniteSet(CodesOf(market))
         /\ market \in Markets => CodesOf(market) = {c \in Codes : MarketOf(c) = market}
<1>1. IsFiniteSet(Codes)
  BY CodesAssumption, FS_Union DEF Codes
<1> QED BY <1>1, CodesAssumption DEF CodesOf, Codes, MarketOf, Markets

(* The latest day with reports is a day gone by, or none.                  *)
LEMMA DateResolves ==
  ASSUME ClockType
  PROVE  ResolveDate \in 0..clock.day /\ ResolveDate \in 0..LastDay
<1> DEFINE Past == {d \in 0..clock.day - 1 : d = 0 \/ IsTradingDay(d)}
<1>1. clock.day \in 1..LastDay /\ clock.day \in Nat /\ clock.day - 1 \in Nat
  BY CalendarAssumption DEF ClockType, Days
<1>2. PICK m \in Past : \A n \in Past : n <= m
  <2>1. 0 \in Past /\ Past \subseteq 0..clock.day - 1
    BY <1>1
  <2> HIDE DEF Past
  <2> QED BY <1>1, <2>1, GreatestNumber
<1>3. \A e \in m + 1..clock.day - 1 : ~IsTradingDay(e)
  <2> SUFFICES ASSUME NEW e \in m + 1..clock.day - 1, IsTradingDay(e) PROVE FALSE
    OBVIOUS
  <2>1. e \in Past
    BY <1>1
  <2> QED BY <1>1, <1>2, <2>1
<1>4. \E d \in 0..clock.day - 1 : /\ d = 0 \/ IsTradingDay(d)
                                 /\ \A e \in d + 1..clock.day - 1 : ~IsTradingDay(e)
  BY <1>2, <1>3
<1>5. (CHOOSE d \in 0..clock.day - 1 : /\ d = 0 \/ IsTradingDay(d)
                                     /\ \A e \in d + 1..clock.day - 1 : ~IsTradingDay(e))
        \in 0..clock.day - 1
  BY <1>4
<1>6. ResolveDate \in 0..clock.day
  BY <1>1, <1>5 DEF ResolveDate
<1>7. ResolveDate \in 0..LastDay
  BY <1>1, <1>6, CalendarAssumption
<1> QED BY <1>6, <1>7

(* The rows of one rebuild are of one time and name every stock ...         *)
LEMMA WholeDayRows ==
  ASSUME NEW date, NEW at, Codes # {}
  PROVE  /\ {r.at : r \in WholeDay(date, at)} = {at}
         /\ {r.code : r \in WholeDay(date, at)} = Codes
<1> DEFINE RowOf(c) == [date |-> date, code |-> c, at |-> at]
<1>1. \A c : RowOf(c).code = c /\ RowOf(c).at = at
  OBVIOUS
<1>2. WholeDay(date, at) = {RowOf(c) : c \in Codes}
  BY DEF WholeDay
<1> HIDE DEF RowOf
<1> QED BY <1>1, <1>2

(* ... and are counted for a market as its stocks are.                     *)
LEMMA WholeDayCounts ==
  ASSUME NEW date, NEW at, NEW market \in Scopes
  PROVE  Cardinality(OfMarket(WholeDay(date, at), market))
           = IF market = "" THEN Cardinality(Codes) ELSE Cardinality(CodesOf(market))
<1> DEFINE S == IF market = "" THEN Codes ELSE CodesOf(market)
           RowOf(c) == [date |-> date, code |-> c, at |-> at]
           T == OfMarket(WholeDay(date, at), market)
<1>1. IsFiniteSet(S) /\ S = {c \in Codes : market # "" => MarketOf(c) = market}
  BY MarketCodes DEF Scopes
<1>2. \A c : RowOf(c).code = c /\ RowOf(c).at = at
  OBVIOUS
<1> HIDE DEF RowOf
<1>3. WholeDay(date, at) = {RowOf(c) : c \in Codes}
  BY DEF WholeDay, RowOf
<1>4. T = {RowOf(c) : c \in S}
  <2>1. ASSUME NEW t \in T PROVE t \in {RowOf(c) : c \in S}
    BY <1>1, <1>2, <1>3 DEF OfMarket
  <2>2. ASSUME NEW c \in S PROVE RowOf(c) \in T
    BY <1>1, <1>2, <1>3 DEF OfMarket
  <2> QED BY <2>1, <2>2
<1>5. ExistsBijection(S, T)
  <2> DEFINE f == [c \in S |-> RowOf(c)]
  <2>1. f \in [S -> T] /\ \A c \in S : f[c].code = c
    BY <1>2, <1>4
  <2>2. \A t \in T : \E c \in S : f[c] = t
    BY <1>4
  <2> HIDE DEF f, S, T
  <2> QED BY <2>1, <2>2 DEF ExistsBijection, Bijection, Injection, Surjection, IsInjective
<1>6. Cardinality(T) = Cardinality(S)
  <2> HIDE DEF S, T
  <2> QED BY <1>1, <1>5, FS_Bijection
<1> QED BY <1>6

-----------------------------------------------------------------------------
(* The invariant, one lemma per step.                                      *)

LEMMA InitNightly == Init => NightlyInv
<1> SUFFICES ASSUME Init PROVE NightlyInv
  OBVIOUS
<1>1. ClockType /\ SchedType /\ StoreType
  <2>1. 1 \in Days /\ 1 \in 1..MaxLives /\ 0 \in Parts /\ 0 \in 0..LastDay
    BY CalendarAssumption DEF Days, Parts
  <2>2. KnownClosures \subseteq Closures
    BY CalendarAssumption
  <2> QED BY <2>1, <2>2 DEF Init, ClockType, SchedType, StoreType, NotYet, NoTx
<1>2. CallType /\ ListInv
  <2>1. 0 \in 0..LastDay
    BY CalendarAssumption
  <2> QED BY <2>1 DEF Init, CallType, ListInv, Lists, NoLists
<1>3. StoreInv
  BY DEF Init, StoreInv, Committed, OfDay, NoBuild
<1>4. ScreenInv
  BY DEF Init, ScreenInv, Screened, NoCall
<1> QED BY <1>1, <1>2, <1>3, <1>4 DEF NightlyInv, NightlyType

(* What a step leaves alone stays as it was.                               *)
LEMMA StoreKeeps ==
  ASSUME NightlyInv, UNCHANGED <<file, undo>>
  PROVE  /\ UNCHANGED build => (StoreType /\ StoreInv)'
         /\ UNCHANGED call => ScreenInv'
         /\ \A r : Screened(r) => Screened(r)'
<1>1. Committed' = Committed
  BY DEF Committed
<1>2. UNCHANGED build => (StoreType /\ StoreInv)'
  BY <1>1 DEF NightlyInv, NightlyType, StoreType, StoreInv
<1>3. \A r : Screened(r) => Screened(r)'
  BY <1>1 DEF Screened
<1> QED BY <1>2, <1>3 DEF NightlyInv, ScreenInv

LEMMA ListsKeep ==
  ASSUME NightlyInv, UNCHANGED scanner
  PROVE  ListInv' /\ (UNCHANGED call => CallType')
BY DEF NightlyInv, NightlyType, CallType, ListInv

LEMMA ClockKeeps ==
  ASSUME NightlyInv, UNCHANGED <<clock, life>>, closed' \subseteq Closures
  PROVE  ClockType'
BY DEF NightlyInv, NightlyType, ClockType

(* A step that changes one call.                                           *)
LEMMA OneCallMoves ==
  ASSUME NightlyInv, NEW c \in Clients \cup {Prewarm}, NEW r \in {NoCall} \cup IndexCall \cup ListCall,
         call' = [call EXCEPT ![c] = r], UNCHANGED <<file, undo>>,
         Screened(r)
  PROVE  call' \in [Clients \cup {Prewarm} -> {NoCall} \cup IndexCall \cup ListCall] /\ ScreenInv'
<1>1. /\ call' \in [Clients \cup {Prewarm} -> {NoCall} \cup IndexCall \cup ListCall]
      /\ \A d \in Clients : call'[d] = IF d = c THEN r ELSE call[d]
  BY DEF NightlyInv, NightlyType, CallType
<1>2. \A d \in Clients : Screened(call'[d])
  BY <1>1 DEF NightlyInv, ScreenInv
<1>3. Committed' = Committed
  BY DEF Committed
<1>4. ScreenInv'
  BY <1>2, <1>3 DEF ScreenInv, Screened
<1> QED BY <1>1, <1>4

LEMMA TickOnceNightly ==
  ASSUME NightlyInv, TickOnce
  PROVE  NightlyInv'
<1>1. SchedType'
  <2>1. DoneToday \subseteq Stages /\ Due(DoneToday) \subseteq Stages \ DoneToday
    BY DEF NightlyInv, NightlyType, SchedType, DoneToday, Due, Stages, StageAt
  <2>2. clock.day \in 0..LastDay
    BY CalendarAssumption DEF NightlyInv, NightlyType, ClockType, Days
  <2> QED BY <2>1, <2>2 DEF TickOnce, SchedType
<1> QED
  BY <1>1, StoreKeeps, ListsKeep, ClockKeeps
  DEF TickOnce, NightlyInv, NightlyType, ClockType

(* The stages: each marks itself done.                                     *)
LEMMA EnterNightly ==
  ASSUME NightlyInv, NEW s, Enter(s)
  PROVE  /\ SchedType' /\ ListInv' /\ UNCHANGED <<topic, clock, life, file, undo, scanner>>
         /\ build = NoBuild /\ call[Prewarm] = NoCall
BY ListsKeep DEF Enter, InStage, NightlyInv, NightlyType, SchedType

LEMMA PrewarmMorningNightly ==
  ASSUME NightlyInv, PrewarmMorning
  PROVE  NightlyInv'
<1>1. closed' \subseteq Closures
  BY DEF PrewarmMorning, NightlyInv, NightlyType, ClockType
<1> QED
  BY <1>1, EnterNightly, StoreKeeps, ListsKeep, ClockKeeps DEF PrewarmMorning, NightlyInv, NightlyType

LEMMA PrewarmPreOpenNightly ==
  ASSUME NightlyInv, PrewarmPreOpen
  PROVE  NightlyInv'
<1>1. closed' \subseteq Closures
  BY DEF PrewarmPreOpen, NightlyInv, NightlyType, ClockType
<1> QED
  BY <1>1, EnterNightly, StoreKeeps, ListsKeep, ClockKeeps DEF PrewarmPreOpen, NightlyInv, NightlyType

(* A reading of lists is a call that visits no index.                      *)
LEMMA ReadingType ==
  ASSUME NEW market \in Scopes, NEW date \in 0..LastDay, NEW kind \in Kinds
  PROVE  Reading(market, date, kind) \in ListCall /\ Screened(Reading(market, date, kind))
BY DEF Reading, ListCall, Screened

LEMMA PrewarmEODNightly ==
  ASSUME NightlyInv, PrewarmEOD
  PROVE  NightlyInv'
<1>1. closed' \subseteq Closures
  BY DEF PrewarmEOD, NightlyInv, NightlyType, ClockType
<1>2. \/ call' = call
      \/ call' = [call EXCEPT ![Prewarm] = Reading("", ResolveDate, "alert")]
  BY DEF PrewarmEOD
<1>3. Enter("eod") /\ UNCHANGED <<build, closed>>
  BY DEF PrewarmEOD
<1>4. UNCHANGED <<clock, life, file, undo, scanner>> /\ SchedType' /\ ListInv'
  BY <1>3, EnterNightly
<1>5. CallType' /\ ScreenInv'
  <2>1. CASE call' = call
    BY <1>4, <2>1, StoreKeeps, ListsKeep
  <2>2. CASE call' = [call EXCEPT ![Prewarm] = Reading("", ResolveDate, "alert")]
    <3>1. ResolveDate \in 0..LastDay
      BY DateResolves DEF NightlyInv, NightlyType
    <3>2. Reading("", ResolveDate, "alert") \in ListCall
          /\ Screened(Reading("", ResolveDate, "alert"))
      BY <3>1, ReadingType DEF Scopes, Kinds
    <3>3. call' \in [Clients \cup {Prewarm} -> {NoCall} \cup IndexCall \cup ListCall] /\ ScreenInv'
      BY <1>4, <2>2, <3>2, OneCallMoves
    <3> QED BY <1>4, <3>3 DEF CallType, NightlyInv, NightlyType
  <2> QED BY <1>2, <2>1, <2>2
<1> QED
  BY <1>1, <1>3, <1>4, <1>5, StoreKeeps, ClockKeeps DEF NightlyInv, NightlyType
LEMMA PrewarmIndexNightly ==
  ASSUME NightlyInv, PrewarmIndex
  PROVE  NightlyInv'
<1>1. Enter("index") /\ UNCHANGED <<closed, call>>
  BY DEF PrewarmIndex
<1>2. UNCHANGED <<clock, life, file, undo, scanner>> /\ SchedType' /\ ListInv' /\ build = NoBuild
  BY <1>1, EnterNightly
<1>3. (StoreType /\ StoreInv)'
  <2>1. CASE build' = build
    BY <1>2, <2>1, StoreKeeps
  <2>2. CASE build' = [pc |-> "begin", date |-> clock.day, at |-> <<clock, life>>, todo |-> Codes]
    <3>1. <<clock, life>> \in Stamps /\ clock.day \in Days
      BY DEF NightlyInv, NightlyType, ClockType, Stamps
    <3>2. build' \in BuildRecord /\ build'.pc = "begin" /\ build'.todo = Codes
      BY <2>2, <3>1 DEF BuildRecord
    <3>3. undo = NoTx
      BY <1>2 DEF NightlyInv, StoreInv
    <3>4. Committed' = Committed
      BY <1>2 DEF Committed
    <3> QED BY <1>2, <3>2, <3>3, <3>4 DEF NightlyInv, NightlyType, StoreType, StoreInv
  <2> QED BY <2>1, <2>2 DEF PrewarmIndex
<1> QED
  BY <1>1, <1>2, <1>3, StoreKeeps, ListsKeep, ClockKeeps DEF NightlyInv, NightlyType, ClockType

(* A step of the store that keeps what a crash would leave.                *)
LEMMA CommittedKeeps ==
  ASSUME NightlyInv, Committed' = Committed, UNCHANGED call
  PROVE  /\ ScreenInv'
         /\ \A d \in Days : OfDay(Committed', d) = {} \/ Whole(OfDay(Committed', d), d)
BY DEF NightlyInv, ScreenInv, Screened, StoreInv

(* The rebuild: begun, the file still is what is committed.                *)
LEMMA ReplaceBegins ==
  ASSUME NightlyInv, build \in BuildRecord, build.pc = "begin", undo' = <<file>>,
         file' = file \ Rows(build.date), build' = [build EXCEPT !.pc = "insert"],
         UNCHANGED call
  PROVE  (StoreType /\ StoreInv)' /\ ScreenInv'
<1>1. undo = NoTx /\ build.todo = Codes
  BY DEF NightlyInv, StoreInv, NoBuild
<1>2. undo' # NoTx /\ undo'[1] = file /\ Committed' = Committed
  BY <1>1 DEF Committed, NoTx
<1>3. build' \in BuildRecord /\ build'.pc = "insert" /\ build'.date = build.date
      /\ build'.at = build.at /\ build'.todo = Codes
  BY <1>1 DEF BuildRecord
<1>4. build' # NoBuild
  BY <1>3 DEF NoBuild
<1>5. file' = file \ OfDay(file, build.date)
  BY DEF Rows, OfDay
<1>6. StoreType'
  BY <1>3, <1>5 DEF NightlyInv, NightlyType, StoreType
<1>7. {[date |-> build.date, code |-> c, at |-> build.at] : c \in Codes \ build'.todo} = {}
  BY <1>3
<1>8. file' = (undo'[1] \ OfDay(undo'[1], build'.date))
                \cup {[date |-> build'.date, code |-> c, at |-> build'.at] : c \in Codes \ build'.todo}
  BY <1>2, <1>3, <1>5, <1>7
<1> QED BY <1>2, <1>3, <1>4, <1>6, <1>8, CommittedKeeps DEF StoreInv

LEMMA ReplaceInserts ==
  ASSUME NightlyInv, build \in BuildRecord, build.pc = "insert", NEW c \in build.todo,
         file' = file \cup {[date |-> build.date, code |-> c, at |-> build.at]},
         build' = [build EXCEPT !.todo = @ \ {c}], undo' = undo, UNCHANGED call
  PROVE  (StoreType /\ StoreInv)' /\ ScreenInv'
<1>1. build.todo \subseteq Codes /\ undo # NoTx
      /\ file = (undo[1] \ OfDay(undo[1], build.date))
                   \cup {[date |-> build.date, code |-> d, at |-> build.at] : d \in Codes \ build.todo}
  BY DEF NightlyInv, StoreInv, NoBuild, BuildRecord
<1>2. Committed' = Committed
  BY <1>1 DEF Committed
<1>3. build' \in BuildRecord /\ build'.pc = "insert" /\ build'.date = build.date
      /\ build'.at = build.at /\ build'.todo = build.todo \ {c}
  BY DEF BuildRecord
<1>4. [date |-> build.date, code |-> c, at |-> build.at] \in Row
  BY <1>1 DEF BuildRecord, Row
<1>5. StoreType'
  BY <1>3, <1>4 DEF NightlyInv, NightlyType, StoreType
<1>6. file' = (undo'[1] \ OfDay(undo'[1], build'.date))
                \cup {[date |-> build'.date, code |-> d, at |-> build'.at] : d \in Codes \ build'.todo}
  <2> DEFINE RowOf(d) == [date |-> build.date, code |-> d, at |-> build.at]
  <2>1. file = (undo[1] \ OfDay(undo[1], build.date)) \cup {RowOf(d) : d \in Codes \ build.todo}
        /\ file' = file \cup {RowOf(c)}
    BY <1>1
  <2>2. Codes \ build'.todo = (Codes \ build.todo) \cup {c}
    BY <1>1, <1>3
  <2>3. {RowOf(d) : d \in Codes \ build'.todo} = {RowOf(d) : d \in Codes \ build.todo} \cup {RowOf(c)}
    <3> HIDE DEF RowOf
    <3> QED BY <2>2
  <2>4. file' = (undo'[1] \ OfDay(undo'[1], build'.date)) \cup {RowOf(d) : d \in Codes \ build'.todo}
    <3> HIDE DEF RowOf
    <3> QED BY <1>3, <2>1, <2>3
  <2> QED BY <1>3, <2>4
<1> QED BY <1>1, <1>2, <1>3, <1>5, <1>6, CommittedKeeps DEF StoreInv, NoBuild

(* The commit: the day is one whole rebuild, the others are untouched.     *)
LEMMA ReplaceCommits ==
  ASSUME NightlyInv, build \in BuildRecord, build.pc = "insert", build.todo = {},
         undo' = NoTx, build' = NoBuild, file' = file, UNCHANGED call
  PROVE  (StoreType /\ StoreInv)' /\ ScreenInv'
<1>1. undo # NoTx /\ file = (undo[1] \ OfDay(undo[1], build.date)) \cup WholeDay(build.date, build.at)
  BY DEF NightlyInv, StoreInv, NoBuild, WholeDay
<1>2. Committed = undo[1] /\ Committed' = file
  BY <1>1 DEF Committed
<1>3. \A r \in WholeDay(build.date, build.at) : r.date = build.date
  BY DEF WholeDay
<1>4. OfDay(file, build.date) = WholeDay(build.date, build.at)
      /\ \A d \in Days \ {build.date} : OfDay(file, d) = OfDay(undo[1], d)
  BY <1>1, <1>3 DEF OfDay
<1>5. build.at \in Stamps /\ build.date \in Days
  BY DEF BuildRecord
<1>6. \A d \in Days : OfDay(Committed', d) = {} \/ Whole(OfDay(Committed', d), d)
  BY <1>2, <1>4, <1>5 DEF Whole, NightlyInv, StoreInv
<1>7. (StoreType /\ StoreInv)'
  BY <1>6 DEF NightlyInv, NightlyType, StoreType, StoreInv, NoBuild
<1>8. \A d \in Days : OfDay(Committed, d) # {} => OfDay(Committed', d) # {}
  <2> SUFFICES ASSUME NEW d \in Days, OfDay(Committed, d) # {} PROVE OfDay(Committed', d) # {}
    OBVIOUS
  <2>1. CASE d # build.date
    BY <1>2, <1>4, <2>1
  <2>2. CASE d = build.date
    <3>1. Codes # {}
      BY <1>2 DEF NightlyInv, StoreInv, Whole, WholeDay
    <3>2. WholeDay(build.date, build.at) # {}
      BY <3>1 DEF WholeDay
    <3> QED BY <1>2, <1>4, <2>2, <3>2
  <2> QED BY <2>1, <2>2
<1>9. ScreenInv'
  <2> SUFFICES ASSUME NEW c \in Clients PROVE Screened(call[c])'
    BY DEF ScreenInv
  <2>1. call[c].pc \in {"again", "rows", "count", "page"} => call[c].date \in Days
    BY DEF NightlyInv, NightlyType, CallType, NoCall, IndexCall, ListCall
  <2> QED BY <1>8, <2>1 DEF Screened, NightlyInv, ScreenInv
<1> QED BY <1>7, <1>9

LEMMA RollbackNightly ==
  ASSUME NightlyInv, file' = IF undo = NoTx THEN file ELSE undo[1], undo' = NoTx, build' = NoBuild
  PROVE  (StoreType /\ StoreInv)' /\ (UNCHANGED call => ScreenInv')
<1>1. Committed' = Committed /\ file' = Committed
  BY DEF Committed
<1>2. StoreType'
  BY DEF NightlyInv, NightlyType, StoreType
<1>3. StoreInv'
  BY <1>1 DEF NightlyInv, StoreInv, NoBuild
<1> QED BY <1>1, <1>2, <1>3, CommittedKeeps

LEMMA RebuildNightly ==
  ASSUME NightlyInv, Rebuild
  PROVE  NightlyInv'
<1>1. build \in BuildRecord /\ UNCHANGED <<clock, life, closed, sched, scanner, call>>
  BY DEF Rebuild, NightlyInv, NightlyType, StoreType
<1>2. (StoreType /\ StoreInv)' /\ ScreenInv'
  <2>1. CASE Rollback
    BY <1>1, <2>1, RollbackNightly DEF Rollback
  <2>2. CASE Replace
    BY <1>1, <2>2, ReplaceBegins, ReplaceInserts, ReplaceCommits DEF Replace
  <2> QED BY <2>1, <2>2 DEF Rebuild
<1>3. SchedType'
  BY <1>1 DEF NightlyInv, NightlyType, SchedType
<1> QED BY <1>1, <1>2, <1>3, ListsKeep, ClockKeeps DEF NightlyInv, NightlyType, ClockType
(* A step of the tools changes one call and, adding lists, the scanner.    *)
LEMMA CallNightly ==
  ASSUME NightlyInv, UNCHANGED <<clock, life, closed, sched, file, undo, build>>,
         ScreenInv', CallType', ListInv'
  PROVE  NightlyInv'
<1>1. SchedType' /\ ClockType'
  BY ClockKeeps DEF NightlyInv, NightlyType, SchedType, ClockType
<1> QED BY <1>1, StoreKeeps DEF NightlyInv, NightlyType

LEMMA OneCallNightly ==
  ASSUME NightlyInv, NEW c \in Clients, NEW r \in {NoCall} \cup IndexCall \cup ListCall,
         call' = [call EXCEPT ![c] = r], Screened(r), OthersUnchanged
  PROVE  NightlyInv'
<1>1. call' \in [Clients \cup {Prewarm} -> {NoCall} \cup IndexCall \cup ListCall] /\ ScreenInv'
  BY OneCallMoves
<1>2. CallType'
  BY <1>1 DEF NightlyInv, NightlyType, CallType
<1> QED BY <1>1, <1>2, ListsKeep, CallNightly

LEMMA NewCallNightly ==
  ASSUME NightlyInv, NEW c \in Clients, NewCall(c)
  PROVE  NightlyInv'
<1>1. clock.day \in Days /\ clock.day \in 0..LastDay /\ 1..clock.day \subseteq 0..LastDay
      /\ ResolveDate \in 0..LastDay
  BY DateResolves, CalendarAssumption DEF NightlyInv, NightlyType, ClockType, Days
<1>2. CASE QueryHighYieldIndex(c)
  <2>1. PICK market \in Scopes :
          call' = [call EXCEPT ![c] = [pc |-> "built", date |-> clock.day, market |-> market,
                                       rows |-> {}, total |-> 0]]
    BY <1>2 DEF QueryHighYieldIndex, Begin, Scopes
  <2> DEFINE r == [pc |-> "built", date |-> clock.day, market |-> market, rows |-> {}, total |-> 0]
  <2>2. r \in IndexCall /\ Screened(r)
    BY <1>1 DEF IndexCall, Screened
  <2> HIDE DEF r
  <2> QED BY <2>1, <2>2, OneCallNightly DEF NewCall, r
<1>3. CASE GetAttentionDispositionStocks(c)
  <2>1. PICK market \in Markets, date \in {ResolveDate} \cup 1..clock.day :
          call' = [call EXCEPT ![c] = Reading(market, date, "alert")]
    BY <1>3 DEF GetAttentionDispositionStocks, Begin
  <2>2. Reading(market, date, "alert") \in ListCall /\ Screened(Reading(market, date, "alert"))
    BY <1>1, ReadingType DEF Scopes, Kinds
  <2> QED BY <2>1, <2>2, OneCallNightly DEF NewCall
<1>4. CASE GetOtcDaytradeTargets(c)
  <2>1. call' = [call EXCEPT ![c] = Reading("otc", clock.day, "daytrade")]
    BY <1>4 DEF GetOtcDaytradeTargets, Begin
  <2>2. Reading("otc", clock.day, "daytrade") \in ListCall /\ Screened(Reading("otc", clock.day, "daytrade"))
    BY <1>1, ReadingType DEF Scopes, Markets, Kinds
  <2> QED BY <2>1, <2>2, OneCallNightly DEF NewCall
<1> QED BY <1>2, <1>3, <1>4 DEF NewCall

(* While the connection is free, a visit sees what is committed.           *)
LEMMA VisitSees ==
  ASSUME NightlyInv, ConnectionFree, NEW d \in Days
  PROVE  /\ Rows(d) = OfDay(Committed, d)
         /\ Rows(d) # {} => Whole(Rows(d), d)
BY DEF ConnectionFree, Rows, OfDay, Committed, NightlyInv, StoreInv

LEMMA VisitsNightly ==
  ASSUME NightlyInv, NEW c \in Clients, Visits(c), OthersUnchanged
  PROVE  NightlyInv'
<1>1. call[c] \in IndexCall /\ ConnectionFree
  BY DEF Visits, Visit, NightlyInv, NightlyType, CallType, NoCall, ListCall
<1>2. call[c].date \in Days /\ call[c].market \in Scopes /\ call[c].rows \subseteq Row
  BY <1>1 DEF IndexCall
<1>3. Screened(call[c])
  BY DEF NightlyInv, ScreenInv
<1>4. Screened(NoCall)
  BY DEF Screened, NoCall
<1>5. CASE Visit(c, "built") /\ call' = [call EXCEPT ![c] = IF BuiltAt(@.date) = {} THEN NoCall
                                                           ELSE [@ EXCEPT !.pc = "again"]]
  <2>1. CASE BuiltAt(call[c].date) = {}
    <3>1. call' = [call EXCEPT ![c] = NoCall]
      BY <1>5, <2>1 DEF NightlyInv, NightlyType, CallType
    <3> QED BY <1>4, <3>1, OneCallNightly
  <2>2. CASE BuiltAt(call[c].date) # {}
    <3> DEFINE r == [call[c] EXCEPT !.pc = "again"]
    <3>1. call' = [call EXCEPT ![c] = r]
      BY <1>5, <2>2 DEF NightlyInv, NightlyType, CallType
    <3>2. r \in IndexCall /\ r.pc = "again" /\ r.date = call[c].date
      BY <1>1 DEF IndexCall
    <3>3. OfDay(Committed, call[c].date) # {}
      BY <1>1, <1>2, <2>2, VisitSees DEF BuiltAt
    <3> HIDE DEF r
    <3>4. Screened(r)
      BY <3>2, <3>3 DEF Screened
    <3> QED BY <3>1, <3>2, <3>4, OneCallNightly
  <2> QED BY <2>1, <2>2
<1>6. CASE Visit(c, "again") /\ call' = [call EXCEPT ![c].pc = "rows"]
  <2> DEFINE r == [call[c] EXCEPT !.pc = "rows"]
  <2>1. call' = [call EXCEPT ![c] = r]
    BY <1>6 DEF NightlyInv, NightlyType, CallType
  <2>2. r \in IndexCall /\ r.pc = "rows" /\ r.date = call[c].date
    BY <1>1 DEF IndexCall
  <2> HIDE DEF r
  <2>3. Screened(r)
    BY <1>3, <1>6, <2>2 DEF Screened, Visit
  <2> QED BY <2>1, <2>2, <2>3, OneCallNightly
<1>7. CASE Visit(c, "rows") /\ call' = [call EXCEPT ![c].pc = "count", ![c].rows = Page(call[c].date)]
  <2> DEFINE r == [call[c] EXCEPT !.pc = "count", !.rows = Page(call[c].date)]
  <2>1. call' = [call EXCEPT ![c] = r]
    BY <1>7 DEF NightlyInv, NightlyType, CallType
  <2>2. Page(call[c].date) \subseteq Row
    BY DEF Page, Rows, NightlyInv, NightlyType, StoreType
  <2>3. r \in IndexCall /\ r.pc = "count" /\ r.date = call[c].date /\ r.rows = Rows(call[c].date)
    BY <1>1, <2>2 DEF IndexCall, Page
  <2> HIDE DEF r
  <2>4. Rows(call[c].date) # {} /\ OfDay(Committed, call[c].date) # {}
    BY <1>1, <1>2, <1>3, <1>7, VisitSees DEF Screened, Visit
  <2>5. Screened(r)
    BY <1>1, <1>2, <2>3, <2>4, VisitSees DEF Screened
  <2> QED BY <2>1, <2>3, <2>5, OneCallNightly
<1>8. CASE Visit(c, "count") /\ call' = [call EXCEPT ![c].pc = "page",
                                                    ![c].total = Total(call[c].date, call[c].market)]
  <2> DEFINE r == [call[c] EXCEPT !.pc = "page", !.total = Total(call[c].date, call[c].market)]
             n == IF call[c].market = "" THEN Cardinality(Codes) ELSE Cardinality(CodesOf(call[c].market))
  <2>1. call' = [call EXCEPT ![c] = r]
    BY <1>8 DEF NightlyInv, NightlyType, CallType
  <2>2. PICK at \in Stamps : Rows(call[c].date) = WholeDay(call[c].date, at)
    BY <1>1, <1>2, <1>3, <1>8, VisitSees DEF Screened, Visit, Whole
  <2>3. Codes # {}
    BY <1>1, <1>2, <1>3, <1>8, <2>2, VisitSees DEF Screened, Visit, WholeDay
  <2>4. Total(call[c].date, call[c].market) = n
    <3>1. Cardinality(OfMarket(WholeDay(call[c].date, at), call[c].market)) = n
      BY <1>2, WholeDayCounts
    <3>2. Total(call[c].date, call[c].market) = Cardinality(OfMarket(Rows(call[c].date), call[c].market))
      BY DEF Total, OfMarket
    <3> QED BY <2>2, <3>1, <3>2
  <2>5. n \in Nat
    BY MarketCodes, FS_CardinalityType
  <2>6. /\ r \in IndexCall /\ r.pc = "page" /\ r.date = call[c].date /\ r.rows = call[c].rows
        /\ r.market = call[c].market /\ r.total = n
    <3> HIDE DEF n
    <3> QED BY <1>1, <2>4, <2>5 DEF IndexCall
  <2> HIDE DEF r
  <2>7. Screened(r)
    BY <1>3, <1>8, <2>6 DEF Screened, Visit
  <2> QED BY <2>1, <2>6, <2>7, OneCallNightly
<1> QED BY <1>5, <1>6, <1>7, <1>8 DEF Visits

LEMMA LeaveIndexNightly ==
  ASSUME NightlyInv, NEW c \in Clients, LeaveIndex(c), OthersUnchanged
  PROVE  NightlyInv'
BY OneCallNightly DEF LeaveIndex, Screened, NoCall

(* Rows that were read name stocks.                                        *)
LEMMA RowsReadType ==
  ASSUME NEW r \in ListCall, NEW rows \in RowsRead(r), NEW row \in rows
  PROVE  row.code \in Codes /\ row.own \in BOOLEAN
<1> DEFINE Own == {d = r.date : d \in NewestEditions \cup IF r.market = "otc" THEN {} ELSE {r.date}}
<1>1. rows \in AlertRows(r.market, r.date)
  BY DEF RowsRead
<1>2. PICK codes \in SUBSET CodesOf(r.market) :
        \E f \in [codes -> Own] : rows = {[code |-> c, own |-> f[c]] : c \in codes}
  BY <1>1 DEF AlertRows
<1>3. PICK f \in [codes -> Own] : rows = {[code |-> c, own |-> f[c]] : c \in codes}
  BY <1>2
<1>4. Own \subseteq BOOLEAN
  OBVIOUS
<1> HIDE DEF Own
<1>5. codes \subseteq Codes
  BY MarketCodes
<1>6. PICK c \in codes : row = [code |-> c, own |-> f[c]]
  BY <1>3
<1>7. f[c] \in BOOLEAN
  BY <1>4
<1> QED BY <1>5, <1>6, <1>7

(* Lists added were read for the date the scanner then shows; the lists of *)
(* another date are gone, and those of the same date stay, save an entry   *)
(* that is read again.                                                     *)
LEMMA AddListsScanner ==
  ASSUME NightlyInv, NEW p \in Clients \cup {Prewarm}, AddLists(p)
  PROVE  /\ scanner' \in Lists /\ ListInv'
         /\ scanner'.date = scanner.date =>
              \A e \in scanner.byKey : \E f \in scanner'.byKey : SameKey(e, f)
<1> DEFINE r == call[p]
<1>1. r \in ListCall
  BY DEF AddLists, NightlyInv, NightlyType, CallType, NoCall, IndexCall
<1>2. PICK rows \in RowsRead(r) : scanner' = Added(r, {Entry(r, row) : row \in rows})
  BY DEF AddLists
<1> DEFINE new == {Entry(r, row) : row \in rows}
           old == {e \in Kept(r.date) : ~\E f \in new : SameKey(e, f)}
<1> HIDE DEF r
<1>3. r.date \in 0..LastDay /\ r.market \in Scopes
  BY <1>1 DEF ListCall
<1>4. new \subseteq Entries /\ \A e \in new : e.asked = r.date
  <2>1. \A row \in rows : Entry(r, row) \in Entries /\ Entry(r, row).asked = r.date
    BY <1>1, <1>3, RowsReadType DEF Entry, Entries
  <2> QED BY <2>1
<1>5. /\ scanner'.date = r.date /\ scanner'.loaded = TRUE /\ scanner'.byKey = old \cup new
      /\ scanner' \in Lists <=> scanner'.byKey \subseteq Entries /\ scanner'.read \subseteq Markets
  BY <1>2, <1>3 DEF Added, Lists
<1>6. scanner'.read \subseteq Markets
  <2>1. scanner.read \subseteq Markets
    BY DEF NightlyInv, NightlyType, CallType, Lists
  <2> QED BY <1>2, <2>1 DEF Added
<1>7. Kept(r.date) \subseteq Entries /\ \A e \in Kept(r.date) : e.asked = r.date
  BY DEF Kept, NightlyInv, NightlyType, CallType, Lists, ListInv
<1> HIDE DEF new
<1>8. scanner' \in Lists /\ ListInv'
  BY <1>4, <1>5, <1>6, <1>7 DEF ListInv
<1>9. ASSUME scanner'.date = scanner.date, NEW e \in scanner.byKey
      PROVE  \E f \in scanner'.byKey : SameKey(e, f)
  <2>1. e \in Kept(r.date)
    BY <1>5, <1>9 DEF Kept, NightlyInv, ListInv
  <2>2. SameKey(e, e)
    BY DEF SameKey
  <2> QED BY <1>5, <2>1, <2>2
<1> QED BY <1>8, <1>9

LEMMA AddListsNightly ==
  ASSUME NightlyInv, NEW p \in Clients \cup {Prewarm}, AddLists(p)
  PROVE  NightlyInv'
<1>1. scanner' \in Lists /\ ListInv'
  BY AddListsScanner
<1>2. UNCHANGED <<clock, life, closed, sched, file, undo, build>> /\ call' = [call EXCEPT ![p] = NoCall]
  BY DEF AddLists
<1>3. call' \in [Clients \cup {Prewarm} -> {NoCall} \cup IndexCall \cup ListCall] /\ ScreenInv'
  BY <1>2, OneCallMoves DEF Screened, NoCall
<1> QED BY <1>1, <1>2, <1>3, CallNightly DEF CallType

LEMMA TickNightly ==
  ASSUME NightlyInv, Tick
  PROVE  NightlyInv'
<1>1. clock' \in [day : Days, part : Parts]
  <2>1. clock \in [day : Days, part : Parts] /\ clock.day \in Int /\ clock.part \in 0..4 /\ LastDay \in Int
    BY CalendarAssumption DEF NightlyInv, NightlyType, ClockType, Days, Parts
  <2>2. CASE clock.part < 4
    <3>1. clock.part + 1 \in Parts
      BY <2>1, <2>2 DEF Parts
    <3> QED BY <2>1, <2>2, <3>1 DEF Tick
  <2>3. CASE ~(clock.part < 4)
    <3>1. clock' = [day |-> clock.day + 1, part |-> 0] /\ clock.day + 1 <= LastDay
      BY <2>3 DEF Tick
    <3>2. clock.day + 1 \in Days /\ 0 \in Parts
      BY <2>1, <3>1 DEF Days, Parts, NightlyInv, NightlyType, ClockType
    <3> QED BY <3>1, <3>2
  <2> QED BY <2>2, <2>3
<1>2. UNCHANGED <<life, closed, sched, file, undo, build, scanner, call>>
  BY DEF Tick
<1>3. ClockType' /\ SchedType'
  BY <1>1, <1>2 DEF NightlyInv, NightlyType, ClockType, SchedType
<1> QED BY <1>2, <1>3, StoreKeeps, ListsKeep DEF NightlyInv, NightlyType

(* A restart leaves the committed index and nothing else.                  *)
LEMMA RestartNightly ==
  ASSUME NightlyInv, Restart
  PROVE  NightlyInv'
<1>1. (StoreType /\ StoreInv)'
  BY RollbackNightly DEF Restart
<1>2. ClockType'
  BY CalendarAssumption DEF Restart, NightlyInv, NightlyType, ClockType
<1>3. 0 \in 0..LastDay
  BY CalendarAssumption
<1>4. SchedType' /\ ListInv'
  BY <1>3 DEF Restart, SchedType, NotYet, ListInv, NoLists
<1>5. CallType'
  BY <1>3 DEF Restart, NightlyInv, NightlyType, CallType, Lists, NoLists
<1>6. ScreenInv'
  BY DEF Restart, NightlyInv, NightlyType, CallType, ScreenInv, Screened, NoCall
<1> QED BY <1>1, <1>2, <1>4, <1>5, <1>6 DEF NightlyInv, NightlyType

LEMMA NextNightly == NightlyInv /\ [Next]_vars => NightlyInv'
<1> SUFFICES ASSUME NightlyInv, [Next]_vars PROVE NightlyInv'
  OBVIOUS
<1>1. CASE UNCHANGED vars
  <2>1. SchedType'
    BY <1>1 DEF NightlyInv, NightlyType, SchedType
  <2> QED BY <1>1, <2>1, StoreKeeps, ListsKeep, ClockKeeps DEF NightlyInv, NightlyType, ClockType
<1>2. CASE Scheduler
  BY <1>2, TickOnceNightly, PrewarmMorningNightly, PrewarmPreOpenNightly, PrewarmIndexNightly,
     PrewarmEODNightly, RebuildNightly, AddListsNightly DEF Scheduler
<1>3. ASSUME NEW c \in Clients, NewCall(c) \/ CallStep(c)
      PROVE  NightlyInv'
  BY <1>3, NewCallNightly, VisitsNightly, LeaveIndexNightly, AddListsNightly DEF CallStep
<1>4. CASE Tick \/ Restart
  BY <1>4, TickNightly, RestartNightly
<1> QED BY <1>1, <1>2, <1>3, <1>4 DEF Next

(* The types, the store, the screens' rows and the lists, all together.    *)
THEOREM Invariance == Spec => []NightlyInv
<1>1. Init => NightlyInv
  BY InitNightly
<1>2. NightlyInv /\ [Next]_vars => NightlyInv'
  BY NextNightly
<1> QED BY <1>1, <1>2, PTL DEF Spec

-----------------------------------------------------------------------------
(* What follows from it.                                                   *)

(* The variables keep their types: a stage that is done is not due, and a  *)
(* rebuild that inserts rows holds its transaction.                        *)
THEOREM TypeCorrect == Spec => []TypeOK
<1>1. NightlyInv => TypeOK
  <2> SUFFICES ASSUME NightlyInv PROVE TypeOK
    OBVIOUS
  <2>1. ClockType /\ SchedType /\ StoreType /\ CallType /\ StoreInv
    BY DEF NightlyInv, NightlyType
  <2>2. build.pc = "insert" => undo # NoTx
    BY <2>1 DEF StoreInv, NoBuild
  <2>3. \A c \in DOMAIN call : call[c].pc \in {"idle", "built", "again", "rows", "count", "page", "add"}
    BY <2>1 DEF CallType, NoCall, IndexCall, ListCall
  <2> QED BY <2>1, <2>2, <2>3 DEF TypeOK, ClockType, SchedType, CallType, Lists
<1> QED BY <1>1, Invariance, PTL

(* A screen that is answered from the index shows every stock as one       *)
(* rebuild left it, and counts the stocks of its market (Replace, Query):  *)
(* the index a screen finds built can only be replaced as a whole between  *)
(* its visits.                                                             *)
THEOREM WholeIndex == Spec => []WholeBuilds
<1>1. NightlyInv => WholeBuilds
  <2> SUFFICES ASSUME NightlyInv, NEW c \in Clients, call[c].pc = "page"
               PROVE  /\ Cardinality({r.at : r \in call[c].rows}) = 1
                      /\ {r.code : r \in call[c].rows} = Codes
                      /\ call[c].total = IF call[c].market = "" THEN Cardinality(Codes)
                                         ELSE Cardinality(CodesOf(call[c].market))
    BY DEF WholeBuilds
  <2>1. Screened(call[c])
    BY DEF NightlyInv, ScreenInv
  <2>2. PICK at \in Stamps : call[c].rows = WholeDay(call[c].date, at)
    BY <2>1 DEF Screened, Whole
  <2>3. Codes # {}
    BY <2>1, <2>2 DEF Screened, WholeDay
  <2>4. {r.at : r \in call[c].rows} = {at} /\ {r.code : r \in call[c].rows} = Codes
    BY <2>2, <2>3, WholeDayRows
  <2> QED BY <2>1, <2>4, FS_Singleton DEF Screened
<1> QED BY <1>1, Invariance, PTL

(* Only lists that are added, and a restart, change the scanner.           *)
LEMMA OnlyListsScanned ==
  ASSUME life \in Nat, [Next]_vars, UNCHANGED life
  PROVE  UNCHANGED scanner \/ \E p \in Clients \cup {Prewarm} : AddLists(p)
<1>1. CASE UNCHANGED vars
  BY <1>1
<1>2. CASE Scheduler
  <2>1. \A s : Enter(s) => UNCHANGED scanner
    BY DEF Enter
  <2> QED BY <1>2, <2>1 DEF Scheduler, TickOnce, PrewarmMorning, PrewarmPreOpen, PrewarmIndex, PrewarmEOD, Rebuild
<1>3. ASSUME NEW c \in Clients, NewCall(c) \/ CallStep(c)
      PROVE  UNCHANGED scanner \/ AddLists(c)
  BY <1>3 DEF NewCall, CallStep
<1>4. CASE Tick
  BY <1>4 DEF Tick
<1>5. ~Restart
  BY DEF Restart
<1> QED BY <1>1, <1>2, <1>3, <1>4, <1>5 DEF Next

(* Every flag of a scan was read by a call for the date it shows, whoever  *)
(* adds lists for what dates and markets, and a flag stays as long as that *)
(* date does (AddLists, Scan).                                             *)
THEOREM FlagsKeepToTheirDate == Spec => ScanKeepsToItsDate
<1> DEFINE A == life' = life => \A code \in Codes :
                  /\ \A e \in Flags(code)' : e.asked = scanner'.date
                  /\ scanner'.date = scanner.date /\ Flags(code) # {} => Flags(code)' # {}
<1>1. NightlyInv /\ NightlyInv' /\ [Next]_vars => A
  <2> SUFFICES ASSUME NightlyInv, NightlyInv', [Next]_vars, life' = life, NEW code \in Codes
               PROVE  /\ \A e \in Flags(code)' : e.asked = scanner'.date
                      /\ scanner'.date = scanner.date /\ Flags(code) # {} => Flags(code)' # {}
    OBVIOUS
  <2>1. \A e \in Flags(code)' : e.asked = scanner'.date
    BY DEF NightlyInv, ListInv, Flags
  <2>2. CASE UNCHANGED scanner
    BY <2>1, <2>2 DEF Flags
  <2>3. CASE \E p \in Clients \cup {Prewarm} : AddLists(p)
    <3> SUFFICES ASSUME scanner'.date = scanner.date, NEW e \in Flags(code) PROVE Flags(code)' # {}
      BY <2>1
    <3>1. PICK f \in scanner'.byKey : SameKey(e, f)
      BY <2>3, AddListsScanner DEF Flags
    <3> QED BY <3>1 DEF Flags, SameKey
  <2>4. life \in Nat
    BY CalendarAssumption DEF NightlyInv, NightlyType, ClockType
  <2> QED BY <2>2, <2>3, <2>4, OnlyListsScanned
<1> QED BY <1>1, Invariance, PTL DEF Spec, ScanKeepsToItsDate
=============================================================================
