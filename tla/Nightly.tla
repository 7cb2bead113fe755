------------------------------ MODULE Nightly ------------------------------
(***************************************************************************)
(* The server's standing jobs and what they share with tool calls:         *)
(* the prewarm scheduler (pkg/mcp/prewarm.go), the screener index it       *)
(* rebuilds after the close (domain/screener/index.go, index_build.go) and *)
(* the day-trade scanner fed by its evening round and by two tools         *)
(* (risk.go, tools_bc.go).                                                 *)
(*                                                                         *)
(* The scheduler is one goroutine that wakes every half minute, takes the  *)
(* clock once and runs the stages that are due one after the other.  Tool  *)
(* calls run beside it; time passes between any two steps, also between    *)
(* two stages of one round; the process may be restarted anywhere.         *)
(* What the stages merely bring into the cache or into the symbol registry *)
(* is left out: filling the cache is the subject of ToolCalls and          *)
(* ReadThroughCache.                                                       *)
(*                                                                         *)
(* The index and the scanner share nothing but the scheduler's time, which *)
(* may pass anyway, so a behaviour follows one of them (topic): the other  *)
(* one's stage does nothing in it and no call asks for it.                 *)
(***************************************************************************)
EXTENDS Integers, FiniteSets

CONSTANTS Clients,         \* callers of tools, each with one call at a time
          TseCodes, OtcCodes,   \* the stocks of the two markets
          LastDay,         \* days run from 1, bounds the clock
          TradingDays,     \* the exchange's trading days
          KnownClosures,   \* the closures compiled into the calendar
          MaxLives         \* bounds the restarts

Days == 1..LastDay
Closures == Days \ TradingDays
Codes == TseCodes \cup OtcCodes
ASSUME CodesAssumption == TseCodes \cap OtcCodes = {} /\ IsFiniteSet(TseCodes) /\ IsFiniteSet(OtcCodes)
ASSUME CalendarAssumption ==
  /\ LastDay \in Nat \ {0} /\ MaxLives \in Nat \ {0}
  /\ TradingDays \subseteq Days /\ KnownClosures \subseteq Closures

\* The parts of a day, each from the hour a stage begins at: the night, 8:00,
\* 8:45, 15:00, 16:45.
StageAt == [morning |-> 1, preOpen |-> 2, index |-> 3, eod |-> 4]
Stages == DOMAIN StageAt
Parts == 0..4
AfterClose == StageAt["index"]

VARIABLES
  topic,    \* "index" or "lists"
  clock,    \* the day and its part
  life,     \* how many times the process was started
  closed,   \* the closures the calendar knows
  sched,    \* the scheduler: its day, the stages done, those due in this round
  ran,      \* history: the stages run on the clock's day and for it
  file,     \* the rows of index.db as the connection that writes them sees them
  undo,     \* <<what they were before its transaction>>, or NoTx
  build,    \* the rebuild in progress
  scanner,  \* the scanner's lists; history: the scopes their alerts were read under
  call      \* the tool calls, and the evening round's reading of the lists
vars == <<topic, clock, life, closed, sched, ran, file, undo, build, scanner, call>>

-----------------------------------------------------------------------------
IsTradingDay(day) == day \notin closed

\* resolveDate without a date: the last day whose reports are out.
ResolveDate ==
  IF clock.part >= AfterClose /\ IsTradingDay(clock.day) THEN clock.day
  ELSE CHOOSE d \in 0..clock.day - 1 : /\ d = 0 \/ IsTradingDay(d)
                                       /\ \A e \in d + 1..clock.day - 1 : ~IsTradingDay(e)

Markets == {"tse", "otc"}
MarketOf(code) == IF code \in OtcCodes THEN "otc" ELSE "tse"
CodesOf(market) == IF market = "otc" THEN OtcCodes ELSE TseCodes

NoTx == <<>>
NoBuild == [pc |-> "idle"]
NoCall == [pc |-> "idle"]
NoLists == [date |-> 0, loaded |-> FALSE, byKey |-> {}, read |-> {}]
NotYet == [day |-> 0, done |-> {}, due |-> {}]
Prewarm == "prewarm"

Init ==
  /\ topic \in {"index", "lists"}
  /\ clock = [day |-> 1, part |-> 0]
  /\ life = 1
  /\ closed = KnownClosures
  /\ sched = NotYet
  /\ ran = {}
  /\ file = {} /\ undo = NoTx
  /\ build = NoBuild
  /\ scanner = NoLists
  /\ call = [c \in Clients \cup {Prewarm} |-> NoCall]

-----------------------------------------------------------------------------
(* The scheduler.                                                          *)

(* Mutant: the flags of the day before are still set.                      *)
DoneForGood == sched.done

\* A new day resets the flags.
DoneToday == IF sched.day = clock.day THEN sched.done ELSE {}

(* Mutant: a stage is not skipped when its flag is set.                    *)
DueAgain(done) ==
  IF IsTradingDay(clock.day) THEN {s \in Stages : clock.part >= StageAt[s]} ELSE {"morning"}

\* On a trading day the stages whose hour has come, else the morning's only.
Due(done) ==
  IF IsTradingDay(clock.day) THEN {s \in Stages : clock.part >= StageAt[s]} \ done
  ELSE {"morning"} \ done

InStage == build # NoBuild \/ call[Prewarm] # NoCall

\* TickOnce: what is due in this round is decided by one reading of the clock
\* and of the calendar, however long the stages take.
TickOnce ==
  /\ ~InStage /\ sched.due = {}
  /\ sched' = [day |-> clock.day, done |-> DoneToday, due |-> Due(DoneToday)]
  /\ UNCHANGED <<topic, clock, life, closed, ran, file, undo, build, scanner, call>>

\* A stage counts as done as soon as it begins, also when it will fail.
Enter(s) ==
  /\ ~InStage /\ s \in sched.due
  /\ \A o \in sched.due : StageAt[s] <= StageAt[o]
  /\ sched' = [sched EXCEPT !.done = @ \cup {s}, !.due = @ \ {s}]
  /\ ran' = IF sched.day = clock.day THEN ran \cup {s} ELSE ran
  /\ UNCHANGED <<topic, clock, life, file, undo, scanner>>

\* The official closures are merged into the calendar, or are not to be had.
PrewarmMorning ==
  /\ Enter("morning")
  /\ closed' \in {closed, closed \cup Closures}
  /\ UNCHANGED <<build, call>>

\* The session cookie of the quote server is fetched anew.
PrewarmPreOpen == Enter("preOpen") /\ UNCHANGED <<closed, build, call>>

\* The newest edition of a list the sources give out: that of the last trading
\* day, or after the close today's already.
NewestEditions ==
  {d \in 0..clock.day : /\ d \in TradingDays \cup {0} /\ (d = clock.day => clock.part >= AfterClose)
                        /\ \A e \in d + 1..clock.day - 1 : e \notin TradingDays}

\* A handler that reads lists for the scanner, under the date it was asked for.
\* (One whose source fails hands nothing over: it is not followed.)
Reading(market, date, kind) == [pc |-> "add", market |-> market, date |-> date, kind |-> kind]

\* The evening's tasks run the tools' handlers without arguments; the one for
\* attention and disposition lists feeds the scanner, under no market.
PrewarmEOD ==
  /\ Enter("eod")
  /\ call' \in {call} \cup IF topic = "lists" THEN {[call EXCEPT ![Prewarm] = Reading("", ResolveDate, "alert")]}
                            ELSE {}
  /\ UNCHANGED <<closed, build>>

-----------------------------------------------------------------------------
(* The rebuild of the screener index.                                      *)

\* Snapshot rows of all stocks under the day the rebuild starts on; without
\* the valuations of both markets there is no rebuild.
PrewarmIndex ==
  /\ Enter("index")
  /\ build' \in {build} \cup
       IF topic = "index" THEN {[pc |-> "begin", date |-> clock.day, at |-> <<clock, life>>, todo |-> Codes]} ELSE {}
  /\ UNCHANGED <<closed, call>>

(* Mutant: readers get a connection of their own, not isolated from the    *)
(* writer's.                                                               *)
AlwaysFree == TRUE

\* The store has one connection, and a transaction keeps it to its end.
ConnectionFree == undo = NoTx
Rows(date) == {r \in file : r.date = date}
BuiltAt(date) == {r.at : r \in Rows(date)}

\* Replace: the day's rows are deleted, the new ones inserted, all committed.
Replace ==
  \/ /\ build.pc = "begin" /\ ConnectionFree
     /\ undo' = <<file>>
     /\ file' = file \ Rows(build.date)
     /\ build' = [build EXCEPT !.pc = "insert"]
  \/ /\ build.pc = "insert"
     /\ \E c \in build.todo :
          /\ file' = file \cup {[date |-> build.date, code |-> c, at |-> build.at]}
          /\ build' = [build EXCEPT !.todo = @ \ {c}]
     /\ undo' = undo
  \/ /\ build.pc = "insert" /\ build.todo = {}
     /\ undo' = NoTx /\ build' = NoBuild
     /\ file' = file

(* Mutant: a failed transaction is left open.                              *)
LeftOpen == build' = NoBuild /\ UNCHANGED <<file, undo>>

\* The deferred rollback.
Rollback ==
  /\ build' = NoBuild
  /\ file' = IF undo = NoTx THEN file ELSE undo[1]
  /\ undo' = NoTx

Rebuild ==
  /\ build # NoBuild
  /\ Replace \/ Rollback
  /\ UNCHANGED <<topic, clock, life, closed, sched, ran, scanner, call>>

-----------------------------------------------------------------------------
(* Screening for high yields by the index: three visits to the store after *)
(* the one that found it built.                                            *)

Begin(c, r) == call[c] = NoCall /\ call' = [call EXCEPT ![c] = r]
Visit(c, pc) == call[c].pc = pc /\ ConnectionFree
OthersUnchanged == UNCHANGED <<topic, clock, life, closed, sched, ran, file, undo, build, scanner>>

QueryHighYieldIndex(c) ==
  \E market \in Markets \cup {""} :
    Begin(c, [pc |-> "built", date |-> clock.day, market |-> market, rows |-> {}, total |-> 0])

\* The market filter of the page compares with names the index never holds
\* ("TSE", "OTC"), so it passes every row; the count's filter works.
Page(date) == Rows(date)
Total(date, market) == Cardinality({r \in Rows(date) : market # "" => MarketOf(r.code) = market})

\* Query reads the time of the build once more, for the freshness it tells.
Visits(c) ==
  \/ /\ Visit(c, "built")
     /\ call' = [call EXCEPT ![c] = IF BuiltAt(@.date) = {} THEN NoCall ELSE [@ EXCEPT !.pc = "again"]]
  \/ /\ Visit(c, "again")
     /\ call' = [call EXCEPT ![c].pc = "rows"]
  \/ /\ Visit(c, "rows")
     /\ call' = [call EXCEPT ![c].pc = "count", ![c].rows = Page(call[c].date)]
  \/ /\ Visit(c, "count")
     /\ call' = [call EXCEPT ![c].pc = "page", ![c].total = Total(call[c].date, call[c].market)]

\* An answer, or a failed visit: the screen is run on live data then.
LeaveIndex(c) ==
  /\ call[c].pc \in {"built", "rows", "count", "page"}
  /\ call' = [call EXCEPT ![c] = NoCall]

-----------------------------------------------------------------------------
(* The day-trade scanner.                                                  *)

(* Mutant: lists of another date are added to those there are.             *)
KeepOld(date) == scanner.byKey

\* Lists of another date replace all there are.
Kept(date) == IF scanner.date = date /\ scanner.loaded THEN scanner.byKey ELSE {}

\* Attention and disposition lists of a market, for a call without one those of
\* the listed stocks.  The notice page of the listed stocks is asked by day; the
\* other three sources take no date and give their newest edition, whatever day
\* the call is about: own tells whether a row is really of that day.
AlertRows(market, date) ==
  LET Own == {d = date : d \in NewestEditions \cup IF market = "otc" THEN {} ELSE {date}}
  IN  UNION {{{[code |-> c, own |-> f[c]] : c \in codes} : f \in [codes -> Own]} : codes \in SUBSET CodesOf(market)}

\* The over-the-counter stocks one may day-trade are stored under a kind no scan
\* looks at, so their rows are left out.
RowsRead(r) == IF r.kind = "alert" THEN AlertRows(r.market, r.date) ELSE {{}}

\* An entry is found by its scope and code.  History: the date of the call that
\* read it, and whether it is really of that date.
Entry(r, row) == [scope |-> r.market, code |-> row.code, asked |-> r.date, own |-> row.own]
SameKey(e, f) == e.scope = f.scope /\ e.code = f.code

\* AddLists, as soon as the answers are in.  History: the markets whose alerts
\* were read for the scanner's date.
Added(r, new) ==
  [date |-> r.date, loaded |-> TRUE,
   byKey |-> {e \in Kept(r.date) : ~\E f \in new : SameKey(e, f)} \cup new,
   read |-> (IF scanner.date = r.date THEN scanner.read ELSE {})
              \cup IF r.kind = "alert" THEN {r.market} \cap Markets ELSE {}]
AddLists(p) ==
  /\ call[p].pc = "add"
  /\ \E rows \in RowsRead(call[p]) : scanner' = Added(call[p], {Entry(call[p], row) : row \in rows})
  /\ call' = [call EXCEPT ![p] = NoCall]
  /\ UNCHANGED <<topic, clock, life, closed, sched, ran, file, undo, build>>

\* Attention and disposition lists of a market for the day named or the latest.
GetAttentionDispositionStocks(c) ==
  \E market \in Markets, date \in {ResolveDate} \cup 1..clock.day : Begin(c, Reading(market, date, "alert"))

\* The over-the-counter stocks one may day-trade, under the calendar's day.
GetOtcDaytradeTargets(c) == Begin(c, Reading("otc", clock.day, "daytrade"))

\* Scan, of a registered code: an alert is an attention or a disposition; kinds
\* no list is ever stored under are left out.
Flags(code) == {e \in scanner.byKey : e.scope = MarketOf(code) /\ e.code = code}
Scan(code) == [date |-> scanner.date, noted |-> ~scanner.loaded, flagged |-> Flags(code) # {}]

-----------------------------------------------------------------------------
CallStep(c) == \/ Visits(c) /\ OthersUnchanged
               \/ LeaveIndex(c) /\ OthersUnchanged
               \/ AddLists(c)
NewCall(c) == /\ \/ topic = "index" /\ QueryHighYieldIndex(c)
                 \/ topic = "lists" /\ (GetAttentionDispositionStocks(c) \/ GetOtcDaytradeTargets(c))
              /\ OthersUnchanged

Tick ==
  /\ clock' = IF clock.part < 4 THEN [clock EXCEPT !.part = @ + 1] ELSE [day |-> clock.day + 1, part |-> 0]
  /\ clock'.day <= LastDay
  /\ ran' = IF clock'.day = clock.day THEN ran ELSE {}
  /\ UNCHANGED <<topic, life, closed, sched, file, undo, build, scanner, call>>

\* The process ends anywhere and is started anew: a transaction that was not
\* committed leaves no trace in the file, and what was in memory is gone.
Restart ==
  /\ life < MaxLives /\ life' = life + 1
  /\ file' = IF undo = NoTx THEN file ELSE undo[1]
  /\ undo' = NoTx
  /\ closed' = KnownClosures
  /\ sched' = NotYet
  /\ build' = NoBuild
  /\ scanner' = NoLists
  /\ call' = [c \in DOMAIN call |-> NoCall]
  /\ UNCHANGED <<topic, clock, ran>>

Scheduler == \/ TickOnce \/ PrewarmMorning \/ PrewarmPreOpen \/ PrewarmIndex \/ PrewarmEOD
             \/ Rebuild \/ AddLists(Prewarm)

Next == \/ Scheduler
        \/ \E c \in Clients : NewCall(c) \/ CallStep(c)
        \/ Tick \/ Restart

Spec == Init /\ [][Next]_vars

\* Goroutines run on; a stage's requests are bounded by their clients, so
\* every stage comes to its end.
Fairness == WF_vars(Scheduler) /\ \A c \in Clients : WF_vars(CallStep(c))
FairSpec == Spec /\ Fairness

-----------------------------------------------------------------------------
(* Properties.                                                             *)

TypeOK ==
  /\ clock \in [day : Days, part : Parts] /\ life \in 1..MaxLives
  /\ closed \subseteq Closures
  /\ sched.day \in 0..LastDay /\ sched.done \subseteq Stages
  /\ sched.due \subseteq Stages \ sched.done
  /\ build.pc = "insert" => undo # NoTx
  /\ scanner.date \in 0..LastDay
  /\ \A c \in DOMAIN call : call[c].pc \in {"idle", "built", "again", "rows", "count", "page", "add"}

\* A screen answered from the index shows all stocks as one rebuild left them,
\* whatever rebuild, failure or restart came between its visits: never a half
\* written index, never rows of two rebuilds (Replace, Query).
WholeBuilds ==
  \A c \in Clients : call[c].pc = "page" =>
    /\ Cardinality({r.at : r \in call[c].rows}) = 1
    /\ {r.code : r \in call[c].rows} = Codes
    /\ call[c].total = IF call[c].market = "" THEN Cardinality(Codes) ELSE Cardinality(CodesOf(call[c].market))

\* Whatever tools and the evening round hand to the scanner, for several dates
\* and both markets and in any order: every flag of a scan was read by a call
\* for the date the scan shows, and a flag stays as long as that date does, also
\* when another market's lists come in or a list is read again (AddLists, Scan).
\* (Of what day the list really was is ScanIsOfItsDay's question.)
ScanKeepsToItsDate ==
  [][life' = life => \A code \in Codes :
       /\ \A e \in Flags(code)' : e.asked = scanner'.date
       /\ scanner'.date = scanner.date /\ Flags(code) # {} => Flags(code)' # {}]_vars

\* Again and again nothing is overdue: on a trading day every stage whose hour
\* has come gets run, after whatever restart or failure of another stage,
\* unless the day ends first (TickOnce).
StagesRun == []<>(clock.day \in TradingDays => {s \in Stages : clock.part >= StageAt[s]} \subseteq ran)

\* A screen ends, though it waits for the store's only connection, which a
\* rebuild holds from its first row to its last (SetMaxOpenConns, Rollback).
ScreensEnd == \A c \in Clients : call[c].pc = "built" ~> call[c] = NoCall

\* tools_bc.go:782 says that the lists, once read, feed the scanner: a stock on
\* a list the scanner took is flagged.  (The evening's lists flag none.)
ListedStocksAreFlagged == \A e \in scanner.byKey : Scan(e.code).flagged

\* The date a scan shows is that of the lists it used (model/intraday.go:72).
\* (The sources that take no date give their newest list for any day.)
ScanIsOfItsDay == \A code \in Codes : \A e \in Flags(code) : e.own /\ e.asked = Scan(code).date

\* A scan without list data says so (risk.go:25): one that does not had the
\* alerts of the stock's own market.  (Any list of any market counts as loaded.)
NoListsIsTold == \A code \in Codes : Scan(code).noted \/ MarketOf(code) \in scanner.read
=============================================================================
