------------------------------ MODULE ToolKit ------------------------------
(***************************************************************************)
(* What a tool handler does to the rest of the server, as a value.         *)
(*                                                                         *)
(* A handler validates its arguments, then reads data sets in an order its *)
(* code fixes, then shapes rows.  A plan records the reads and what their  *)
(* outcomes do to the answer; shaping rows (filters, pages, indicators) is *)
(* left out, but for the searches whose miss ends the call in an error.    *)
(*                                                                         *)
(* A step reads its asks in order under one of these regimes:              *)
(*   all    every ask is needed, the first failure ends the call           *)
(*   try    failures are ignored                                           *)
(*   some   failures are ignored unless every ask fails                    *)
(*   scan   stop at the table that holds the code; no table, no answer     *)
(*   seek   as scan, but the answer goes on without it unless all failed   *)
(*   hunt   as scan, but the answer goes on without it                     *)
(*   until  stop at the first failure, quietly                             *)
(*   hollow a failure ends the call in a success with nothing in it        *)
(* told says whether a stale row (an expired one served because the source *)
(* failed) reaches the lineage; miss, that the call may still end in "no   *)
(* such row" although everything was read; after, that the step is skipped *)
(* unless the step of that number got its rows.                            *)
(***************************************************************************)
EXTENDS Feeds, Sequences

\* A day is a number, the first of the modelled month is day 1, and k months
\* before it the first is day -k.
MonthStarts(n) == [i \in 1..n |-> IF i = 1 THEN 1 ELSE 1 - i]

\* The model's symbol registry: a listed share, an over-the-counter share and
\* a listed fund.
Symbols == [L |-> "tse", O |-> "otc", E |-> "tse"]
SymbolOf(code) == IF code \in DOMAIN Symbols THEN Symbols[code] ELSE "unknown"
IsETF(code) == code = "E"

\* Arguments a client may leave out are "" or NoDay, as in the handlers.
Opt(S) == S \cup {""}
Or(arg, default) == IF arg = "" THEN default ELSE arg
Codes == {"L", "O"}
Funds == {"E"}
SomeCode == {"", "L"}
Dates == {NoDay, 1}
Who(code) == IF code = "" THEN <<>> ELSE <<code>>

Today(now) == now.day

\* resolveDate: the day named, else the last one whose reports are out.
PrevTradingDay(day) == day - 1
ResolveDate(now, date) == IF date # NoDay THEN date
                          ELSE IF now.late THEN now.day ELSE PrevTradingDay(now.day)

-----------------------------------------------------------------------------
Ask(src, ds, day, who, par, row) ==
  [src |-> src, ds |-> ds, day |-> day, who |-> who, par |-> par, row |-> row]

(* Mutant: the parameters of the request are not part of the key.           *)
KeyWithoutParams(a) == <<a.src, a.ds, a.day, a.who>>

\* KeyString: source, data set, day, symbol and parameters; not the row type.
KeyString(a) == <<a.src, a.ds, a.day, a.who, a.par>>

Step(asks, how) == [asks |-> asks, how |-> how, told |-> TRUE, miss |-> FALSE, after |-> 0]
Need(ask) == Step(<<ask>>, "all")
Try(ask) == Step(<<ask>>, "try")
OrMiss(step) == [step EXCEPT !.miss = TRUE]
After(n, step) == [step EXCEPT !.after = n]
Untold(step) == [step EXCEPT !.told = FALSE]

\* An answer's lineage names a source and the day of its data; RowsDay says
\* that the day is the one written in the rows.
RowsDay == 99
Plan(src, day, steps) == [src |-> src, day |-> day, steps |-> steps, refused |-> "no"]
Single(src, day, step) == Plan(src, day, <<step>>)

\* A handler that turns the call away before reading anything.
Refuse(why) == [Plan("", NoDay, <<>>) EXCEPT !.refused = why]

\* The common read: one table under today's date, rows kept as they come.
Table(src, now, ds, who) == Ask(src, ds, Today(now), who, NoParams, "map")
ReadTable(src, now, ds, who) == Single(src, Today(now), Need(Table(src, now, ds, who)))
TpexToday(now, ds, who) == ReadTable(Tpex, now, ds, who)
TpexKind(now, kinds, kind, who) ==
  IF kind \in DOMAIN kinds THEN TpexToday(now, kinds[kind], who) ELSE Refuse("option")

\* A call a client may make: the tool's name and the plan its arguments give.
Offer(tool, plans) == {[tool |-> tool, plan |-> p] : p \in plans}
=============================================================================
