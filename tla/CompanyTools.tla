---------------------------- MODULE CompanyTools ----------------------------
(***************************************************************************)
(* The handlers of groups D and E (statements, valuation, dividends,       *)
(* screens) and the composite trend: pkg/mcp/tools_de.go, tools_trend.go.  *)
(*                                                                         *)
(* Which reads a handler makes may depend on the rows of an earlier one.   *)
(* Rows are not modelled, so that is an input: a.found says whether the    *)
(* income summary holds the code, a.built whether the screener's index of  *)
(* today exists.                                                           *)
(***************************************************************************)
EXTENDS ToolKit

MopsRead(now, ds, row) == Ask(Mops, ds, Today(now), <<>>, NoParams, row)
MopsStatement(now, ds, code, season, row) ==
  Ask(Mops, ds, Today(now), Who(code), [NoParams EXCEPT !.stock = code, !.table = season], row)
ApiRows(now, ds, row) == Ask(Api, ds, Today(now), <<>>, NoParams, row)
ValuationTSE(now) == ApiRows(now, "valuation", "ValuationRow")
ValuationOTC(now) == Ask(Tpex, "pe_valuation", Today(now), <<>>, NoParams, "TPExPEValuationRow")
ExRights(now) == Ask(Tpex, "ex_rights", Today(now), <<>>, NoParams, "TPExExRightRow")
EsgCodes(now) == Untold(Need(Ask(Api, "esg", Today(now), <<>>, OfTable("1"), "ESGRow")))

IncomeSummary(now) == MopsRead(now, "income_summary", "IncomeSummary")
IncomeStatement(now, code, season) == MopsStatement(now, "income_statement", code, season, "IncomeStatement")
BalanceSheet(now, code) == MopsStatement(now, "balance_sheet", code, "latest", "BalanceSheet")
CashFlow(now, code) == MopsStatement(now, "cash_flow", code, "latest", "CashFlow")

\* The summary, or one statement page per season back from the last until one
\* has figures.  Two seasons stand for eight.  No outcome here is told.
Seasons == <<"latest", "earlier">>
IncomeOfWithAJAXFallback(now, code, found, season) ==
  LET search == Step([i \in 1..Len(Seasons) |-> IncomeStatement(now, code, Seasons[i])], "scan")
      pages == IF found THEN <<>>
               ELSE <<IF season = "" THEN search ELSE Need(IncomeStatement(now, code, season))>>
      steps == <<OrMiss(Need(IncomeSummary(now)))>> \o pages
  IN  [i \in 1..Len(steps) |-> Untold(steps[i])]

\* The same search where its failure does not end the call, as the steps that
\* follow the n-th.
AjaxPages(now, code, n) ==
  <<After(n, Untold(Try(IncomeSummary(now)))),
    After(n + 1, Untold(Step([i \in 1..Len(Seasons) |-> IncomeStatement(now, code, Seasons[i])], "hunt")))>>

GetFinancialStatements(now, a) ==
  LET period   == IF a.period = "" THEN <<>> ELSE <<Untold(Need(IncomeSummary(now)))>>
      \* without the summary's rows the period asked for is not parsed
      income   == IncomeOfWithAJAXFallback(now, a.symbol, a.found, "")
      wanted(kind, step) == IF a.statement \in {"", kind} THEN <<step>> ELSE <<>>
  IN  IF SymbolOf(a.symbol) = "unknown" THEN Refuse("symbol")
      ELSE IF a.statement \notin {"", "income", "balance", "cashflow"} THEN Refuse("option")
      ELSE Plan(Mops, Today(now), period \o income
             \o wanted("income", Need(MopsRead(now, "profit_ratios", "ProfitabilityRatio")))
             \o wanted("balance", Need(BalanceSheet(now, a.symbol)))
             \o wanted("cashflow", Need(CashFlow(now, a.symbol))))

GetMonthlyRevenue(now, a) ==
  IF SymbolOf(a.symbol) = "unknown" THEN Refuse("symbol")
  ELSE Single(Mops, Today(now), OrMiss(Need(MopsRead(now, "monthly_revenue", "MonthlyRevenue"))))

\* The failure of the dividend read returns the error of an earlier one, which
\* is nil: the caller gets an answer with nothing in it.
GetFinancialHealthCheck(now, a) ==
  LET code     == a.symbol
      income   == Need(IncomeSummary(now))
      ajax     == IF a.found THEN <<>> ELSE AjaxPages(now, code, 1)
      latest   == 1 + Len(ajax)
      finances == <<After(latest, Try(BalanceSheet(now, code))), After(latest, Try(CashFlow(now, code)))>>
      payout   == IF SymbolOf(code) = "otc" THEN <<Step(<<ValuationOTC(now)>>, "hollow")>>
                  ELSE <<Step(<<ApiRows(now, "dividend", "DividendRow")>>, "hollow"),
                         Untold(Try(ValuationTSE(now)))>>
  IN  IF SymbolOf(code) = "unknown" THEN Refuse("symbol")
      ELSE Plan(Mops, Today(now), <<income>> \o ajax
             \o <<Need(MopsRead(now, "profit_ratios", "ProfitabilityRatio"))>> \o finances \o payout
             \o <<EsgCodes(now), Try(ApiRows(now, "company_governance", "GovernanceRow"))>>)

-----------------------------------------------------------------------------
(* Valuation and dividends.                                                *)

\* A failure only leaves the ratio out, with a note.
FillROE(now, code, found, n) ==
  LET ajax == IF found THEN <<>> ELSE AjaxPages(now, code, n + 1)
  IN  <<Untold(Try(IncomeSummary(now)))>> \o ajax
      \o <<After(n + 1 + Len(ajax), Untold(Try(BalanceSheet(now, code))))>>

GetValuationRatios(now, a) ==
  LET otc == <<OrMiss(Need(ValuationOTC(now)))>>
      tse == <<OrMiss(Need(ValuationTSE(now))), Untold(Try(ApiRows(now, "dividend", "DividendRow")))>>
  IN  CASE SymbolOf(a.symbol) = "otc" -> Plan(Tpex, RowsDay, otc \o FillROE(now, a.symbol, a.found, 1))
        [] SymbolOf(a.symbol) = "tse" -> Plan(Api, RowsDay, tse \o FillROE(now, a.symbol, a.found, 2))
        [] OTHER                      -> Refuse("symbol")

GetCompanyProfile(now, a) ==
  IF SymbolOf(a.symbol) = "unknown" THEN Refuse("symbol")
  ELSE Single(Mops, RowsDay, OrMiss(Need(MopsRead(now, "company_profile", "CompanyProfile"))))

GetDividendHistory(now, a) ==
  CASE SymbolOf(a.symbol) = "otc" ->
         Plan(Tpex, RowsDay, <<OrMiss(Need(ValuationOTC(now))), Try(ExRights(now))>>)
    [] SymbolOf(a.symbol) = "tse" ->
         Plan(Api, Today(now), <<OrMiss(Need(ApiRows(now, "dividend", "DividendRow"))),
                                 Try(ApiRows(now, "ex_div", "ExDivEventRow")),
                                 Untold(Try(ValuationTSE(now)))>>)
    [] OTHER -> Refuse("symbol")

GetExdividendCalendar(now) ==
  Plan(Api, Today(now), <<Need(ApiRows(now, "ex_div", "ExDivEventRow")), Need(ExRights(now))>>)

-----------------------------------------------------------------------------
(* Screens over the whole market.                                          *)

ScreenMetrics(now, market) ==
  (IF market = "otc" THEN <<>> ELSE <<Need(ValuationTSE(now))>>)
  \o (IF market = "tse" THEN <<>> ELSE <<Need(ValuationOTC(now))>>)
  \o <<Untold(Need(MopsRead(now, "monthly_revenue", "MonthlyRevenue"))), Untold(Try(IncomeSummary(now)))>>
  \o (IF market = "otc" THEN <<>> ELSE <<Untold(Need(ApiRows(now, "dividend", "DividendRow")))>>)
Screen(now, market, more) ==
  IF market \notin {"", "tse", "otc"} THEN Refuse("option")
  ELSE Plan(IF market = "otc" THEN Tpex ELSE Api, Today(now), ScreenMetrics(now, market) \o more)

ScreenStocks(now, a) ==
  IF a.sort \notin {"", "pe", "yield", "pb", "growth"} THEN Refuse("option")
  ELSE Screen(now, a.market, IF a.require_esg THEN <<EsgCodes(now)>> ELSE <<>>)

\* Today's index answers without reading any source.
ScreenHighYield(now, a) ==
  IF a.built THEN Plan(Api, Today(now), <<>>) ELSE Screen(now, a.market, <<>>)

-----------------------------------------------------------------------------
(* Composite trend: prices, then fundamentals, then the institutions.      *)

TrendHorizons == [short |-> 1, mid |-> 3, long |-> 6]

\* Over-the-counter shares have no price history; the lineage of the prices
\* never says that a month was stale.
TrendTechnical(now, code, date, months) ==
  LET month(start) == Ask(Web, "daily_k", date, Who(code),
                          [NoParams EXCEPT !.date = start, !.stock = code], "Candle")
      starts == MonthStarts(months)
  IN  IF SymbolOf(code) = "otc" THEN <<>>
      ELSE <<Untold(Step([i \in 1..months |-> month(starts[i])], "all"))>>

TrendFundamental(now, code) ==
  <<OrMiss(Need(IF SymbolOf(code) = "otc" THEN ValuationOTC(now) ELSE ValuationTSE(now))),
    Try(IncomeSummary(now))>>

\* Two days before the date stand for five.
TrendChip(now, code, date) ==
  LET before(d) == Ask(Web, "institutional", d, <<>>, OnDay(d), "InstitutionalRow")
      last == PrevTradingDay(date)
  IN  IF SymbolOf(code) = "otc"
      THEN <<Need(Ask(Tpex, "institutional", date, <<>>, OnDay(date), "TPExInstitutionalRow"))>>
      ELSE <<Step(<<before(last), before(PrevTradingDay(last))>>, "until")>>

GetStockTrendComposite(now, a) ==
  LET date    == ResolveDate(now, NoDay)
      horizon == Or(a.horizon, "mid")
  IN  IF SymbolOf(a.symbol) = "unknown" THEN Refuse("symbol")
      ELSE IF horizon \notin DOMAIN TrendHorizons THEN Refuse("option")
      ELSE Plan(IF SymbolOf(a.symbol) = "otc" THEN Tpex ELSE Web, date,
             TrendTechnical(now, a.symbol, date, TrendHorizons[horizon])
             \o TrendFundamental(now, a.symbol) \o TrendChip(now, a.symbol, date))
=============================================================================
