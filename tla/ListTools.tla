------------------------------ MODULE ListTools ------------------------------
(***************************************************************************)
(* The tools made from a description of their data set, the statements     *)
(* kept by industry, the sustainability topics and the fund pages:         *)
(* pkg/mcp/tools_weblist.go, tools_esg.go, tools_etf.go.                   *)
(***************************************************************************)
EXTENDS ToolKit

\* webListSpec: a report page under today's date, or under the day asked for.
\* The page of one share's monthly trades forwards the code as its stock.
WebListSpec(now, ds, withDate, a) ==
  LET day   == IF withDate THEN ResolveDate(now, a.date) ELSE Today(now)
      stock == IF ds = "stock_mon_trade" THEN a.code ELSE a.stock_no
      par   == [NoParams EXCEPT !.date = IF withDate THEN day ELSE NoDay, !.stock = stock]
  IN  IF ds = "stock_mon_trade" /\ a.code = "" THEN Refuse("argument")
      ELSE Single(Web, day, Need(Ask(Web, ds, day, Who(a.code), par, "map")))

ApiListSpec(now, ds, a) == ReadTable(Api, now, ds, Who(a.code))

\* apiCompanySpec: a table cut to one company; a code that is not registered
\* is refused unless the table is about companies that are not listed.
FetchFinancialRowsForCode(now, ds, code) == Table(Api, now, ds, Who(code))
ApiCompanySpec(now, ds, skipRegistryCheck, code) ==
  IF code = "" THEN Refuse("argument")
  ELSE IF ~skipRegistryCheck /\ code \notin DOMAIN Symbols THEN Refuse("symbol")
  ELSE Single(Api, Today(now), OrMiss(Need(FetchFinancialRowsForCode(now, ds, code))))

-----------------------------------------------------------------------------
(* Statements come in six industry formats.  The order puts the industry's *)
(* own format first, but it is given the suffix where it expects the       *)
(* industry, and no suffix names an industry: the general one is first.    *)

FinancialSuffixOrder == <<"ci", "basi", "bd", "fh", "ins", "mim">>
BalanceSheetDatasets == <<"balance_sheet_ci", "balance_sheet_basi", "balance_sheet_bd",
  "balance_sheet_fh", "balance_sheet_ins", "balance_sheet_mim">>
IncomeStatementDatasets == <<"income_ci", "income_basi", "income_bd", "income_fh", "income_ins", "income_mim">>
PubBalanceSheetDatasets == <<"pub_bal_ci", "pub_bal_basi", "pub_bal_bd", "pub_bal_fh", "pub_bal_ins", "pub_bal_mim">>
PubIncomeStatementDatasets == <<"pub_income_ci", "pub_income_basi", "pub_income_bd",
  "pub_income_fh", "pub_income_ins", "pub_income_mim">>

FetchFinancialRowsFallback(now, datasets, code) ==
  Step([i \in 1..Len(FinancialSuffixOrder) |-> FetchFinancialRowsForCode(now, datasets[i], code)], "scan")
Statements(now, datasets, code) ==
  IF code = "" THEN Refuse("argument")
  ELSE Single(Api, Today(now), FetchFinancialRowsFallback(now, datasets, code))
GetCompanyBalanceSheet(now, a) ==
  IF SymbolOf(a.code) = "unknown" THEN Refuse("symbol") ELSE Statements(now, BalanceSheetDatasets, a.code)
GetPublicCompanyBalanceSheet(now, a) == Statements(now, PubBalanceSheetDatasets, a.code)
GetCompanyIncomeStatement(now, a) ==
  IF SymbolOf(a.code) = "unknown" THEN Refuse("symbol") ELSE Statements(now, IncomeStatementDatasets, a.code)
GetPublicCompanyIncomeStatement(now, a) == Statements(now, PubIncomeStatementDatasets, a.code)

\* The order asked for is part of the key.
GetProfitabilitySummary(now, a) ==
  ReadTable(Api, now, "profitability", <<a.order_by, Or(a.order_direction, "desc")>>)

-----------------------------------------------------------------------------
(* Sustainability topics: one data set, the topic a parameter.             *)

ESGTopic(now, topic) == Ask(Api, "esg", Today(now), <<>>, OfTable(topic), "ESGRow")
EsgCompanySpec(now, topic, code) ==
  IF code = "" THEN Refuse("argument")
  ELSE IF SymbolOf(code) = "unknown" THEN Refuse("symbol")
  ELSE Single(Api, Today(now), OrMiss(Need(ESGTopic(now, topic))))
EsgScanAll(now, topic) == Single(Api, Today(now), Need(ESGTopic(now, topic)))
GetRefineriesPopulatedAreas(now) == EsgScanAll(now, "15")
GetCompaniesWithAnticompetitiveLosses(now) == EsgScanAll(now, "20")
GetCompaniesWithInclusiveFinance(now) == EsgScanAll(now, "17")
\* The official list was withdrawn: a fixed answer, nothing is read.
GetCompaniesWithCSRReports103(now) == Plan(Api, Today(now), <<>>)

\* Three topics stand for the eight that are read when none is named.
OtcEsgTopics(topic) == IF topic = "" THEN <<"1", "2", "8">> ELSE <<topic>>
GetOtcEsgReport(now, a) ==
  LET topics == OtcEsgTopics(a.topic)
      read(t) == Ask(Tpex, "otc_esg", Today(now), <<>>, OfTable(t), "map")
  IN  IF SymbolOf(a.symbol) = "unknown" THEN Refuse("symbol")
      ELSE Single(Tpex, Today(now), Step([i \in 1..Len(topics) |-> read(topics[i])], "some"))

-----------------------------------------------------------------------------
(* Fund pages: histories that end at a day, kept under that day and fund.  *)

EtfPage(ds, day, code, table) == Ask(Web, ds, day, Who(code), OfTable(table), "page")

\* Net values and closing prices are both needed.
GetETFNav(now, a) ==
  LET end == ResolveDate(now, a.end)
  IN  IF SymbolOf(a.symbol) = "unknown" THEN Refuse("symbol")
      ELSE IF ~IsETF(a.symbol) \/ SymbolOf(a.symbol) # "tse" THEN Refuse("argument")
      ELSE Single(Web, end, OrMiss(Step(
             <<EtfPage("etf_nav_fundPric", end, a.symbol, "range"),
               EtfPage("etf_nav_close", end, a.symbol, "range")>>, "all")))
GetETFDividend(now, a) ==
  LET end == IF a.end = NoDay THEN Today(now) ELSE a.end
  IN  IF SymbolOf(a.symbol) = "unknown" THEN Refuse("symbol")
      ELSE IF ~IsETF(a.symbol) THEN Refuse("argument")
      ELSE Single(Web, end, OrMiss(Need(EtfPage("etf_dividend", end, a.symbol, "range"))))
GetETFPerformance(now, a) ==
  IF a.symbol = "" THEN Refuse("argument")
  ELSE Single(Web, Today(now), OrMiss(Need(EtfPage("etf_performance", Today(now), a.symbol, ""))))
GetETFDividendDetail(now, a) ==
  IF a.symbol = "" THEN Refuse("argument")
  ELSE Single(Web, Today(now), OrMiss(Need(EtfPage("etf_dividend_detail", Today(now), a.symbol, a.upcoming))))
=============================================================================
