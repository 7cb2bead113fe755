--------------------------- MODULE DerivativeTools ---------------------------
(***************************************************************************)
(* The handlers of group F and G (futures, options, the exchange's lists): *)
(* pkg/mcp/tools_fg.go.  All but two read through the query layer of the   *)
(* futures exchange; how that layer finds a day in its two sources is the  *)
(* subject of TaifexQuery.  Here a read gives the rows of the day asked    *)
(* for, or nothing.                                                        *)
(***************************************************************************)
EXTENDS ToolKit

\* LatestTradingDay: the last day whose reports are out.
TaifexDate(now, date) == ResolveDate(now, date)
Report(ds, day, contract) == Ask(Taifex, ds, day, Who(contract), NoParams, "rows")

\* One day of one report: a day without rows is an error.
OneDay(ds, day, contract) == Single(Taifex, day, Need(Report(ds, day, contract)))
Latest(now, ds) == OneDay(ds, TaifexDate(now, NoDay), "")
OnDate(now, ds, a) == OneDay(ds, TaifexDate(now, a.date), "")

\* A search in the rows that ends in an error when it finds nothing.
Searched(plan, code) ==
  IF code = "" THEN plan
  ELSE [plan EXCEPT !.steps = [i \in DOMAIN plan.steps |-> OrMiss(plan.steps[i])]]

\* The kind names the report; one that is not listed is refused.
LatestKind(now, kinds, kind) ==
  IF kind \in DOMAIN kinds THEN Latest(now, kinds[kind]) ELSE Refuse("option")
DateKind(now, kinds, kind, a) ==
  IF kind \in DOMAIN kinds THEN OnDate(now, kinds[kind], a) ELSE Refuse("option")

-----------------------------------------------------------------------------
(* Ranges of days: the days without rows are left out of the answer, and   *)
(* only a range without any is an error.  The answer is dated by the end.  *)

ValidateRange(start, end) == start # NoDay /\ end # NoDay /\ start <= end
CollectRangeRows(ds, start, end, contract) ==
  Step([i \in 1..(end - start + 1) |-> Report(ds, start + i - 1, contract)], "some")
DayRange(ds, a, contract) ==
  IF ~ValidateRange(a.start, a.end) THEN Refuse("argument")
  ELSE Single(Taifex, a.end, CollectRangeRows(ds, a.start, a.end, contract))

-----------------------------------------------------------------------------
(* Futures and options quotes.                                             *)

FuturesContractWhitelist ==
  {"TX", "MTX", "GTX", "G2F", "G1F", "G9F", "E4F", "XIF", "GXF", "T5F"}
WithFuturesContract(contract, plan) ==
  IF contract \in FuturesContractWhitelist THEN plan ELSE Refuse("argument")

GetFuturesDailyOHLC(now, a) ==
  WithFuturesContract(a.contract, OneDay("futures_daily", TaifexDate(now, a.date), a.contract))

\* Left out, the contract is TX; given as the empty string, the whole market
\* is read for the list of its contracts.
GetDailyFuturesMarketReport(now, a) ==
  LET day == TaifexDate(now, NoDay)
      contract == Or(a.contract, "TX")
  IN  IF a.listed THEN OneDay("futures_daily", day, "")
      ELSE WithFuturesContract(contract, OneDay("futures_daily", day, contract))
GetDailyOptionsMarketReport(now, a) ==
  CASE a.call_put \notin {"", "call", "put"} -> Refuse("option")
    [] OTHER -> OneDay("options_daily", TaifexDate(now, NoDay),
                       IF a.listed THEN "" ELSE Or(a.contract, "TXO"))

GetFuturesHistory(now, a) == WithFuturesContract(a.contract, DayRange("futures_daily", a, a.contract))
GetFuturesDailyHistory(now, a) ==
  GetFuturesHistory(now, [a EXCEPT !.contract = Or(a.contract, "TX")])
GetOptionsDailyHistory(now, a) ==
  IF a.call_put \notin {"", "call", "put"} THEN Refuse("option")
  ELSE DayRange("options_daily", a, Or(a.contract, "TXO"))
GetOptionsDelta(now, a) == Latest(now, "options_delta")
GetOptionsOIChange(now, a) == OnDate(now, "oi_change", a)
TickReports == [futures |-> "tick_futures", options |-> "tick_options"]
GetTimeAndSales(now, a) ==
  OnDate(now, TickReports[IF a.market = "options" THEN "options" ELSE "futures"], a)

-----------------------------------------------------------------------------
(* Large traders and the institutions.                                     *)

LargeTradersOI(now, a, ds) == Searched(OnDate(now, ds, a), a.contract)
GetLargeTradersFuturesOI(now, a) == LargeTradersOI(now, a, "large_trader_fut")
GetLargeTradersOptionsOI(now, a) == LargeTradersOI(now, a, "large_trader_opt")
GetLargeTradersFuturesHistory(now, a) ==
  IF a.contract = "" THEN Refuse("argument") ELSE DayRange("large_trader_fut", a, "")

\* Both markets are read; only what is known of the futures' rows is told.
GetLargeTraderPositions(now, a) ==
  LET day  == TaifexDate(now, a.date)
      read(ds) == IF a.start # NoDay \/ a.end # NoDay THEN CollectRangeRows(ds, a.start, a.end, "")
                  ELSE Need(Report(ds, day, ""))
  IN  IF (a.start # NoDay \/ a.end # NoDay) /\ ~ValidateRange(a.start, a.end) THEN Refuse("argument")
      ELSE Plan(Taifex, IF a.end = NoDay THEN day ELSE a.end,
                <<read("large_trader_fut"), Untold(read("large_trader_opt"))>>)

GetPutCallRatio(now, a) ==
  IF a.start # NoDay \/ a.end # NoDay THEN DayRange("put_call_ratio", a, "")
  ELSE OnDate(now, "put_call_ratio", a)

GetInstitutionalTotalHistory(now, a) == DayRange("insti_total", a, "")
GetInstitutionalTradersByFuturesHistory(now, a) == DayRange("insti_futures", a, Or(a.contract, "TXF"))
InstiHistByContract(ds, a, defaultContract) == DayRange(ds, a, Or(a.contract, defaultContract))
GetOptionsInstiByContractHistory(now, a) == InstiHistByContract("opt_insti_by_contract", a, "TXO")
GetOptionsInstiCallsPutsHistory(now, a) == InstiHistByContract("insti_cp_hist", a, "TXO")
GetInstitutionalFutOptSplitHistory(now, a) == DayRange("insti_fut_opt_split", a, "")
GetInstitutionalFuturesHistory(now, a) == DayRange("insti_futures", a, "")

InstiPositions(now, a, ds) == OnDate(now, ds, a)
GetInstitutionalFuturesPositions(now, a) == InstiPositions(now, a, "insti_futures")
GetInstitutionalOptionsPositions(now, a) == InstiPositions(now, a, "insti_options")
GetFuturesInstitutional(now, a) == OnDate(now, "insti_divided", a)
GetInstitutionalGeneral(now, a) == OnDate(now, "insti_general", a)
InstiTradersByContract(now, a, ds) == Searched(OnDate(now, ds, a), a.code)
GetInstitutionalTradersByFutures(now, a) == InstiTradersByContract(now, a, "insti_futures")
GetInstitutionalTradersByOptions(now, a) == InstiTradersByContract(now, a, "insti_options")
GetInstitutionalTradersCallsPuts(now, a) == OnDate(now, "insti_calls_puts", a)
InstiWeeklyTypes == [
  general |-> "insti_general_week", fut_opt |-> "insti_divided_week",
  fut_contracts |-> "insti_fut_cont_week", opt_contracts |-> "insti_opt_cont_week",
  calls_puts |-> "insti_cp_week"]
GetInstiWeekly(now, a) == DateKind(now, InstiWeeklyTypes, Or(a.kind, "general"), a)

-----------------------------------------------------------------------------
(* Settlement prices, positions and block trades.  A date given to the     *)
(* first two only filters the rows of the latest day.                      *)

FspCategories == [
  all |-> "fsp_all", futures |-> "fsp_futures", index_futures |-> "fsp_index_futures",
  ssf |-> "fsp_ssf", index_options |-> "fsp_index_options", fx |-> "fsp_fx",
  gold |-> "fsp_gold", ir |-> "fsp_ir", options |-> "fsp_options", sso |-> "fsp_sso"]
GetFinalSettlementPrice(now, a) == LatestKind(now, FspCategories, Or(a.kind, "all"))
SpCategories == [
  all |-> "sp_all", futures |-> "sp_futures", index_options |-> "sp_index_options",
  fx |-> "sp_fx", fx_futures |-> "sp_fx_futures", gold |-> "sp_gold", ir |-> "sp_ir",
  index_futures |-> "sp_index_futures", options |-> "sp_options", ssf |-> "sp_ssf", sso |-> "sp_sso"]
GetSettledPositions(now, a) == LatestKind(now, SpCategories, Or(a.kind, "all"))
BtKinds == [
  all |-> "block_trade", futures |-> "bt_fut_info", options |-> "bt_opt_info",
  summary_futures |-> "bt_fut_summary", summary_options |-> "bt_opt_summary"]
GetTaifexBlockTrade(now, a) == DateKind(now, BtKinds, Or(a.kind, "all"), a)
SfsPeriods == [
  daily |-> "stock_fut_stats_d", monthly |-> "stock_fut_stats_m",
  yearly |-> "stock_fut_stats_y", oi_daily |-> "stock_opt_oi_delta"]
GetStockFuturesStats(now, a) == DateKind(now, SfsPeriods, Or(a.kind, "daily"), a)
(* Mutant: the switch of the handler misses a kind its schema has.          *)
SsfKindsButOne == [ssf_list |-> "ssf_lists", top10 |-> "stf_top10"]
SsfKinds == [ssf_list |-> "ssf_lists", top10 |-> "stf_top10", sso_list |-> "sso_lists"]
GetSSFOverview(now, a) == DateKind(now, SsfKinds, Or(a.kind, "ssf_list"), a)

\* Margins.  Index and stock margins can miss the code; the others filter.
GetStockFuturesMargin(now, a) == Searched(Latest(now, "stock_margin"), a.code)
GetIndexFuturesMargin(now, a) == Searched(OnDate(now, "margin", a), a.contract)
MarginTable(now, a, ds) == OnDate(now, ds, a)
GetFxMargin(now, a) == MarginTable(now, a, "margin_fx")
GetIrMargin(now, a) == MarginTable(now, a, "margin_ir")
GetGoldMargin(now, a) == MarginTable(now, a, "margin_gold")
GetEtfMargin(now, a) == MarginTable(now, a, "margin_etf")

-----------------------------------------------------------------------------
(* Merchants, limits, collateral and statistics, always of the latest day. *)

FcmKinds == [
  lists |-> "fcm_lists", branch |-> "fcm_branch_lists", netvalue |-> "fcm_net_value",
  income |-> "fcm_income", accumulated |-> "fcm_acc_income"]
GetFcmProfiles(now, a) == LatestKind(now, FcmKinds, Or(a.kind, "lists"))
PosLimitCats == [equity |-> "pos_limit_equity", non_equity |-> "pos_limit_non_equity"]
GetPositionLimits(now, a) == LatestKind(now, PosLimitCats, Or(a.kind, "equity"))
ContractAdjViews == [
  adjust |-> "contract_adj", adjusted |-> "ssf_adjusted_info", fee |-> "fee_schedule"]
GetContractAdjust(now, a) == LatestKind(now, ContractAdjViews, Or(a.kind, "adjust"))
CollKinds == [
  stock |-> "coll_stock", bond |-> "coll_gov_bond", international |-> "coll_intl_bond",
  log |-> "coll_log_stock"]
GetAcceptableCollateral(now, a) == LatestKind(now, CollKinds, Or(a.kind, "stock"))
MmCMKinds == [
  mm_fut |-> "mm_fut_lists", mm_opt |-> "mm_opt_lists", cm |-> "cm_lists",
  bank |-> "clear_bank_lists", ccp_cm |-> "ccp_cm_lists"]
GetMarketMakerCmLists(now, a) == LatestKind(now, MmCMKinds, Or(a.kind, "mm_fut"))
FcmVolKeys == [
  daily   |-> [fut |-> "fcm_vol_daily_fut", opt |-> "fcm_vol_daily_opt"],
  weekly  |-> [fut |-> "fcm_vol_weekly_fut", opt |-> "fcm_vol_weekly_opt"],
  monthly |-> [fut |-> "fcm_vol_monthly_fut", opt |-> "fcm_vol_monthly_opt"],
  yearly  |-> [fut |-> "fcm_vol_yearly_fut", opt |-> "fcm_vol_yearly_opt"]]
GetFcmVolumeReports(now, a) ==
  LET freq == Or(a.freq, "daily")
  IN  IF freq \in DOMAIN FcmVolKeys THEN LatestKind(now, FcmVolKeys[freq], Or(a.market, "fut"))
      ELSE Refuse("option")
SpreadKinds == [summary |-> "spread_summary", tick |-> "spread_tick"]
GetCalendarSpreadTrades(now, a) == LatestKind(now, SpreadKinds, Or(a.kind, "summary"))
GetAnnualTradingVolume(now, a) == OneDay("annual_volume", TaifexDate(now, NoDay), a.contract)
GetMonthlyTradingStatistics(now) == Latest(now, "monthly_stats_futures")
GetFxRate(now) == Latest(now, "fx_rates")
GetETradeQty(now) == Latest(now, "etrade_qty")

\* The symbol list and the trading calendar are in memory.
GetSymbolList(now, a) ==
  IF a.market \in {"", "tse", "otc"} THEN Plan(Api, Today(now), <<>>) ELSE Refuse("option")
GetTradingCalendar(now) == Plan(Web, Today(now), <<>>)
=============================================================================
