---------------------------- MODULE MarketTools ----------------------------
(***************************************************************************)
(* The handlers of group B and C (market data, holdings, warrants, over-   *)
(* the-counter boards): pkg/mcp/tools_bc.go.                               *)
(***************************************************************************)
EXTENDS ToolKit

WebDay(ds, day, who, par, row) == Need(Ask(Web, ds, day, who, [par EXCEPT !.date = day], row))
TpexDay(ds, day, who, row) == Need(Ask(Tpex, ds, day, who, OnDay(day), row))

-----------------------------------------------------------------------------
(* Quotes, holdings and alerts of one day.                                 *)

\* Three months of daily bars, and the bar of the day among them.
QuoteTSE(code, date) ==
  LET month(start) == Ask(Web, "daily_k", date, Who(code),
                          [NoParams EXCEPT !.date = start, !.stock = code], "Candle")
      starts == MonthStarts(3)
  IN  Single(Web, date, OrMiss(Step([i \in 1..3 |-> month(starts[i])], "all")))

QuoteOTC(code, date) ==
  Single(Tpex, date, OrMiss(TpexDay("daily_close", date, Who(code), "TPExDailyCloseRow")))

GetStockDailyQuote(now, a) ==
  LET date == ResolveDate(now, a.date)
  IN  CASE SymbolOf(a.symbol) = "otc" -> QuoteOTC(a.symbol, date)
        [] SymbolOf(a.symbol) = "tse" -> QuoteTSE(a.symbol, date)
        [] OTHER                      -> Refuse("symbol")

GetStockDailyKline(now, a) ==
  LET date == ResolveDate(now, a.date)
      par  == [NoParams EXCEPT !.stock = a.symbol, !.table = IF a.period = "day" THEN "" ELSE a.period]
  IN  IF SymbolOf(a.symbol) # "tse" THEN Refuse("symbol")
      ELSE Single(Web, date, OrMiss(WebDay("daily_k", date, Who(a.symbol), par, "Candle")))

MarketStatsTSE(date) == WebDay("market_close", date, <<>>, OfTable("ALL"), "MarketCloseRow")
MarketStatsOTC(date) == TpexDay("daily_close", date, <<>>, "TPExDailyCloseRow")
GetMarketSummary(now, a) ==
  LET date == ResolveDate(now, a.date)
  IN  Plan(Web, date, <<MarketStatsTSE(date), MarketStatsOTC(date)>>)

GetInstitutionalInvestors(now, a) ==
  LET date == ResolveDate(now, a.date)
  IN  CASE a.market = "tse" ->
             Single(Web, date, WebDay("institutional", date, <<>>, NoParams, "InstitutionalRow"))
        [] a.market = "otc" ->
             Single(Tpex, date, TpexDay("institutional", date, <<>>, "TPExInstitutionalRow"))
        [] OTHER -> Refuse("option")

GetForeignIndustryHoldings(now, a) ==
  LET date == ResolveDate(now, a.date)
  IN  Single(Api, date, Need(Ask(Api, "foreign_holdings", date, <<>>, NoParams, "ForeignHoldingRow")))

\* The holdings page answers one industry at a time: first the symbol's own,
\* then every other one until the code turns up.  Two industries stand for 38.
QfiisSelectTypes == <<"24", "01">>
FetchQFIISDay(d, sel) ==
  Ask(Web, "qfiis", d, <<>>, [NoParams EXCEPT !.date = d, !.table = sel], "ForeignHoldingPointRow")
QfiisDayPoints(d) ==
  Step([i \in 1..Len(QfiisSelectTypes) |-> FetchQFIISDay(d, QfiisSelectTypes[i])], "seek")

\* Two days stand for the range argument.
GetForeignShareholdingHistory(now, a) ==
  LET date == ResolveDate(now, a.date)
  IN  IF SymbolOf(a.symbol) # "tse" THEN Refuse("symbol")
      ELSE Plan(Web, date, IF date = 1 THEN <<OrMiss(QfiisDayPoints(date))>>
                           ELSE <<QfiisDayPoints(date), OrMiss(QfiisDayPoints(PrevTradingDay(date)))>>)

GetMarginTrading(now, a) ==
  LET date == ResolveDate(now, a.date)
      who  == Who(a.symbol)
  IN  CASE SymbolOf(a.symbol) = "otc" ->
             Single(Tpex, date, OrMiss(TpexDay("margin", date, who, "TPExMarginRow")))
        [] SymbolOf(a.symbol) = "tse" ->
             Single(Web, date, OrMiss(WebDay("margin", date, who, OfTable("ALL"), "MarginRow")))
        [] OTHER -> Refuse("symbol")

Attention(market, date) ==
  IF market = "otc" THEN TpexDay("attention", date, <<>>, "TPExAttentionRow")
  ELSE WebDay("abnormal_volume", date, <<>>, NoParams, "AbnormalVolumeRow")
GetAbnormalTrading(now, a) ==
  LET date == ResolveDate(now, a.date)
  IN  Single(IF a.market = "otc" THEN Tpex ELSE Web, date, Attention(a.market, date))

\* The code is looked up in the whole list; only a code can miss.
GetWarrantBasicInfo(now, a) ==
  LET read == Need(Table(Api, now, "warrant_basic", <<>>))
  IN  Single(Api, Today(now), IF a.code = "" THEN read ELSE OrMiss(read))

GetWarrantActivity(now, a) ==
  LET date == ResolveDate(now, a.date)
  IN  Single(Api, date, Need(Ask(Api, "warrants", date, <<>>, NoParams, "WarrantRow")))

GetMajorAnnouncements(now, a) ==
  LET day == IF a.date = NoDay THEN Today(now) ELSE a.date
  IN  Single(Mops, day, Need(Ask(Mops, "announcements", day, <<>>, NoParams, "MajorAnnouncement")))

\* Both lists are needed.  They also go to the day-trade scanner (module
\* Nightly).
GetAttentionDispositionStocks(now, a) ==
  LET date == ResolveDate(now, a.date)
      disposition == IF a.market = "otc" THEN TpexDay("disposition", date, <<>>, "TPExDispositionRow")
                     ELSE Need(Ask(Api, "punish", date, <<>>, OnDay(date), "PunishRow"))
  IN  Plan(IF a.market = "otc" THEN Tpex ELSE Web, date, <<Attention(a.market, date), disposition>>)

-----------------------------------------------------------------------------
(* Indices, closing tables and notices.                                    *)

GetTWSEIndex(now, a) ==
  LET date == ResolveDate(now, a.date)
  IN  Plan(Web, date,
        <<OrMiss(Need(Ask(Api, "indices", date, <<>>, NoParams, "IndexQuoteRow"))),
          Need(Ask(Web, "index_history", date, <<>>, OnDay(MonthStarts(1)[1]), "IndexRow"))>>)

GetAfterHoursTrading(now, a) ==
  LET date == ResolveDate(now, NoDay)
  IN  Single(Web, date, Need(Ask(Web, "after_hours", date, Who(a.code), NoParams, "AfterHoursRow")))

ByStockNo(now, ds, stock, row) ==
  Single(Tpex, Today(now), Need(Ask(Tpex, ds, Today(now), Who(stock), OfStock(stock), row)))
GetOtcDaily(now, a) == ByStockNo(now, "otc_daily", a.stock_no, "TPExDailyCloseRow")
GetOtcIndex(now, a) == ByStockNo(now, "indices", "", "TPExIndexRow")
GetOtcOddLot(now, a) == ByStockNo(now, "odd_lot", a.stock_no, "TPExOddLotRow")

GetTwseEvents(now, a) == ReadTable(Api, now, "twse_events", <<>>)
GetAllStocksDailyClose(now, a) ==
  LET date == ResolveDate(now, a.date)
  IN  Single(Web, date, WebDay("market_close", date, <<>>, OfTable("ALLBUT0999"), "MarketCloseRow"))
GetAbnormalAccumulatedNoticeStocks(now, a) == ReadTable(Api, now, "note_trans", Who(a.kind))
GetTwseAnnouncementNotice(now, a) == ReadTable(Api, now, "ann_notice", Who(a.code))

-----------------------------------------------------------------------------
(* Over-the-counter and emerging-board tables under today's date.          *)

GetOtcMonthlyRevenue(now, a) == TpexToday(now, "otc_monthly_revenue", Who(a.code))
GetOtcBrokerVolumeRank(now, a) == TpexToday(now, "otc_broker_volume", Who(a.stock_no))
GetOtcForeignTrading(now, a) == TpexToday(now, "otc_foreign_trading", Who(a.code))
GetOtcInstitutionalBreakdown(now, a) ==
  TpexKind(now, [trust |-> "otc_insti_trading", dealer |-> "otc_dealer_trading"],
           Or(a.kind, "trust"), Who(a.code))
GetOtcAfterHours(now, a) == TpexToday(now, "otc_after_hours", Who(a.code))
GetOtcWarningNoteAccumulated(now, a) == TpexToday(now, "otc_warn_note", Who(a.kind))
GetEmergingQuotes(now, a) == TpexToday(now, "emerging_quotes", Who(a.code))
GetEmergingMarketStatus(now, a) == TpexToday(now, "emerging_highlight", <<>>)
EmgRankKinds == [eps |-> "emerging_eps_rank", capital |-> "emerging_cap_rank"]
GetEmergingRanks(now, a) == TpexKind(now, EmgRankKinds, Or(a.kind, "eps"), Who(a.code))
GetOtcExdividendResult(now, a) == TpexToday(now, "otc_exright_daily", Who(a.code))

\* This list goes to the scanner too, under today's date.
GetOtcDaytradeTargets(now, a) == TpexToday(now, "otc_daytrade_targets", Who(a.code))
GetOtcDaytradeStatistics(now, a) == TpexToday(now, "otc_daytrade_stats", <<>>)

\* A view the switch does not name gives the default table.
TpexView(now, views, view, default, who) ==
  TpexToday(now, views[IF view \in DOMAIN views THEN view ELSE default], who)
HighDividendViews == [history |-> "hd_index", latest |-> "hd_latest", constituents |-> "hd_constituents"]
GetHighDividendIndex(now, a) ==
  LET view == Or(a.view, "history") IN TpexView(now, HighDividendViews, view, "history", <<view>>)
TpexIndexDatasets == [
  tpex50  |-> [latest |-> "t50_latest", history |-> "t50_history", constituents |-> "t50_constituents"],
  tpex200 |-> [latest |-> "t200_latest", constituents |-> "t200_constituents"]]
\* Not every family has every view; the schemas list the two separately.
FamilyIndex(now, datasets, family, view) ==
  IF family \notin DOMAIN datasets THEN Refuse("option")
  ELSE IF view \notin DOMAIN datasets[family] THEN Refuse("pair")
  ELSE TpexToday(now, datasets[family][view], <<>>)
GetTpex200Index(now, a) ==
  FamilyIndex(now, TpexIndexDatasets, Or(a.family, "tpex200"), Or(a.view, "latest"))
GsIndexDatasets == [
  governance |-> [latest |-> "gi_latest", constituents |-> "gi_constituents"],
  salary     |-> [latest |-> "si_latest", constituents |-> "si_constituents"]]
GetGovernanceSalaryIndex(now, a) ==
  FamilyIndex(now, GsIndexDatasets, Or(a.family, "governance"), Or(a.view, "latest"))
Emp88Views == [history |-> "emp88_history", latest |-> "emp88_latest", constituents |-> "emp88_constituents"]
GetEmp88Index(now, a) == TpexView(now, Emp88Views, a.view, "latest", <<>>)

\* Warrants are keyed by the code and the underlying share.
GetOtcWarrantDaily(now, a) == TpexToday(now, "otc_warrant_daily", <<a.code, a.underlying>>)
GetOtcWarrantBasic(now, a) ==
  TpexView(now, [basic |-> "otc_warrant_basic", issue |-> "otc_warrant_issue"],
           a.view, "basic", <<a.code, a.underlying>>)
WcbWxyDatasets == [wcb |-> [issue |-> "wcb_issue", daily |-> "wcb_daily"],
                   wxy |-> [issue |-> "wxy_issue", daily |-> "wxy_daily"]]
GetOtcWcbWxy(now, a) ==
  LET kind == Or(a.kind, "wcb")
  IN  IF kind \in DOMAIN WcbWxyDatasets
      THEN TpexKind(now, WcbWxyDatasets[kind], Or(a.view, "issue"), <<a.code, a.underlying>>)
      ELSE Refuse("option")

IntlBondKinds == [quotes |-> "intl_bond_quotes", trade |-> "intl_bond_trade", issue |-> "bond_issue"]
GetInternationalBond(now, a) == TpexKind(now, IntlBondKinds, Or(a.kind, "quotes"), Who(a.code))
GoldSpotKinds == [spot |-> "gold_latest", highlight |-> "gold_highlight", warrant |-> "gold_warrant"]
GetGoldSpot(now, a) == TpexKind(now, GoldSpotKinds, Or(a.kind, "spot"), Who(a.code))
OpFundKinds == [latest |-> "opfund_latest", dealer |-> "opfund_dealer", highlight |-> "opfund_highlight"]
GetOpenEndFund(now, a) == TpexKind(now, OpFundKinds, Or(a.kind, "latest"), Who(a.code))
GisaKinds == [company |-> "gisa_company", highlight |-> "gisa_highlight", financing |-> "gisa_financing"]
GetGisaBoard(now, a) == TpexKind(now, GisaKinds, Or(a.kind, "company"), Who(a.code))
OtcBlockKinds == [day |-> "otc_block_day", stock |-> "otc_block_stock",
  summary_day |-> "otc_block_summary_day", monthly |-> "otc_block_monthly", yearly |-> "otc_block_yearly"]
GetOtcBlockTrade(now, a) == TpexKind(now, OtcBlockKinds, Or(a.kind, "day"), Who(a.code))
BrokerTurnoverLevels == [branch |-> "otc_broker_branch", hq |-> "otc_broker_hq"]
GetOtcBrokerTurnover(now, a) == TpexKind(now, BrokerTurnoverLevels, Or(a.level, "branch"), Who(a.code))
OtcRankDatasets == [pe |-> "rank_pe", volume |-> "rank_volume", amount |-> "rank_amount",
  turnover |-> "rank_turnover", market_value |-> "rank_market_value",
  amount_avg |-> "rank_amount_avg", volume_avg |-> "rank_volume_avg"]
GetOtcHistoryRanks(now, a) == TpexKind(now, OtcRankDatasets, Or(a.rank, "volume"), <<a.code, a.on>>)
GetOtcForeignHoldingsRank(now, a) ==
  TpexView(now, [rank |-> "otc_qfii_rank", industry |-> "otc_qfii_industry"], a.view, "rank", <<>>)
OtcMgnKinds == [dpsp_monthly |-> "otc_dpsp_monthly", intraday_fee |-> "otc_intraday_fee",
  margin_sbl |-> "otc_margin_sbl", adjust |-> "otc_mt_adjust", lend |-> "otc_mt_lend",
  mark |-> "otc_mt_mark", used |-> "otc_mt_used", marginspot |-> "otc_mt_marginspot",
  short_sell |-> "otc_mt_short_sell", term |-> "otc_mt_term", daily_short |-> "otc_short_sell"]
GetOtcMarginSblDetail(now, a) == TpexKind(now, OtcMgnKinds, Or(a.kind, "used"), Who(a.code))
OtcSysKinds == [ceil_non |-> "otc_ceil_non", cmode |-> "otc_cmode", trade_idx |-> "otc_trade_index",
  delay_close |-> "otc_delay_close", delay_open |-> "otc_delay_open",
  ipo_no_limit |-> "otc_ipo_no_limit", highlight |-> "otc_main_highlight", prvol |-> "otc_prvol",
  suspend_history |-> "otc_spendi_history", suspend_today |-> "otc_spendi_today"]
GetOtcTradingSystemInfo(now, a) == TpexKind(now, OtcSysKinds, Or(a.kind, "cmode"), Who(a.code))

-----------------------------------------------------------------------------
(* The MOPS tables of the over-the-counter market: one data set, the table *)
(* named by a parameter, keyed by the table (or kind) and the code.        *)

Mopsfin(now, who, path) == Ask(Tpex, "otc_mopsfin", Today(now), who, OfTable(path), "map")
MopsfinKind(now, kinds, kind, label, code) ==
  IF kind \in DOMAIN kinds
  THEN Single(Tpex, Today(now), Need(Mopsfin(now, <<IF label = "path" THEN kinds[kind] ELSE kind, code>>,
                                             kinds[kind])))
  ELSE Refuse("option")

EmgBoardViews == [holdings |-> "t187ap11_R", profile |-> "t187ap03_R"]
GetEmergingBoardHoldings(now, a) ==
  MopsfinKind(now, EmgBoardViews, Or(a.view, "holdings"), "path", a.code)
OtcFundKinds == [op_analysis |-> "187ap17_O", profile |-> "t187ap03_O", major_message |-> "t187ap04_O",
  eps_industry |-> "t187ap05_OA", eps_financial |-> "t187ap05_OB", forecast_current |-> "t187ap14_O",
  forecast_update |-> "t187ap15_O", audit_diff |-> "t187ap16_O", dividend_board |-> "t187ap39_O"]
GetOtcFundamentalStats(now, a) ==
  MopsfinKind(now, OtcFundKinds, Or(a.kind, "op_analysis"), "path", a.code)
OtcGovernanceKinds == [
  major_shareholders |-> "t187ap02_O", board_insufficient |-> "t187ap08_O",
  board_pledged |-> "t187ap09_O", board_insufficient_consecutive |-> "t187ap10_O",
  board_holdings |-> "t187ap11_O", insider_trades_preannounced |-> "t187ap12_O",
  insider_trades_untransferred |-> "t187ap13_O", sec_penalties |-> "t187ap22_O",
  disclosure_violations |-> "t187ap23_O", ownership_change |-> "t187ap24_O",
  scope_change |-> "t187ap25_O", ownership_halt |-> "t187ap26_O",
  scope_trading_change |-> "t187ap27_O", director_compensation |-> "t187ap29_A_O",
  supervisor_compensation |-> "t187ap29_B_O", director_comp_consol |-> "t187ap29_C_O",
  supervisor_comp_consol |-> "t187ap29_D_O", independent_directors |-> "mopsfin_t187ap30_O",
  supervisor_acknowledgment |-> "mopsfin_t187ap31_O", governance_regulations |-> "mopsfin_t187ap32_O",
  ceo_dual_role |-> "mopsfin_t187ap33_O", cumulative_voting |-> "mopsfin_t187ap34_O",
  proposal_exercise |-> "mopsfin_t187ap35_O", shareholder_meeting_dates |-> "t187ap41_O"]
GetOtcGovernanceSeries(now, a) ==
  IF a.kind = "" THEN Refuse("argument") ELSE MopsfinKind(now, OtcGovernanceKinds, a.kind, "kind", "")

\* Statements are split by sector and company type, and the code is looked for
\* in one table after another.  Two tables stand for the six sectors.
ScanStatements(now, statements, kind, code) ==
  LET tables == statements[kind]
  IN  IF code = "" THEN Refuse("argument")
      ELSE IF kind \notin DOMAIN statements THEN Refuse("option")
      ELSE Single(Tpex, Today(now),
             Step([i \in 1..Len(tables) |-> Mopsfin(now, <<tables[i], code>>, tables[i])], "scan"))
OtcStatements == [income  |-> <<"t187ap06_O_ci", "t187ap06_O_fh">>,
                  balance |-> <<"t187ap07_O_ci", "t187ap07_O_fh">>]
GetOtcFinancialStatements(now, a) ==
  ScanStatements(now, OtcStatements, Or(a.statement, "income"), a.code)
EmergingStatements == [income  |-> <<"t187ap06_U_ci", "t187ap06_U_fh">>,
                       balance |-> <<"t187ap07_U_ci", "t187ap07_U_fh">>]
GetEmergingFinancialStatements(now, a) ==
  ScanStatements(now, EmergingStatements, Or(a.statement, "income"), a.code)
=============================================================================
