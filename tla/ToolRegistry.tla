---------------------------- MODULE ToolRegistry ----------------------------
(***************************************************************************)
(* The tools the server registers and, for each, the plans its handler can *)
(* make of the arguments its schema declares: pkg/mcp/registry_*.go.       *)
(* An argument that only shapes rows (limit, offset, name, thresholds) is  *)
(* left out.  Each definition lists the registrations of one stretch of a  *)
(* file, a line per tool.                                                  *)
(***************************************************************************)
EXTENDS MarketTools, ListTools, CompanyTools, DerivativeTools

NoArgs == [date |-> NoDay, code |-> "", stock_no |-> ""]
Days2 == {NoDay, 2}
MaybeFund == {"L", "E"}

WebList(now, tool, ds) == Offer(tool, {WebListSpec(now, ds, FALSE, NoArgs)})
WebListOn(now, tool, ds, args) == Offer(tool, {WebListSpec(now, ds, TRUE, a) : a \in args})
ApiList(now, tool, ds) == Offer(tool, {ApiListSpec(now, ds, NoArgs)})
ApiCompany(now, tool, ds) == Offer(tool, {ApiCompanySpec(now, ds, FALSE, c) : c \in Codes})
EsgCompany(now, tool, topic) == Offer(tool, {EsgCompanySpec(now, topic, c) : c \in Codes})

DateArg == [date : Dates]
CodeArg == [code : SomeCode]
StockArg == [stock_no : SomeCode]
KindArg(kinds) == [kind : kinds, code : {""}]

-----------------------------------------------------------------------------
(* registry_bc.go                                                          *)

QuoteTools(now) == UNION {
  Offer("get_stock_daily_quote", {GetStockDailyQuote(now, a) : a \in [symbol : Codes, date : Dates]}),
  Offer("get_stock_daily_kline",
        {GetStockDailyKline(now, a) : a \in [symbol : Codes, date : Dates, period : {"day", "week"}]}),
  Offer("get_market_summary", {GetMarketSummary(now, a) : a \in DateArg}),
  Offer("get_institutional_investors",
        {GetInstitutionalInvestors(now, a) : a \in [market : {"tse", "otc"}, date : Dates]}),
  Offer("get_foreign_industry_holdings", {GetForeignIndustryHoldings(now, a) : a \in DateArg}),
  Offer("get_foreign_shareholding_history",
        {GetForeignShareholdingHistory(now, a) : a \in [symbol : Codes, date : Dates]}),
  Offer("get_margin_trading", {GetMarginTrading(now, a) : a \in [symbol : Codes, date : Dates]}),
  Offer("get_abnormal_trading",
        {GetAbnormalTrading(now, a) : a \in [market : {"tse", "otc"}, date : Dates]}),
  Offer("get_warrant_activity", {GetWarrantActivity(now, a) : a \in DateArg}) }

BlockTradeTools(now) == UNION {
  WebList(now, "get_block_trades_daily", "block_trades"),
  WebListOn(now, "get_block_trades_detail", "block_trades",
            [date : {1}, code : {""}, stock_no : SomeCode]),
  WebList(now, "get_block_trades_monthly", "block_monthly"),
  WebList(now, "get_block_trades_yearly", "block_yearly"),
  WebList(now, "get_cross_market_trading_info", "cross_market"),
  WebList(now, "get_daily_day_trading_targets", "day_trade_targets"),
  WebList(now, "get_financial_program_abnormal_recommendations", "fin_prog_abnormal"),
  ApiList(now, "get_foreign_companies_applying_for_listing", "foreign_apply"),
  ApiList(now, "get_local_companies_applying_for_listing", "local_apply") }

NoticeTools(now) == UNION {
  ApiList(now, "get_recently_listed_companies", "new_listing"),
  ApiList(now, "get_suspended_listed_companies", "suspend_listing"),
  WebList(now, "get_daily_securities_lending_volume", "sbl_volume"),
  WebList(now, "get_first_listed_foreign_stocks_daily", "first_foreign"),
  WebList(now, "get_margin_loan_restrictions_announcement", "margin_restrict"),
  WebList(now, "get_odd_lot_trading_quotes", "odd_lot"),
  WebList(now, "get_securities_trading_changes", "trading_changes"),
  WebList(now, "get_stock_price_changes", "price_change_lim"),
  WebList(now, "get_stocks_no_price_change_first_five_days", "new_list_5d"),
  WebList(now, "get_suspended_day_trading_announcement", "suspend_daytrade_ann") }

MarketHistoryTools(now) == UNION {
  WebList(now, "get_suspended_day_trading_history", "suspend_daytrade_his"),
  WebList(now, "get_suspended_trading_stocks", "suspended"),
  WebList(now, "get_top_20_volume_stocks", "top_volume"),
  Offer("get_etf_regular_investment_ranking",
        {WebListSpec(now, "etf_reg_inv", FALSE, [NoArgs EXCEPT !.code = c]) : c \in SomeCode}),
  WebListOn(now, "get_market_institutional_amounts_history", "insti_amounts",
            [date : Dates, code : {""}, stock_no : {""}]),
  WebListOn(now, "get_market_turnover_history", "turnover_history",
            [date : Dates, code : {""}, stock_no : {""}]),
  WebListOn(now, "get_short_sale_lending_balance_history", "sbl_balance_his",
            [date : Dates, code : SomeCode, stock_no : {""}]),
  WebListOn(now, "get_short_sale_lending_trades_history", "sbl_trades_his",
            [date : Dates, code : SomeCode, stock_no : {""}]),
  WebList(now, "get_central_depository_bond_redemption", "bond_redemption"),
  ApiList(now, "get_companies_cumulative_voting", "cum_voting"),
  ApiList(now, "get_companies_ownership_changes_business_scope", "own_scope_halt") }

CompanyChangeTools(now) == UNION {
  ApiList(now, "get_companies_ownership_changes_business_scope_trading", "own_scope_trade"),
  ApiList(now, "get_companies_with_business_scope_changes", "scope_changes"),
  ApiList(now, "get_companies_with_independent_directors", "indep_directors"),
  ApiList(now, "get_companies_with_ownership_changes", "ownership_change"),
  Offer("get_after_hours_trading", {GetAfterHoursTrading(now, a) : a \in CodeArg}),
  Offer("get_major_announcements", {GetMajorAnnouncements(now, a) : a \in DateArg}),
  Offer("get_company_major_news", {GetMajorAnnouncements(now, [date |-> NoDay])}),
  WebList(now, "get_margin_trading_info", "margin_info"),
  ApiList(now, "get_market_disposal_stocks", "punish") }

IndexTools(now) == UNION {
  WebList(now, "get_market_historical_index", "index_history"),
  WebList(now, "get_taiex_index_history", "index_history"),
  WebList(now, "get_market_holiday_schedule", "holiday"),
  ApiList(now, "get_market_index_info", "indices"),
  ApiCompany(now, "get_stock_daily_trading", "daily_close"),
  WebList(now, "get_stock_monthly_average", "monthly_avg_all"),
  WebListOn(now, "get_stock_monthly_avg_history", "monthly_avg",
            [date : Dates, code : {""}, stock_no : Codes]),
  WebListOn(now, "get_stock_monthly_history", "daily_k",
            [date : Dates, code : {""}, stock_no : Codes]),
  WebListOn(now, "get_stock_monthly_trading", "stock_mon_trade",
            [date : Dates, code : SomeCode, stock_no : {""}]),
  WebListOn(now, "get_stock_yearly_history", "stock_year_his",
            [date : {NoDay}, code : {""}, stock_no : Codes]),
  Offer("get_stock_yearly_trading",
        {WebListSpec(now, "stock_year_trade", FALSE, [NoArgs EXCEPT !.code = c]) : c \in SomeCode}),
  ApiList(now, "get_top_foreign_holdings", "top_foreign") }

NewsTools(now) == UNION {
  ApiList(now, "get_twse_news", "twse_news"),
  Offer("get_warrant_basic_info", {GetWarrantBasicInfo(now, a) : a \in CodeArg}),
  Offer("get_warrant_daily_trading", {GetWarrantActivity(now, [date |-> NoDay])}),
  ApiList(now, "get_warrant_trader_count", "warrant_trader"),
  ApiList(now, "get_warrant_yearly_issuance_statistics", "warrant_issue"),
  Offer("get_twse_events", {GetTwseEvents(now, NoArgs)}),
  Offer("get_all_stocks_daily_close", {GetAllStocksDailyClose(now, [date |-> 1])}),
  Offer("get_abnormal_accumulated_notice_stocks",
        {GetAbnormalAccumulatedNoticeStocks(now, a) : a \in [kind : {"", "stock", "warrant"}]}),
  Offer("get_company_sec_regulatory_penalties",
        {ApiCompanySpec(now, "sec_penalty", TRUE, c) : c \in Codes \cup {"unlisted"}}) }

IndexHistoryTools(now) == UNION {
  WebList(now, "get_real_time_trading_stats", "realtime_stats"),
  WebList(now, "get_taiwan_50_index_history", "taiwan50"),
  WebList(now, "get_taiwan_island_index_history", "island_index"),
  WebList(now, "get_taiwan_total_return_index", "total_return"),
  Offer("get_twse_index", {GetTWSEIndex(now, a) : a \in DateArg}),
  Offer("get_attention_disposition_stocks",
        {GetAttentionDispositionStocks(now, a) : a \in [market : {"tse", "otc"}, date : Dates]}),
  Offer("get_otc_daily", {GetOtcDaily(now, a) : a \in StockArg}),
  Offer("get_otc_monthly_revenue", {GetOtcMonthlyRevenue(now, a) : a \in CodeArg}),
  Offer("get_otc_active_broker_volume", {GetOtcBrokerVolumeRank(now, a) : a \in StockArg}),
  Offer("get_otc_foreign_trading", {GetOtcForeignTrading(now, a) : a \in CodeArg}) }

EmergingTools(now) == UNION {
  Offer("get_otc_institutional_breakdown",
        {GetOtcInstitutionalBreakdown(now, a) : a \in [kind : {"", "trust", "dealer"}, code : {""}]}),
  Offer("get_otc_after_hours", {GetOtcAfterHours(now, a) : a \in CodeArg}),
  Offer("get_otc_warning_note_accumulated",
        {GetOtcWarningNoteAccumulated(now, a) : a \in [kind : {"", "stock", "warrant"}]}),
  Offer("get_emerging_quotes", {GetEmergingQuotes(now, a) : a \in CodeArg}),
  Offer("get_emerging_market_status", {GetEmergingMarketStatus(now, NoArgs)}),
  Offer("get_emerging_ranks", {GetEmergingRanks(now, a) : a \in KindArg({"", "eps", "capital"})}),
  Offer("get_emerging_board_holdings",
        {GetEmergingBoardHoldings(now, a) : a \in [view : {"", "holdings", "profile"}, code : SomeCode]}),
  Offer("get_emerging_financial_statements",
        {GetEmergingFinancialStatements(now, a) : a \in [statement : {"", "income", "balance"}, code : SomeCode]}),
  Offer("get_otc_exdividend_result", {GetOtcExdividendResult(now, a) : a \in CodeArg}),
  Offer("get_otc_daytrade_targets", {GetOtcDaytradeTargets(now, a) : a \in CodeArg}) }

OtcIndexTools(now) == UNION {
  Offer("get_otc_daytrade_statistics", {GetOtcDaytradeStatistics(now, NoArgs)}),
  Offer("get_tpex200_index",
        {GetTpex200Index(now, a) : a \in [family : {"", "tpex50", "tpex200"},
                                          view : {"", "history", "latest", "constituents"}]}),
  Offer("get_governance_salary_index",
        {GetGovernanceSalaryIndex(now, a) : a \in [family : {"", "governance", "salary"},
                                                   view : {"", "latest", "constituents"}]}),
  Offer("get_high_dividend_index", {GetHighDividendIndex(now, a) : a \in [view : {"", "history", "latest", "constituents"}]}),
  Offer("get_emp88_index", {GetEmp88Index(now, a) : a \in [view : {"", "history", "latest", "constituents"}]}),
  Offer("get_otc_warrant_daily",
        {GetOtcWarrantDaily(now, a) : a \in [code : SomeCode, underlying : SomeCode]}),
  Offer("get_otc_warrant_basic",
        {GetOtcWarrantBasic(now, a) : a \in [view : {"", "basic", "issue"}, code : {""}, underlying : SomeCode]}),
  Offer("get_otc_wcb_wxy",
        {GetOtcWcbWxy(now, a) : a \in [kind : {"", "wcb", "wxy"}, view : {"", "issue", "daily"},
                                       code : {""}, underlying : {""}]}) }

OtcTableTools(now) == UNION {
  Offer("get_otc_history_ranks",
        {GetOtcHistoryRanks(now, a) : a \in [rank : {"", "pe", "volume", "amount", "turnover", "market_value", "amount_avg", "volume_avg"}, code : {""}, on : {"", "day 1"}]}),
  Offer("get_otc_broker_turnover",
        {GetOtcBrokerTurnover(now, a) : a \in [level : {"", "branch", "hq"}, code : {""}]}),
  Offer("get_otc_fundamental_stats", {GetOtcFundamentalStats(now, a) : a \in KindArg({"", "op_analysis", "profile", "major_message", "eps_industry", "eps_financial", "forecast_current", "forecast_update", "audit_diff", "dividend_board"})}),
  Offer("get_otc_financial_statements",
        {GetOtcFinancialStatements(now, a) : a \in [statement : {"", "income", "balance"}, code : SomeCode]}),
  Offer("get_otc_margin_sbl_detail", {GetOtcMarginSblDetail(now, a) : a \in KindArg({"", "used", "short_sell", "margin_sbl", "daily_short", "adjust", "lend", "mark", "marginspot", "term", "dpsp_monthly", "intraday_fee"})}),
  Offer("get_otc_trading_system_info", {GetOtcTradingSystemInfo(now, a) : a \in KindArg({"", "cmode", "prvol", "ceil_non", "delay_open", "delay_close", "suspend_today", "suspend_history", "ipo_no_limit", "trade_idx", "highlight"})}),
  Offer("get_twse_announcement_notice", {GetTwseAnnouncementNotice(now, a) : a \in CodeArg}),
  Offer("get_otc_block_trade", {GetOtcBlockTrade(now, a) : a \in KindArg({"", "day", "stock", "summary_day", "monthly", "yearly"})}) }

\* The tool's description lists these; its schema takes any string.
GovernanceKindsListed == {
  "", "major_shareholders", "board_insufficient", "board_pledged",
  "board_insufficient_consecutive", "board_holdings", "insider_trades_preannounced",
  "insider_trades_untransferred", "sec_penalties", "disclosure_violations", "ownership_change",
  "scope_change", "ownership_halt", "scope_trading_change", "director_compensation",
  "supervisor_compensation", "director_comp_consol", "supervisor_comp_consol",
  "independent_directors", "supervisor_acknowledgment", "governance_regulations",
  "ceo_dual_role", "cumulative_voting", "proposal_exercise", "shareholder_meeting_dates"}
OtcBoardTools(now) == UNION {
  Offer("get_international_bond", {GetInternationalBond(now, a) : a \in KindArg({"", "quotes", "trade", "issue"})}),
  Offer("get_gold_spot", {GetGoldSpot(now, a) : a \in KindArg({"", "spot", "highlight", "warrant"})}),
  Offer("get_open_end_fund", {GetOpenEndFund(now, a) : a \in KindArg({"", "latest", "dealer", "highlight"})}),
  Offer("get_gisa_board", {GetGisaBoard(now, a) : a \in KindArg({"", "company", "highlight", "financing"})}),
  Offer("get_otc_governance",
        {GetOtcGovernanceSeries(now, a) : a \in [kind : GovernanceKindsListed]}),
  Offer("get_otc_foreign_holdings_rank",
        {GetOtcForeignHoldingsRank(now, a) : a \in [view : {"", "rank", "industry"}]}),
  Offer("get_otc_index", {GetOtcIndex(now, NoArgs)}),
  Offer("get_otc_odd_lot", {GetOtcOddLot(now, a) : a \in StockArg}) }
-----------------------------------------------------------------------------
(* registry_de.go, registry_etf.go, registry_broker.go                     *)

StatementTools(now) == UNION {
  Offer("get_financial_statements",
        {GetFinancialStatements(now, a) : a \in
           [symbol : {"L"}, period : {""}, statement : {"", "income", "balance", "cashflow"}, found : BOOLEAN]
           \cup [symbol : {"L"}, period : {"2024Q1"}, statement : {"cashflow"}, found : BOOLEAN]}),
  Offer("get_monthly_revenue", {GetMonthlyRevenue(now, a) : a \in [symbol : Codes]}),
  Offer("get_financial_health_check",
        {GetFinancialHealthCheck(now, a) : a \in [symbol : Codes, found : BOOLEAN]}),
  Offer("get_valuation_ratios", {GetValuationRatios(now, a) : a \in [symbol : Codes, found : BOOLEAN]}),
  Offer("get_otc_esg_report", {GetOtcEsgReport(now, a) : a \in [symbol : Codes, topic : {"", "2"}]}),
  Offer("get_companies_with_refineries_in_populated_areas", {GetRefineriesPopulatedAreas(now)}),
  Offer("get_company_balance_sheet", {GetCompanyBalanceSheet(now, a) : a \in [code : Codes]}) }

GovernanceTools(now) == UNION {
  EsgCompany(now, "get_company_board_info", "6"),
  ApiList(now, "get_company_board_insufficient_shares", "board_insuff"),
  ApiList(now, "get_company_board_insufficient_shares_consecutive", "board_insuff_con"),
  ApiList(now, "get_company_board_pledged_shares", "board_pledged"),
  ApiCompany(now, "get_company_board_shareholdings", "board_holdings"),
  ApiList(now, "get_company_ceo_dual_role", "ceo_dual_role"),
  ApiCompany(now, "get_company_consolidated_director_compensation", "dir_comp_con"),
  ApiCompany(now, "get_company_consolidated_supervisor_compensation", "sup_comp_con"),
  ApiCompany(now, "get_company_daily_insider_trades_preannounced", "insider_preann"),
  ApiCompany(now, "get_company_daily_insider_trades_untransferred", "insider_untrans"),
  ApiCompany(now, "get_company_director_compensation", "dir_comp") }

CompanyReportTools(now) == UNION {
  EsgCompany(now, "get_company_governance_info", "9"),
  ApiCompany(now, "get_company_major_shareholders", "major_shareholders"),
  ApiCompany(now, "get_company_financial_reports_supervisor_acknowledgment", "supervisor_ack"),
  ApiCompany(now, "get_company_governance_regulations", "company_governance"),
  ApiCompany(now, "get_company_profitability_analysis", "profitability"),
  Offer("get_company_profitability_analysis_summary",
        {GetProfitabilitySummary(now, a) : a \in [order_by : {"", "margin"}, order_direction : {"", "asc"}]}),
  ApiCompany(now, "get_company_quarterly_audit_variance", "audit_variance"),
  ApiCompany(now, "get_company_quarterly_earnings_forecast_achievement", "forecast_achv"),
  ApiList(now, "get_company_shareholder_meeting_announcements", "meeting_ann"),
  ApiList(now, "get_company_shareholder_meeting_dates", "meeting_dates"),
  ApiList(now, "get_company_shareholder_proposal_exercise", "proposal_exercise"),
  ApiList(now, "get_fund_basic_info", "fund_basic") }

CompanyStatementTools(now) == UNION {
  Offer("get_public_company_board_shareholdings",
        {ApiCompanySpec(now, "pub_board_hold", TRUE, c) : c \in Codes \cup {"unlisted"}}),
  Offer("get_public_company_income_statement", {GetPublicCompanyIncomeStatement(now, a) : a \in CodeArg}),
  Offer("get_public_company_balance_sheet", {GetPublicCompanyBalanceSheet(now, a) : a \in CodeArg}),
  ApiCompany(now, "get_company_supervisor_compensation", "supervisor_comp"),
  ApiCompany(now, "get_company_shareholder_meeting_announcements_by_code", "meeting_ann"),
  ApiCompany(now, "get_company_dividend", "dividend"),
  ApiCompany(now, "get_company_eps_statistics", "eps_stats"),
  Offer("get_company_income_statement", {GetCompanyIncomeStatement(now, a) : a \in [code : Codes]}),
  ApiCompany(now, "get_company_information_disclosure_violations", "disclosure_vio") }

EsgTopics == [
  get_company_anticompetitive_litigation |-> "20", get_company_climate_management |-> "8",
  get_company_community_relations |-> "15", get_company_energy_management |-> "2",
  get_company_food_safety |-> "12", get_company_fuel_management |-> "10",
  get_company_greenhouse_gas_emissions |-> "1", get_company_human_development |-> "5",
  get_company_inclusive_finance |-> "17", get_company_info_security |-> "16",
  get_company_investor_communications |-> "7", get_company_ownership_and_control |-> "18",
  get_company_product_lifecycle |-> "11", get_company_product_quality_safety |-> "14",
  get_company_risk_management |-> "19", get_company_supply_chain_management |-> "13",
  get_company_waste_management |-> "4", get_company_water_management |-> "3"]
EsgTools(now) ==
  (UNION {EsgCompany(now, tool, EsgTopics[tool]) : tool \in DOMAIN EsgTopics}) \cup UNION {
    Offer("get_companies_with_anticompetitive_losses", {GetCompaniesWithAnticompetitiveLosses(now)}),
    Offer("get_companies_with_csr_reports_103", {GetCompaniesWithCSRReports103(now)}),
    Offer("get_companies_with_inclusive_finance_data", {GetCompaniesWithInclusiveFinance(now)}) }

ScreenTools(now) == UNION {
  Offer("get_company_profile", {GetCompanyProfile(now, a) : a \in [symbol : Codes]}),
  Offer("screen_stocks",
        {ScreenStocks(now, a) : a \in [market : {"", "tse", "otc"}, require_esg : BOOLEAN,
                                       sort : {"", "pe", "yield", "pb", "growth"}]}),
  Offer("get_dividend_history", {GetDividendHistory(now, a) : a \in [symbol : Codes]}),
  Offer("get_exdividend_calendar", {GetExdividendCalendar(now)}),
  Offer("screen_high_yield",
        {ScreenHighYield(now, a) : a \in [market : {"", "tse", "otc"}, built : BOOLEAN]}),
  Offer("get_stock_trend_composite",
        {GetStockTrendComposite(now, a) : a \in [symbol : Codes, horizon : {"", "short", "mid", "long"}]}) }

ETFTools(now) == UNION {
  Offer("get_etf_nav", {GetETFNav(now, a) : a \in [symbol : MaybeFund, end : Dates]}),
  Offer("get_etf_dividend", {GetETFDividend(now, a) : a \in [symbol : MaybeFund, end : Dates]}),
  Offer("get_etf_performance", {GetETFPerformance(now, a) : a \in [symbol : Funds]}),
  Offer("get_etf_dividend_detail",
        {GetETFDividendDetail(now, a) : a \in [symbol : Funds, upcoming : {"all", "upcoming"}]}) }

BrokerTables == [
  get_broker_basic_info |-> "broker_basic", get_broker_branch_info |-> "broker_branch",
  get_broker_electronic_trading_statistics |-> "broker_elec",
  get_broker_gender_statistics |-> "broker_gender", get_broker_headquarters_info |-> "broker_hq",
  get_broker_income_expenditure |-> "broker_income", get_broker_monthly_statements |-> "broker_monthly",
  get_broker_service_personnel |-> "broker_personnel",
  get_brokers_offering_regular_investment |-> "broker_reg_inv"]
BrokerTools(now) == UNION {ApiList(now, tool, BrokerTables[tool]) : tool \in DOMAIN BrokerTables}

-----------------------------------------------------------------------------
(* registry_fg.go                                                          *)

RangeArg == [contract : {"", "TX"}, start : Dates, end : Days2, call_put : {""}]
TaifexKind(kinds) == [kind : kinds, date : {NoDay}]
ContractArg == [contract : {"", "TX"}, date : {NoDay}]

FuturesTools(now) == UNION {
  Offer("get_futures_daily_ohlc",
        {GetFuturesDailyOHLC(now, a) : a \in [contract : {"TX", "unknown"}, date : Dates]}),
  Offer("get_daily_futures_market_report",
        {GetDailyFuturesMarketReport(now, a) : a \in [contract : {"", "TX"}, listed : BOOLEAN]}),
  Offer("get_time_and_sales", {GetTimeAndSales(now, a) : a \in [market : {"", "futures", "options"}, date : Dates]}),
  Offer("get_daily_options_market_report",
        {GetDailyOptionsMarketReport(now, a) : a \in [contract : {"", "TXO"}, listed : BOOLEAN,
                                                      call_put : {"", "call", "put"}]}),
  Offer("get_futures_history", {GetFuturesHistory(now, a) : a \in RangeArg}),
  Offer("get_futures_daily_history", {GetFuturesDailyHistory(now, a) : a \in RangeArg}),
  Offer("get_put_call_ratio",
        {GetPutCallRatio(now, a) : a \in [date : {NoDay}, start : Dates, end : Days2]}),
  Offer("get_annual_trading_volume", {GetAnnualTradingVolume(now, a) : a \in ContractArg}),
  Offer("get_monthly_trading_statistics", {GetMonthlyTradingStatistics(now)}) }

PositionTools(now) == UNION {
  Offer("get_large_trader_positions",
        {GetLargeTraderPositions(now, a) : a \in [date : {NoDay}, start : Dates, end : Days2]}),
  Offer("get_institutional_futures_positions", {GetInstitutionalFuturesPositions(now, a) : a \in DateArg}),
  Offer("get_institutional_options_positions", {GetInstitutionalOptionsPositions(now, a) : a \in DateArg}),
  Offer("get_futures_institutional", {GetFuturesInstitutional(now, a) : a \in DateArg}),
  Offer("get_insti_weekly", {GetInstiWeekly(now, a) : a \in TaifexKind({"", "general", "fut_opt", "fut_contracts", "opt_contracts", "calls_puts"})}),
  Offer("get_final_settlement_price",
        {GetFinalSettlementPrice(now, a) : a \in TaifexKind({"", "all", "futures", "index_futures", "ssf", "index_options", "fx", "gold", "ir", "options", "sso"})}),
  Offer("get_settled_positions", {GetSettledPositions(now, a) : a \in TaifexKind({"", "all", "futures", "index_options", "fx", "fx_futures", "gold", "ir", "index_futures", "options", "ssf", "sso"})}),
  Offer("get_taifex_block_trade", {GetTaifexBlockTrade(now, a) : a \in TaifexKind({"", "all", "futures", "options", "summary_futures", "summary_options"})}) }

ExchangeTools(now) == UNION {
  Offer("get_stock_futures_stats", {GetStockFuturesStats(now, a) : a \in TaifexKind({"", "daily", "monthly", "yearly", "oi_daily"})}),
  Offer("get_ssf_overview", {GetSSFOverview(now, a) : a \in TaifexKind({"", "ssf_list", "top10", "sso_list"})}),
  Offer("get_fx_margin", {GetFxMargin(now, a) : a \in DateArg}),
  Offer("get_ir_margin", {GetIrMargin(now, a) : a \in DateArg}),
  Offer("get_gold_margin", {GetGoldMargin(now, a) : a \in DateArg}),
  Offer("get_etf_margin", {GetEtfMargin(now, a) : a \in DateArg}),
  Offer("get_fcm_profiles", {GetFcmProfiles(now, a) : a \in TaifexKind({"", "lists", "branch", "netvalue", "income", "accumulated"})}),
  Offer("get_position_limits", {GetPositionLimits(now, a) : a \in TaifexKind({"", "equity", "non_equity"})}),
  Offer("get_contract_adjust", {GetContractAdjust(now, a) : a \in TaifexKind({"", "adjust", "adjusted", "fee"})}),
  Offer("get_acceptable_collateral", {GetAcceptableCollateral(now, a) : a \in TaifexKind({"", "stock", "bond", "international", "log"})}),
  Offer("get_fx_rate", {GetFxRate(now)}),
  Offer("get_e_trade_qty", {GetETradeQty(now)}) }

MerchantTools(now) == UNION {
  Offer("get_market_maker_cm_lists", {GetMarketMakerCmLists(now, a) : a \in TaifexKind({"", "mm_fut", "mm_opt", "cm", "bank", "ccp_cm"})}),
  Offer("get_fcm_volume_reports",
        {GetFcmVolumeReports(now, a) : a \in [freq : {"", "daily", "weekly", "monthly", "yearly"}, market : {"", "fut", "opt"}]}),
  Offer("get_calendar_spread_trades", {GetCalendarSpreadTrades(now, a) : a \in TaifexKind({"", "summary", "tick"})}),
  Offer("get_index_futures_margin", {GetIndexFuturesMargin(now, a) : a \in ContractArg}),
  Offer("get_institutional_fut_opt_split_history",
        {GetInstitutionalFutOptSplitHistory(now, a) : a \in RangeArg}),
  Offer("get_institutional_general", {GetInstitutionalGeneral(now, a) : a \in DateArg}),
  Offer("get_institutional_total_history", {GetInstitutionalTotalHistory(now, a) : a \in RangeArg}),
  Offer("get_institutional_traders_by_futures",
        {GetInstitutionalTradersByFutures(now, a) : a \in [code : {"", "TX"}, date : {NoDay}]}),
  Offer("get_institutional_traders_by_futures_history",
        {GetInstitutionalTradersByFuturesHistory(now, a) : a \in RangeArg}) }

OptionsTools(now) == UNION {
  Offer("get_large_traders_futures_history", {GetLargeTradersFuturesHistory(now, a) : a \in RangeArg}),
  Offer("get_large_traders_futures_oi", {GetLargeTradersFuturesOI(now, a) : a \in ContractArg}),
  Offer("get_large_traders_options_oi", {GetLargeTradersOptionsOI(now, a) : a \in ContractArg}),
  Offer("get_options_daily_history", {GetOptionsDailyHistory(now, a) : a \in RangeArg}),
  Offer("get_options_delta", {GetOptionsDelta(now, NoArgs)}),
  Offer("get_options_oi_change", {GetOptionsOIChange(now, NoArgs)}),
  Offer("get_options_institutional_by_contract_history",
        {GetOptionsInstiByContractHistory(now, a) : a \in RangeArg}),
  Offer("get_options_institutional_calls_puts_history",
        {GetOptionsInstiCallsPutsHistory(now, a) : a \in RangeArg}),
  Offer("get_stock_futures_margin", {GetStockFuturesMargin(now, a) : a \in CodeArg}) }

CalendarTools(now) == UNION {
  Offer("get_institutional_traders_by_options",
        {GetInstitutionalTradersByOptions(now, a) : a \in [code : {"", "TX"}, date : {NoDay}]}),
  Offer("get_institutional_traders_calls_puts", {GetInstitutionalTradersCallsPuts(now, NoArgs)}),
  Offer("get_institutional_futures_history", {GetInstitutionalFuturesHistory(now, a) : a \in RangeArg}),
  Offer("get_symbol_list", {GetSymbolList(now, a) : a \in [market : {"", "tse", "otc"}]}),
  Offer("get_trading_calendar", {GetTradingCalendar(now)}) }

-----------------------------------------------------------------------------
\* Registry: every tool by its name.
Registry(now) == UNION {
  QuoteTools(now), BlockTradeTools(now), NoticeTools(now), MarketHistoryTools(now),
  CompanyChangeTools(now), IndexTools(now), NewsTools(now), IndexHistoryTools(now),
  EmergingTools(now), OtcIndexTools(now), OtcTableTools(now), OtcBoardTools(now),
  StatementTools(now), GovernanceTools(now), CompanyReportTools(now),
  CompanyStatementTools(now), EsgTools(now), ScreenTools(now), ETFTools(now), BrokerTools(now),
  FuturesTools(now), PositionTools(now), ExchangeTools(now), MerchantTools(now),
  OptionsTools(now), CalendarTools(now) }
=============================================================================
