------------------------------- MODULE Feeds -------------------------------
(***************************************************************************)
(* What a tool can ask of the official sources, and what comes back: the   *)
(* cache policy of each data set, the part of a request that reaches the   *)
(* source, the checks on its answer and the type the answer is decoded to. *)
(*                                                                         *)
(* An ask is a record                                                      *)
(*   [src, ds, day, who, par, row]                                         *)
(* source, data set, the day and the code of the cache key, the            *)
(* parameters of the request (also part of the key), and the row type the  *)
(* caller decodes.  Parameters are [date, stock, table]: the day asked     *)
(* for, a stock code, and any other selector (sector, topic, kind).        *)
(* Days are numbers; every modelled day is a trading day of one month.     *)
(***************************************************************************)
EXTENDS Integers, FiniteSets

NoDay == 0
NoParams == [date |-> NoDay, stock |-> "", table |-> ""]
OnDay(d) == [NoParams EXCEPT !.date = d]
OfStock(s) == [NoParams EXCEPT !.stock = s]
OfTable(t) == [NoParams EXCEPT !.table = t]

Web == "TWSE_WEB"
Api == "TWSE_API"
Tpex == "TPEX_API"
Mops == "MOPS"
Taifex == "TAIFEX"

-----------------------------------------------------------------------------
(* Cache policy: data set -> class (fetch.go), class -> is it cached, may  *)
(* it fall to the disk level (policy.go).                                  *)

PolicyTableMarket == [
    daily_kline |-> {"daily_k", "monthly_avg", "market_close", "after_hours", "block_trades",
      "block_monthly", "block_yearly", "cross_market", "sbl_volume",
      "first_foreign", "gain_loss", "odd_lot", "top_volume", "turnover_history",
      "sbl_trades_his", "bond_redemption", "monthly_avg_all", "stock_mon_trade",
      "stock_year_his", "stock_year_trade", "taiwan50", "island_index",
      "total_return", "index_history"},
    institutional |-> {"institutional", "insti_amounts"},
    margin |-> {"margin", "sbl_balance_his", "margin_info"},
    alert_stock |-> {"abnormal_volume", "day_trade_targets", "fin_prog_abnormal", "note_trans",
      "ann_notice", "punish"},
    calendar |-> {"margin_restrict", "trading_changes", "new_list_5d", "suspend_daytrade_ann",
      "suspended", "etf_reg_inv", "cum_voting", "own_scope_halt",
      "own_scope_trade", "scope_changes", "indep_directors", "ownership_change",
      "board_insuff", "board_insuff_con", "board_pledged", "board_holdings",
      "ceo_dual_role", "insider_preann", "insider_untrans", "major_shareholders",
      "disclosure_vio", "fund_basic", "pub_board_hold", "warrant_basic",
      "warrant_trader", "warrant_issue", "sec_penalty", "foreign_apply",
      "new_listing", "local_apply", "suspend_listing", "holiday", "meeting_ann",
      "meeting_dates", "proposal_exercise", "broker_basic", "broker_branch",
      "broker_elec", "broker_gender", "broker_hq", "broker_income",
      "broker_monthly", "broker_personnel", "broker_reg_inv", "supervisor_ack"},
    valuation |-> {"price_change_lim"},
    taifex_history |-> {"suspend_daytrade_his"},
    financials |-> {"balance_sheet_ci", "balance_sheet_basi", "balance_sheet_bd",
      "balance_sheet_fh", "balance_sheet_ins", "balance_sheet_mim", "dir_comp_con",
      "sup_comp_con", "dir_comp", "eps_stats", "income_ci", "income_basi",
      "income_bd", "income_fh", "income_ins", "income_mim", "pub_income_ci",
      "pub_income_basi", "pub_income_bd", "pub_income_fh", "pub_income_ins",
      "pub_income_mim", "pub_bal_ci", "pub_bal_basi", "pub_bal_bd", "pub_bal_fh",
      "pub_bal_ins", "pub_bal_mim", "supervisor_comp", "profitability",
      "audit_variance", "forecast_achv"},
    foreign_holding |-> {"top_foreign", "qfiis", "foreign_holdings"},
    material_news |-> {"twse_news", "twse_events"},
    mis_snapshot |-> {"realtime_stats"},
    warrants |-> {"warrants"} ]

PolicyTableRest == [
    esg |-> {"esg", "company_governance", "otc_esg", "esg_ghg", "esg_renewable",
      "esg_water", "esg_waste", "esg_employee", "esg_board", "esg_conference",
      "esg_tcfd"},
    daily_kline |-> {"indices", "daily_close", "otc_daily", "otc_after_hours", "emerging_quotes",
      "emerging_highlight", "emerging_eps_rank", "emerging_cap_rank", "t50_latest",
      "t50_history", "t50_constituents", "t200_latest", "t200_constituents",
      "gi_latest", "gi_constituents", "si_latest", "si_constituents",
      "emp88_history", "emp88_latest", "emp88_constituents", "otc_warrant_daily",
      "otc_warrant_basic", "otc_warrant_issue", "wcb_issue", "wcb_daily",
      "wxy_issue", "wxy_daily", "rank_pe", "rank_volume", "rank_amount",
      "rank_turnover", "rank_market_value", "rank_amount_avg", "rank_volume_avg",
      "otc_broker_branch", "otc_broker_hq", "otc_dpsp_monthly", "otc_intraday_fee",
      "otc_margin_sbl", "otc_mt_adjust", "otc_mt_lend", "otc_mt_mark",
      "otc_mt_used", "otc_mt_marginspot", "otc_mt_short_sell", "otc_mt_term",
      "otc_short_sell", "otc_ceil_non", "otc_cmode", "otc_trade_index",
      "otc_delay_close", "otc_delay_open", "otc_ipo_no_limit",
      "otc_main_highlight", "otc_prvol", "otc_spendi_history", "otc_spendi_today",
      "otc_block_day", "otc_block_stock", "otc_block_summary_day",
      "otc_block_monthly", "otc_block_yearly", "intl_bond_quotes",
      "intl_bond_trade", "bond_issue", "gold_latest", "gold_highlight",
      "gold_warrant", "opfund_latest", "opfund_dealer", "opfund_highlight",
      "gisa_company", "gisa_highlight", "gisa_financing", "otc_exright_daily",
      "otc_daytrade_stats", "hd_index", "hd_latest", "hd_constituents"},
    monthly_revenue |-> {"otc_monthly_revenue", "monthly_revenue"},
    institutional |-> {"otc_broker_volume", "otc_foreign_trading", "otc_insti_trading",
      "otc_dealer_trading"},
    alert_stock |-> {"otc_warn_note", "otc_daytrade_targets", "attention", "disposition"},
    calendar |-> {"otc_mopsfin", "options_delta", "oi_change", "stock_margin",
      "company_profile"},
    foreign_holding |-> {"otc_qfii_rank", "otc_qfii_industry"},
    financials |-> {"income_summary", "profit_ratios", "balance_sheet", "income_statement",
      "cash_flow"},
    material_news |-> {"announcements"},
    valuation |-> {"valuation", "pe_valuation"},
    ex_div_calendar |-> {"ex_div", "ex_rights"},
    dividend |-> {"dividend"} ]

MemoryOnlyClasses == {"mis_snapshot", "alert_stock"}
DiskClasses ==
  {"daily_kline", "institutional", "margin", "monthly_revenue", "financials",
   "material_news", "calendar", "taifex_history", "foreign_holding", "warrants",
   "valuation", "esg", "ex_div_calendar", "dividend"}

\* The handlers of the fund pages name their class themselves.
EtfPages == {"etf_nav_fundPric", "etf_nav_close", "etf_dividend", "etf_performance",
             "etf_dividend_detail"}
ListedIn(table, ds) == {c \in DOMAIN table : ds \in table[c]}
PolicyDataset(ds) ==
  IF ds \in EtfPages THEN "daily_kline" ELSE
  LET cs == ListedIn(PolicyTableMarket, ds) \cup ListedIn(PolicyTableRest, ds)
  IN  IF cs = {} THEN ds ELSE CHOOSE c \in cs : TRUE

(* Mutant: a class that stays off the disk is not cached in memory either.  *)
DiskClassesOnly(ds, post) == PolicyDataset(ds) \in DiskClasses \cup (IF post THEN {} ELSE {"mis_snapshot"})

\* TTLFor: an unknown class is never cached, a MIS snapshot not after 16:30.
Cacheable(ds, post) ==
  \/ PolicyDataset(ds) \in DiskClasses \cup {"alert_stock"}
  \/ PolicyDataset(ds) = "mis_snapshot" /\ ~post

KeptOnDisk(ds) == PolicyDataset(ds) \in DiskClasses

\* The futures exchange's reports are all of one cached class, read through a
\* layer of their own that never falls back on an expired row.
AskCacheable(a, post) == a.src = Taifex \/ Cacheable(a.ds, post)
StaleServed(a) == a.src # Taifex /\ KeptOnDisk(a.ds)

\* A row kept for less than ten minutes is not written to the disk: until
\* 16:30 that is all of the daily market data.
MinuteClasses == {"daily_kline", "institutional", "margin", "foreign_holding", "warrants", "valuation"}
WrittenToDisk(a, post) ==
  \/ a.src = Taifex
  \/ /\ KeptOnDisk(a.ds) /\ PolicyDataset(a.ds) # "material_news"
     /\ post \/ PolicyDataset(a.ds) \notin MinuteClasses

-----------------------------------------------------------------------------
(* The request that leaves the process.                                    *)

WebUrl(ds, par) == par
ApiUrl(ds, par) ==
  IF ds = "esg" THEN OfTable(IF par.table = "" THEN "1" ELSE par.table) ELSE par
TpexUrl(ds, par) ==
  CASE ds = "otc_esg"     -> OfTable(IF par.table = "" THEN "1" ELSE par.table)
    [] ds = "otc_mopsfin" -> OfTable(IF par.table = "" THEN "unknown" ELSE par.table)
    [] OTHER              -> par
\* MOPS: an open data file has no parameters, a statement page is asked with
\* a form (company, year and season).
MopsStatements == {"balance_sheet", "cash_flow", "income_statement"}
MopsForm(ds, par) == IF ds \in MopsStatements THEN par ELSE NoParams

Sent(a) == CASE a.src = Web  -> WebUrl(a.ds, a.par)
             [] a.src = Api  -> ApiUrl(a.ds, a.par)
             [] a.src = Tpex -> TpexUrl(a.ds, a.par)
             [] a.src = Mops -> MopsForm(a.ds, a.par)
             [] OTHER        -> a.par

\* What the official endpoint pays heed to: the report pages of TWSE-WEB to
\* every parameter, the open data sets only to their path; TPEx rows are then
\* cut to the stock by the normaliser (queryStockNo).
Heeded(a) == CASE a.src = Web  -> Sent(a)
               [] a.src = Tpex -> [Sent(a) EXCEPT !.date = NoDay]
               [] OTHER        -> [Sent(a) EXCEPT !.date = NoDay, !.stock = ""]

\* Report pages that return the month of the date: their rows are of many days
\* and are not compared here.
MonthFeeds == {"daily_k", "index_history", "block_trades", "monthly_avg",
               "insti_amounts", "turnover_history", "taiwan50", "island_index",
               "total_return"}

\* The asks whose answer Validate compares with a day: the report pages sent a
\* date (qfiis sends dayDate, which queryDate does not read).  What day the
\* futures exchange's reports are of is TaifexQuery's subject.
AsksForDay(a) == a.src = Web /\ Sent(a).date # NoDay /\ a.ds \notin MonthFeeds \cup {"qfiis"}
DayAsked(a) == Sent(a).date

\* The day the rows of an answer name: a page asked for a day may give any day
\* that is out, or name none (an array, no rows at all, no date in it).
Editions(a, newest) == {NoDay} \cup IF AsksForDay(a) THEN 1..newest ELSE {}

(* Mutant: an answer's day is not compared with the day asked for.          *)
AnyDay(a, ed) == TRUE

\* validateDateConsistency: a day the answer names is the day of the request;
\* one that names none passes.
DateConsistent(a, ed) == AsksForDay(a) => ed \in {DayAsked(a), NoDay}

-----------------------------------------------------------------------------
(* The row type the normaliser of a data set produces.                     *)

TwseRows == [
  daily_k |-> "Candle", monthly_avg |-> "MonthlyAvgRow", margin |-> "MarginRow",
  institutional |-> "InstitutionalRow", market_close |-> "MarketCloseRow",
  index_history |-> "IndexRow", block_trades |-> "BlockTradeRow"]
TwseApiRows == [
  abnormal_volume |-> "AbnormalVolumeRow", after_hours |-> "AfterHoursRow",
  qfiis |-> "ForeignHoldingPointRow", punish |-> "PunishRow",
  daily_close |-> "DailyCloseRow", foreign_holdings |-> "ForeignHoldingRow",
  warrants |-> "WarrantRow", indices |-> "IndexQuoteRow", esg |-> "ESGRow",
  company_governance |-> "GovernanceRow", valuation |-> "ValuationRow",
  ex_div |-> "ExDivEventRow", dividend |-> "DividendRow"]
TwseMaps == {"day_trade_targets", "etf_reg_inv", "margin_info",
    "block_monthly", "block_yearly", "cross_market", "fin_prog_abnormal",
    "sbl_volume", "first_foreign", "margin_restrict", "odd_lot",
    "trading_changes", "price_change_lim", "new_list_5d", "suspend_daytrade_ann",
    "suspend_daytrade_his", "suspended", "top_volume", "insti_amounts",
    "turnover_history", "sbl_balance_his", "bond_redemption", "holiday",
    "realtime_stats", "taiwan50", "island_index", "total_return",
    "monthly_avg_all", "stock_year_trade", "stock_mon_trade", "stock_year_his",
    "sbl_trades_his",
    "gain_loss", "cum_voting", "own_scope_halt", "own_scope_trade",
    "scope_changes", "indep_directors", "ownership_change", "balance_sheet_ci",
    "balance_sheet_basi", "balance_sheet_bd", "balance_sheet_fh",
    "balance_sheet_ins", "balance_sheet_mim", "board_insuff", "board_insuff_con",
    "board_pledged", "board_holdings", "ceo_dual_role", "dir_comp_con",
    "sup_comp_con", "insider_preann", "insider_untrans", "dir_comp",
    "major_shareholders", "supervisor_comp", "meeting_ann", "meeting_dates",
    "proposal_exercise", "top_foreign", "twse_news", "twse_events", "note_trans",
    "warrant_basic", "warrant_trader", "warrant_issue", "sec_penalty",
    "foreign_apply", "new_listing", "suspend_listing", "local_apply",
    "fund_basic", "pub_board_hold", "pub_income_ci", "pub_income_basi",
    "pub_income_bd", "pub_income_fh", "pub_income_ins", "pub_income_mim",
    "pub_bal_ci", "pub_bal_basi", "pub_bal_bd", "pub_bal_fh", "pub_bal_ins",
    "pub_bal_mim", "eps_stats", "income_ci", "income_basi", "income_bd",
    "income_fh", "income_ins", "income_mim", "disclosure_vio", "broker_basic",
    "broker_branch", "broker_elec", "broker_gender", "broker_hq",
    "broker_income", "broker_monthly", "broker_personnel", "broker_reg_inv",
    "supervisor_ack", "ann_notice", "profitability", "audit_variance",
    "forecast_achv"}
TpexRows == [
  daily_close |-> "TPExDailyCloseRow", otc_daily |-> "TPExDailyCloseRow",
  pe_valuation |-> "TPExPEValuationRow", indices |-> "TPExIndexRow",
  institutional |-> "TPExInstitutionalRow",
  institutional_summary |-> "TPExInstiSummaryRow", margin |-> "TPExMarginRow",
  attention |-> "TPExAttentionRow", disposition |-> "TPExDispositionRow",
  ex_rights |-> "TPExExRightRow", odd_lot |-> "TPExOddLotRow"]
TpexMaps == {
    "otc_monthly_revenue", "otc_broker_volume", "otc_foreign_trading",
    "otc_insti_trading", "otc_dealer_trading", "otc_after_hours",
    "otc_warn_note", "emerging_quotes", "emerging_highlight",
    "emerging_eps_rank", "emerging_cap_rank", "t50_latest", "t50_history",
    "t50_constituents", "t200_latest", "t200_constituents", "gi_latest",
    "gi_constituents", "si_latest", "si_constituents", "emp88_history",
    "emp88_latest", "emp88_constituents", "otc_warrant_daily",
    "otc_warrant_basic", "otc_warrant_issue", "wcb_issue", "wcb_daily",
    "wxy_issue", "wxy_daily", "rank_pe", "rank_volume", "rank_amount",
    "rank_turnover", "rank_market_value", "rank_amount_avg", "rank_volume_avg",
    "otc_broker_branch", "otc_broker_hq", "otc_dpsp_monthly", "otc_intraday_fee",
    "otc_margin_sbl", "otc_mt_adjust", "otc_mt_lend", "otc_mt_mark",
    "otc_mt_used", "otc_mt_marginspot", "otc_mt_short_sell", "otc_mt_term",
    "otc_short_sell", "otc_ceil_non", "otc_cmode", "otc_trade_index",
    "otc_delay_close", "otc_delay_open", "otc_ipo_no_limit",
    "otc_main_highlight", "otc_prvol", "otc_spendi_history", "otc_spendi_today",
    "otc_block_day", "otc_block_stock", "otc_block_summary_day",
    "otc_block_monthly", "otc_block_yearly", "intl_bond_quotes",
    "intl_bond_trade", "bond_issue", "gold_latest", "gold_highlight",
    "gold_warrant", "opfund_latest", "opfund_dealer", "opfund_highlight",
    "gisa_company", "gisa_highlight", "gisa_financing", "otc_exright_daily",
    "otc_daytrade_targets", "otc_daytrade_stats", "otc_esg", "hd_index",
    "hd_latest", "hd_constituents", "otc_mopsfin", "otc_qfii_rank",
    "otc_qfii_industry"}

NormalizeTWSE(ds) ==
  CASE ds \in DOMAIN TwseRows    -> TwseRows[ds]
    [] ds \in DOMAIN TwseApiRows -> TwseApiRows[ds]
    [] ds \in TwseMaps           -> "map"
    [] OTHER                     -> "unsupported"
NormalizeTPEx(ds) == CASE ds \in DOMAIN TpexRows -> TpexRows[ds]
                       [] ds \in TpexMaps        -> "map"
                       [] OTHER                  -> "unsupported"
MopsRows == [
  company_profile |-> "CompanyProfile", announcements |-> "MajorAnnouncement",
  monthly_revenue |-> "MonthlyRevenue", income_summary |-> "IncomeSummary",
  profit_ratios |-> "ProfitabilityRatio", balance_sheet |-> "BalanceSheet",
  cash_flow |-> "CashFlow", income_statement |-> "IncomeStatement",
  esg_ghg |-> "ESGRow", esg_renewable |-> "ESGRow", esg_water |-> "ESGRow",
  esg_waste |-> "ESGRow", esg_employee |-> "ESGRow", esg_board |-> "ESGRow",
  esg_conference |-> "ESGRow", esg_tcfd |-> "ESGRow"]
NormalizeMOPS(ds) == IF ds \in DOMAIN MopsRows THEN MopsRows[ds] ELSE "unsupported"

\* TAIFEX reports, MIS snapshots and ETF pages have one decoder each.
Normalized(a) ==
  IF a.ds \in EtfPages THEN a.row
  ELSE CASE a.src \in {Web, Api} -> NormalizeTWSE(a.ds)
         [] a.src = Tpex         -> NormalizeTPEx(a.ds)
         [] a.src = Mops         -> NormalizeMOPS(a.ds)
         [] OTHER                -> a.row
=============================================================================
