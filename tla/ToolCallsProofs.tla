--------------------------- MODULE ToolCallsProofs ---------------------------
(***************************************************************************)
(* Theorems about ToolCalls: for every set of clients, every span of days  *)
(* and every key, with the whole registry of tools.                        *)
(*                                                                         *)
(* First what the registry offers: whatever the time and the arguments,    *)
(* the plan of a call is sound.  Then the calls: a handler's course along  *)
(* such a plan, and what the calls share.                                  *)
(***************************************************************************)
EXTENDS ToolCalls, SequenceTheorems, LeastNumbers, TLAPS

(* The regimes of a step, what a sequence holds, and what makes an ask, a  *)
(* step, a plan and a tool sound: every table read has a cache policy, its *)
(* rows are named as its normaliser makes them, every step reads something *)
(* and no call is turned away for an option.                               *)
Regimes == {"all", "try", "some", "scan", "seek", "hunt", "until", "hollow"}
Held(s) == {s[j] : j \in DOMAIN s}
SoundAsk(a) == AskCacheable(a, FALSE) /\ (a.row # "map" => a.row = Normalized(a))
SoundStep(s) ==
  /\ s \in [asks : {s.asks}, how : Regimes, told : BOOLEAN, miss : BOOLEAN, after : Nat]
  /\ s.asks \in Seq(Held(s.asks)) /\ s.asks # <<>>
  /\ \A a \in Held(s.asks) : SoundAsk(a)
SoundSteps(steps) == steps \in Seq(Held(steps)) /\ \A s \in Held(steps) : SoundStep(s)
SoundPlan(p) == SoundSteps(p.steps) /\ p.refused \in {"no", "symbol", "argument", "pair"}
SoundOffers(S) == \A o \in S : SoundPlan(o.plan)

-----------------------------------------------------------------------------
(* Sequences.                                                              *)
LEMMA HeldBy ==
  ASSUME NEW S, NEW s \in Seq(S)
  PROVE  /\ s \in Seq(Held(s)) /\ Held(s) \subseteq S
         /\ \A x \in Held(s) : \E i \in 1..Len(s) : x = s[i]
<1>1. Len(s) \in Nat /\ DOMAIN s = 1..Len(s) /\ \A i \in 1..Len(s) : s[i] \in S
  OBVIOUS
<1>2. s \in [1..Len(s) -> Held(s)]
  BY <1>1 DEF Held
<1> QED BY <1>1, <1>2, SeqDef DEF Held

(* The elements of sequences of one ...                                    *)
LEMMA HeldOne ==
  ASSUME NEW x
  PROVE  <<x>> \in Seq(Held(<<x>>)) /\ Held(<<x>>) = {x} /\ <<x>> # <<>>
<1>1. <<x>> \in Seq({x}) /\ Len(<<x>>) = 1 /\ <<x>>[1] = x
  OBVIOUS
<1>2. DOMAIN <<x>> = {1}
  BY <1>1
<1> QED BY <1>1, <1>2, HeldBy DEF Held

(* ... and of two.                                                         *)
LEMMA HeldTwo ==
  ASSUME NEW x, NEW y
  PROVE  <<x, y>> \in Seq(Held(<<x, y>>)) /\ Held(<<x, y>>) = {x, y} /\ <<x, y>> # <<>>
<1>1. <<x, y>> \in Seq({x, y}) /\ Len(<<x, y>>) = 2 /\ <<x, y>>[1] = x /\ <<x, y>>[2] = y
  OBVIOUS
<1>2. DOMAIN <<x, y>> = {1, 2}
  BY <1>1
<1> QED BY <1>1, <1>2, HeldBy DEF Held

(* A concatenation holds what its parts hold.                              *)
LEMMA HeldJoined ==
  ASSUME NEW s, NEW t, s \in Seq(Held(s)), t \in Seq(Held(t))
  PROVE  s \o t \in Seq(Held(s \o t)) /\ Held(s \o t) \subseteq Held(s) \cup Held(t)
<1> DEFINE S == Held(s) \cup Held(t)
<1>1. s \in Seq(S) /\ t \in Seq(S)
  <2>1. Held(s) \subseteq S /\ Held(t) \subseteq S
    OBVIOUS
  <2> HIDE DEF S
  <2> QED BY <2>1
<1> HIDE DEF S
<1>2. s \o t \in Seq(S)
  BY <1>1
<1> QED BY <1>2, HeldBy DEF S

(* A sequence written as a function of its positions.                      *)
LEMMA HeldIndexed ==
  ASSUME NEW n \in Nat \ {0}, NEW s, DOMAIN s = 1..n, s = [i \in 1..n |-> s[i]]
  PROVE  s \in Seq(Held(s)) /\ Held(s) = {s[i] : i \in 1..n} /\ s # <<>>
<1>1. s \in [1..n -> Held(s)]
  BY DEF Held
<1>2. s \in Seq(Held(s))
  BY <1>1, SeqDef
<1>3. Len(s) = n
  BY <1>1, <1>2
<1> QED BY <1>2, <1>3 DEF Held

-----------------------------------------------------------------------------
(* Steps and plans.                                                        *)

(* A step is sound when the asks it makes are.                             *)
LEMMA StepOf ==
  ASSUME NEW asks, NEW how \in Regimes, asks \in Seq(Held(asks)), asks # <<>>,
         \A a \in Held(asks) : SoundAsk(a)
  PROVE  SoundStep(Step(asks, how))
BY DEF SoundStep, Step

(* A step of one ask, under whatever regime it is read.                    *)
LEMMA OneAsk ==
  ASSUME NEW a, SoundAsk(a)
  PROVE  /\ SoundStep(Need(a)) /\ SoundStep(Try(a))
         /\ \A how \in Regimes : SoundStep(Step(<<a>>, how))
<1>1. <<a>> \in Seq(Held(<<a>>)) /\ <<a>> # <<>> /\ \A x \in Held(<<a>>) : SoundAsk(x)
  BY HeldOne
<1>2. \A how \in Regimes : SoundStep(Step(<<a>>, how))
  <2> DEFINE asks == <<a>>
  <2>1. asks \in Seq(Held(asks)) /\ asks # <<>> /\ \A x \in Held(asks) : SoundAsk(x)
    BY <1>1
  <2> HIDE DEF asks
  <2>2. \A how \in Regimes : SoundStep(Step(asks, how))
    BY <2>1, StepOf
  <2> QED BY <2>2 DEF asks
<1> QED BY <1>2 DEF Need, Try, Regimes

(* A step of two asks.                                                     *)
LEMMA TwoAsks ==
  ASSUME NEW a, NEW b, SoundAsk(a), SoundAsk(b), NEW how \in Regimes
  PROVE  SoundStep(Step(<<a, b>>, how))
<1> DEFINE asks == <<a, b>>
<1>1. asks \in Seq(Held(asks)) /\ asks # <<>> /\ \A x \in Held(asks) : SoundAsk(x)
  BY HeldTwo
<1> HIDE DEF asks
<1>2. SoundStep(Step(asks, how))
  BY <1>1, StepOf
<1> QED BY <1>2 DEF asks

(* A step of as many asks as there are positions.                          *)
LEMMA ManyAsks ==
  ASSUME NEW n \in Nat \ {0}, NEW asks, DOMAIN asks = 1..n, asks = [i \in 1..n |-> asks[i]],
         \A i \in 1..n : SoundAsk(asks[i]), NEW how \in Regimes
  PROVE  SoundStep(Step(asks, how))
BY HeldIndexed, StepOf

(* The marks a handler puts on a step leave it sound.                      *)
LEMMA StepChanged ==
  ASSUME NEW s, SoundStep(s)
  PROVE  /\ SoundStep(OrMiss(s)) /\ SoundStep(Untold(s))
         /\ \A n \in Nat : SoundStep(After(n, s))
BY DEF SoundStep, OrMiss, Untold, After

(* A plan without steps reads nothing that could be wrong.                 *)
LEMMA NoSteps == SoundSteps(<<>>)
BY DEF SoundSteps, Held

(* Plans of one step ...                                                   *)
LEMMA OneStep ==
  ASSUME NEW s, SoundStep(s)
  PROVE  SoundSteps(<<s>>)
BY HeldOne DEF SoundSteps

(* ... of two ...                                                          *)
LEMMA TwoSteps ==
  ASSUME NEW s, NEW t, SoundStep(s), SoundStep(t)
  PROVE  SoundSteps(<<s, t>>)
BY HeldTwo DEF SoundSteps

(* ... of one plan after another ...                                       *)
LEMMA JoinedSteps ==
  ASSUME NEW s, NEW t, SoundSteps(s), SoundSteps(t)
  PROVE  SoundSteps(s \o t)
BY HeldJoined DEF SoundSteps

(* ... and of three steps.                                                 *)
LEMMA ThreeSteps ==
  ASSUME NEW s, NEW t, NEW u, SoundStep(s), SoundStep(t), SoundStep(u)
  PROVE  SoundSteps(<<s, t, u>>)
<1>1. <<s, t, u>> = <<s, t>> \o <<u>>
  OBVIOUS
<1> QED BY <1>1, OneStep, TwoSteps, JoinedSteps

(* A plan that does not turn the call away is as sound as its steps.       *)
LEMMA PlanOf ==
  ASSUME NEW src, NEW day, NEW steps, SoundSteps(steps)
  PROVE  SoundPlan(Plan(src, day, steps))
BY DEF SoundPlan, Plan

(* A plan of a single step.                                                *)
LEMMA SinglePlan ==
  ASSUME NEW src, NEW day, NEW s, SoundStep(s)
  PROVE  SoundPlan(Single(src, day, s))
BY OneStep, PlanOf DEF Single

(* A call may be turned away for its symbol, its arguments or a pair of    *)
(* them.                                                                   *)
LEMMA Refusals == \A why \in {"symbol", "argument", "pair"} : SoundPlan(Refuse(why))
BY NoSteps DEF SoundPlan, Plan, Refuse

(* A tool is sound when each of its plans is.                              *)
LEMMA OfferOf ==
  ASSUME NEW tool, NEW plans, \A p \in plans : SoundPlan(p)
  PROVE  SoundOffers(Offer(tool, plans))
BY DEF SoundOffers, Offer

-----------------------------------------------------------------------------
(* Policies and row types.                                                 *)

(* A data set that the policy tables list is cached before 16:30 too:      *)
(* every class they file it under keeps rows.                              *)
LEMMA ListedIsCached ==
  ASSUME NEW T \in {PolicyTableMarket, PolicyTableRest}, NEW c \in DOMAIN T, NEW ds \in T[c]
  PROVE  Cacheable(ds, FALSE)
<1> DEFINE Classes == DiskClasses \cup {"alert_stock", "mis_snapshot"}
<1>1. DOMAIN PolicyTableMarket \subseteq Classes
  BY DEF PolicyTableMarket, DiskClasses
<1>2. DOMAIN PolicyTableRest \subseteq Classes
  BY DEF PolicyTableRest, DiskClasses
<1> DEFINE cs == ListedIn(PolicyTableMarket, ds) \cup ListedIn(PolicyTableRest, ds)
<1>3. c \in cs /\ cs \subseteq Classes
  BY <1>1, <1>2 DEF ListedIn
<1> HIDE DEF cs
<1>4. (CHOOSE x \in cs : TRUE) \in Classes
  BY <1>3
<1>5. "daily_kline" \in Classes
  BY DEF DiskClasses
<1>6. PolicyDataset(ds) \in Classes
  BY <1>3, <1>4, <1>5 DEF PolicyDataset, cs
<1> QED BY <1>6 DEF Cacheable

(* A fund's page, which no table lists, falls under the default class.     *)
LEMMA FundPageIsCached == \A ds \in EtfPages : Cacheable(ds, FALSE)
<1> SUFFICES ASSUME NEW ds \in EtfPages PROVE Cacheable(ds, FALSE)
  OBVIOUS
<1>1. PolicyDataset(ds) = "daily_kline"
  BY DEF PolicyDataset
<1> QED BY <1>1 DEF Cacheable, DiskClasses

(* The classes of the two policy tables, one by one.                       *)
LEMMA ClassesAreCached ==
  /\ \A ds \in PolicyTableMarket["daily_kline"] : Cacheable(ds, FALSE)
  /\ \A ds \in PolicyTableMarket["institutional"] : Cacheable(ds, FALSE)
  /\ \A ds \in PolicyTableMarket["margin"] : Cacheable(ds, FALSE)
  /\ \A ds \in PolicyTableMarket["alert_stock"] : Cacheable(ds, FALSE)
  /\ \A ds \in PolicyTableMarket["calendar"] : Cacheable(ds, FALSE)
  /\ \A ds \in PolicyTableMarket["valuation"] : Cacheable(ds, FALSE)
  /\ \A ds \in PolicyTableMarket["taifex_history"] : Cacheable(ds, FALSE)
  /\ \A ds \in PolicyTableMarket["financials"] : Cacheable(ds, FALSE)
  /\ \A ds \in PolicyTableMarket["foreign_holding"] : Cacheable(ds, FALSE)
  /\ \A ds \in PolicyTableMarket["material_news"] : Cacheable(ds, FALSE)
  /\ \A ds \in PolicyTableMarket["mis_snapshot"] : Cacheable(ds, FALSE)
  /\ \A ds \in PolicyTableMarket["warrants"] : Cacheable(ds, FALSE)
  /\ \A ds \in PolicyTableRest["esg"] : Cacheable(ds, FALSE)
  /\ \A ds \in PolicyTableRest["daily_kline"] : Cacheable(ds, FALSE)
  /\ \A ds \in PolicyTableRest["monthly_revenue"] : Cacheable(ds, FALSE)
  /\ \A ds \in PolicyTableRest["institutional"] : Cacheable(ds, FALSE)
  /\ \A ds \in PolicyTableRest["alert_stock"] : Cacheable(ds, FALSE)
  /\ \A ds \in PolicyTableRest["calendar"] : Cacheable(ds, FALSE)
  /\ \A ds \in PolicyTableRest["foreign_holding"] : Cacheable(ds, FALSE)
  /\ \A ds \in PolicyTableRest["financials"] : Cacheable(ds, FALSE)
  /\ \A ds \in PolicyTableRest["material_news"] : Cacheable(ds, FALSE)
  /\ \A ds \in PolicyTableRest["valuation"] : Cacheable(ds, FALSE)
  /\ \A ds \in PolicyTableRest["ex_div_calendar"] : Cacheable(ds, FALSE)
  /\ \A ds \in PolicyTableRest["dividend"] : Cacheable(ds, FALSE)
<1>1. {"daily_kline", "institutional", "margin", "alert_stock", "calendar",
       "valuation", "taifex_history", "financials", "foreign_holding",
       "material_news", "mis_snapshot", "warrants"}
        \subseteq DOMAIN PolicyTableMarket
  BY DEF PolicyTableMarket
<1>2. {"esg", "daily_kline", "monthly_revenue", "institutional",
       "alert_stock", "calendar", "foreign_holding", "financials",
       "material_news", "valuation", "ex_div_calendar", "dividend"}
        \subseteq DOMAIN PolicyTableRest
  BY DEF PolicyTableRest
<1> QED BY <1>1, <1>2, ListedIsCached

(* The row type a normaliser makes is the one its source's table names.    *)
LEMMA RowTypes ==
  ASSUME NEW a
  PROVE  /\ a.src \in {Web, Api} /\ a.ds \in DOMAIN TwseRows => Normalized(a) = TwseRows[a.ds]
         /\ a.src \in {Web, Api} /\ a.ds \in DOMAIN TwseApiRows => Normalized(a) = TwseApiRows[a.ds]
         /\ a.src = Tpex /\ a.ds \in DOMAIN TpexRows => Normalized(a) = TpexRows[a.ds]
         /\ a.src = Mops /\ a.ds \in DOMAIN MopsRows => Normalized(a) = MopsRows[a.ds]
         /\ a.src = Taifex \/ a.ds \in EtfPages => Normalized(a) = a.row
<1>1. /\ DOMAIN TwseRows \cap EtfPages = {} /\ DOMAIN TwseApiRows \cap EtfPages = {}
      /\ DOMAIN TpexRows \cap EtfPages = {} /\ DOMAIN MopsRows \cap EtfPages = {}
  BY DEF TwseRows, TwseApiRows, TpexRows, MopsRows, EtfPages
<1>2. /\ DOMAIN TwseRows \cap DOMAIN TwseApiRows = {}
      /\ DOMAIN TwseRows \cap TwseMaps = {} /\ DOMAIN TwseApiRows \cap TwseMaps = {}
  BY DEF TwseRows, TwseApiRows, TwseMaps
<1>3. DOMAIN TpexRows \cap TpexMaps = {}
  BY DEF TpexRows, TpexMaps
<1>4. a.src \in {Web, Api} => a.src # Tpex /\ a.src # Mops /\ a.src # Taifex
  BY DEF Web, Api, Tpex, Mops, Taifex
<1>5. Tpex # Mops /\ Tpex # Taifex /\ Mops # Taifex
  BY DEF Tpex, Mops, Taifex
<1> QED BY <1>1, <1>2, <1>3, <1>4, <1>5 DEF Normalized, NormalizeTWSE, NormalizeTPEx, NormalizeMOPS

(* An ask for a cached data set that names the row type its source makes,  *)
(* or leaves the rows as maps.                                             *)
LEMMA TypedAsk ==
  ASSUME NEW src, NEW ds, NEW day, NEW who, NEW par, NEW row, Cacheable(ds, FALSE),
         \/ src \in {Web, Api} /\ ds \in DOMAIN TwseRows /\ row = TwseRows[ds]
         \/ src \in {Web, Api} /\ ds \in DOMAIN TwseApiRows /\ row = TwseApiRows[ds]
         \/ src = Tpex /\ ds \in DOMAIN TpexRows /\ row = TpexRows[ds]
         \/ src = Mops /\ ds \in DOMAIN MopsRows /\ row = MopsRows[ds]
         \/ src = Web /\ ds \in EtfPages
         \/ row = "map"
  PROVE  SoundAsk(Ask(src, ds, day, who, par, row))
<1> DEFINE a == Ask(src, ds, day, who, par, row)
<1>1. a.src = src /\ a.ds = ds /\ a.row = row
  BY DEF Ask
<1> HIDE DEF a
<1>2. a.row # "map" => a.row = Normalized(a)
  BY <1>1, RowTypes
<1>3. AskCacheable(a, FALSE)
  BY <1>1 DEF AskCacheable
<1>4. SoundAsk(a)
  BY <1>2, <1>3 DEF SoundAsk
<1> QED BY <1>4 DEF a

(* The report pages of the exchange whose rows have a type.                *)
LEMMA PagesOfTWSE ==
  ASSUME NEW day, NEW who, NEW par, NEW src \in {Web, Api}
  PROVE  /\ SoundAsk(Ask(src, "daily_k", day, who, par, "Candle"))
         /\ SoundAsk(Ask(src, "market_close", day, who, par, "MarketCloseRow"))
         /\ SoundAsk(Ask(src, "institutional", day, who, par, "InstitutionalRow"))
         /\ SoundAsk(Ask(src, "margin", day, who, par, "MarginRow"))
         /\ SoundAsk(Ask(src, "index_history", day, who, par, "IndexRow"))
<1>1. /\ "daily_k" \in DOMAIN TwseRows /\ TwseRows["daily_k"] = "Candle"
      /\ "market_close" \in DOMAIN TwseRows /\ TwseRows["market_close"] = "MarketCloseRow"
      /\ "institutional" \in DOMAIN TwseRows /\ TwseRows["institutional"] = "InstitutionalRow"
      /\ "margin" \in DOMAIN TwseRows /\ TwseRows["margin"] = "MarginRow"
      /\ "index_history" \in DOMAIN TwseRows /\ TwseRows["index_history"] = "IndexRow"
  BY DEF TwseRows
<1>2. {"daily_k", "market_close", "index_history"}
       \subseteq PolicyTableMarket["daily_kline"]
  BY DEF PolicyTableMarket
<1>3. {"institutional"}
       \subseteq PolicyTableMarket["institutional"]
  BY DEF PolicyTableMarket
<1>4. {"margin"}
       \subseteq PolicyTableMarket["margin"]
  BY DEF PolicyTableMarket
<1>5. \A ds \in {"daily_k", "market_close", "institutional", "margin",
               "index_history"} :
       Cacheable(ds, FALSE)
  BY <1>2, <1>3, <1>4, ClassesAreCached
<1> QED BY <1>1, <1>5, TypedAsk

(* The tables of the exchange's interface whose rows have a type.          *)
LEMMA TablesOfTWSE ==
  ASSUME NEW day, NEW who, NEW par, NEW src \in {Web, Api}
  PROVE  /\ SoundAsk(Ask(src, "abnormal_volume", day, who, par, "AbnormalVolumeRow"))
         /\ SoundAsk(Ask(src, "after_hours", day, who, par, "AfterHoursRow"))
         /\ SoundAsk(Ask(src, "qfiis", day, who, par, "ForeignHoldingPointRow"))
         /\ SoundAsk(Ask(src, "punish", day, who, par, "PunishRow"))
         /\ SoundAsk(Ask(src, "foreign_holdings", day, who, par, "ForeignHoldingRow"))
         /\ SoundAsk(Ask(src, "warrants", day, who, par, "WarrantRow"))
         /\ SoundAsk(Ask(src, "indices", day, who, par, "IndexQuoteRow"))
         /\ SoundAsk(Ask(src, "esg", day, who, par, "ESGRow"))
         /\ SoundAsk(Ask(src, "company_governance", day, who, par, "GovernanceRow"))
         /\ SoundAsk(Ask(src, "valuation", day, who, par, "ValuationRow"))
         /\ SoundAsk(Ask(src, "ex_div", day, who, par, "ExDivEventRow"))
         /\ SoundAsk(Ask(src, "dividend", day, who, par, "DividendRow"))
<1>1. /\ "abnormal_volume" \in DOMAIN TwseApiRows /\
            TwseApiRows["abnormal_volume"] = "AbnormalVolumeRow"
      /\ "after_hours" \in DOMAIN TwseApiRows /\ TwseApiRows["after_hours"] = "AfterHoursRow"
      /\ "qfiis" \in DOMAIN TwseApiRows /\ TwseApiRows["qfiis"] = "ForeignHoldingPointRow"
      /\ "punish" \in DOMAIN TwseApiRows /\ TwseApiRows["punish"] = "PunishRow"
      /\ "foreign_holdings" \in DOMAIN TwseApiRows /\
            TwseApiRows["foreign_holdings"] = "ForeignHoldingRow"
      /\ "warrants" \in DOMAIN TwseApiRows /\ TwseApiRows["warrants"] = "WarrantRow"
      /\ "indices" \in DOMAIN TwseApiRows /\ TwseApiRows["indices"] = "IndexQuoteRow"
      /\ "esg" \in DOMAIN TwseApiRows /\ TwseApiRows["esg"] = "ESGRow"
      /\ "company_governance" \in DOMAIN TwseApiRows /\
            TwseApiRows["company_governance"] = "GovernanceRow"
      /\ "valuation" \in DOMAIN TwseApiRows /\ TwseApiRows["valuation"] = "ValuationRow"
      /\ "ex_div" \in DOMAIN TwseApiRows /\ TwseApiRows["ex_div"] = "ExDivEventRow"
      /\ "dividend" \in DOMAIN TwseApiRows /\ TwseApiRows["dividend"] = "DividendRow"
  BY DEF TwseApiRows
<1>2. {"abnormal_volume", "punish"}
       \subseteq PolicyTableMarket["alert_stock"]
  BY DEF PolicyTableMarket
<1>3. {"after_hours"}
       \subseteq PolicyTableMarket["daily_kline"]
  BY DEF PolicyTableMarket
<1>4. {"qfiis", "foreign_holdings"}
       \subseteq PolicyTableMarket["foreign_holding"]
  BY DEF PolicyTableMarket
<1>5. {"warrants"}
       \subseteq PolicyTableMarket["warrants"]
  BY DEF PolicyTableMarket
<1>6. {"indices"}
       \subseteq PolicyTableRest["daily_kline"]
  BY DEF PolicyTableRest
<1>7. {"esg", "company_governance"}
       \subseteq PolicyTableRest["esg"]
  BY DEF PolicyTableRest
<1>8. {"valuation"}
       \subseteq PolicyTableRest["valuation"]
  BY DEF PolicyTableRest
<1>9. {"ex_div"}
       \subseteq PolicyTableRest["ex_div_calendar"]
  BY DEF PolicyTableRest
<1>10. {"dividend"}
       \subseteq PolicyTableRest["dividend"]
  BY DEF PolicyTableRest
<1>11. \A ds \in {"abnormal_volume", "after_hours", "qfiis", "punish",
               "foreign_holdings", "warrants", "indices", "esg",
               "company_governance", "valuation", "ex_div", "dividend"} :
       Cacheable(ds, FALSE)
  BY <1>2, <1>3, <1>4, <1>5, <1>6, <1>7, <1>8, <1>9, <1>10, ClassesAreCached
<1> QED BY <1>1, <1>11, TypedAsk

(* The over-the-counter tables whose rows have a type.                     *)
LEMMA TablesOfTPEx ==
  ASSUME NEW day, NEW who, NEW par
  PROVE  /\ SoundAsk(Ask(Tpex, "daily_close", day, who, par, "TPExDailyCloseRow"))
         /\ SoundAsk(Ask(Tpex, "otc_daily", day, who, par, "TPExDailyCloseRow"))
         /\ SoundAsk(Ask(Tpex, "pe_valuation", day, who, par, "TPExPEValuationRow"))
         /\ SoundAsk(Ask(Tpex, "indices", day, who, par, "TPExIndexRow"))
         /\ SoundAsk(Ask(Tpex, "institutional", day, who, par, "TPExInstitutionalRow"))
         /\ SoundAsk(Ask(Tpex, "margin", day, who, par, "TPExMarginRow"))
         /\ SoundAsk(Ask(Tpex, "attention", day, who, par, "TPExAttentionRow"))
         /\ SoundAsk(Ask(Tpex, "disposition", day, who, par, "TPExDispositionRow"))
         /\ SoundAsk(Ask(Tpex, "ex_rights", day, who, par, "TPExExRightRow"))
         /\ SoundAsk(Ask(Tpex, "odd_lot", day, who, par, "TPExOddLotRow"))
<1>1. /\ "daily_close" \in DOMAIN TpexRows /\ TpexRows["daily_close"] = "TPExDailyCloseRow"
      /\ "otc_daily" \in DOMAIN TpexRows /\ TpexRows["otc_daily"] = "TPExDailyCloseRow"
      /\ "pe_valuation" \in DOMAIN TpexRows /\ TpexRows["pe_valuation"] = "TPExPEValuationRow"
      /\ "indices" \in DOMAIN TpexRows /\ TpexRows["indices"] = "TPExIndexRow"
      /\ "institutional" \in DOMAIN TpexRows /\ TpexRows["institutional"] = "TPExInstitutionalRow"
      /\ "margin" \in DOMAIN TpexRows /\ TpexRows["margin"] = "TPExMarginRow"
      /\ "attention" \in DOMAIN TpexRows /\ TpexRows["attention"] = "TPExAttentionRow"
      /\ "disposition" \in DOMAIN TpexRows /\ TpexRows["disposition"] = "TPExDispositionRow"
      /\ "ex_rights" \in DOMAIN TpexRows /\ TpexRows["ex_rights"] = "TPExExRightRow"
      /\ "odd_lot" \in DOMAIN TpexRows /\ TpexRows["odd_lot"] = "TPExOddLotRow"
  BY DEF TpexRows
<1>2. {"daily_close", "otc_daily", "indices"}
       \subseteq PolicyTableRest["daily_kline"]
  BY DEF PolicyTableRest
<1>3. {"pe_valuation"}
       \subseteq PolicyTableRest["valuation"]
  BY DEF PolicyTableRest
<1>4. {"institutional"}
       \subseteq PolicyTableMarket["institutional"]
  BY DEF PolicyTableMarket
<1>5. {"margin"}
       \subseteq PolicyTableMarket["margin"]
  BY DEF PolicyTableMarket
<1>6. {"attention", "disposition"}
       \subseteq PolicyTableRest["alert_stock"]
  BY DEF PolicyTableRest
<1>7. {"ex_rights"}
       \subseteq PolicyTableRest["ex_div_calendar"]
  BY DEF PolicyTableRest
<1>8. {"odd_lot"}
       \subseteq PolicyTableMarket["daily_kline"]
  BY DEF PolicyTableMarket
<1>9. \A ds \in {"daily_close", "otc_daily", "pe_valuation", "indices",
               "institutional", "margin", "attention", "disposition",
               "ex_rights", "odd_lot"} :
       Cacheable(ds, FALSE)
  BY <1>2, <1>3, <1>4, <1>5, <1>6, <1>7, <1>8, ClassesAreCached
<1> QED BY <1>1, <1>9, TypedAsk

(* The tables of company reports whose rows have a type.                   *)
LEMMA TablesOfMOPS ==
  ASSUME NEW day, NEW who, NEW par
  PROVE  /\ SoundAsk(Ask(Mops, "company_profile", day, who, par, "CompanyProfile"))
         /\ SoundAsk(Ask(Mops, "announcements", day, who, par, "MajorAnnouncement"))
         /\ SoundAsk(Ask(Mops, "monthly_revenue", day, who, par, "MonthlyRevenue"))
         /\ SoundAsk(Ask(Mops, "income_summary", day, who, par, "IncomeSummary"))
         /\ SoundAsk(Ask(Mops, "profit_ratios", day, who, par, "ProfitabilityRatio"))
         /\ SoundAsk(Ask(Mops, "balance_sheet", day, who, par, "BalanceSheet"))
         /\ SoundAsk(Ask(Mops, "cash_flow", day, who, par, "CashFlow"))
         /\ SoundAsk(Ask(Mops, "income_statement", day, who, par, "IncomeStatement"))
<1>1. /\ "company_profile" \in DOMAIN MopsRows /\ MopsRows["company_profile"] = "CompanyProfile"
      /\ "announcements" \in DOMAIN MopsRows /\ MopsRows["announcements"] = "MajorAnnouncement"
      /\ "monthly_revenue" \in DOMAIN MopsRows /\ MopsRows["monthly_revenue"] = "MonthlyRevenue"
      /\ "income_summary" \in DOMAIN MopsRows /\ MopsRows["income_summary"] = "IncomeSummary"
      /\ "profit_ratios" \in DOMAIN MopsRows /\ MopsRows["profit_ratios"] = "ProfitabilityRatio"
      /\ "balance_sheet" \in DOMAIN MopsRows /\ MopsRows["balance_sheet"] = "BalanceSheet"
      /\ "cash_flow" \in DOMAIN MopsRows /\ MopsRows["cash_flow"] = "CashFlow"
      /\ "income_statement" \in DOMAIN MopsRows /\ MopsRows["income_statement"] = "IncomeStatement"
  BY DEF MopsRows
<1>2. {"company_profile"}
       \subseteq PolicyTableRest["calendar"]
  BY DEF PolicyTableRest
<1>3. {"announcements"}
       \subseteq PolicyTableRest["material_news"]
  BY DEF PolicyTableRest
<1>4. {"monthly_revenue"}
       \subseteq PolicyTableRest["monthly_revenue"]
  BY DEF PolicyTableRest
<1>5. {"income_summary", "profit_ratios", "balance_sheet", "cash_flow",
      "income_statement"}
       \subseteq PolicyTableRest["financials"]
  BY DEF PolicyTableRest
<1>6. \A ds \in {"company_profile", "announcements", "monthly_revenue",
               "income_summary", "profit_ratios", "balance_sheet",
               "cash_flow", "income_statement"} :
       Cacheable(ds, FALSE)
  BY <1>2, <1>3, <1>4, <1>5, ClassesAreCached
<1> QED BY <1>1, <1>6, TypedAsk

-----------------------------------------------------------------------------
(* Handlers of MarketTools.                                                *)

(* The common read of one table.                                           *)
LEMMA TableSound ==
  ASSUME NEW src, NEW n, NEW ds, NEW who, Cacheable(ds, FALSE)
  PROVE  /\ SoundAsk(Table(src, n, ds, who))
         /\ SoundPlan(ReadTable(src, n, ds, who))
         /\ SoundPlan(TpexToday(n, ds, who))
<1>1. \A s : SoundAsk(Table(s, n, ds, who))
  BY TypedAsk DEF Table
<1>2. \A s : SoundPlan(ReadTable(s, n, ds, who))
  BY <1>1, OneAsk, SinglePlan DEF ReadTable
<1> QED BY <1>1, <1>2 DEF TpexToday

(* A handler that finds its table by the kind asked for.                   *)
LEMMA KindSound ==
  ASSUME NEW n, NEW kinds, NEW kind \in DOMAIN kinds, NEW who, Cacheable(kinds[kind], FALSE)
  PROVE  SoundPlan(TpexKind(n, kinds, kind, who))
BY TableSound DEF TpexKind

(* A handler that takes its default view when it does not know the one     *)
(* asked for.                                                              *)
LEMMA ViewSound ==
  ASSUME NEW n, NEW views, NEW view, NEW default \in DOMAIN views, NEW who,
         \A v \in DOMAIN views : Cacheable(views[v], FALSE)
  PROVE  SoundPlan(TpexView(n, views, view, default, who))
BY TableSound DEF TpexView

(* A handler of one read.                                                  *)
LEMMA OneRead ==
  ASSUME NEW src, NEW day, NEW a, SoundAsk(a)
  PROVE  SoundPlan(Single(src, day, Need(a))) /\ SoundPlan(Single(src, day, OrMiss(Need(a))))
BY OneAsk, StepChanged, SinglePlan

(* A read of several months of daily prices.                               *)
LEMMA TrendMonths ==
  ASSUME NEW code, NEW date, NEW m \in Nat \ {0}
  PROVE  SoundStep(Step([i \in 1..m |-> Ask(Web, "daily_k", date, Who(code),
                           [NoParams EXCEPT !.date = MonthStarts(m)[i], !.stock = code],
                                 "Candle")], "all"))
<1> DEFINE asks == [i \in 1..m |-> Ask(Web, "daily_k", date, Who(code),
                           [NoParams EXCEPT !.date = MonthStarts(m)[i], !.stock = code], "Candle")]
<1>1. DOMAIN asks = 1..m /\ asks = [i \in 1..m |-> asks[i]]
  OBVIOUS
<1>2. \A i \in 1..m : SoundAsk(asks[i])
  BY PagesOfTWSE
<1> HIDE DEF asks
<1>3. SoundStep(Step(asks, "all"))
  BY <1>1, <1>2, ManyAsks DEF Regimes
<1> QED BY <1>3 DEF asks

(* The quotes and the candles of one share.                                *)
LEMMA QuoteSound ==
  ASSUME NEW n, NEW a
  PROVE  SoundPlan(GetStockDailyQuote(n, a)) /\ SoundPlan(GetStockDailyKline(n, a))
<1>1. \A code, date : SoundPlan(QuoteTSE(code, date))
  <2> TAKE code, date
  <2> DEFINE m == 3
             step == Step([i \in 1..m |-> Ask(Web, "daily_k", date, Who(code),
                          [NoParams EXCEPT !.date = MonthStarts(m)[i], !.stock = code], "Candle")],
                                "all")
  <2>1. m \in Nat \ {0}
    OBVIOUS
  <2>2. SoundStep(step)
    <3> HIDE DEF m
    <3> QED BY <2>1, TrendMonths
  <2>3. QuoteTSE(code, date) = Single(Web, date, OrMiss(step))
    BY DEF QuoteTSE
  <2> HIDE DEF m, step
  <2> QED BY <2>2, <2>3, StepChanged, SinglePlan
<1>2. \A code, date : SoundPlan(QuoteOTC(code, date))
  BY TablesOfTPEx, OneRead DEF QuoteOTC, TpexDay
<1>3. SoundPlan(GetStockDailyQuote(n, a))
  BY <1>1, <1>2, Refusals DEF GetStockDailyQuote
<1>4. SoundPlan(GetStockDailyKline(n, a))
  BY PagesOfTWSE, OneRead, Refusals DEF GetStockDailyKline, WebDay
<1> QED BY <1>3, <1>4

(* The summary of the market.                                              *)
LEMMA SummarySound ==
  ASSUME NEW n, NEW a
  PROVE  SoundPlan(GetMarketSummary(n, a))
<1>1. \A d : SoundStep(MarketStatsTSE(d)) /\ SoundStep(MarketStatsOTC(d))
  BY PagesOfTWSE, TablesOfTPEx, OneAsk DEF MarketStatsTSE, MarketStatsOTC, WebDay, TpexDay
<1> QED BY <1>1, TwoSteps, PlanOf DEF GetMarketSummary

(* Institutions, foreign holders, margins, warrants and announcements.     *)
LEMMA HoldersSound ==
  ASSUME NEW n, NEW a
  PROVE  /\ a.market \in {"tse", "otc"} => SoundPlan(GetInstitutionalInvestors(n, a))
         /\ SoundPlan(GetForeignIndustryHoldings(n, a))
         /\ SoundPlan(GetMarginTrading(n, a))
         /\ SoundPlan(GetAbnormalTrading(n, a))
         /\ SoundPlan(GetWarrantBasicInfo(n, a))
         /\ SoundPlan(GetWarrantActivity(n, a))
         /\ SoundPlan(GetMajorAnnouncements(n, a))
<1>1. a.market \in {"tse", "otc"} => SoundPlan(GetInstitutionalInvestors(n, a))
  BY PagesOfTWSE, TablesOfTPEx, OneRead DEF GetInstitutionalInvestors, WebDay, TpexDay
<1>2. SoundPlan(GetForeignIndustryHoldings(n, a))
  BY TablesOfTWSE, OneRead DEF GetForeignIndustryHoldings
<1>3. SoundPlan(GetMarginTrading(n, a))
  BY PagesOfTWSE, TablesOfTPEx, OneRead, Refusals DEF GetMarginTrading, WebDay, TpexDay
<1>4. \A d : SoundStep(Attention(a.market, d))
  BY TablesOfTWSE, TablesOfTPEx, OneAsk DEF Attention, WebDay, TpexDay
<1>5. SoundPlan(GetAbnormalTrading(n, a))
  BY <1>4, SinglePlan DEF GetAbnormalTrading
<1>6. SoundPlan(GetWarrantBasicInfo(n, a))
  <2>1. {"warrant_basic"} \subseteq PolicyTableMarket["calendar"]
    BY DEF PolicyTableMarket
  <2>2. SoundAsk(Table(Api, n, "warrant_basic", <<>>))
    BY <2>1, ClassesAreCached, TableSound
  <2> QED BY <2>2, OneRead DEF GetWarrantBasicInfo
<1>7. SoundPlan(GetWarrantActivity(n, a))
  BY TablesOfTWSE, OneRead DEF GetWarrantActivity
<1>8. SoundPlan(GetMajorAnnouncements(n, a))
  BY TablesOfMOPS, OneRead DEF GetMajorAnnouncements
<1> QED BY <1>1, <1>2, <1>3, <1>5, <1>6, <1>7, <1>8

(* The foreign holdings of one share, seven trading days back.             *)
LEMMA ShareholdingSound ==
  ASSUME NEW n, NEW a
  PROVE  SoundPlan(GetForeignShareholdingHistory(n, a))
<1>1. \A d : SoundStep(QfiisDayPoints(d))
  <2> TAKE d
  <2> DEFINE asks == [i \in 1..Len(QfiisSelectTypes) |-> FetchQFIISDay(d, QfiisSelectTypes[i])]
  <2>1. Len(QfiisSelectTypes) = 2
    BY DEF QfiisSelectTypes
  <2>2. DOMAIN asks = 1..2 /\ asks = [i \in 1..2 |-> asks[i]]
    BY <2>1
  <2>3. \A i \in 1..2 : SoundAsk(asks[i])
    BY <2>1, TablesOfTWSE DEF FetchQFIISDay
  <2> DEFINE m == 2
  <2>4. m \in Nat \ {0} /\ DOMAIN asks = 1..m /\ asks = [i \in 1..m |-> asks[i]] /\
                              \A i \in 1..m : SoundAsk(asks[i])
    BY <2>2, <2>3
  <2> HIDE DEF asks, m
  <2>5. SoundStep(Step(asks, "seek"))
    BY <2>4, ManyAsks DEF Regimes
  <2> QED BY <2>5 DEF asks, QfiisDayPoints
<1>2. \A d, e : SoundSteps(<<OrMiss(QfiisDayPoints(d))>>)
                /\ SoundSteps(<<QfiisDayPoints(d), OrMiss(QfiisDayPoints(e))>>)
  BY <1>1, StepChanged, OneStep, TwoSteps
<1> QED BY <1>2, PlanOf, Refusals DEF GetForeignShareholdingHistory

(* Lists of both markets.                                                  *)
LEMMA ListsSound ==
  ASSUME NEW n, NEW a
  PROVE  /\ SoundPlan(GetAttentionDispositionStocks(n, a))
         /\ SoundPlan(GetTWSEIndex(n, a))
         /\ SoundPlan(GetAfterHoursTrading(n, a))
         /\ SoundPlan(GetOtcDaily(n, a)) /\ SoundPlan(GetOtcIndex(n, a)) /\
               SoundPlan(GetOtcOddLot(n, a))
         /\ SoundPlan(GetAllStocksDailyClose(n, a))
<1>1. SoundPlan(GetAttentionDispositionStocks(n, a))
  <2>1. \A d : SoundStep(Attention(a.market, d))
    BY TablesOfTWSE, TablesOfTPEx, OneAsk DEF Attention, WebDay, TpexDay
  <2>2. \A d : SoundStep(TpexDay("disposition", d, <<>>, "TPExDispositionRow"))
               /\ SoundStep(Need(Ask(Api, "punish", d, <<>>, OnDay(d), "PunishRow")))
    BY TablesOfTWSE, TablesOfTPEx, OneAsk DEF TpexDay
  <2> QED BY <2>1, <2>2, TwoSteps, PlanOf DEF GetAttentionDispositionStocks
<1>2. SoundPlan(GetTWSEIndex(n, a))
  <2>1. \A d, p : SoundStep(OrMiss(Need(Ask(Api, "indices", d, <<>>, NoParams, "IndexQuoteRow"))))
               /\ SoundStep(Need(Ask(Web, "index_history", d, <<>>, p, "IndexRow")))
    BY TablesOfTWSE, PagesOfTWSE, OneAsk, StepChanged
  <2> QED BY <2>1, TwoSteps, PlanOf DEF GetTWSEIndex
<1>3. SoundPlan(GetAfterHoursTrading(n, a))
  BY TablesOfTWSE, OneRead DEF GetAfterHoursTrading
<1>4. SoundPlan(GetOtcDaily(n, a)) /\ SoundPlan(GetOtcIndex(n, a)) /\ SoundPlan(GetOtcOddLot(n, a))
  BY TablesOfTPEx, OneRead DEF GetOtcDaily, GetOtcIndex, GetOtcOddLot, ByStockNo
<1>5. SoundPlan(GetAllStocksDailyClose(n, a))
  BY PagesOfTWSE, OneRead DEF GetAllStocksDailyClose, WebDay
<1> QED BY <1>1, <1>2, <1>3, <1>4, <1>5

-----------------------------------------------------------------------------
(* Over-the-counter tables.                                                *)

(* The handlers with an enum of kinds know every kind their schema allows. *)
LEMMA KindsSound ==
  ASSUME NEW n, NEW a
  PROVE  /\ a.kind \in {"", "eps", "capital"}
            => SoundPlan(GetEmergingRanks(n, a))
         /\ a.kind \in {"", "quotes", "trade", "issue"}
            => SoundPlan(GetInternationalBond(n, a))
         /\ a.kind \in {"", "spot", "highlight", "warrant"}
            => SoundPlan(GetGoldSpot(n, a))
         /\ a.kind \in {"", "latest", "dealer", "highlight"}
            => SoundPlan(GetOpenEndFund(n, a))
         /\ a.kind \in {"", "company", "highlight", "financing"}
            => SoundPlan(GetGisaBoard(n, a))
         /\ a.kind \in {"", "day", "stock", "summary_day", "monthly", "yearly"}
            => SoundPlan(GetOtcBlockTrade(n, a))
         /\ a.level \in {"", "branch", "hq"}
            => SoundPlan(GetOtcBrokerTurnover(n, a))
         /\ a.rank \in {"", "pe", "volume", "amount", "turnover",
                       "market_value", "amount_avg", "volume_avg"}
            => SoundPlan(GetOtcHistoryRanks(n, a))
         /\ a.kind \in {"", "used", "short_sell", "margin_sbl", "daily_short",
                       "adjust", "lend", "mark", "marginspot", "term",
                       "dpsp_monthly", "intraday_fee"}
            => SoundPlan(GetOtcMarginSblDetail(n, a))
         /\ a.kind \in {"", "cmode", "prvol", "ceil_non", "delay_open",
                       "delay_close", "suspend_today", "suspend_history",
                       "ipo_no_limit", "trade_idx", "highlight"}
            => SoundPlan(GetOtcTradingSystemInfo(n, a))
         /\ a.kind \in {"", "trust", "dealer"}
            => SoundPlan(GetOtcInstitutionalBreakdown(n, a))
<1>1. ASSUME a.kind \in {"", "eps", "capital"}
      PROVE  SoundPlan(GetEmergingRanks(n, a))
  <2>1. \A k \in DOMAIN EmgRankKinds : EmgRankKinds[k] \in PolicyTableRest["daily_kline"]
    BY DEF EmgRankKinds, PolicyTableRest
  <2>2. Or(a.kind, "eps") \in DOMAIN EmgRankKinds
    BY <1>1 DEF Or, EmgRankKinds
  <2> QED BY <2>1, <2>2, ClassesAreCached, KindSound DEF GetEmergingRanks
<1>2. ASSUME a.kind \in {"", "quotes", "trade", "issue"}
      PROVE  SoundPlan(GetInternationalBond(n, a))
  <2>1. \A k \in DOMAIN IntlBondKinds : IntlBondKinds[k] \in PolicyTableRest["daily_kline"]
    BY DEF IntlBondKinds, PolicyTableRest
  <2>2. Or(a.kind, "quotes") \in DOMAIN IntlBondKinds
    BY <1>2 DEF Or, IntlBondKinds
  <2> QED BY <2>1, <2>2, ClassesAreCached, KindSound DEF GetInternationalBond
<1>3. ASSUME a.kind \in {"", "spot", "highlight", "warrant"}
      PROVE  SoundPlan(GetGoldSpot(n, a))
  <2>1. \A k \in DOMAIN GoldSpotKinds : GoldSpotKinds[k] \in PolicyTableRest["daily_kline"]
    BY DEF GoldSpotKinds, PolicyTableRest
  <2>2. Or(a.kind, "spot") \in DOMAIN GoldSpotKinds
    BY <1>3 DEF Or, GoldSpotKinds
  <2> QED BY <2>1, <2>2, ClassesAreCached, KindSound DEF GetGoldSpot
<1>4. ASSUME a.kind \in {"", "latest", "dealer", "highlight"}
      PROVE  SoundPlan(GetOpenEndFund(n, a))
  <2>1. \A k \in DOMAIN OpFundKinds : OpFundKinds[k] \in PolicyTableRest["daily_kline"]
    BY DEF OpFundKinds, PolicyTableRest
  <2>2. Or(a.kind, "latest") \in DOMAIN OpFundKinds
    BY <1>4 DEF Or, OpFundKinds
  <2> QED BY <2>1, <2>2, ClassesAreCached, KindSound DEF GetOpenEndFund
<1>5. ASSUME a.kind \in {"", "company", "highlight", "financing"}
      PROVE  SoundPlan(GetGisaBoard(n, a))
  <2>1. \A k \in DOMAIN GisaKinds : GisaKinds[k] \in PolicyTableRest["daily_kline"]
    BY DEF GisaKinds, PolicyTableRest
  <2>2. Or(a.kind, "company") \in DOMAIN GisaKinds
    BY <1>5 DEF Or, GisaKinds
  <2> QED BY <2>1, <2>2, ClassesAreCached, KindSound DEF GetGisaBoard
<1>6. ASSUME a.kind \in {"", "day", "stock", "summary_day", "monthly", "yearly"}
      PROVE  SoundPlan(GetOtcBlockTrade(n, a))
  <2>1. \A k \in DOMAIN OtcBlockKinds : OtcBlockKinds[k] \in PolicyTableRest["daily_kline"]
    BY DEF OtcBlockKinds, PolicyTableRest
  <2>2. Or(a.kind, "day") \in DOMAIN OtcBlockKinds
    BY <1>6 DEF Or, OtcBlockKinds
  <2> QED BY <2>1, <2>2, ClassesAreCached, KindSound DEF GetOtcBlockTrade
<1>7. ASSUME a.level \in {"", "branch", "hq"}
      PROVE  SoundPlan(GetOtcBrokerTurnover(n, a))
  <2>1. \A k \in DOMAIN BrokerTurnoverLevels : BrokerTurnoverLevels[k] \in PolicyTableRest["daily_kline"]
    BY DEF BrokerTurnoverLevels, PolicyTableRest
  <2>2. Or(a.level, "branch") \in DOMAIN BrokerTurnoverLevels
    BY <1>7 DEF Or, BrokerTurnoverLevels
  <2> QED BY <2>1, <2>2, ClassesAreCached, KindSound DEF GetOtcBrokerTurnover
<1>8. ASSUME a.rank \in {"", "pe", "volume", "amount", "turnover",
                       "market_value", "amount_avg", "volume_avg"}
      PROVE  SoundPlan(GetOtcHistoryRanks(n, a))
  <2>1. \A k \in DOMAIN OtcRankDatasets : OtcRankDatasets[k] \in PolicyTableRest["daily_kline"]
    BY DEF OtcRankDatasets, PolicyTableRest
  <2>2. Or(a.rank, "volume") \in DOMAIN OtcRankDatasets
    BY <1>8 DEF Or, OtcRankDatasets
  <2> QED BY <2>1, <2>2, ClassesAreCached, KindSound DEF GetOtcHistoryRanks
<1>9. ASSUME a.kind \in {"", "used", "short_sell", "margin_sbl", "daily_short",
                       "adjust", "lend", "mark", "marginspot", "term",
                       "dpsp_monthly", "intraday_fee"}
      PROVE  SoundPlan(GetOtcMarginSblDetail(n, a))
  <2>1. \A k \in DOMAIN OtcMgnKinds : OtcMgnKinds[k] \in PolicyTableRest["daily_kline"]
    BY DEF OtcMgnKinds, PolicyTableRest
  <2>2. Or(a.kind, "used") \in DOMAIN OtcMgnKinds
    BY <1>9 DEF Or, OtcMgnKinds
  <2> QED BY <2>1, <2>2, ClassesAreCached, KindSound DEF GetOtcMarginSblDetail
<1>10. ASSUME a.kind \in {"", "cmode", "prvol", "ceil_non", "delay_open",
                       "delay_close", "suspend_today", "suspend_history",
                       "ipo_no_limit", "trade_idx", "highlight"}
      PROVE  SoundPlan(GetOtcTradingSystemInfo(n, a))
  <2>1. \A k \in DOMAIN OtcSysKinds : OtcSysKinds[k] \in PolicyTableRest["daily_kline"]
    BY DEF OtcSysKinds, PolicyTableRest
  <2>2. Or(a.kind, "cmode") \in DOMAIN OtcSysKinds
    BY <1>10 DEF Or, OtcSysKinds
  <2> QED BY <2>1, <2>2, ClassesAreCached, KindSound DEF GetOtcTradingSystemInfo
<1>11. ASSUME a.kind \in {"", "trust", "dealer"}
       PROVE  SoundPlan(GetOtcInstitutionalBreakdown(n, a))
  <2> DEFINE kinds == [trust |-> "otc_insti_trading", dealer |-> "otc_dealer_trading"]
  <2>1. \A k \in DOMAIN kinds : kinds[k] \in PolicyTableRest["institutional"]
    <3>1. {"otc_insti_trading", "otc_dealer_trading"} \subseteq PolicyTableRest["institutional"]
      BY DEF PolicyTableRest
    <3>2. DOMAIN kinds = {"trust", "dealer"} /\ kinds["trust"] = "otc_insti_trading"
          /\ kinds["dealer"] = "otc_dealer_trading"
      OBVIOUS
    <3> HIDE DEF kinds
    <3> QED BY <3>1, <3>2
  <2>2. Or(a.kind, "trust") \in DOMAIN kinds
    BY <1>11 DEF Or
  <2>3. SoundPlan(TpexKind(n, kinds, Or(a.kind, "trust"), Who(a.code)))
    <3> HIDE DEF kinds
    <3> QED BY <2>1, <2>2, ClassesAreCached, KindSound
  <2> QED BY <2>3 DEF GetOtcInstitutionalBreakdown
<1> QED BY <1>1, <1>2, <1>3, <1>4, <1>5, <1>6, <1>7, <1>8, <1>9, <1>10, <1>11

(* The handlers with views.                                                *)
LEMMA ViewsSound ==
  ASSUME NEW n, NEW a
  PROVE  /\ SoundPlan(GetHighDividendIndex(n, a))
         /\ SoundPlan(GetEmp88Index(n, a))
         /\ SoundPlan(GetOtcWarrantBasic(n, a))
         /\ SoundPlan(GetOtcForeignHoldingsRank(n, a))
<1>1. SoundPlan(GetHighDividendIndex(n, a))
  <2>1. \A v \in DOMAIN HighDividendViews : HighDividendViews[v] \in PolicyTableRest["daily_kline"]
    BY DEF HighDividendViews, PolicyTableRest
  <2>2. "history" \in DOMAIN HighDividendViews
    BY DEF HighDividendViews
  <2> QED BY <2>1, <2>2, ClassesAreCached, ViewSound DEF GetHighDividendIndex
<1>2. SoundPlan(GetEmp88Index(n, a))
  <2>1. \A v \in DOMAIN Emp88Views : Emp88Views[v] \in PolicyTableRest["daily_kline"]
    BY DEF Emp88Views, PolicyTableRest
  <2>2. "latest" \in DOMAIN Emp88Views
    BY DEF Emp88Views
  <2> QED BY <2>1, <2>2, ClassesAreCached, ViewSound DEF GetEmp88Index
<1>3. SoundPlan(GetOtcWarrantBasic(n, a))
  <2> DEFINE views == [basic |-> "otc_warrant_basic", issue |-> "otc_warrant_issue"]
  <2>1. \A v \in DOMAIN views : views[v] \in PolicyTableRest["daily_kline"]
    BY DEF PolicyTableRest
  <2>2. "basic" \in DOMAIN views
    OBVIOUS
  <2>3. \A who : SoundPlan(TpexView(n, views, a.view, "basic", who))
    <3> HIDE DEF views
    <3> QED BY <2>1, <2>2, ClassesAreCached, ViewSound
  <2> QED BY <2>3 DEF GetOtcWarrantBasic
<1>4. SoundPlan(GetOtcForeignHoldingsRank(n, a))
  <2> DEFINE views == [rank |-> "otc_qfii_rank", industry |-> "otc_qfii_industry"]
  <2>1. \A v \in DOMAIN views : views[v] \in PolicyTableRest["foreign_holding"]
    BY DEF PolicyTableRest
  <2>2. "rank" \in DOMAIN views
    OBVIOUS
  <2>3. \A who : SoundPlan(TpexView(n, views, a.view, "rank", who))
    <3> HIDE DEF views
    <3> QED BY <2>1, <2>2, ClassesAreCached, ViewSound
  <2> QED BY <2>3 DEF GetOtcForeignHoldingsRank
<1> QED BY <1>1, <1>2, <1>3, <1>4

(* A family of indices and the view of it that is asked for.               *)
LEMMA FamilySound ==
  ASSUME NEW n, NEW datasets, NEW family \in DOMAIN datasets, NEW view,
         \A v \in DOMAIN datasets[family] : Cacheable(datasets[family][v], FALSE)
  PROVE  SoundPlan(FamilyIndex(n, datasets, family, view))
BY TableSound, Refusals DEF FamilyIndex

(* The handlers with families of indices.                                  *)
LEMMA FamiliesSound ==
  ASSUME NEW n, NEW a
  PROVE  /\ a.family \in {"", "tpex50", "tpex200"} => SoundPlan(GetTpex200Index(n, a))
         /\ a.family \in {"", "governance", "salary"} => SoundPlan(GetGovernanceSalaryIndex(n, a))
         /\ a.kind \in {"", "wcb", "wxy"} /\ a.view \in {"", "issue", "daily"}
               => SoundPlan(GetOtcWcbWxy(n, a))
<1>1. ASSUME a.family \in {"", "tpex50", "tpex200"}
      PROVE  SoundPlan(GetTpex200Index(n, a))
  <2> DEFINE f == Or(a.family, "tpex200")
  <2>1. f \in DOMAIN TpexIndexDatasets
    BY <1>1 DEF Or, TpexIndexDatasets
  <2>2. \A x \in DOMAIN TpexIndexDatasets : \A v \in DOMAIN TpexIndexDatasets[x] :
          TpexIndexDatasets[x][v] \in PolicyTableRest["daily_kline"]
    BY DEF TpexIndexDatasets, PolicyTableRest
  <2>3. \A view : SoundPlan(FamilyIndex(n, TpexIndexDatasets, f, view))
    <3> HIDE DEF f
    <3> QED BY <2>1, <2>2, ClassesAreCached, FamilySound
  <2> QED BY <2>3 DEF GetTpex200Index
<1>2. ASSUME a.family \in {"", "governance", "salary"}
      PROVE  SoundPlan(GetGovernanceSalaryIndex(n, a))
  <2> DEFINE f == Or(a.family, "governance")
  <2>1. f \in DOMAIN GsIndexDatasets
    BY <1>2 DEF Or, GsIndexDatasets
  <2>2. \A x \in DOMAIN GsIndexDatasets : \A v \in DOMAIN GsIndexDatasets[x] :
          GsIndexDatasets[x][v] \in PolicyTableRest["daily_kline"]
    BY DEF GsIndexDatasets, PolicyTableRest
  <2>3. \A view : SoundPlan(FamilyIndex(n, GsIndexDatasets, f, view))
    <3> HIDE DEF f
    <3> QED BY <2>1, <2>2, ClassesAreCached, FamilySound
  <2> QED BY <2>3 DEF GetGovernanceSalaryIndex
<1>3. ASSUME a.kind \in {"", "wcb", "wxy"}, a.view \in {"", "issue", "daily"}
      PROVE  SoundPlan(GetOtcWcbWxy(n, a))
  <2> DEFINE f == Or(a.kind, "wcb")
             v == Or(a.view, "issue")
  <2>1. f \in DOMAIN WcbWxyDatasets /\ v \in {"issue", "daily"}
    BY <1>3 DEF Or, WcbWxyDatasets
  <2>2. \A x \in DOMAIN WcbWxyDatasets :
          /\ DOMAIN WcbWxyDatasets[x] = {"issue", "daily"}
          /\ \A y \in DOMAIN WcbWxyDatasets[x] : WcbWxyDatasets[x][y] \in PolicyTableRest["daily_kline"]
    BY DEF WcbWxyDatasets, PolicyTableRest
  <2>3. \A who : SoundPlan(TpexKind(n, WcbWxyDatasets[f], v, who))
    <3> HIDE DEF f, v
    <3> DEFINE kinds == WcbWxyDatasets[f]
    <3>1. v \in DOMAIN kinds /\ kinds[v] \in PolicyTableRest["daily_kline"]
      BY <2>1, <2>2
    <3> HIDE DEF kinds
    <3>2. \A who : SoundPlan(TpexKind(n, kinds, v, who))
      BY <3>1, ClassesAreCached, KindSound
    <3> QED BY <3>2 DEF kinds
  <2> QED BY <2>1, <2>3 DEF GetOtcWcbWxy
<1> QED BY <1>1, <1>2, <1>3

-----------------------------------------------------------------------------
(* Company reports, over the counter.                                      *)

(* The tables fetched by a path of the company report site.                *)
LEMMA MopsfinSound ==
  /\ \A n, who, path : SoundAsk(Mopsfin(n, who, path))
  /\ \A n, kinds, label, code : \A kind \in DOMAIN kinds : SoundPlan(MopsfinKind(n, kinds, kind,
        label, code))
<1>1. Cacheable("otc_mopsfin", FALSE)
  <2>1. {"otc_mopsfin"} \subseteq PolicyTableRest["calendar"]
    BY DEF PolicyTableRest
  <2> QED BY <2>1, ClassesAreCached
<1>2. \A n, who, path : SoundAsk(Mopsfin(n, who, path))
  BY <1>1, TypedAsk DEF Mopsfin
<1>3. \A n, kinds, label, code : \A kind \in DOMAIN kinds : SoundPlan(MopsfinKind(n, kinds, kind,
        label, code))
  BY <1>2, OneRead DEF MopsfinKind
<1> QED BY <1>2, <1>3

(* A search for a code through the tables of several industries.           *)
LEMMA ScanSound ==
  ASSUME NEW n, NEW statements, NEW kind \in DOMAIN statements, NEW code,
         statements[kind] \in Seq(Held(statements[kind])), statements[kind] # <<>>
  PROVE  SoundPlan(ScanStatements(n, statements, kind, code))
<1> DEFINE tables == statements[kind]
           m == Len(tables)
           asks == [i \in 1..m |-> Mopsfin(n, <<tables[i], code>>, tables[i])]
<1>1. m \in Nat \ {0}
  <2> HIDE DEF tables
  <2>1. tables \in Seq(Held(tables)) /\ tables # <<>>
    BY DEF tables
  <2> QED BY <2>1, EmptySeq
<1>2. DOMAIN asks = 1..m /\ asks = [i \in 1..m |-> asks[i]] /\ \A i \in 1..m : SoundAsk(asks[i])
  BY MopsfinSound
<1>3. SoundStep(Step(asks, "scan"))
  <2> HIDE DEF asks, m
  <2> QED BY <1>1, <1>2, ManyAsks DEF Regimes
<1>4. SoundPlan(Single(Tpex, Today(n), Step(asks, "scan")))
  <2> HIDE DEF asks, m
  <2> QED BY <1>3, SinglePlan
<1> QED BY <1>4, Refusals DEF ScanStatements

(* The handlers of those tables know every kind their schema allows.       *)
LEMMA MopsTablesSound ==
  ASSUME NEW n, NEW a
  PROVE  /\ a.view \in {"", "holdings", "profile"} => SoundPlan(GetEmergingBoardHoldings(n, a))
         /\ a.kind \in {"", "op_analysis", "profile", "major_message",
                        "eps_industry", "eps_financial", "forecast_current",
                        "forecast_update", "audit_diff", "dividend_board"}
            => SoundPlan(GetOtcFundamentalStats(n, a))
         /\ a.kind \in GovernanceKindsListed => SoundPlan(GetOtcGovernanceSeries(n, a))
         /\ a.statement \in {"", "income", "balance"} => SoundPlan(GetOtcFinancialStatements(n, a))
         /\ a.statement \in {"", "income", "balance"}
               => SoundPlan(GetEmergingFinancialStatements(n, a))
<1>1. ASSUME a.view \in {"", "holdings", "profile"}
      PROVE  SoundPlan(GetEmergingBoardHoldings(n, a))
  <2>1. Or(a.view, "holdings") \in DOMAIN EmgBoardViews
    BY <1>1 DEF Or, EmgBoardViews
  <2> QED BY <2>1, MopsfinSound DEF GetEmergingBoardHoldings
<1>2. ASSUME a.kind \in {"", "op_analysis", "profile", "major_message",
                         "eps_industry", "eps_financial", "forecast_current",
                         "forecast_update", "audit_diff", "dividend_board"}
      PROVE  SoundPlan(GetOtcFundamentalStats(n, a))
  <2>1. Or(a.kind, "op_analysis") \in DOMAIN OtcFundKinds
    BY <1>2 DEF Or, OtcFundKinds
  <2> QED BY <2>1, MopsfinSound DEF GetOtcFundamentalStats
<1>3. ASSUME a.kind \in GovernanceKindsListed
      PROVE  SoundPlan(GetOtcGovernanceSeries(n, a))
  <2>1. a.kind = "" \/ a.kind \in DOMAIN OtcGovernanceKinds
    BY <1>3 DEF GovernanceKindsListed, OtcGovernanceKinds
  <2> QED BY <2>1, MopsfinSound, Refusals DEF GetOtcGovernanceSeries
<1>4. ASSUME a.statement \in {"", "income", "balance"}
      PROVE  SoundPlan(GetOtcFinancialStatements(n, a))
  <2>1. Or(a.statement, "income") \in DOMAIN OtcStatements
    BY <1>4 DEF Or, OtcStatements
  <2>2. \A k \in DOMAIN OtcStatements : OtcStatements[k] \in Seq(Held(OtcStatements[k])) /\
          OtcStatements[k] # <<>>
    <3> TAKE k \in DOMAIN OtcStatements
    <3>1. PICK x, y : OtcStatements[k] = <<x, y>>
      BY DEF OtcStatements
    <3>2. <<x, y>> \in Seq(Held(<<x, y>>)) /\ <<x, y>> # <<>>
      BY HeldTwo
    <3> QED BY <3>1, <3>2
  <2> QED BY <2>1, <2>2, ScanSound DEF GetOtcFinancialStatements
<1>5. ASSUME a.statement \in {"", "income", "balance"}
      PROVE  SoundPlan(GetEmergingFinancialStatements(n, a))
  <2>1. Or(a.statement, "income") \in DOMAIN EmergingStatements
    BY <1>5 DEF Or, EmergingStatements
  <2>2. \A k \in DOMAIN EmergingStatements :
          EmergingStatements[k] \in Seq(Held(EmergingStatements[k])) /\ EmergingStatements[k] # <<>>
    <3> TAKE k \in DOMAIN EmergingStatements
    <3>1. PICK x, y : EmergingStatements[k] = <<x, y>>
      BY DEF EmergingStatements
    <3>2. <<x, y>> \in Seq(Held(<<x, y>>)) /\ <<x, y>> # <<>>
      BY HeldTwo
    <3> QED BY <3>1, <3>2
  <2> QED BY <2>1, <2>2, ScanSound DEF GetEmergingFinancialStatements
<1> QED BY <1>1, <1>2, <1>3, <1>4, <1>5

-----------------------------------------------------------------------------
(* Handlers of ListTools.                                                  *)

(* The three generic handlers behind the lists of the registry.            *)
LEMMA SpecsSound ==
  ASSUME NEW n, NEW ds, NEW withDate, NEW a, NEW skip, NEW code, Cacheable(ds, FALSE)
  PROVE  /\ SoundPlan(WebListSpec(n, ds, withDate, a))
         /\ SoundPlan(ApiListSpec(n, ds, a))
         /\ SoundPlan(ApiCompanySpec(n, ds, skip, code))
<1>1. SoundPlan(WebListSpec(n, ds, withDate, a))
  BY TypedAsk, OneRead, Refusals DEF WebListSpec
<1>2. SoundPlan(ApiListSpec(n, ds, a))
  BY TableSound DEF ApiListSpec
<1>3. SoundPlan(ApiCompanySpec(n, ds, skip, code))
  BY TableSound, OneRead, Refusals DEF ApiCompanySpec, FetchFinancialRowsForCode
<1> QED BY <1>1, <1>2, <1>3

(* The statements of six industries, searched for one company.             *)
LEMMA StatementsSound ==
  ASSUME NEW n, NEW datasets, NEW code, \A i \in 1..6 : Cacheable(datasets[i], FALSE)
  PROVE  SoundPlan(Statements(n, datasets, code))
<1> DEFINE asks == [i \in 1..Len(FinancialSuffixOrder) |-> FetchFinancialRowsForCode(n,
      datasets[i], code)]
           m == 6
<1>1. Len(FinancialSuffixOrder) = m
  BY DEF FinancialSuffixOrder
<1>2. m \in Nat \ {0} /\ DOMAIN asks = 1..m /\ asks = [i \in 1..m |-> asks[i]]
  BY <1>1
<1>3. \A i \in 1..m : SoundAsk(asks[i])
  BY <1>1, TableSound DEF FetchFinancialRowsForCode
<1>4. SoundStep(Step(asks, "scan"))
  <2> HIDE DEF asks, m
  <2> QED BY <1>2, <1>3, ManyAsks DEF Regimes
<1>5. SoundPlan(Single(Api, Today(n), Step(asks, "scan")))
  <2> HIDE DEF asks
  <2> QED BY <1>4, SinglePlan
<1> QED BY <1>5, Refusals DEF Statements, FetchFinancialRowsFallback

(* The handlers of those statements.                                       *)
LEMMA IndustriesSound ==
  ASSUME NEW n, NEW a
  PROVE  /\ SoundPlan(GetCompanyBalanceSheet(n, a)) /\ SoundPlan(GetPublicCompanyBalanceSheet(n, a))
         /\ SoundPlan(GetCompanyIncomeStatement(n, a)) /\
               SoundPlan(GetPublicCompanyIncomeStatement(n, a))
<1>1. \A i \in 1..6 : BalanceSheetDatasets[i] \in PolicyTableMarket["financials"]
  BY DEF BalanceSheetDatasets, PolicyTableMarket
<1>2. \A i \in 1..6 : PubBalanceSheetDatasets[i] \in PolicyTableMarket["financials"]
  BY DEF PubBalanceSheetDatasets, PolicyTableMarket
<1>3. \A i \in 1..6 : IncomeStatementDatasets[i] \in PolicyTableMarket["financials"]
  BY DEF IncomeStatementDatasets, PolicyTableMarket
<1>4. \A i \in 1..6 : PubIncomeStatementDatasets[i] \in PolicyTableMarket["financials"]
  BY DEF PubIncomeStatementDatasets, PolicyTableMarket
<1>5. \A code : /\ SoundPlan(Statements(n, BalanceSheetDatasets, code))
                /\ SoundPlan(Statements(n, PubBalanceSheetDatasets, code))
                /\ SoundPlan(Statements(n, IncomeStatementDatasets, code))
                /\ SoundPlan(Statements(n, PubIncomeStatementDatasets, code))
  BY <1>1, <1>2, <1>3, <1>4, ClassesAreCached, StatementsSound
<1> QED BY <1>5, Refusals DEF GetCompanyBalanceSheet, GetPublicCompanyBalanceSheet,
          GetCompanyIncomeStatement, GetPublicCompanyIncomeStatement

(* The handlers of the sustainability topics.                              *)
LEMMA TopicsSound ==
  ASSUME NEW n, NEW topic, NEW code, NEW a
  PROVE  /\ SoundPlan(EsgCompanySpec(n, topic, code))
         /\ SoundPlan(EsgScanAll(n, topic))
         /\ SoundPlan(GetProfitabilitySummary(n, a))
         /\ SoundPlan(GetOtcEsgReport(n, a))
<1>1. SoundAsk(ESGTopic(n, topic))
  BY TablesOfTWSE DEF ESGTopic
<1>2. SoundPlan(EsgCompanySpec(n, topic, code)) /\ SoundPlan(EsgScanAll(n, topic))
  BY <1>1, OneRead, Refusals DEF EsgCompanySpec, EsgScanAll
<1>3. SoundPlan(GetProfitabilitySummary(n, a))
  <2>1. {"profitability"} \subseteq PolicyTableMarket["financials"]
    BY DEF PolicyTableMarket
  <2> QED BY <2>1, ClassesAreCached, TableSound DEF GetProfitabilitySummary
<1>4. SoundPlan(GetOtcEsgReport(n, a))
  <2> DEFINE topics == OtcEsgTopics(a.topic)
             m == Len(topics)
             asks == [i \in 1..m |-> Ask(Tpex, "otc_esg", Today(n), <<>>, OfTable(topics[i]),
                   "map")]
  <2>1. m \in Nat \ {0}
    BY DEF OtcEsgTopics
  <2>2. {"otc_esg"} \subseteq PolicyTableRest["esg"]
    BY DEF PolicyTableRest
  <2>3. DOMAIN asks = 1..m /\ asks = [i \in 1..m |-> asks[i]]
    OBVIOUS
  <2>4. \A i \in 1..m : SoundAsk(asks[i])
    <3> HIDE DEF m
    <3> QED BY <2>2, ClassesAreCached, TypedAsk
  <2>5. SoundStep(Step(asks, "some"))
    <3> HIDE DEF asks, m
    <3> QED BY <2>1, <2>3, <2>4, ManyAsks DEF Regimes
  <2>6. SoundPlan(Single(Tpex, Today(n), Step(asks, "some")))
    <3> HIDE DEF asks
    <3> QED BY <2>5, SinglePlan
  <2> QED BY <2>6, Refusals DEF GetOtcEsgReport
<1> QED BY <1>2, <1>3, <1>4

(* The handlers of the funds.                                              *)
LEMMA FundsSound ==
  ASSUME NEW n, NEW a
  PROVE  /\ SoundPlan(GetETFNav(n, a)) /\ SoundPlan(GetETFDividend(n, a))
         /\ SoundPlan(GetETFPerformance(n, a)) /\ SoundPlan(GetETFDividendDetail(n, a))
<1>1. \A ds \in EtfPages : \A day, code, table : SoundAsk(EtfPage(ds, day, code, table))
  BY FundPageIsCached, TypedAsk DEF EtfPage
<1>2. {"etf_nav_fundPric", "etf_nav_close", "etf_dividend", "etf_performance",
        "etf_dividend_detail"}
        \subseteq EtfPages
  BY DEF EtfPages
<1>3. \A end, code : SoundStep(Step(<<EtfPage("etf_nav_fundPric", end, code, "range"),
                                      EtfPage("etf_nav_close", end, code, "range")>>, "all"))
  BY <1>1, <1>2, TwoAsks DEF Regimes
<1>4. SoundPlan(GetETFNav(n, a))
  BY <1>3, StepChanged, SinglePlan, Refusals DEF GetETFNav
<1>5. SoundPlan(GetETFDividend(n, a))
  BY <1>1, <1>2, OneRead, Refusals DEF GetETFDividend
<1>6. SoundPlan(GetETFPerformance(n, a)) /\ SoundPlan(GetETFDividendDetail(n, a))
  BY <1>1, <1>2, OneRead, Refusals DEF GetETFPerformance, GetETFDividendDetail
<1> QED BY <1>4, <1>5, <1>6

-----------------------------------------------------------------------------
(* Handlers of CompanyTools.                                               *)

(* The asks that the composite handlers share.                             *)
LEMMA CompanyAsks ==
  ASSUME NEW n, NEW code, NEW season
  PROVE  /\ SoundAsk(ValuationTSE(n)) /\ SoundAsk(ValuationOTC(n)) /\ SoundAsk(ExRights(n))
         /\ SoundAsk(IncomeSummary(n)) /\ SoundAsk(IncomeStatement(n, code, season))
         /\ SoundAsk(BalanceSheet(n, code)) /\ SoundAsk(CashFlow(n, code))
         /\ SoundAsk(MopsRead(n, "profit_ratios", "ProfitabilityRatio"))
         /\ SoundAsk(MopsRead(n, "monthly_revenue", "MonthlyRevenue"))
         /\ SoundAsk(MopsRead(n, "company_profile", "CompanyProfile"))
         /\ SoundAsk(ApiRows(n, "dividend", "DividendRow"))
         /\ SoundAsk(ApiRows(n, "ex_div", "ExDivEventRow"))
         /\ SoundAsk(ApiRows(n, "company_governance", "GovernanceRow"))
         /\ SoundStep(EsgCodes(n))
<1>1. SoundAsk(ValuationTSE(n)) /\ SoundAsk(ValuationOTC(n)) /\ SoundAsk(ExRights(n))
  BY TablesOfTWSE, TablesOfTPEx DEF ValuationTSE, ValuationOTC, ExRights, ApiRows
<1>2. /\ SoundAsk(IncomeSummary(n)) /\ SoundAsk(IncomeStatement(n, code, season))
      /\ SoundAsk(BalanceSheet(n, code)) /\ SoundAsk(CashFlow(n, code))
  BY TablesOfMOPS DEF IncomeSummary, IncomeStatement, BalanceSheet, CashFlow, MopsRead,
        MopsStatement
<1>3. /\ SoundAsk(MopsRead(n, "profit_ratios", "ProfitabilityRatio"))
      /\ SoundAsk(MopsRead(n, "monthly_revenue", "MonthlyRevenue"))
      /\ SoundAsk(MopsRead(n, "company_profile", "CompanyProfile"))
  BY TablesOfMOPS DEF MopsRead
<1>4. /\ SoundAsk(ApiRows(n, "dividend", "DividendRow"))
      /\ SoundAsk(ApiRows(n, "ex_div", "ExDivEventRow"))
      /\ SoundAsk(ApiRows(n, "company_governance", "GovernanceRow"))
  BY TablesOfTWSE DEF ApiRows
<1>5. SoundStep(EsgCodes(n))
  BY TablesOfTWSE, OneAsk, StepChanged DEF EsgCodes
<1> QED BY <1>1, <1>2, <1>3, <1>4, <1>5

(* The income statements of the latest seasons.                            *)
LEMMA SeasonsSound ==
  ASSUME NEW n, NEW code, NEW how \in Regimes
  PROVE  SoundStep(Step([i \in 1..Len(Seasons) |-> IncomeStatement(n, code, Seasons[i])], how))
<1> DEFINE asks == [i \in 1..Len(Seasons) |-> IncomeStatement(n, code, Seasons[i])]
           m == Len(Seasons)
<1>1. m \in Nat \ {0}
  BY DEF Seasons
<1>2. DOMAIN asks = 1..m /\ asks = [i \in 1..m |-> asks[i]] /\ \A i \in 1..m : SoundAsk(asks[i])
  BY CompanyAsks
<1>3. SoundStep(Step(asks, how))
  <2> HIDE DEF asks, m
  <2> QED BY <1>1, <1>2, ManyAsks
<1> QED BY <1>3

(* Steps whose staleness is not told stay sound.                           *)
LEMMA UntoldSteps ==
  ASSUME NEW s, SoundSteps(s)
  PROVE  SoundSteps([i \in 1..Len(s) |-> Untold(s[i])])
<1> DEFINE t == [i \in 1..Len(s) |-> Untold(s[i])]
<1>1. s \in Seq(Held(s)) /\ Len(s) \in Nat /\ \A i \in 1..Len(s) : SoundStep(s[i])
  BY DEF SoundSteps, Held
<1>2. DOMAIN t = 1..Len(s) /\ \A i \in 1..Len(s) : SoundStep(t[i])
  BY <1>1, StepChanged
<1>3. t \in [1..Len(s) -> Held(t)]
  BY DEF Held
<1>4. t \in Seq(Held(t)) /\ \A x \in Held(t) : SoundStep(x)
  BY <1>1, <1>2, <1>3, SeqDef DEF Held
<1> QED BY <1>4 DEF SoundSteps

(* The income summary with its fallback to the pages of single companies.  *)
LEMMA AjaxSound ==
  ASSUME NEW n, NEW code, NEW found, NEW season, NEW k \in Nat
  PROVE  /\ SoundSteps(IncomeOfWithAJAXFallback(n, code, found, season))
         /\ SoundSteps(AjaxPages(n, code, k)) /\ Len(AjaxPages(n, code, k)) = 2
<1>1. SoundSteps(IncomeOfWithAJAXFallback(n, code, found, season))
  <2> DEFINE search == Step([i \in 1..Len(Seasons) |-> IncomeStatement(n, code, Seasons[i])],
        "scan")
             pages == IF found THEN <<>>
                      ELSE <<IF season = "" THEN search
                            ELSE Need(IncomeStatement(n, code, season))>>
             steps == <<OrMiss(Need(IncomeSummary(n)))>> \o pages
  <2>1. SoundStep(search)
    BY SeasonsSound DEF Regimes
  <2>2. SoundStep(IF season = "" THEN search ELSE Need(IncomeStatement(n, code, season)))
    <3> HIDE DEF search
    <3> QED BY <2>1, CompanyAsks, OneAsk
  <2>3. SoundSteps(pages)
    <3> HIDE DEF search
    <3> QED BY <2>2, NoSteps, OneStep
  <2>4. SoundSteps(<<OrMiss(Need(IncomeSummary(n)))>>)
    BY CompanyAsks, OneAsk, StepChanged, OneStep
  <2>5. SoundSteps(steps)
    <3> HIDE DEF pages
    <3> QED BY <2>3, <2>4, JoinedSteps
  <2>6. SoundSteps([i \in 1..Len(steps) |-> Untold(steps[i])])
    <3> HIDE DEF steps
    <3> QED BY <2>5, UntoldSteps
  <2> QED BY <2>6 DEF IncomeOfWithAJAXFallback
<1>2. SoundStep(After(k, Untold(Try(IncomeSummary(n)))))
  BY CompanyAsks, OneAsk, StepChanged
<1>3. SoundStep(After(k + 1, Untold(Step([i \in 1..Len(Seasons) |-> IncomeStatement(n, code,
        Seasons[i])], "hunt"))))
  <2> DEFINE step == Step([i \in 1..Len(Seasons) |-> IncomeStatement(n, code, Seasons[i])], "hunt")
  <2>1. SoundStep(step)
    BY SeasonsSound DEF Regimes
  <2> HIDE DEF step
  <2>2. SoundStep(After(k + 1, Untold(step)))
    <3>1. SoundStep(Untold(step)) /\ k + 1 \in Nat
      BY <2>1, StepChanged
    <3> QED BY <3>1, StepChanged
  <2> QED BY <2>2 DEF step
<1>4. SoundSteps(AjaxPages(n, code, k)) /\ Len(AjaxPages(n, code, k)) = 2
  BY <1>2, <1>3, TwoSteps DEF AjaxPages
<1> QED BY <1>1, <1>4

(* The health check of one company.                                        *)
LEMMA HealthSound ==
  ASSUME NEW n, NEW a
  PROVE  SoundPlan(GetFinancialHealthCheck(n, a))
<1> DEFINE code == a.symbol
           income == <<Need(IncomeSummary(n))>>
           ajax == IF a.found THEN <<>> ELSE AjaxPages(n, code, 1)
           latest == 1 + Len(ajax)
           ratios == <<Need(MopsRead(n, "profit_ratios", "ProfitabilityRatio"))>>
           finances == <<After(latest, Try(BalanceSheet(n, code))),
                 After(latest, Try(CashFlow(n, code)))>>
           payout == IF SymbolOf(code) = "otc" THEN <<Step(<<ValuationOTC(n)>>, "hollow")>>
                     ELSE <<Step(<<ApiRows(n, "dividend", "DividendRow")>>, "hollow"),
                           Untold(Try(ValuationTSE(n)))>>
           rest == <<EsgCodes(n), Try(ApiRows(n, "company_governance", "GovernanceRow"))>>
<1>1. SoundSteps(income) /\ SoundSteps(ratios)
  BY CompanyAsks, OneAsk, OneStep
<1>2. SoundSteps(ajax) /\ Len(ajax) \in Nat
  <2> DEFINE k == 1
  <2>1. k \in Nat
    OBVIOUS
  <2> HIDE DEF k
  <2>2. SoundSteps(AjaxPages(n, code, k)) /\ Len(AjaxPages(n, code, k)) = 2
    BY <2>1, AjaxSound
  <2> QED BY <2>2, NoSteps DEF k
<1>3. SoundSteps(finances)
  <2>1. latest \in Nat
    <3> HIDE DEF ajax
    <3> QED BY <1>2
  <2> HIDE DEF latest
  <2>2. SoundStep(After(latest, Try(BalanceSheet(n, code)))) /\
          SoundStep(After(latest, Try(CashFlow(n, code))))
    BY <2>1, CompanyAsks, OneAsk, StepChanged
  <2> QED BY <2>2, TwoSteps
<1>4. SoundSteps(payout)
  <2>1. SoundStep(Step(<<ValuationOTC(n)>>, "hollow")) /\
          SoundStep(Step(<<ApiRows(n, "dividend", "DividendRow")>>, "hollow"))
        /\ SoundStep(Untold(Try(ValuationTSE(n))))
    BY CompanyAsks, OneAsk, StepChanged DEF Regimes
  <2> QED BY <2>1, OneStep, TwoSteps
<1>5. SoundSteps(rest)
  BY CompanyAsks, OneAsk, TwoSteps
<1>6. SoundSteps(income \o ajax \o ratios \o finances \o payout \o rest)
  <2> HIDE DEF income, ajax, ratios, finances, payout, rest
  <2> QED BY <1>1, <1>2, <1>3, <1>4, <1>5, JoinedSteps
<1>7. SoundPlan(Plan(Mops, Today(n), income \o ajax \o ratios \o finances \o payout \o rest))
  <2> HIDE DEF income, ajax, ratios, finances, payout, rest
  <2> QED BY <1>6, PlanOf
<1> QED BY <1>7, Refusals DEF GetFinancialHealthCheck

(* The valuation of one company.                                           *)
LEMMA RatiosSound ==
  ASSUME NEW n, NEW a
  PROVE  SoundPlan(GetValuationRatios(n, a))
<1>1. ASSUME NEW k \in Nat
      PROVE  SoundSteps(FillROE(n, a.symbol, a.found, k))
  <2> DEFINE first == <<Untold(Try(IncomeSummary(n)))>>
             ajax == IF a.found THEN <<>> ELSE AjaxPages(n, a.symbol, k + 1)
             last == <<After(k + 1 + Len(ajax), Untold(Try(BalanceSheet(n, a.symbol))))>>
  <2>1. SoundSteps(first)
    BY CompanyAsks, OneAsk, StepChanged, OneStep
  <2>2. SoundSteps(ajax) /\ Len(ajax) \in Nat
    <3> DEFINE m == k + 1
    <3>1. m \in Nat
      OBVIOUS
    <3> HIDE DEF m
    <3>2. SoundSteps(AjaxPages(n, a.symbol, m)) /\ Len(AjaxPages(n, a.symbol, m)) = 2
      BY <3>1, AjaxSound
    <3> QED BY <3>2, NoSteps DEF m
  <2>3. SoundSteps(last)
    <3> DEFINE m == k + 1 + Len(ajax)
    <3>1. m \in Nat
      <4> HIDE DEF ajax
      <4> QED BY <2>2
    <3> HIDE DEF m
    <3>2. SoundStep(After(m, Untold(Try(BalanceSheet(n, a.symbol)))))
      BY <3>1, CompanyAsks, OneAsk, StepChanged
    <3> QED BY <3>2, OneStep DEF m
  <2>4. SoundSteps(first \o ajax \o last)
    <3> HIDE DEF first, ajax, last
    <3> QED BY <2>1, <2>2, <2>3, JoinedSteps
  <2> QED BY <2>4 DEF FillROE
<1> DEFINE otc == <<OrMiss(Need(ValuationOTC(n)))>>
           tse == <<OrMiss(Need(ValuationTSE(n))), Untold(Try(ApiRows(n, "dividend",
                 "DividendRow")))>>
           more(k) == FillROE(n, a.symbol, a.found, k)
<1>2. SoundSteps(more(1)) /\ SoundSteps(more(2))
  BY <1>1
<1>3. SoundSteps(otc) /\ SoundSteps(tse)
  BY CompanyAsks, OneAsk, StepChanged, OneStep, TwoSteps
<1>4. SoundSteps(otc \o more(1)) /\ SoundSteps(tse \o more(2))
  <2> HIDE DEF otc, tse, more
  <2> QED BY <1>2, <1>3, JoinedSteps
<1>5. SoundPlan(Plan(Tpex, RowsDay, otc \o more(1))) /\
        SoundPlan(Plan(Api, RowsDay, tse \o more(2)))
  <2> HIDE DEF otc, tse, more
  <2> QED BY <1>4, PlanOf
<1> QED BY <1>5, Refusals DEF GetValuationRatios

(* Revenue, profile and dividends of one company.                          *)
LEMMA CompanySound ==
  ASSUME NEW n, NEW a
  PROVE  /\ SoundPlan(GetMonthlyRevenue(n, a)) /\ SoundPlan(GetCompanyProfile(n, a))
         /\ SoundPlan(GetDividendHistory(n, a)) /\ SoundPlan(GetExdividendCalendar(n))
<1>1. SoundPlan(GetMonthlyRevenue(n, a)) /\ SoundPlan(GetCompanyProfile(n, a))
  BY CompanyAsks, OneRead, Refusals DEF GetMonthlyRevenue, GetCompanyProfile
<1>2. SoundSteps(<<OrMiss(Need(ValuationOTC(n))), Try(ExRights(n))>>)
  BY CompanyAsks, OneAsk, StepChanged, TwoSteps
<1>3. SoundSteps(<<OrMiss(Need(ApiRows(n, "dividend", "DividendRow"))),
                   Try(ApiRows(n, "ex_div", "ExDivEventRow")), Untold(Try(ValuationTSE(n)))>>)
  BY CompanyAsks, OneAsk, StepChanged, ThreeSteps
<1>4. SoundSteps(<<Need(ApiRows(n, "ex_div", "ExDivEventRow")), Need(ExRights(n))>>)
  BY CompanyAsks, OneAsk, TwoSteps
<1>5. SoundPlan(GetDividendHistory(n, a))
  BY <1>2, <1>3, PlanOf, Refusals DEF GetDividendHistory
<1>6. SoundPlan(GetExdividendCalendar(n))
  BY <1>4, PlanOf DEF GetExdividendCalendar
<1> QED BY <1>1, <1>5, <1>6

(* The screens serve every market and every order their schema allows.     *)
LEMMA ScreensSound ==
  ASSUME NEW n, NEW a
  PROVE  /\ a.market \in {"", "tse", "otc"} /\ a.sort \in {"", "pe", "yield", "pb", "growth"}
            => SoundPlan(ScreenStocks(n, a))
         /\ a.market \in {"", "tse", "otc"} => SoundPlan(ScreenHighYield(n, a))
<1> SUFFICES ASSUME a.market \in {"", "tse", "otc"}
             PROVE  /\ a.sort \in {"", "pe", "yield", "pb", "growth"}
                          => SoundPlan(ScreenStocks(n, a))
                    /\ SoundPlan(ScreenHighYield(n, a))
  OBVIOUS
<1>1. SoundSteps(ScreenMetrics(n, a.market))
  <2> DEFINE tse == IF a.market = "otc" THEN <<>> ELSE <<Need(ValuationTSE(n))>>
             otc == IF a.market = "tse" THEN <<>> ELSE <<Need(ValuationOTC(n))>>
             both == <<Untold(Need(MopsRead(n, "monthly_revenue", "MonthlyRevenue"))),
                   Untold(Try(IncomeSummary(n)))>>
             paid == IF a.market = "otc" THEN <<>> ELSE <<Untold(Need(ApiRows(n, "dividend",
                   "DividendRow")))>>
  <2>1. SoundSteps(tse) /\ SoundSteps(otc) /\ SoundSteps(paid)
    BY CompanyAsks, OneAsk, StepChanged, OneStep, NoSteps
  <2>2. SoundSteps(both)
    BY CompanyAsks, OneAsk, StepChanged, TwoSteps
  <2>3. SoundSteps(tse \o otc \o both \o paid)
    <3> HIDE DEF tse, otc, both, paid
    <3> QED BY <2>1, <2>2, JoinedSteps
  <2> QED BY <2>3 DEF ScreenMetrics
<1>2. SoundSteps(<<EsgCodes(n)>>) /\ SoundSteps(<<>>)
  BY CompanyAsks, OneStep, NoSteps
<1>3. SoundPlan(Screen(n, a.market, <<EsgCodes(n)>>)) /\ SoundPlan(Screen(n, a.market, <<>>))
  BY <1>1, <1>2, JoinedSteps, PlanOf DEF Screen
<1> QED BY <1>2, <1>3, PlanOf DEF ScreenStocks, ScreenHighYield

(* A horizon is a number of months.                                        *)
LEMMA HorizonsArePositive == \A h \in DOMAIN TrendHorizons : TrendHorizons[h] \in Nat \ {0}
<1>1. DOMAIN TrendHorizons = {"short", "mid", "long"} /\ TrendHorizons["short"] = 1
      /\ TrendHorizons["mid"] = 3 /\ TrendHorizons["long"] = 6
  BY DEF TrendHorizons
<1> QED BY <1>1

(* The statements and the trend serve every option their schema allows.    *)
LEMMA OptionsSound ==
  ASSUME NEW n, NEW a
  PROVE  /\ a.statement \in {"", "income", "balance", "cashflow"}
            => SoundPlan(GetFinancialStatements(n, a))
         /\ a.horizon \in {"", "short", "mid", "long"} => SoundPlan(GetStockTrendComposite(n, a))
<1>1. ASSUME a.statement \in {"", "income", "balance", "cashflow"}
      PROVE  SoundPlan(GetFinancialStatements(n, a))
  <2> DEFINE period == IF a.period = "" THEN <<>> ELSE <<Untold(Need(IncomeSummary(n)))>>
             income == IncomeOfWithAJAXFallback(n, a.symbol, a.found, "")
             wanted(kind, step) == IF a.statement \in {"", kind} THEN <<step>> ELSE <<>>
             ratios == wanted("income", Need(MopsRead(n, "profit_ratios", "ProfitabilityRatio")))
             balance == wanted("balance", Need(BalanceSheet(n, a.symbol)))
             cash == wanted("cashflow", Need(CashFlow(n, a.symbol)))
  <2>1. SoundSteps(period)
    BY CompanyAsks, OneAsk, StepChanged, OneStep, NoSteps
  <2>2. SoundSteps(income)
    <3>1. 0 \in Nat
      OBVIOUS
    <3> QED BY <3>1, AjaxSound
  <2>3. SoundSteps(ratios) /\ SoundSteps(balance) /\ SoundSteps(cash)
    BY CompanyAsks, OneAsk, OneStep, NoSteps
  <2>4. SoundSteps(period \o income \o ratios \o balance \o cash)
    <3> HIDE DEF period, income, ratios, balance, cash
    <3> QED BY <2>1, <2>2, <2>3, JoinedSteps
  <2>5. SoundPlan(Plan(Mops, Today(n), period \o income \o ratios \o balance \o cash))
    <3> HIDE DEF period, income, ratios, balance, cash
    <3> QED BY <2>4, PlanOf
  <2> QED BY <2>5, <1>1, Refusals DEF GetFinancialStatements
<1>2. ASSUME a.horizon \in {"", "short", "mid", "long"}
      PROVE  SoundPlan(GetStockTrendComposite(n, a))
  <2> DEFINE date == ResolveDate(n, NoDay)
             horizon == Or(a.horizon, "mid")
             code == a.symbol
  <2>1. horizon \in DOMAIN TrendHorizons
    BY <1>2 DEF Or, TrendHorizons
  <2>2. ASSUME NEW m \in Nat \ {0}
        PROVE  SoundSteps(TrendTechnical(n, code, date, m))
    <3> DEFINE step == Step([i \in 1..m |-> Ask(Web, "daily_k", date, Who(code),
                              [NoParams EXCEPT !.date = MonthStarts(m)[i], !.stock = code],
                                    "Candle")], "all")
    <3>1. SoundStep(step)
      <4> HIDE DEF date
      <4> QED BY TrendMonths
    <3>2. TrendTechnical(n, code, date, m) = IF SymbolOf(code) = "otc" THEN <<>>
            ELSE <<Untold(step)>>
      BY DEF TrendTechnical
    <3> HIDE DEF step
    <3> QED BY <3>1, <3>2, StepChanged, OneStep, NoSteps
  <2>4. SoundSteps(TrendTechnical(n, code, date, TrendHorizons[horizon]))
    <3> HIDE DEF horizon, date
    <3> QED BY <2>1, <2>2, HorizonsArePositive
  <2>5. SoundSteps(TrendFundamental(n, code))
    <3>1. SoundStep(OrMiss(Need(IF SymbolOf(code) = "otc" THEN ValuationOTC(n)
            ELSE ValuationTSE(n))))
      BY CompanyAsks, OneAsk, StepChanged
    <3> QED BY <3>1, CompanyAsks, OneAsk, TwoSteps DEF TrendFundamental
  <2>6. SoundSteps(TrendChip(n, code, date))
    <3> DEFINE before(d) == Ask(Web, "institutional", d, <<>>, OnDay(d), "InstitutionalRow")
               last == PrevTradingDay(date)
    <3>1. SoundStep(Step(<<before(last), before(PrevTradingDay(last))>>, "until"))
      <4>1. SoundAsk(before(last)) /\ SoundAsk(before(PrevTradingDay(last)))
        BY PagesOfTWSE
      <4> HIDE DEF before
      <4> QED BY <4>1, TwoAsks DEF Regimes
    <3>2. SoundStep(Need(Ask(Tpex, "institutional", date, <<>>, OnDay(date),
            "TPExInstitutionalRow")))
      BY TablesOfTPEx, OneAsk
    <3> QED BY <3>1, <3>2, OneStep DEF TrendChip
  <2>7. SoundPlan(Plan(IF SymbolOf(code) = "otc" THEN Tpex ELSE Web, date,
          TrendTechnical(n, code, date, TrendHorizons[horizon]) \o TrendFundamental(n, code)
                \o TrendChip(n, code, date)))
    BY <2>4, <2>5, <2>6, JoinedSteps, PlanOf
  <2> QED BY <2>1, <2>7, Refusals DEF GetStockTrendComposite
<1> QED BY <1>1, <1>2

-----------------------------------------------------------------------------
(* Handlers of DerivativeTools.                                            *)

(* A report of the derivatives exchange.                                   *)
LEMMA ReportSound ==
  ASSUME NEW ds, NEW day, NEW contract
  PROVE  /\ SoundAsk(Report(ds, day, contract)) /\ SoundStep(Need(Report(ds, day, contract)))
         /\ SoundPlan(OneDay(ds, day, contract))
<1>1. SoundAsk(Report(ds, day, contract))
  <2> DEFINE a == Report(ds, day, contract)
  <2>1. a.src = Taifex
    BY DEF Report, Ask
  <2> HIDE DEF a
  <2>2. SoundAsk(a)
    BY <2>1, RowTypes DEF SoundAsk, AskCacheable
  <2> QED BY <2>2 DEF a
<1> QED BY <1>1, OneAsk, OneRead DEF OneDay

(* The latest report, and the one of a day.                                *)
LEMMA LatestSound ==
  ASSUME NEW n, NEW ds, NEW a
  PROVE  SoundPlan(Latest(n, ds)) /\ SoundPlan(OnDate(n, ds, a))
BY ReportSound DEF Latest, OnDate

(* A plan whose rows are searched for a code.                              *)
LEMMA SearchedSound ==
  ASSUME NEW p, SoundPlan(p), NEW code, p.steps # <<>>,
         p = Plan(p.src, p.day, p.steps)
  PROVE  SoundPlan(Searched(p, code))
<1> DEFINE t == [i \in DOMAIN p.steps |-> OrMiss(p.steps[i])]
<1>1. p.steps \in Seq(Held(p.steps)) /\ \A i \in DOMAIN p.steps : SoundStep(p.steps[i])
  BY DEF SoundPlan, SoundSteps, Held
<1>2. DOMAIN p.steps = 1..Len(p.steps) /\ Len(p.steps) \in Nat
  BY <1>1
<1>3. \A x \in Held(t) : SoundStep(x)
  BY <1>1, StepChanged DEF Held
<1>4. t \in [1..Len(p.steps) -> Held(t)]
  BY <1>2 DEF Held
<1>5. SoundSteps(t)
  BY <1>2, <1>3, <1>4, SeqDef DEF SoundSteps
<1>6. SoundPlan([p EXCEPT !.steps = t])
  <2> HIDE DEF t
  <2>1. p = [src |-> p.src, day |-> p.day, steps |-> p.steps, refused |-> "no"]
    BY DEF Plan
  <2>2. [p EXCEPT !.steps = t].steps = t /\ [p EXCEPT !.steps = t].refused = "no"
    BY <2>1
  <2> QED BY <1>5, <2>2 DEF SoundPlan
<1> QED BY <1>6 DEF Searched

(* Reports searched for a contract.                                        *)
LEMMA SearchesSound ==
  ASSUME NEW n, NEW ds, NEW a, NEW code
  PROVE  SoundPlan(Searched(Latest(n, ds), code)) /\ SoundPlan(Searched(OnDate(n, ds, a), code))
<1>1. ASSUME NEW day, NEW contract
      PROVE  SoundPlan(Searched(OneDay(ds, day, contract), code))
  <2> DEFINE p == OneDay(ds, day, contract)
  <2>1. p.steps = <<Need(Report(ds, day, contract))>> /\ p = Plan(p.src, p.day, p.steps)
    BY DEF OneDay, Single, Plan
  <2>2. SoundPlan(p)
    BY ReportSound
  <2>3. p.steps # <<>>
    <3> HIDE DEF p
    <3> QED BY <2>1, HeldOne
  <2> HIDE DEF p
  <2>4. SoundPlan(Searched(p, code))
    BY <2>1, <2>2, <2>3, SearchedSound
  <2> QED BY <2>4 DEF p
<1> QED BY <1>1 DEF Latest, OnDate

(* A range of days the exchange accepts has days, so the step that         *)
(* collects them reads something.                                          *)
LEMMA RangeSound ==
  ASSUME NEW ds, NEW a, NEW contract, a.start \in Int, a.end \in Int
  PROVE  /\ SoundPlan(DayRange(ds, a, contract))
         /\ ValidateRange(a.start, a.end) => SoundStep(CollectRangeRows(ds, a.start, a.end,
               contract))
<1>1. ASSUME ValidateRange(a.start, a.end)
      PROVE  SoundStep(CollectRangeRows(ds, a.start, a.end, contract))
  <2> DEFINE m == a.end - a.start + 1
             asks == [i \in 1..m |-> Report(ds, a.start + i - 1, contract)]
  <2>1. m \in Nat \ {0}
    BY <1>1 DEF ValidateRange
  <2>2. DOMAIN asks = 1..m /\ asks = [i \in 1..m |-> asks[i]] /\ \A i \in 1..m : SoundAsk(asks[i])
    BY ReportSound
  <2>3. SoundStep(Step(asks, "some"))
    <3> HIDE DEF asks, m
    <3> QED BY <2>1, <2>2, ManyAsks DEF Regimes
  <2> QED BY <2>3 DEF CollectRangeRows
<1>2. SoundPlan(DayRange(ds, a, contract))
  BY <1>1, SinglePlan, Refusals DEF DayRange
<1> QED BY <1>1, <1>2

(* The daily reports of futures and options.                               *)
LEMMA FuturesSound ==
  ASSUME NEW n, NEW a
  PROVE  /\ SoundPlan(GetFuturesDailyOHLC(n, a)) /\ SoundPlan(GetDailyFuturesMarketReport(n, a))
         /\ a.call_put \in {"", "call", "put"} => SoundPlan(GetDailyOptionsMarketReport(n, a))
         /\ SoundPlan(GetOptionsDelta(n, a)) /\ SoundPlan(GetOptionsOIChange(n, a))
         /\ SoundPlan(GetTimeAndSales(n, a))
         /\ SoundPlan(GetLargeTradersFuturesOI(n, a)) /\ SoundPlan(GetLargeTradersOptionsOI(n, a))
         /\ SoundPlan(GetAnnualTradingVolume(n, a)) /\ SoundPlan(GetMonthlyTradingStatistics(n))
         /\ SoundPlan(GetFxRate(n)) /\ SoundPlan(GetETradeQty(n))
<1>1. SoundPlan(GetFuturesDailyOHLC(n, a)) /\ SoundPlan(GetDailyFuturesMarketReport(n, a))
  BY ReportSound, Refusals DEF GetFuturesDailyOHLC, GetDailyFuturesMarketReport, WithFuturesContract
<1>2. a.call_put \in {"", "call", "put"} => SoundPlan(GetDailyOptionsMarketReport(n, a))
  BY ReportSound DEF GetDailyOptionsMarketReport
<1>3. SoundPlan(GetOptionsDelta(n, a)) /\ SoundPlan(GetOptionsOIChange(n, a)) /\
        SoundPlan(GetTimeAndSales(n, a))
  BY LatestSound DEF GetOptionsDelta, GetOptionsOIChange, GetTimeAndSales
<1>4. SoundPlan(GetLargeTradersFuturesOI(n, a)) /\ SoundPlan(GetLargeTradersOptionsOI(n, a))
  BY SearchesSound DEF GetLargeTradersFuturesOI, GetLargeTradersOptionsOI, LargeTradersOI
<1>5. /\ SoundPlan(GetAnnualTradingVolume(n, a)) /\ SoundPlan(GetMonthlyTradingStatistics(n))
      /\ SoundPlan(GetFxRate(n)) /\ SoundPlan(GetETradeQty(n))
  BY ReportSound, LatestSound DEF GetAnnualTradingVolume, GetMonthlyTradingStatistics, GetFxRate,
        GetETradeQty
<1> QED BY <1>1, <1>2, <1>3, <1>4, <1>5

(* Their histories, over a range of days.                                  *)
LEMMA HistoriesSound ==
  ASSUME NEW n, NEW a, a.start \in Int, a.end \in Int
  PROVE  /\ SoundPlan(GetFuturesHistory(n, a))
         /\ a.call_put \in {"", "call", "put"} => SoundPlan(GetOptionsDailyHistory(n, a))
         /\ SoundPlan(GetLargeTradersFuturesHistory(n, a))
         /\ SoundPlan(GetPutCallRatio(n, a))
         /\ SoundPlan(GetInstitutionalTotalHistory(n, a))
         /\ SoundPlan(GetInstitutionalTradersByFuturesHistory(n, a))
         /\ SoundPlan(GetOptionsInstiByContractHistory(n, a))
         /\ SoundPlan(GetOptionsInstiCallsPutsHistory(n, a))
         /\ SoundPlan(GetInstitutionalFutOptSplitHistory(n, a))
         /\ SoundPlan(GetInstitutionalFuturesHistory(n, a))
         /\ SoundPlan(GetLargeTraderPositions(n, a))
<1>1. \A ds, contract : SoundPlan(DayRange(ds, a, contract))
  BY RangeSound
<1>2. SoundPlan(GetLargeTraderPositions(n, a))
  <2> DEFINE day == TaifexDate(n, a.date)
             ranged == a.start # NoDay \/ a.end # NoDay
             read(ds) == IF ranged THEN CollectRangeRows(ds, a.start, a.end, "")
                   ELSE Need(Report(ds, day, ""))
  <2>1. CASE ranged /\ ~ValidateRange(a.start, a.end)
    BY <2>1, Refusals DEF GetLargeTraderPositions
  <2>2. CASE ~(ranged /\ ~ValidateRange(a.start, a.end))
    <3>1. SoundStep(read("large_trader_fut")) /\ SoundStep(read("large_trader_opt"))
      BY <2>2, RangeSound, ReportSound
    <3>2. SoundSteps(<<read("large_trader_fut"), Untold(read("large_trader_opt"))>>)
      <4> HIDE DEF read
      <4> QED BY <3>1, StepChanged, TwoSteps
    <3>3. \A d : SoundPlan(Plan(Taifex, d, <<read("large_trader_fut"),
            Untold(read("large_trader_opt"))>>))
      <4> HIDE DEF read
      <4> QED BY <3>2, PlanOf
    <3>4. GetLargeTraderPositions(n, a) = Plan(Taifex, IF a.end = NoDay THEN day ELSE a.end,
                                             <<read("large_trader_fut"),
                                                   Untold(read("large_trader_opt"))>>)
      BY <2>2 DEF GetLargeTraderPositions
    <3> HIDE DEF read, day
    <3> QED BY <3>3, <3>4
  <2> QED BY <2>1, <2>2
<1>3. /\ SoundPlan(GetFuturesHistory(n, a))
      /\ a.call_put \in {"", "call", "put"} => SoundPlan(GetOptionsDailyHistory(n, a))
      /\ SoundPlan(GetLargeTradersFuturesHistory(n, a))
  BY <1>1, Refusals DEF GetFuturesHistory, WithFuturesContract, GetOptionsDailyHistory,
        GetLargeTradersFuturesHistory
<1>4. SoundPlan(GetPutCallRatio(n, a))
  BY <1>1, LatestSound DEF GetPutCallRatio
<1>5. /\ SoundPlan(GetInstitutionalTotalHistory(n, a))
      /\ SoundPlan(GetInstitutionalTradersByFuturesHistory(n, a))
      /\ SoundPlan(GetOptionsInstiByContractHistory(n, a))
      /\ SoundPlan(GetOptionsInstiCallsPutsHistory(n, a))
      /\ SoundPlan(GetInstitutionalFutOptSplitHistory(n, a))
      /\ SoundPlan(GetInstitutionalFuturesHistory(n, a))
  BY <1>1 DEF GetInstitutionalTotalHistory, GetInstitutionalTradersByFuturesHistory,
       GetOptionsInstiByContractHistory, GetOptionsInstiCallsPutsHistory, InstiHistByContract,
       GetInstitutionalFutOptSplitHistory, GetInstitutionalFuturesHistory
<1> QED BY <1>2, <1>3, <1>4, <1>5

(* Positions, margins and the calendar.                                    *)
LEMMA PositionsSound ==
  ASSUME NEW n, NEW a
  PROVE  /\ SoundPlan(GetInstitutionalFuturesPositions(n, a)) /\
               SoundPlan(GetInstitutionalOptionsPositions(n, a))
         /\ SoundPlan(GetFuturesInstitutional(n, a)) /\ SoundPlan(GetInstitutionalGeneral(n, a))
         /\ SoundPlan(GetInstitutionalTradersByFutures(n, a)) /\
               SoundPlan(GetInstitutionalTradersByOptions(n, a))
         /\ SoundPlan(GetInstitutionalTradersCallsPuts(n, a))
         /\ SoundPlan(GetStockFuturesMargin(n, a)) /\ SoundPlan(GetIndexFuturesMargin(n, a))
         /\ SoundPlan(GetFxMargin(n, a)) /\ SoundPlan(GetIrMargin(n, a))
         /\ SoundPlan(GetGoldMargin(n, a)) /\ SoundPlan(GetEtfMargin(n, a))
         /\ a.market \in {"", "tse", "otc"} => SoundPlan(GetSymbolList(n, a))
         /\ SoundPlan(GetTradingCalendar(n))
<1>1. /\ SoundPlan(GetInstitutionalFuturesPositions(n, a)) /\
            SoundPlan(GetInstitutionalOptionsPositions(n, a))
      /\ SoundPlan(GetFuturesInstitutional(n, a)) /\ SoundPlan(GetInstitutionalGeneral(n, a))
      /\ SoundPlan(GetInstitutionalTradersCallsPuts(n, a))
      /\ SoundPlan(GetFxMargin(n, a)) /\ SoundPlan(GetIrMargin(n, a))
      /\ SoundPlan(GetGoldMargin(n, a)) /\ SoundPlan(GetEtfMargin(n, a))
  BY LatestSound DEF GetInstitutionalFuturesPositions, GetInstitutionalOptionsPositions,
        InstiPositions,
       GetFuturesInstitutional, GetInstitutionalGeneral, GetInstitutionalTradersCallsPuts,
       GetFxMargin, GetIrMargin, GetGoldMargin, GetEtfMargin, MarginTable
<1>2. /\ SoundPlan(GetInstitutionalTradersByFutures(n, a)) /\
            SoundPlan(GetInstitutionalTradersByOptions(n, a))
      /\ SoundPlan(GetStockFuturesMargin(n, a)) /\ SoundPlan(GetIndexFuturesMargin(n, a))
  BY SearchesSound DEF GetInstitutionalTradersByFutures, GetInstitutionalTradersByOptions,
        InstiTradersByContract,
       GetStockFuturesMargin, GetIndexFuturesMargin
<1>3. (a.market \in {"", "tse", "otc"} => SoundPlan(GetSymbolList(n, a))) /\
        SoundPlan(GetTradingCalendar(n))
  BY NoSteps, PlanOf DEF GetSymbolList, GetTradingCalendar
<1> QED BY <1>1, <1>2, <1>3

(* A handler that finds its report by the kind asked for.                  *)
LEMMA ReportKinds ==
  ASSUME NEW n, NEW kinds, NEW kind \in DOMAIN kinds, NEW a
  PROVE  SoundPlan(LatestKind(n, kinds, kind)) /\ SoundPlan(DateKind(n, kinds, kind, a))
BY LatestSound DEF LatestKind, DateKind

(* The handlers of the reports know every kind their schema allows.        *)
LEMMA ReportKindsSound ==
  ASSUME NEW n, NEW a
  PROVE  /\ a.kind \in {"", "general", "fut_opt", "fut_contracts",
                       "opt_contracts", "calls_puts"}
            => SoundPlan(GetInstiWeekly(n, a))
         /\ a.kind \in {"", "all", "futures", "index_futures", "ssf",
                       "index_options", "fx", "gold", "ir", "options", "sso"}
            => SoundPlan(GetFinalSettlementPrice(n, a))
         /\ a.kind \in {"", "all", "futures", "index_options", "fx",
                       "fx_futures", "gold", "ir", "index_futures", "options",
                       "ssf", "sso"}
            => SoundPlan(GetSettledPositions(n, a))
         /\ a.kind \in {"", "all", "futures", "options", "summary_futures",
                       "summary_options"}
            => SoundPlan(GetTaifexBlockTrade(n, a))
         /\ a.kind \in {"", "daily", "monthly", "yearly", "oi_daily"}
            => SoundPlan(GetStockFuturesStats(n, a))
         /\ a.kind \in {"", "ssf_list", "top10", "sso_list"}
            => SoundPlan(GetSSFOverview(n, a))
         /\ a.kind \in {"", "lists", "branch", "netvalue", "income",
                       "accumulated"}
            => SoundPlan(GetFcmProfiles(n, a))
         /\ a.kind \in {"", "equity", "non_equity"}
            => SoundPlan(GetPositionLimits(n, a))
         /\ a.kind \in {"", "adjust", "adjusted", "fee"}
            => SoundPlan(GetContractAdjust(n, a))
         /\ a.kind \in {"", "stock", "bond", "international", "log"}
            => SoundPlan(GetAcceptableCollateral(n, a))
         /\ a.kind \in {"", "mm_fut", "mm_opt", "cm", "bank", "ccp_cm"}
            => SoundPlan(GetMarketMakerCmLists(n, a))
         /\ a.kind \in {"", "summary", "tick"}
            => SoundPlan(GetCalendarSpreadTrades(n, a))
         /\ a.freq \in {"", "daily", "weekly", "monthly", "yearly"} /\
               a.market \in {"", "fut", "opt"}
            => SoundPlan(GetFcmVolumeReports(n, a))
<1>1. ASSUME a.kind \in {"", "general", "fut_opt", "fut_contracts",
                       "opt_contracts", "calls_puts"}
      PROVE  SoundPlan(GetInstiWeekly(n, a))
  <2>1. Or(a.kind, "general") \in DOMAIN InstiWeeklyTypes
    BY <1>1 DEF Or, InstiWeeklyTypes
  <2> QED BY <2>1, ReportKinds DEF GetInstiWeekly
<1>2. ASSUME a.kind \in {"", "all", "futures", "index_futures", "ssf",
                       "index_options", "fx", "gold", "ir", "options", "sso"}
      PROVE  SoundPlan(GetFinalSettlementPrice(n, a))
  <2>1. Or(a.kind, "all") \in DOMAIN FspCategories
    BY <1>2 DEF Or, FspCategories
  <2> QED BY <2>1, ReportKinds DEF GetFinalSettlementPrice
<1>3. ASSUME a.kind \in {"", "all", "futures", "index_options", "fx",
                       "fx_futures", "gold", "ir", "index_futures", "options",
                       "ssf", "sso"}
      PROVE  SoundPlan(GetSettledPositions(n, a))
  <2>1. Or(a.kind, "all") \in DOMAIN SpCategories
    BY <1>3 DEF Or, SpCategories
  <2> QED BY <2>1, ReportKinds DEF GetSettledPositions
<1>4. ASSUME a.kind \in {"", "all", "futures", "options", "summary_futures",
                       "summary_options"}
      PROVE  SoundPlan(GetTaifexBlockTrade(n, a))
  <2>1. Or(a.kind, "all") \in DOMAIN BtKinds
    BY <1>4 DEF Or, BtKinds
  <2> QED BY <2>1, ReportKinds DEF GetTaifexBlockTrade
<1>5. ASSUME a.kind \in {"", "daily", "monthly", "yearly", "oi_daily"}
      PROVE  SoundPlan(GetStockFuturesStats(n, a))
  <2>1. Or(a.kind, "daily") \in DOMAIN SfsPeriods
    BY <1>5 DEF Or, SfsPeriods
  <2> QED BY <2>1, ReportKinds DEF GetStockFuturesStats
<1>6. ASSUME a.kind \in {"", "ssf_list", "top10", "sso_list"}
      PROVE  SoundPlan(GetSSFOverview(n, a))
  <2>1. Or(a.kind, "ssf_list") \in DOMAIN SsfKinds
    BY <1>6 DEF Or, SsfKinds
  <2> QED BY <2>1, ReportKinds DEF GetSSFOverview
<1>7. ASSUME a.kind \in {"", "lists", "branch", "netvalue", "income",
                       "accumulated"}
      PROVE  SoundPlan(GetFcmProfiles(n, a))
  <2>1. Or(a.kind, "lists") \in DOMAIN FcmKinds
    BY <1>7 DEF Or, FcmKinds
  <2> QED BY <2>1, ReportKinds DEF GetFcmProfiles
<1>8. ASSUME a.kind \in {"", "equity", "non_equity"}
      PROVE  SoundPlan(GetPositionLimits(n, a))
  <2>1. Or(a.kind, "equity") \in DOMAIN PosLimitCats
    BY <1>8 DEF Or, PosLimitCats
  <2> QED BY <2>1, ReportKinds DEF GetPositionLimits
<1>9. ASSUME a.kind \in {"", "adjust", "adjusted", "fee"}
      PROVE  SoundPlan(GetContractAdjust(n, a))
  <2>1. Or(a.kind, "adjust") \in DOMAIN ContractAdjViews
    BY <1>9 DEF Or, ContractAdjViews
  <2> QED BY <2>1, ReportKinds DEF GetContractAdjust
<1>10. ASSUME a.kind \in {"", "stock", "bond", "international", "log"}
      PROVE  SoundPlan(GetAcceptableCollateral(n, a))
  <2>1. Or(a.kind, "stock") \in DOMAIN CollKinds
    BY <1>10 DEF Or, CollKinds
  <2> QED BY <2>1, ReportKinds DEF GetAcceptableCollateral
<1>11. ASSUME a.kind \in {"", "mm_fut", "mm_opt", "cm", "bank", "ccp_cm"}
      PROVE  SoundPlan(GetMarketMakerCmLists(n, a))
  <2>1. Or(a.kind, "mm_fut") \in DOMAIN MmCMKinds
    BY <1>11 DEF Or, MmCMKinds
  <2> QED BY <2>1, ReportKinds DEF GetMarketMakerCmLists
<1>12. ASSUME a.kind \in {"", "summary", "tick"}
      PROVE  SoundPlan(GetCalendarSpreadTrades(n, a))
  <2>1. Or(a.kind, "summary") \in DOMAIN SpreadKinds
    BY <1>12 DEF Or, SpreadKinds
  <2> QED BY <2>1, ReportKinds DEF GetCalendarSpreadTrades
<1>13. ASSUME a.freq \in {"", "daily", "weekly", "monthly", "yearly"},
        a.market \in {"", "fut", "opt"}
      PROVE  SoundPlan(GetFcmVolumeReports(n, a))
  <2> DEFINE f == Or(a.freq, "daily")
             kinds == FcmVolKeys[f]
  <2>1. f \in DOMAIN FcmVolKeys
    BY <1>13 DEF Or, FcmVolKeys
  <2>2. \A x \in DOMAIN FcmVolKeys : DOMAIN FcmVolKeys[x] = {"fut", "opt"}
    BY DEF FcmVolKeys
  <2>3. Or(a.market, "fut") \in DOMAIN kinds
    <3> HIDE DEF f
    <3> QED BY <1>13, <2>1, <2>2 DEF Or
  <2>4. SoundPlan(LatestKind(n, kinds, Or(a.market, "fut")))
    <3> HIDE DEF kinds
    <3> QED BY <2>3, ReportKinds
  <2> QED BY <2>1, <2>4 DEF GetFcmVolumeReports
<1> QED BY <1>1, <1>2, <1>3, <1>4, <1>5, <1>6, <1>7, <1>8, <1>9, <1>10, <1>11, <1>12, <1>13

-----------------------------------------------------------------------------
(* The registry.                                                           *)
LEMMA UnionOffered ==
  ASSUME NEW C, \A S \in C : SoundOffers(S)
  PROVE  SoundOffers(UNION C)
BY DEF SoundOffers

(* The tools the registry makes from a list of tables.                     *)
LEMMA ListOffered ==
  ASSUME NEW n, NEW tool, NEW ds, NEW args, Cacheable(ds, FALSE)
  PROVE  /\ SoundOffers(WebList(n, tool, ds)) /\ SoundOffers(WebListOn(n, tool, ds, args))
         /\ SoundOffers(ApiList(n, tool, ds)) /\ SoundOffers(ApiCompany(n, tool, ds))
BY SpecsSound, OfferOf DEF WebList, WebListOn, ApiList, ApiCompany

(* The tools it makes from the sustainability topics.                      *)
LEMMA TopicOffered ==
  ASSUME NEW n, NEW tool, NEW topic
  PROVE  SoundOffers(EsgCompany(n, tool, topic))
BY TopicsSound, OfferOf DEF EsgCompany

(* The days of a range are numbers.                                        *)
LEMMA RangeDays ==
  /\ \A a \in RangeArg : a.start \in Int /\ a.end \in Int /\ a.call_put = ""
  /\ \A a \in [date : {NoDay}, start : Dates, end : Days2] : a.start \in Int /\ a.end \in Int
<1>1. Dates \subseteq Int /\ Days2 \subseteq Int
  BY DEF Dates, Days2, NoDay
<1> QED BY <1>1 DEF RangeArg

(* What each group of the registry offers is sound. Quotes, holders and    *)
(* warrants:                                                               *)
LEMMA QuoteToolsSound ==
  ASSUME NEW n
  PROVE  SoundOffers(QuoteTools(n))
<1>1. SoundOffers(Offer("get_stock_daily_quote",
        {GetStockDailyQuote(n, a) : a \in [symbol : Codes, date : Dates]}))
  BY QuoteSound, OfferOf
<1>2. SoundOffers(Offer("get_stock_daily_kline",
        {GetStockDailyKline(n, a) : a \in [symbol : Codes, date : Dates,
              period : {"day", "week"}]}))
  BY QuoteSound, OfferOf
<1>3. SoundOffers(Offer("get_market_summary", {GetMarketSummary(n, a) : a \in DateArg}))
  BY SummarySound, OfferOf
<1>4. SoundOffers(Offer("get_institutional_investors",
        {GetInstitutionalInvestors(n, a) : a \in [market : {"tse", "otc"}, date : Dates]}))
  BY HoldersSound, OfferOf
<1>5. SoundOffers(Offer("get_foreign_industry_holdings",
        {GetForeignIndustryHoldings(n, a) : a \in DateArg}))
  BY HoldersSound, OfferOf
<1>6. SoundOffers(Offer("get_foreign_shareholding_history",
        {GetForeignShareholdingHistory(n, a) : a \in [symbol : Codes, date : Dates]}))
  BY ShareholdingSound, OfferOf
<1>7. SoundOffers(Offer("get_margin_trading",
        {GetMarginTrading(n, a) : a \in [symbol : Codes, date : Dates]}))
  BY HoldersSound, OfferOf
<1>8. SoundOffers(Offer("get_abnormal_trading",
        {GetAbnormalTrading(n, a) : a \in [market : {"tse", "otc"}, date : Dates]}))
  BY HoldersSound, OfferOf
<1>9. SoundOffers(Offer("get_warrant_activity", {GetWarrantActivity(n, a) : a \in DateArg}))
  BY HoldersSound, OfferOf
<1> QED BY <1>1, <1>2, <1>3, <1>4, <1>5, <1>6, <1>7, <1>8, <1>9, UnionOffered,
      ZenonT(40) DEF QuoteTools

(* Block trades and applications:                                          *)
LEMMA BlockTradeToolsSound ==
  ASSUME NEW n
  PROVE  SoundOffers(BlockTradeTools(n))
<1>1. {"block_trades", "block_monthly", "block_yearly", "cross_market"}
       \subseteq PolicyTableMarket["daily_kline"]
  BY DEF PolicyTableMarket
<1>2. {"day_trade_targets", "fin_prog_abnormal"}
       \subseteq PolicyTableMarket["alert_stock"]
  BY DEF PolicyTableMarket
<1>3. {"foreign_apply", "local_apply"}
       \subseteq PolicyTableMarket["calendar"]
  BY DEF PolicyTableMarket
<1>4. \A ds \in {"block_trades", "block_monthly", "block_yearly",
               "cross_market", "day_trade_targets", "fin_prog_abnormal",
               "foreign_apply", "local_apply"} :
       Cacheable(ds, FALSE)
  BY <1>1, <1>2, <1>3, ClassesAreCached
<1>5. /\ SoundOffers(WebList(n, "get_block_trades_daily", "block_trades"))
      /\ SoundOffers(WebListOn(n, "get_block_trades_detail", "block_trades",
            [date : {1}, code : {""}, stock_no : SomeCode]))
      /\ SoundOffers(WebList(n, "get_block_trades_monthly", "block_monthly"))
      /\ SoundOffers(WebList(n, "get_block_trades_yearly", "block_yearly"))
      /\ SoundOffers(WebList(n, "get_cross_market_trading_info", "cross_market"))
      /\ SoundOffers(WebList(n, "get_daily_day_trading_targets", "day_trade_targets"))
      /\ SoundOffers(WebList(n, "get_financial_program_abnormal_recommendations",
            "fin_prog_abnormal"))
      /\ SoundOffers(ApiList(n, "get_foreign_companies_applying_for_listing", "foreign_apply"))
      /\ SoundOffers(ApiList(n, "get_local_companies_applying_for_listing", "local_apply"))
  BY <1>4, ListOffered
<1> QED BY <1>5, UnionOffered, ZenonT(40) DEF BlockTradeTools

(* Listings, suspensions and restrictions:                                 *)
LEMMA NoticeToolsSound ==
  ASSUME NEW n
  PROVE  SoundOffers(NoticeTools(n))
<1>1. {"new_listing", "suspend_listing", "margin_restrict", "trading_changes",
      "new_list_5d", "suspend_daytrade_ann"}
       \subseteq PolicyTableMarket["calendar"]
  BY DEF PolicyTableMarket
<1>2. {"sbl_volume", "first_foreign", "odd_lot"}
       \subseteq PolicyTableMarket["daily_kline"]
  BY DEF PolicyTableMarket
<1>3. {"price_change_lim"}
       \subseteq PolicyTableMarket["valuation"]
  BY DEF PolicyTableMarket
<1>4. \A ds \in {"new_listing", "suspend_listing", "sbl_volume",
               "first_foreign", "margin_restrict", "odd_lot",
               "trading_changes", "price_change_lim", "new_list_5d",
               "suspend_daytrade_ann"} :
       Cacheable(ds, FALSE)
  BY <1>1, <1>2, <1>3, ClassesAreCached
<1>5. /\ SoundOffers(ApiList(n, "get_recently_listed_companies", "new_listing"))
      /\ SoundOffers(ApiList(n, "get_suspended_listed_companies", "suspend_listing"))
      /\ SoundOffers(WebList(n, "get_daily_securities_lending_volume", "sbl_volume"))
      /\ SoundOffers(WebList(n, "get_first_listed_foreign_stocks_daily", "first_foreign"))
      /\ SoundOffers(WebList(n, "get_margin_loan_restrictions_announcement", "margin_restrict"))
      /\ SoundOffers(WebList(n, "get_odd_lot_trading_quotes", "odd_lot"))
      /\ SoundOffers(WebList(n, "get_securities_trading_changes", "trading_changes"))
      /\ SoundOffers(WebList(n, "get_stock_price_changes", "price_change_lim"))
      /\ SoundOffers(WebList(n, "get_stocks_no_price_change_first_five_days", "new_list_5d"))
      /\ SoundOffers(WebList(n, "get_suspended_day_trading_announcement", "suspend_daytrade_ann"))
  BY <1>4, ListOffered
<1> QED BY <1>5, UnionOffered, ZenonT(40) DEF NoticeTools

(* Histories of the market:                                                *)
LEMMA MarketHistoryToolsSound ==
  ASSUME NEW n
  PROVE  SoundOffers(MarketHistoryTools(n))
<1>1. {"suspend_daytrade_his"}
       \subseteq PolicyTableMarket["taifex_history"]
  BY DEF PolicyTableMarket
<1>2. {"suspended", "etf_reg_inv", "cum_voting", "own_scope_halt"}
       \subseteq PolicyTableMarket["calendar"]
  BY DEF PolicyTableMarket
<1>3. {"top_volume", "turnover_history", "sbl_trades_his", "bond_redemption"}
       \subseteq PolicyTableMarket["daily_kline"]
  BY DEF PolicyTableMarket
<1>4. {"insti_amounts"}
       \subseteq PolicyTableMarket["institutional"]
  BY DEF PolicyTableMarket
<1>5. {"sbl_balance_his"}
       \subseteq PolicyTableMarket["margin"]
  BY DEF PolicyTableMarket
<1>6. \A ds \in {"suspend_daytrade_his", "suspended", "top_volume",
               "etf_reg_inv", "insti_amounts", "turnover_history",
               "sbl_balance_his", "sbl_trades_his", "bond_redemption",
               "cum_voting", "own_scope_halt"} :
       Cacheable(ds, FALSE)
  BY <1>1, <1>2, <1>3, <1>4, <1>5, ClassesAreCached
<1>7. /\ SoundOffers(WebList(n, "get_suspended_day_trading_history", "suspend_daytrade_his"))
      /\ SoundOffers(WebList(n, "get_suspended_trading_stocks", "suspended"))
      /\ SoundOffers(WebList(n, "get_top_20_volume_stocks", "top_volume"))
      /\ SoundOffers(WebListOn(n, "get_market_institutional_amounts_history", "insti_amounts",
            [date : Dates, code : {""}, stock_no : {""}]))
      /\ SoundOffers(WebListOn(n, "get_market_turnover_history", "turnover_history",
            [date : Dates, code : {""}, stock_no : {""}]))
      /\ SoundOffers(WebListOn(n, "get_short_sale_lending_balance_history", "sbl_balance_his",
            [date : Dates, code : SomeCode, stock_no : {""}]))
      /\ SoundOffers(WebListOn(n, "get_short_sale_lending_trades_history", "sbl_trades_his",
            [date : Dates, code : SomeCode, stock_no : {""}]))
      /\ SoundOffers(WebList(n, "get_central_depository_bond_redemption", "bond_redemption"))
      /\ SoundOffers(ApiList(n, "get_companies_cumulative_voting", "cum_voting"))
      /\ SoundOffers(ApiList(n, "get_companies_ownership_changes_business_scope", "own_scope_halt"))
  BY <1>6, ListOffered
<1>8. SoundOffers(Offer("get_etf_regular_investment_ranking",
        {WebListSpec(n, "etf_reg_inv", FALSE, [NoArgs EXCEPT !.code = c]) : c \in SomeCode}))
  <2>1. \A c \in SomeCode : SoundPlan(WebListSpec(n, "etf_reg_inv", FALSE,
          [NoArgs EXCEPT !.code = c]))
    BY SpecsSound, <1>6
  <2> QED BY <2>1, OfferOf
<1> QED BY <1>7, <1>8, UnionOffered, ZenonT(40) DEF MarketHistoryTools

(* Changes of companies:                                                   *)
LEMMA CompanyChangeToolsSound ==
  ASSUME NEW n
  PROVE  SoundOffers(CompanyChangeTools(n))
<1>1. {"own_scope_trade", "scope_changes", "indep_directors",
      "ownership_change"}
       \subseteq PolicyTableMarket["calendar"]
  BY DEF PolicyTableMarket
<1>2. {"margin_info"}
       \subseteq PolicyTableMarket["margin"]
  BY DEF PolicyTableMarket
<1>3. {"punish"}
       \subseteq PolicyTableMarket["alert_stock"]
  BY DEF PolicyTableMarket
<1>4. \A ds \in {"own_scope_trade", "scope_changes", "indep_directors",
               "ownership_change", "margin_info", "punish"} :
       Cacheable(ds, FALSE)
  BY <1>1, <1>2, <1>3, ClassesAreCached
<1>5. /\ SoundOffers(ApiList(n, "get_companies_ownership_changes_business_scope_trading",
            "own_scope_trade"))
      /\ SoundOffers(ApiList(n, "get_companies_with_business_scope_changes", "scope_changes"))
      /\ SoundOffers(ApiList(n, "get_companies_with_independent_directors", "indep_directors"))
      /\ SoundOffers(ApiList(n, "get_companies_with_ownership_changes", "ownership_change"))
      /\ SoundOffers(WebList(n, "get_margin_trading_info", "margin_info"))
      /\ SoundOffers(ApiList(n, "get_market_disposal_stocks", "punish"))
  BY <1>4, ListOffered
<1>6. SoundOffers(Offer("get_after_hours_trading", {GetAfterHoursTrading(n, a) : a \in CodeArg}))
  BY ListsSound, OfferOf
<1>7. SoundOffers(Offer("get_major_announcements", {GetMajorAnnouncements(n, a) : a \in DateArg}))
  BY HoldersSound, OfferOf
<1>8. SoundOffers(Offer("get_company_major_news", {GetMajorAnnouncements(n, [date |-> NoDay])}))
  BY HoldersSound, OfferOf
<1> QED BY <1>5, <1>6, <1>7, <1>8, UnionOffered, ZenonT(40) DEF CompanyChangeTools

(* Indices:                                                                *)
LEMMA IndexToolsSound ==
  ASSUME NEW n
  PROVE  SoundOffers(IndexTools(n))
<1>1. {"index_history", "monthly_avg_all", "monthly_avg", "daily_k",
      "stock_mon_trade", "stock_year_his", "stock_year_trade"}
       \subseteq PolicyTableMarket["daily_kline"]
  BY DEF PolicyTableMarket
<1>2. {"holiday"}
       \subseteq PolicyTableMarket["calendar"]
  BY DEF PolicyTableMarket
<1>3. {"indices", "daily_close"}
       \subseteq PolicyTableRest["daily_kline"]
  BY DEF PolicyTableRest
<1>4. {"top_foreign"}
       \subseteq PolicyTableMarket["foreign_holding"]
  BY DEF PolicyTableMarket
<1>5. \A ds \in {"index_history", "holiday", "indices", "daily_close",
               "monthly_avg_all", "monthly_avg", "daily_k", "stock_mon_trade",
               "stock_year_his", "stock_year_trade", "top_foreign"} :
       Cacheable(ds, FALSE)
  BY <1>1, <1>2, <1>3, <1>4, ClassesAreCached
<1>6. /\ SoundOffers(WebList(n, "get_market_historical_index", "index_history"))
      /\ SoundOffers(WebList(n, "get_taiex_index_history", "index_history"))
      /\ SoundOffers(WebList(n, "get_market_holiday_schedule", "holiday"))
      /\ SoundOffers(ApiList(n, "get_market_index_info", "indices"))
      /\ SoundOffers(ApiCompany(n, "get_stock_daily_trading", "daily_close"))
      /\ SoundOffers(WebList(n, "get_stock_monthly_average", "monthly_avg_all"))
      /\ SoundOffers(WebListOn(n, "get_stock_monthly_avg_history", "monthly_avg",
            [date : Dates, code : {""}, stock_no : Codes]))
      /\ SoundOffers(WebListOn(n, "get_stock_monthly_history", "daily_k",
            [date : Dates, code : {""}, stock_no : Codes]))
      /\ SoundOffers(WebListOn(n, "get_stock_monthly_trading", "stock_mon_trade",
            [date : Dates, code : SomeCode, stock_no : {""}]))
      /\ SoundOffers(WebListOn(n, "get_stock_yearly_history", "stock_year_his",
            [date : {NoDay}, code : {""}, stock_no : Codes]))
      /\ SoundOffers(ApiList(n, "get_top_foreign_holdings", "top_foreign"))
  BY <1>5, ListOffered
<1>7. SoundOffers(Offer("get_stock_yearly_trading",
        {WebListSpec(n, "stock_year_trade", FALSE, [NoArgs EXCEPT !.code = c]) : c \in SomeCode}))
  <2>1. \A c \in SomeCode : SoundPlan(WebListSpec(n, "stock_year_trade", FALSE,
          [NoArgs EXCEPT !.code = c]))
    BY SpecsSound, <1>5
  <2> QED BY <2>1, OfferOf
<1> QED BY <1>6, <1>7, UnionOffered, ZenonT(40) DEF IndexTools

(* News and announcements:                                                 *)
LEMMA NewsToolsSound ==
  ASSUME NEW n
  PROVE  SoundOffers(NewsTools(n))
<1>1. {"twse_news", "twse_events"}
       \subseteq PolicyTableMarket["material_news"]
  BY DEF PolicyTableMarket
<1>2. {"warrant_trader", "warrant_issue", "sec_penalty"}
       \subseteq PolicyTableMarket["calendar"]
  BY DEF PolicyTableMarket
<1>3. {"note_trans"}
       \subseteq PolicyTableMarket["alert_stock"]
  BY DEF PolicyTableMarket
<1>4. \A ds \in {"twse_news", "warrant_trader", "warrant_issue", "twse_events",
               "note_trans", "sec_penalty"} :
       Cacheable(ds, FALSE)
  BY <1>1, <1>2, <1>3, ClassesAreCached
<1>5. /\ SoundOffers(ApiList(n, "get_twse_news", "twse_news"))
      /\ SoundOffers(ApiList(n, "get_warrant_trader_count", "warrant_trader"))
      /\ SoundOffers(ApiList(n, "get_warrant_yearly_issuance_statistics", "warrant_issue"))
  BY <1>4, ListOffered
<1>6. SoundOffers(Offer("get_warrant_basic_info", {GetWarrantBasicInfo(n, a) : a \in CodeArg}))
  BY HoldersSound, OfferOf
<1>7. SoundOffers(Offer("get_warrant_daily_trading", {GetWarrantActivity(n, [date |-> NoDay])}))
  BY HoldersSound, OfferOf
<1>8. SoundOffers(Offer("get_twse_events", {GetTwseEvents(n, NoArgs)}))
  BY <1>4, TableSound, OfferOf DEF GetTwseEvents
<1>9. SoundOffers(Offer("get_all_stocks_daily_close", {GetAllStocksDailyClose(n, [date |-> 1])}))
  BY ListsSound, OfferOf
<1>10. SoundOffers(Offer("get_abnormal_accumulated_notice_stocks",
        {GetAbnormalAccumulatedNoticeStocks(n, a) : a \in [kind : {"", "stock", "warrant"}]}))
  <2>1. \A a \in [kind : {"", "stock",
          "warrant"}] : SoundPlan(GetAbnormalAccumulatedNoticeStocks(n, a))
    BY <1>4, TableSound DEF GetAbnormalAccumulatedNoticeStocks
  <2> QED BY <2>1, OfferOf
<1>11. SoundOffers(Offer("get_company_sec_regulatory_penalties",
        {ApiCompanySpec(n, "sec_penalty", TRUE, c) : c \in Codes \cup {"unlisted"}}))
  <2>1. \A c \in Codes \cup {"unlisted"} : SoundPlan(ApiCompanySpec(n, "sec_penalty", TRUE, c))
    BY SpecsSound, <1>4
  <2> QED BY <2>1, OfferOf
<1> QED BY <1>5, <1>6, <1>7, <1>8, <1>9, <1>10, <1>11, UnionOffered, ZenonT(40) DEF NewsTools

(* Histories of indices:                                                   *)
LEMMA IndexHistoryToolsSound ==
  ASSUME NEW n
  PROVE  SoundOffers(IndexHistoryTools(n))
<1>1. {"realtime_stats"}
       \subseteq PolicyTableMarket["mis_snapshot"]
  BY DEF PolicyTableMarket
<1>2. {"taiwan50", "island_index", "total_return"}
       \subseteq PolicyTableMarket["daily_kline"]
  BY DEF PolicyTableMarket
<1>3. {"otc_monthly_revenue"}
       \subseteq PolicyTableRest["monthly_revenue"]
  BY DEF PolicyTableRest
<1>4. {"otc_broker_volume", "otc_foreign_trading"}
       \subseteq PolicyTableRest["institutional"]
  BY DEF PolicyTableRest
<1>5. \A ds \in {"realtime_stats", "taiwan50", "island_index", "total_return",
               "otc_monthly_revenue", "otc_broker_volume",
               "otc_foreign_trading"} :
       Cacheable(ds, FALSE)
  BY <1>1, <1>2, <1>3, <1>4, ClassesAreCached
<1>6. /\ SoundOffers(WebList(n, "get_real_time_trading_stats", "realtime_stats"))
      /\ SoundOffers(WebList(n, "get_taiwan_50_index_history", "taiwan50"))
      /\ SoundOffers(WebList(n, "get_taiwan_island_index_history", "island_index"))
      /\ SoundOffers(WebList(n, "get_taiwan_total_return_index", "total_return"))
  BY <1>5, ListOffered
<1>7. SoundOffers(Offer("get_twse_index", {GetTWSEIndex(n, a) : a \in DateArg}))
  BY ListsSound, OfferOf
<1>8. SoundOffers(Offer("get_attention_disposition_stocks",
        {GetAttentionDispositionStocks(n, a) : a \in [market : {"tse", "otc"}, date : Dates]}))
  BY ListsSound, OfferOf
<1>9. SoundOffers(Offer("get_otc_daily", {GetOtcDaily(n, a) : a \in StockArg}))
  BY ListsSound, OfferOf
<1>10. SoundOffers(Offer("get_otc_monthly_revenue", {GetOtcMonthlyRevenue(n, a) : a \in CodeArg}))
  BY <1>5, TableSound, OfferOf DEF GetOtcMonthlyRevenue
<1>11. SoundOffers(Offer("get_otc_active_broker_volume",
        {GetOtcBrokerVolumeRank(n, a) : a \in StockArg}))
  BY <1>5, TableSound, OfferOf DEF GetOtcBrokerVolumeRank
<1>12. SoundOffers(Offer("get_otc_foreign_trading", {GetOtcForeignTrading(n, a) : a \in CodeArg}))
  BY <1>5, TableSound, OfferOf DEF GetOtcForeignTrading
<1> QED BY <1>6, <1>7, <1>8, <1>9, <1>10, <1>11, <1>12, UnionOffered,
      ZenonT(40) DEF IndexHistoryTools

(* The emerging market:                                                    *)
LEMMA EmergingToolsSound ==
  ASSUME NEW n
  PROVE  SoundOffers(EmergingTools(n))
<1>1. {"otc_after_hours", "emerging_quotes", "emerging_highlight",
      "otc_exright_daily"}
       \subseteq PolicyTableRest["daily_kline"]
  BY DEF PolicyTableRest
<1>2. {"otc_warn_note", "otc_daytrade_targets"}
       \subseteq PolicyTableRest["alert_stock"]
  BY DEF PolicyTableRest
<1>3. \A ds \in {"otc_after_hours", "otc_warn_note", "emerging_quotes",
               "emerging_highlight", "otc_exright_daily",
               "otc_daytrade_targets"} :
       Cacheable(ds, FALSE)
  BY <1>1, <1>2, ClassesAreCached
<1>4. SoundOffers(Offer("get_otc_institutional_breakdown",
        {GetOtcInstitutionalBreakdown(n, a) : a \in [kind : {"", "trust", "dealer"}, code : {""}]}))
  BY KindsSound, OfferOf
<1>5. SoundOffers(Offer("get_otc_after_hours", {GetOtcAfterHours(n, a) : a \in CodeArg}))
  BY <1>3, TableSound, OfferOf DEF GetOtcAfterHours
<1>6. SoundOffers(Offer("get_otc_warning_note_accumulated",
        {GetOtcWarningNoteAccumulated(n, a) : a \in [kind : {"", "stock", "warrant"}]}))
  <2>1. \A a \in [kind : {"", "stock", "warrant"}] : SoundPlan(GetOtcWarningNoteAccumulated(n, a))
    BY <1>3, TableSound DEF GetOtcWarningNoteAccumulated
  <2> QED BY <2>1, OfferOf
<1>7. SoundOffers(Offer("get_emerging_quotes", {GetEmergingQuotes(n, a) : a \in CodeArg}))
  BY <1>3, TableSound, OfferOf DEF GetEmergingQuotes
<1>8. SoundOffers(Offer("get_emerging_market_status", {GetEmergingMarketStatus(n, NoArgs)}))
  BY <1>3, TableSound, OfferOf DEF GetEmergingMarketStatus
<1>9. SoundOffers(Offer("get_emerging_ranks",
        {GetEmergingRanks(n, a) : a \in KindArg({"", "eps", "capital"})}))
  BY KindsSound, OfferOf DEF KindArg
<1>10. SoundOffers(Offer("get_emerging_board_holdings",
        {GetEmergingBoardHoldings(n, a) : a \in [view : {"", "holdings", "profile"},
              code : SomeCode]}))
  BY MopsTablesSound, OfferOf
<1>11. SoundOffers(Offer("get_emerging_financial_statements",
        {GetEmergingFinancialStatements(n, a) : a \in [statement : {"", "income", "balance"},
              code : SomeCode]}))
  BY MopsTablesSound, OfferOf
<1>12. SoundOffers(Offer("get_otc_exdividend_result",
        {GetOtcExdividendResult(n, a) : a \in CodeArg}))
  BY <1>3, TableSound, OfferOf DEF GetOtcExdividendResult
<1>13. SoundOffers(Offer("get_otc_daytrade_targets", {GetOtcDaytradeTargets(n, a) : a \in CodeArg}))
  BY <1>3, TableSound, OfferOf DEF GetOtcDaytradeTargets
<1> QED BY <1>4, <1>5, <1>6, <1>7, <1>8, <1>9, <1>10, <1>11, <1>12, <1>13, UnionOffered,
      ZenonT(40) DEF EmergingTools

(* Over-the-counter indices:                                               *)
LEMMA OtcIndexToolsSound ==
  ASSUME NEW n
  PROVE  SoundOffers(OtcIndexTools(n))
<1>1. {"otc_daytrade_stats", "otc_warrant_daily"}
       \subseteq PolicyTableRest["daily_kline"]
  BY DEF PolicyTableRest
<1>2. \A ds \in {"otc_daytrade_stats", "otc_warrant_daily"} :
       Cacheable(ds, FALSE)
  BY <1>1, ClassesAreCached
<1>3. SoundOffers(Offer("get_otc_daytrade_statistics", {GetOtcDaytradeStatistics(n, NoArgs)}))
  BY <1>2, TableSound, OfferOf DEF GetOtcDaytradeStatistics
<1>4. SoundOffers(Offer("get_tpex200_index",
        {GetTpex200Index(n, a) : a \in [family : {"", "tpex50", "tpex200"},
              view : {"", "history", "latest", "constituents"}]}))
  BY FamiliesSound, OfferOf
<1>5. SoundOffers(Offer("get_governance_salary_index",
        {GetGovernanceSalaryIndex(n, a) : a \in [family : {"", "governance", "salary"},
              view : {"", "latest", "constituents"}]}))
  BY FamiliesSound, OfferOf
<1>6. SoundOffers(Offer("get_high_dividend_index",
        {GetHighDividendIndex(n, a) : a \in [view : {"", "history", "latest", "constituents"}]}))
  BY ViewsSound, OfferOf
<1>7. SoundOffers(Offer("get_emp88_index",
        {GetEmp88Index(n, a) : a \in [view : {"", "history", "latest", "constituents"}]}))
  BY ViewsSound, OfferOf
<1>8. SoundOffers(Offer("get_otc_warrant_daily",
        {GetOtcWarrantDaily(n, a) : a \in [code : SomeCode, underlying : SomeCode]}))
  BY <1>2, TableSound, OfferOf DEF GetOtcWarrantDaily
<1>9. SoundOffers(Offer("get_otc_warrant_basic",
        {GetOtcWarrantBasic(n, a) : a \in [view : {"", "basic", "issue"}, code : {""},
              underlying : SomeCode]}))
  BY ViewsSound, OfferOf
<1>10. SoundOffers(Offer("get_otc_wcb_wxy",
        {GetOtcWcbWxy(n, a) : a \in [kind : {"", "wcb", "wxy"}, view : {"", "issue", "daily"},
              code : {""}, underlying : {""}]}))
  <2>1. \A a \in [kind : {"", "wcb", "wxy"}, view : {"", "issue", "daily"}, code : {""},
          underlying : {""}] : SoundPlan(GetOtcWcbWxy(n, a))
    BY FamiliesSound
  <2> QED BY <2>1, OfferOf
<1> QED BY <1>3, <1>4, <1>5, <1>6, <1>7, <1>8, <1>9, <1>10, UnionOffered,
      ZenonT(40) DEF OtcIndexTools

(* Over-the-counter tables:                                                *)
LEMMA OtcTableToolsSound ==
  ASSUME NEW n
  PROVE  SoundOffers(OtcTableTools(n))
<1>1. {"ann_notice"}
       \subseteq PolicyTableMarket["alert_stock"]
  BY DEF PolicyTableMarket
<1>2. \A ds \in {"ann_notice"} :
       Cacheable(ds, FALSE)
  BY <1>1, ClassesAreCached
<1>3. SoundOffers(Offer("get_otc_history_ranks",
        {GetOtcHistoryRanks(n, a) : a \in [rank : {"", "pe", "volume", "amount", "turnover",
              "market_value", "amount_avg", "volume_avg"}, code : {""}, on : {"", "day 1"}]}))
  <2>1. \A a \in [rank : {"", "pe", "volume", "amount", "turnover", "market_value", "amount_avg",
          "volume_avg"}, code : {""}, on : {"", "day 1"}] : SoundPlan(GetOtcHistoryRanks(n, a))
    BY KindsSound
  <2> QED BY <2>1, OfferOf
<1>4. SoundOffers(Offer("get_otc_broker_turnover",
        {GetOtcBrokerTurnover(n, a) : a \in [level : {"", "branch", "hq"}, code : {""}]}))
  BY KindsSound, OfferOf
<1>5. SoundOffers(Offer("get_otc_fundamental_stats",
        {GetOtcFundamentalStats(n, a) : a \in KindArg({"", "op_analysis", "profile",
              "major_message", "eps_industry", "eps_financial", "forecast_current",
                    "forecast_update", "audit_diff", "dividend_board"})}))
  BY MopsTablesSound, OfferOf DEF KindArg
<1>6. SoundOffers(Offer("get_otc_financial_statements",
        {GetOtcFinancialStatements(n, a) : a \in [statement : {"", "income", "balance"},
              code : SomeCode]}))
  BY MopsTablesSound, OfferOf
<1>7. SoundOffers(Offer("get_otc_margin_sbl_detail",
        {GetOtcMarginSblDetail(n, a) : a \in KindArg({"", "used", "short_sell", "margin_sbl",
              "daily_short", "adjust", "lend", "mark", "marginspot", "term", "dpsp_monthly",
                    "intraday_fee"})}))
  BY KindsSound, OfferOf DEF KindArg
<1>8. SoundOffers(Offer("get_otc_trading_system_info",
        {GetOtcTradingSystemInfo(n, a) : a \in KindArg({"", "cmode", "prvol", "ceil_non",
              "delay_open", "delay_close", "suspend_today", "suspend_history", "ipo_no_limit",
                    "trade_idx", "highlight"})}))
  BY KindsSound, OfferOf DEF KindArg
<1>9. SoundOffers(Offer("get_twse_announcement_notice",
        {GetTwseAnnouncementNotice(n, a) : a \in CodeArg}))
  BY <1>2, TableSound, OfferOf DEF GetTwseAnnouncementNotice
<1>10. SoundOffers(Offer("get_otc_block_trade",
        {GetOtcBlockTrade(n, a) : a \in KindArg({"", "day", "stock", "summary_day", "monthly",
              "yearly"})}))
  BY KindsSound, OfferOf DEF KindArg
<1> QED BY <1>3, <1>4, <1>5, <1>6, <1>7, <1>8, <1>9, <1>10, UnionOffered,
      ZenonT(40) DEF OtcTableTools

(* Over-the-counter boards:                                                *)
LEMMA OtcBoardToolsSound ==
  ASSUME NEW n
  PROVE  SoundOffers(OtcBoardTools(n))
<1>1. SoundOffers(Offer("get_international_bond",
        {GetInternationalBond(n, a) : a \in KindArg({"", "quotes", "trade", "issue"})}))
  BY KindsSound, OfferOf DEF KindArg
<1>2. SoundOffers(Offer("get_gold_spot",
        {GetGoldSpot(n, a) : a \in KindArg({"", "spot", "highlight", "warrant"})}))
  BY KindsSound, OfferOf DEF KindArg
<1>3. SoundOffers(Offer("get_open_end_fund",
        {GetOpenEndFund(n, a) : a \in KindArg({"", "latest", "dealer", "highlight"})}))
  BY KindsSound, OfferOf DEF KindArg
<1>4. SoundOffers(Offer("get_gisa_board",
        {GetGisaBoard(n, a) : a \in KindArg({"", "company", "highlight", "financing"})}))
  BY KindsSound, OfferOf DEF KindArg
<1>5. SoundOffers(Offer("get_otc_governance",
        {GetOtcGovernanceSeries(n, a) : a \in [kind : GovernanceKindsListed]}))
  BY MopsTablesSound, OfferOf
<1>6. SoundOffers(Offer("get_otc_foreign_holdings_rank",
        {GetOtcForeignHoldingsRank(n, a) : a \in [view : {"", "rank", "industry"}]}))
  BY ViewsSound, OfferOf
<1>7. SoundOffers(Offer("get_otc_index", {GetOtcIndex(n, NoArgs)}))
  BY ListsSound, OfferOf
<1>8. SoundOffers(Offer("get_otc_odd_lot", {GetOtcOddLot(n, a) : a \in StockArg}))
  BY ListsSound, OfferOf
<1> QED BY <1>1, <1>2, <1>3, <1>4, <1>5, <1>6, <1>7, <1>8, UnionOffered,
      ZenonT(40) DEF OtcBoardTools

(* Financial statements:                                                   *)
LEMMA StatementToolsSound ==
  ASSUME NEW n
  PROVE  SoundOffers(StatementTools(n))
<1>1. SoundOffers(Offer("get_financial_statements",
        {GetFinancialStatements(n, a) : a \in [symbol : {"L"}, period : {""},
              statement : {"", "income", "balance", "cashflow"}, found : BOOLEAN]
                    \cup [symbol : {"L"}, period : {"2024Q1"}, statement : {"cashflow"},
                          found : BOOLEAN]}))
  <2>1. \A a \in [symbol : {"L"}, period : {""}, statement : {"", "income", "balance", "cashflow"},
          found : BOOLEAN] \cup [symbol : {"L"}, period : {"2024Q1"}, statement : {"cashflow"},
                found : BOOLEAN] : SoundPlan(GetFinancialStatements(n, a))
    BY OptionsSound
  <2> QED BY <2>1, OfferOf
<1>2. SoundOffers(Offer("get_monthly_revenue", {GetMonthlyRevenue(n, a) : a \in [symbol : Codes]}))
  BY CompanySound, OfferOf
<1>3. SoundOffers(Offer("get_financial_health_check",
        {GetFinancialHealthCheck(n, a) : a \in [symbol : Codes, found : BOOLEAN]}))
  BY HealthSound, OfferOf
<1>4. SoundOffers(Offer("get_valuation_ratios",
        {GetValuationRatios(n, a) : a \in [symbol : Codes, found : BOOLEAN]}))
  BY RatiosSound, OfferOf
<1>5. SoundOffers(Offer("get_otc_esg_report",
        {GetOtcEsgReport(n, a) : a \in [symbol : Codes, topic : {"", "2"}]}))
  BY TopicsSound, OfferOf
<1>6. SoundOffers(Offer("get_companies_with_refineries_in_populated_areas",
        {GetRefineriesPopulatedAreas(n)}))
  BY TopicsSound, OfferOf DEF GetRefineriesPopulatedAreas
<1>7. SoundOffers(Offer("get_company_balance_sheet",
        {GetCompanyBalanceSheet(n, a) : a \in [code : Codes]}))
  BY IndustriesSound, OfferOf
<1> QED BY <1>1, <1>2, <1>3, <1>4, <1>5, <1>6, <1>7, UnionOffered, ZenonT(40) DEF StatementTools

(* Governance:                                                             *)
LEMMA GovernanceToolsSound ==
  ASSUME NEW n
  PROVE  SoundOffers(GovernanceTools(n))
<1>1. {"board_insuff", "board_insuff_con", "board_pledged", "board_holdings",
      "ceo_dual_role", "insider_preann", "insider_untrans"}
       \subseteq PolicyTableMarket["calendar"]
  BY DEF PolicyTableMarket
<1>2. {"dir_comp_con", "sup_comp_con", "dir_comp"}
       \subseteq PolicyTableMarket["financials"]
  BY DEF PolicyTableMarket
<1>3. \A ds \in {"board_insuff", "board_insuff_con", "board_pledged",
               "board_holdings", "ceo_dual_role", "dir_comp_con",
               "sup_comp_con", "insider_preann", "insider_untrans", "dir_comp"} :
       Cacheable(ds, FALSE)
  BY <1>1, <1>2, ClassesAreCached
<1>4. /\ SoundOffers(EsgCompany(n, "get_company_board_info", "6"))
      /\ SoundOffers(ApiList(n, "get_company_board_insufficient_shares", "board_insuff"))
      /\ SoundOffers(ApiList(n, "get_company_board_insufficient_shares_consecutive",
            "board_insuff_con"))
      /\ SoundOffers(ApiList(n, "get_company_board_pledged_shares", "board_pledged"))
      /\ SoundOffers(ApiCompany(n, "get_company_board_shareholdings", "board_holdings"))
      /\ SoundOffers(ApiList(n, "get_company_ceo_dual_role", "ceo_dual_role"))
      /\ SoundOffers(ApiCompany(n, "get_company_consolidated_director_compensation",
            "dir_comp_con"))
      /\ SoundOffers(ApiCompany(n, "get_company_consolidated_supervisor_compensation",
            "sup_comp_con"))
      /\ SoundOffers(ApiCompany(n, "get_company_daily_insider_trades_preannounced",
            "insider_preann"))
      /\ SoundOffers(ApiCompany(n, "get_company_daily_insider_trades_untransferred",
            "insider_untrans"))
      /\ SoundOffers(ApiCompany(n, "get_company_director_compensation", "dir_comp"))
  BY <1>3, ListOffered, TopicOffered
<1> QED BY <1>4, UnionOffered, ZenonT(40) DEF GovernanceTools

(* Company reports:                                                        *)
LEMMA CompanyReportToolsSound ==
  ASSUME NEW n
  PROVE  SoundOffers(CompanyReportTools(n))
<1>1. {"major_shareholders", "supervisor_ack", "meeting_ann", "meeting_dates",
      "proposal_exercise", "fund_basic"}
       \subseteq PolicyTableMarket["calendar"]
  BY DEF PolicyTableMarket
<1>2. {"company_governance"}
       \subseteq PolicyTableRest["esg"]
  BY DEF PolicyTableRest
<1>3. {"profitability", "audit_variance", "forecast_achv"}
       \subseteq PolicyTableMarket["financials"]
  BY DEF PolicyTableMarket
<1>4. \A ds \in {"major_shareholders", "supervisor_ack", "company_governance",
               "profitability", "audit_variance", "forecast_achv",
               "meeting_ann", "meeting_dates", "proposal_exercise",
               "fund_basic"} :
       Cacheable(ds, FALSE)
  BY <1>1, <1>2, <1>3, ClassesAreCached
<1>5. /\ SoundOffers(EsgCompany(n, "get_company_governance_info", "9"))
      /\ SoundOffers(ApiCompany(n, "get_company_major_shareholders", "major_shareholders"))
      /\ SoundOffers(ApiCompany(n, "get_company_financial_reports_supervisor_acknowledgment",
            "supervisor_ack"))
      /\ SoundOffers(ApiCompany(n, "get_company_governance_regulations", "company_governance"))
      /\ SoundOffers(ApiCompany(n, "get_company_profitability_analysis", "profitability"))
      /\ SoundOffers(ApiCompany(n, "get_company_quarterly_audit_variance", "audit_variance"))
      /\ SoundOffers(ApiCompany(n, "get_company_quarterly_earnings_forecast_achievement",
            "forecast_achv"))
      /\ SoundOffers(ApiList(n, "get_company_shareholder_meeting_announcements", "meeting_ann"))
      /\ SoundOffers(ApiList(n, "get_company_shareholder_meeting_dates", "meeting_dates"))
      /\ SoundOffers(ApiList(n, "get_company_shareholder_proposal_exercise", "proposal_exercise"))
      /\ SoundOffers(ApiList(n, "get_fund_basic_info", "fund_basic"))
  BY <1>4, ListOffered, TopicOffered
<1>6. SoundOffers(Offer("get_company_profitability_analysis_summary",
        {GetProfitabilitySummary(n, a) : a \in [order_by : {"", "margin"},
              order_direction : {"", "asc"}]}))
  BY TopicsSound, OfferOf
<1> QED BY <1>5, <1>6, UnionOffered, ZenonT(40) DEF CompanyReportTools

(* Statements by industry:                                                 *)
LEMMA CompanyStatementToolsSound ==
  ASSUME NEW n
  PROVE  SoundOffers(CompanyStatementTools(n))
<1>1. {"pub_board_hold", "meeting_ann", "disclosure_vio"}
       \subseteq PolicyTableMarket["calendar"]
  BY DEF PolicyTableMarket
<1>2. {"supervisor_comp", "eps_stats"}
       \subseteq PolicyTableMarket["financials"]
  BY DEF PolicyTableMarket
<1>3. {"dividend"}
       \subseteq PolicyTableRest["dividend"]
  BY DEF PolicyTableRest
<1>4. \A ds \in {"pub_board_hold", "supervisor_comp", "meeting_ann", "dividend",
               "eps_stats", "disclosure_vio"} :
       Cacheable(ds, FALSE)
  BY <1>1, <1>2, <1>3, ClassesAreCached
<1>5. /\ SoundOffers(ApiCompany(n, "get_company_supervisor_compensation", "supervisor_comp"))
      /\ SoundOffers(ApiCompany(n, "get_company_shareholder_meeting_announcements_by_code",
            "meeting_ann"))
      /\ SoundOffers(ApiCompany(n, "get_company_dividend", "dividend"))
      /\ SoundOffers(ApiCompany(n, "get_company_eps_statistics", "eps_stats"))
      /\ SoundOffers(ApiCompany(n, "get_company_information_disclosure_violations",
            "disclosure_vio"))
  BY <1>4, ListOffered
<1>6. SoundOffers(Offer("get_public_company_board_shareholdings",
        {ApiCompanySpec(n, "pub_board_hold", TRUE, c) : c \in Codes \cup {"unlisted"}}))
  <2>1. \A c \in Codes \cup {"unlisted"} : SoundPlan(ApiCompanySpec(n, "pub_board_hold", TRUE, c))
    BY SpecsSound, <1>4
  <2> QED BY <2>1, OfferOf
<1>7. SoundOffers(Offer("get_public_company_income_statement",
        {GetPublicCompanyIncomeStatement(n, a) : a \in CodeArg}))
  BY IndustriesSound, OfferOf
<1>8. SoundOffers(Offer("get_public_company_balance_sheet",
        {GetPublicCompanyBalanceSheet(n, a) : a \in CodeArg}))
  BY IndustriesSound, OfferOf
<1>9. SoundOffers(Offer("get_company_income_statement",
        {GetCompanyIncomeStatement(n, a) : a \in [code : Codes]}))
  BY IndustriesSound, OfferOf
<1> QED BY <1>5, <1>6, <1>7, <1>8, <1>9, UnionOffered, ZenonT(40) DEF CompanyStatementTools

(* Sustainability:                                                         *)
LEMMA EsgToolsSound ==
  ASSUME NEW n
  PROVE  SoundOffers(EsgTools(n))
<1>1. SoundOffers(Offer("get_companies_with_anticompetitive_losses",
        {GetCompaniesWithAnticompetitiveLosses(n)}))
  BY TopicsSound, OfferOf DEF GetCompaniesWithAnticompetitiveLosses
<1>2. SoundOffers(Offer("get_companies_with_csr_reports_103", {GetCompaniesWithCSRReports103(n)}))
  BY NoSteps, PlanOf, OfferOf DEF GetCompaniesWithCSRReports103
<1>3. SoundOffers(Offer("get_companies_with_inclusive_finance_data",
        {GetCompaniesWithInclusiveFinance(n)}))
  BY TopicsSound, OfferOf DEF GetCompaniesWithInclusiveFinance
<1> DEFINE C == {EsgCompany(n, tool, EsgTopics[tool]) : tool \in DOMAIN EsgTopics}
           A == UNION C
           B == UNION {
    Offer("get_companies_with_anticompetitive_losses", {GetCompaniesWithAnticompetitiveLosses(n)}),
    Offer("get_companies_with_csr_reports_103", {GetCompaniesWithCSRReports103(n)}),
    Offer("get_companies_with_inclusive_finance_data", {GetCompaniesWithInclusiveFinance(n)}) }
<1>4. \A S \in C : SoundOffers(S)
  BY TopicOffered
<1>5. SoundOffers(B)
  BY <1>1, <1>2, <1>3, UnionOffered
<1>6. EsgTools(n) = A \cup B
  BY DEF EsgTools
<1> HIDE DEF C, B
<1>7. SoundOffers(A)
  BY <1>4, UnionOffered
<1> HIDE DEF A
<1> QED BY <1>5, <1>6, <1>7 DEF SoundOffers

(* Screens and the trend:                                                  *)
LEMMA ScreenToolsSound ==
  ASSUME NEW n
  PROVE  SoundOffers(ScreenTools(n))
<1>1. SoundOffers(Offer("get_company_profile", {GetCompanyProfile(n, a) : a \in [symbol : Codes]}))
  BY CompanySound, OfferOf
<1>2. SoundOffers(Offer("screen_stocks",
        {ScreenStocks(n, a) : a \in [market : {"", "tse", "otc"}, require_esg : BOOLEAN,
              sort : {"", "pe", "yield", "pb", "growth"}]}))
  <2>1. \A a \in [market : {"", "tse", "otc"}, require_esg : BOOLEAN,
          sort : {"", "pe", "yield", "pb", "growth"}] : SoundPlan(ScreenStocks(n, a))
    BY ScreensSound
  <2> QED BY <2>1, OfferOf
<1>3. SoundOffers(Offer("get_dividend_history",
        {GetDividendHistory(n, a) : a \in [symbol : Codes]}))
  BY CompanySound, OfferOf
<1>4. SoundOffers(Offer("get_exdividend_calendar", {GetExdividendCalendar(n)}))
  BY CompanySound, OfferOf
<1>5. SoundOffers(Offer("screen_high_yield",
        {ScreenHighYield(n, a) : a \in [market : {"", "tse", "otc"}, built : BOOLEAN]}))
  BY ScreensSound, OfferOf
<1>6. SoundOffers(Offer("get_stock_trend_composite",
        {GetStockTrendComposite(n, a) : a \in [symbol : Codes,
              horizon : {"", "short", "mid", "long"}]}))
  BY OptionsSound, OfferOf
<1> QED BY <1>1, <1>2, <1>3, <1>4, <1>5, <1>6, UnionOffered, ZenonT(40) DEF ScreenTools

(* Funds:                                                                  *)
LEMMA ETFToolsSound ==
  ASSUME NEW n
  PROVE  SoundOffers(ETFTools(n))
<1>1. SoundOffers(Offer("get_etf_nav", {GetETFNav(n, a) : a \in [symbol : MaybeFund, end : Dates]}))
  BY FundsSound, OfferOf
<1>2. SoundOffers(Offer("get_etf_dividend",
        {GetETFDividend(n, a) : a \in [symbol : MaybeFund, end : Dates]}))
  BY FundsSound, OfferOf
<1>3. SoundOffers(Offer("get_etf_performance", {GetETFPerformance(n, a) : a \in [symbol : Funds]}))
  BY FundsSound, OfferOf
<1>4. SoundOffers(Offer("get_etf_dividend_detail",
        {GetETFDividendDetail(n, a) : a \in [symbol : Funds, upcoming : {"all", "upcoming"}]}))
  BY FundsSound, OfferOf
<1> QED BY <1>1, <1>2, <1>3, <1>4, UnionOffered, ZenonT(40) DEF ETFTools

(* Futures:                                                                *)
LEMMA FuturesToolsSound ==
  ASSUME NEW n
  PROVE  SoundOffers(FuturesTools(n))
<1>1. SoundOffers(Offer("get_futures_daily_ohlc",
        {GetFuturesDailyOHLC(n, a) : a \in [contract : {"TX", "unknown"}, date : Dates]}))
  BY FuturesSound, OfferOf
<1>2. SoundOffers(Offer("get_daily_futures_market_report",
        {GetDailyFuturesMarketReport(n, a) : a \in [contract : {"", "TX"}, listed : BOOLEAN]}))
  BY FuturesSound, OfferOf
<1>3. SoundOffers(Offer("get_time_and_sales",
        {GetTimeAndSales(n, a) : a \in [market : {"", "futures", "options"}, date : Dates]}))
  BY FuturesSound, OfferOf
<1>4. SoundOffers(Offer("get_daily_options_market_report",
        {GetDailyOptionsMarketReport(n, a) : a \in [contract : {"", "TXO"}, listed : BOOLEAN,
              call_put : {"", "call", "put"}]}))
  <2>1. \A a \in [contract : {"", "TXO"}, listed : BOOLEAN,
          call_put : {"", "call", "put"}] : SoundPlan(GetDailyOptionsMarketReport(n, a))
    BY FuturesSound
  <2> QED BY <2>1, OfferOf
<1>5. SoundOffers(Offer("get_futures_history", {GetFuturesHistory(n, a) : a \in RangeArg}))
  BY HistoriesSound, RangeDays, OfferOf
<1>6. SoundOffers(Offer("get_futures_daily_history",
        {GetFuturesDailyHistory(n, a) : a \in RangeArg}))
  <2>1. ASSUME NEW a \in RangeArg PROVE SoundPlan(GetFuturesDailyHistory(n, a))
    <3> DEFINE b == [a EXCEPT !.contract = Or(a.contract, "TX")]
    <3>1. b.start = a.start /\ b.end = a.end
      BY DEF RangeArg
    <3> HIDE DEF b
    <3>2. SoundPlan(GetFuturesHistory(n, b))
      BY <3>1, RangeDays, HistoriesSound
    <3> QED BY <3>2 DEF GetFuturesDailyHistory, b
  <2> QED BY <2>1, OfferOf
<1>7. SoundOffers(Offer("get_put_call_ratio",
        {GetPutCallRatio(n, a) : a \in [date : {NoDay}, start : Dates, end : Days2]}))
  BY HistoriesSound, RangeDays, OfferOf
<1>8. SoundOffers(Offer("get_annual_trading_volume",
        {GetAnnualTradingVolume(n, a) : a \in ContractArg}))
  BY FuturesSound, OfferOf
<1>9. SoundOffers(Offer("get_monthly_trading_statistics", {GetMonthlyTradingStatistics(n)}))
  BY FuturesSound, OfferOf
<1> QED BY <1>1, <1>2, <1>3, <1>4, <1>5, <1>6, <1>7, <1>8, <1>9, UnionOffered,
      ZenonT(40) DEF FuturesTools

(* Positions:                                                              *)
LEMMA PositionToolsSound ==
  ASSUME NEW n
  PROVE  SoundOffers(PositionTools(n))
<1>1. SoundOffers(Offer("get_large_trader_positions",
        {GetLargeTraderPositions(n, a) : a \in [date : {NoDay}, start : Dates, end : Days2]}))
  BY HistoriesSound, RangeDays, OfferOf
<1>2. SoundOffers(Offer("get_institutional_futures_positions",
        {GetInstitutionalFuturesPositions(n, a) : a \in DateArg}))
  BY PositionsSound, OfferOf
<1>3. SoundOffers(Offer("get_institutional_options_positions",
        {GetInstitutionalOptionsPositions(n, a) : a \in DateArg}))
  BY PositionsSound, OfferOf
<1>4. SoundOffers(Offer("get_futures_institutional",
        {GetFuturesInstitutional(n, a) : a \in DateArg}))
  BY PositionsSound, OfferOf
<1>5. SoundOffers(Offer("get_insti_weekly",
        {GetInstiWeekly(n, a) : a \in TaifexKind({"", "general", "fut_opt", "fut_contracts",
              "opt_contracts", "calls_puts"})}))
  BY ReportKindsSound, OfferOf DEF TaifexKind
<1>6. SoundOffers(Offer("get_final_settlement_price",
        {GetFinalSettlementPrice(n, a) : a \in TaifexKind({"", "all", "futures", "index_futures",
              "ssf", "index_options", "fx", "gold", "ir", "options", "sso"})}))
  BY ReportKindsSound, OfferOf DEF TaifexKind
<1>7. SoundOffers(Offer("get_settled_positions",
        {GetSettledPositions(n, a) : a \in TaifexKind({"", "all", "futures", "index_options", "fx",
              "fx_futures", "gold", "ir", "index_futures", "options", "ssf", "sso"})}))
  BY ReportKindsSound, OfferOf DEF TaifexKind
<1>8. SoundOffers(Offer("get_taifex_block_trade",
        {GetTaifexBlockTrade(n, a) : a \in TaifexKind({"", "all", "futures", "options",
              "summary_futures", "summary_options"})}))
  BY ReportKindsSound, OfferOf DEF TaifexKind
<1> QED BY <1>1, <1>2, <1>3, <1>4, <1>5, <1>6, <1>7, <1>8, UnionOffered,
      ZenonT(40) DEF PositionTools

(* The derivatives exchange:                                               *)
LEMMA ExchangeToolsSound ==
  ASSUME NEW n
  PROVE  SoundOffers(ExchangeTools(n))
<1>1. SoundOffers(Offer("get_stock_futures_stats",
        {GetStockFuturesStats(n, a) : a \in TaifexKind({"", "daily", "monthly", "yearly",
              "oi_daily"})}))
  BY ReportKindsSound, OfferOf DEF TaifexKind
<1>2. SoundOffers(Offer("get_ssf_overview",
        {GetSSFOverview(n, a) : a \in TaifexKind({"", "ssf_list", "top10", "sso_list"})}))
  BY ReportKindsSound, OfferOf DEF TaifexKind
<1>3. SoundOffers(Offer("get_fx_margin", {GetFxMargin(n, a) : a \in DateArg}))
  BY PositionsSound, OfferOf
<1>4. SoundOffers(Offer("get_ir_margin", {GetIrMargin(n, a) : a \in DateArg}))
  BY PositionsSound, OfferOf
<1>5. SoundOffers(Offer("get_gold_margin", {GetGoldMargin(n, a) : a \in DateArg}))
  BY PositionsSound, OfferOf
<1>6. SoundOffers(Offer("get_etf_margin", {GetEtfMargin(n, a) : a \in DateArg}))
  BY PositionsSound, OfferOf
<1>7. SoundOffers(Offer("get_fcm_profiles",
        {GetFcmProfiles(n, a) : a \in TaifexKind({"", "lists", "branch", "netvalue", "income",
              "accumulated"})}))
  BY ReportKindsSound, OfferOf DEF TaifexKind
<1>8. SoundOffers(Offer("get_position_limits",
        {GetPositionLimits(n, a) : a \in TaifexKind({"", "equity", "non_equity"})}))
  BY ReportKindsSound, OfferOf DEF TaifexKind
<1>9. SoundOffers(Offer("get_contract_adjust",
        {GetContractAdjust(n, a) : a \in TaifexKind({"", "adjust", "adjusted", "fee"})}))
  BY ReportKindsSound, OfferOf DEF TaifexKind
<1>10. SoundOffers(Offer("get_acceptable_collateral",
        {GetAcceptableCollateral(n, a) : a \in TaifexKind({"", "stock", "bond", "international",
              "log"})}))
  BY ReportKindsSound, OfferOf DEF TaifexKind
<1>11. SoundOffers(Offer("get_fx_rate", {GetFxRate(n)}))
  BY FuturesSound, OfferOf
<1>12. SoundOffers(Offer("get_e_trade_qty", {GetETradeQty(n)}))
  BY FuturesSound, OfferOf
<1> QED BY <1>1, <1>2, <1>3, <1>4, <1>5, <1>6, <1>7, <1>8, <1>9, <1>10, <1>11, <1>12, UnionOffered,
      ZenonT(40) DEF ExchangeTools

(* Futures merchants:                                                      *)
LEMMA MerchantToolsSound ==
  ASSUME NEW n
  PROVE  SoundOffers(MerchantTools(n))
<1>1. SoundOffers(Offer("get_market_maker_cm_lists",
        {GetMarketMakerCmLists(n, a) : a \in TaifexKind({"", "mm_fut", "mm_opt", "cm", "bank",
              "ccp_cm"})}))
  BY ReportKindsSound, OfferOf DEF TaifexKind
<1>2. SoundOffers(Offer("get_fcm_volume_reports",
        {GetFcmVolumeReports(n, a) : a \in [freq : {"", "daily", "weekly", "monthly", "yearly"},
              market : {"", "fut", "opt"}]}))
  BY ReportKindsSound, OfferOf
<1>3. SoundOffers(Offer("get_calendar_spread_trades",
        {GetCalendarSpreadTrades(n, a) : a \in TaifexKind({"", "summary", "tick"})}))
  BY ReportKindsSound, OfferOf DEF TaifexKind
<1>4. SoundOffers(Offer("get_index_futures_margin",
        {GetIndexFuturesMargin(n, a) : a \in ContractArg}))
  BY PositionsSound, OfferOf
<1>5. SoundOffers(Offer("get_institutional_fut_opt_split_history",
        {GetInstitutionalFutOptSplitHistory(n, a) : a \in RangeArg}))
  BY HistoriesSound, RangeDays, OfferOf
<1>6. SoundOffers(Offer("get_institutional_general",
        {GetInstitutionalGeneral(n, a) : a \in DateArg}))
  BY PositionsSound, OfferOf
<1>7. SoundOffers(Offer("get_institutional_total_history",
        {GetInstitutionalTotalHistory(n, a) : a \in RangeArg}))
  BY HistoriesSound, RangeDays, OfferOf
<1>8. SoundOffers(Offer("get_institutional_traders_by_futures",
        {GetInstitutionalTradersByFutures(n, a) : a \in [code : {"", "TX"}, date : {NoDay}]}))
  BY PositionsSound, OfferOf
<1>9. SoundOffers(Offer("get_institutional_traders_by_futures_history",
        {GetInstitutionalTradersByFuturesHistory(n, a) : a \in RangeArg}))
  BY HistoriesSound, RangeDays, OfferOf
<1> QED BY <1>1, <1>2, <1>3, <1>4, <1>5, <1>6, <1>7, <1>8, <1>9, UnionOffered,
      ZenonT(40) DEF MerchantTools

(* Options:                                                                *)
LEMMA OptionsToolsSound ==
  ASSUME NEW n
  PROVE  SoundOffers(OptionsTools(n))
<1>1. SoundOffers(Offer("get_large_traders_futures_history",
        {GetLargeTradersFuturesHistory(n, a) : a \in RangeArg}))
  BY HistoriesSound, RangeDays, OfferOf
<1>2. SoundOffers(Offer("get_large_traders_futures_oi",
        {GetLargeTradersFuturesOI(n, a) : a \in ContractArg}))
  BY FuturesSound, OfferOf
<1>3. SoundOffers(Offer("get_large_traders_options_oi",
        {GetLargeTradersOptionsOI(n, a) : a \in ContractArg}))
  BY FuturesSound, OfferOf
<1>4. SoundOffers(Offer("get_options_daily_history",
        {GetOptionsDailyHistory(n, a) : a \in RangeArg}))
  BY HistoriesSound, RangeDays, OfferOf
<1>5. SoundOffers(Offer("get_options_delta", {GetOptionsDelta(n, NoArgs)}))
  BY FuturesSound, OfferOf
<1>6. SoundOffers(Offer("get_options_oi_change", {GetOptionsOIChange(n, NoArgs)}))
  BY FuturesSound, OfferOf
<1>7. SoundOffers(Offer("get_options_institutional_by_contract_history",
        {GetOptionsInstiByContractHistory(n, a) : a \in RangeArg}))
  BY HistoriesSound, RangeDays, OfferOf
<1>8. SoundOffers(Offer("get_options_institutional_calls_puts_history",
        {GetOptionsInstiCallsPutsHistory(n, a) : a \in RangeArg}))
  BY HistoriesSound, RangeDays, OfferOf
<1>9. SoundOffers(Offer("get_stock_futures_margin", {GetStockFuturesMargin(n, a) : a \in CodeArg}))
  BY PositionsSound, OfferOf
<1> QED BY <1>1, <1>2, <1>3, <1>4, <1>5, <1>6, <1>7, <1>8, <1>9, UnionOffered,
      ZenonT(40) DEF OptionsTools

(* The symbols and the calendar:                                           *)
LEMMA CalendarToolsSound ==
  ASSUME NEW n
  PROVE  SoundOffers(CalendarTools(n))
<1>1. SoundOffers(Offer("get_institutional_traders_by_options",
        {GetInstitutionalTradersByOptions(n, a) : a \in [code : {"", "TX"}, date : {NoDay}]}))
  BY PositionsSound, OfferOf
<1>2. SoundOffers(Offer("get_institutional_traders_calls_puts",
        {GetInstitutionalTradersCallsPuts(n, NoArgs)}))
  BY PositionsSound, OfferOf
<1>3. SoundOffers(Offer("get_institutional_futures_history",
        {GetInstitutionalFuturesHistory(n, a) : a \in RangeArg}))
  BY HistoriesSound, RangeDays, OfferOf
<1>4. SoundOffers(Offer("get_symbol_list",
        {GetSymbolList(n, a) : a \in [market : {"", "tse", "otc"}]}))
  BY PositionsSound, OfferOf
<1>5. SoundOffers(Offer("get_trading_calendar", {GetTradingCalendar(n)}))
  BY PositionsSound, OfferOf
<1> QED BY <1>1, <1>2, <1>3, <1>4, <1>5, UnionOffered, ZenonT(40) DEF CalendarTools

(* Brokers:                                                                *)
LEMMA BrokerToolsSound ==
  ASSUME NEW n
  PROVE  SoundOffers(BrokerTools(n))
<1>1. \A tool \in DOMAIN BrokerTables : BrokerTables[tool] \in PolicyTableMarket["calendar"]
  BY DEF BrokerTables, PolicyTableMarket
<1>2. \A tool \in DOMAIN BrokerTables : SoundOffers(ApiList(n, tool, BrokerTables[tool]))
  BY <1>1, ClassesAreCached, ListOffered
<1> QED BY <1>2, UnionOffered DEF BrokerTools

(* The whole registry: at any time of any day, and for every argument the  *)
(* schemas allow, a tool's plan reads tables that have a cache policy,     *)
(* names the row type their normaliser makes, and refuses no value of an   *)
(* enum.                                                                   *)
THEOREM RegistrySound ==
  ASSUME NEW n
  PROVE  SoundOffers(Registry(n))
<1>1. /\ SoundOffers(QuoteTools(n)) /\ SoundOffers(BlockTradeTools(n)) /\
            SoundOffers(NoticeTools(n))
      /\ SoundOffers(MarketHistoryTools(n)) /\ SoundOffers(CompanyChangeTools(n))
      /\ SoundOffers(IndexTools(n)) /\ SoundOffers(NewsTools(n)) /\
            SoundOffers(IndexHistoryTools(n))
  BY QuoteToolsSound, BlockTradeToolsSound, NoticeToolsSound, MarketHistoryToolsSound,
     CompanyChangeToolsSound, IndexToolsSound, NewsToolsSound, IndexHistoryToolsSound
<1>2. /\ SoundOffers(EmergingTools(n)) /\ SoundOffers(OtcIndexTools(n)) /\
            SoundOffers(OtcTableTools(n))
      /\ SoundOffers(OtcBoardTools(n)) /\ SoundOffers(StatementTools(n)) /\
            SoundOffers(GovernanceTools(n))
      /\ SoundOffers(CompanyReportTools(n)) /\ SoundOffers(CompanyStatementTools(n))
  BY EmergingToolsSound, OtcIndexToolsSound, OtcTableToolsSound, OtcBoardToolsSound,
     StatementToolsSound, GovernanceToolsSound, CompanyReportToolsSound, CompanyStatementToolsSound
<1>3. /\ SoundOffers(EsgTools(n)) /\ SoundOffers(ScreenTools(n)) /\ SoundOffers(ETFTools(n))
      /\ SoundOffers(BrokerTools(n)) /\ SoundOffers(FuturesTools(n)) /\
            SoundOffers(PositionTools(n))
      /\ SoundOffers(ExchangeTools(n)) /\ SoundOffers(MerchantTools(n))
      /\ SoundOffers(OptionsTools(n)) /\ SoundOffers(CalendarTools(n))
  BY EsgToolsSound, ScreenToolsSound, ETFToolsSound, BrokerToolsSound, FuturesToolsSound,
     PositionToolsSound, ExchangeToolsSound, MerchantToolsSound, OptionsToolsSound,
           CalendarToolsSound
<1> QED BY <1>1, <1>2, <1>3, UnionOffered, ZenonT(40) DEF Registry

-----------------------------------------------------------------------------
(* The plans of all calls a client may make while the clock runs, the asks *)
(* they make, and the steps these can be put together to.                  *)
Plans == {o.plan : o \in UNION {Registry(n) : n \in Nows}}
Asks == UNION {AsksOf(p) : p \in Plans}
Rows == {a.row : a \in Asks}
Steps == [asks : Seq(Asks) \ {<<>>}, how : Regimes, told : BOOLEAN, miss : BOOLEAN, after : Nat]

(* The soundness of the registry, plan by plan, ...                        *)
LEMMA PlansAreSound == \A p \in Plans : SoundPlan(p)
BY RegistrySound DEF Plans, SoundOffers

(* ... ask by ask, ...                                                     *)
LEMMA AsksAreSound == \A a \in Asks : SoundAsk(a)
<1> SUFFICES ASSUME NEW p \in Plans, NEW a \in AsksOf(p) PROVE SoundAsk(a)
  BY DEF Asks
<1>1. PICK i \in DOMAIN p.steps : \E j \in DOMAIN p.steps[i].asks : a = p.steps[i].asks[j]
  BY DEF AsksOf
<1>2. SoundStep(p.steps[i])
  BY PlansAreSound DEF SoundPlan, SoundSteps, Held
<1> QED BY <1>1, <1>2 DEF SoundStep, Held

(* ... and as the type of what a handler walks through.                    *)
LEMMA PlanSteps ==
  ASSUME NEW p \in Plans
  PROVE  p.steps \in Seq(Steps) /\ p.refused \in {"no", "symbol", "argument", "pair"}
<1>1. SoundSteps(p.steps) /\ p.refused \in {"no", "symbol", "argument", "pair"}
  BY PlansAreSound DEF SoundPlan
<1>2. ASSUME NEW s \in Held(p.steps) PROVE s \in Steps
  <2>1. SoundStep(s)
    BY <1>1 DEF SoundSteps
  <2>2. Held(s.asks) \subseteq Asks
    BY DEF Held, Asks, AsksOf
  <2>3. s.asks \in Seq(Asks)
    BY <2>1, <2>2 DEF SoundStep
  <2> QED BY <2>1, <2>3 DEF SoundStep, Steps
<1>3. p.steps \in Seq(Held(p.steps)) /\ Held(p.steps) \subseteq Steps
  BY <1>1, <1>2 DEF SoundSteps
<1> DEFINE S == Held(p.steps)
<1>4. p.steps \in Seq(S) /\ S \subseteq Steps
  BY <1>3
<1> HIDE DEF S
<1>5. p.steps \in Seq(Steps)
  BY <1>4
<1> QED BY <1>1, <1>5

-----------------------------------------------------------------------------
(* A handler's course.                                                     *)

(* Where a handler may stand: before its first step, or at a place.        *)
Standings(steps) ==
  [pc : {"read"}, steps : {steps}, step : 0..Len(steps), idx : Nat, hits : BOOLEAN,
        got : SUBSET DOMAIN steps]
Later(x, r) == x.step > r.step \/ (x.step = r.step /\ x.idx > r.idx)
Ahead(steps, r) == {x \in Seats(steps) : x.pc = "read" => Later(x, r)}

(* A step has asks, at positions that are numbers.                         *)
LEMMA StepFacts ==
  ASSUME NEW steps \in Seq(Steps), NEW i \in DOMAIN steps
  PROVE  /\ steps[i] \in Steps /\ steps[i].asks \in Seq(Asks) /\ steps[i].asks # <<>>
         /\ Len(steps[i].asks) \in Nat \ {0} /\ DOMAIN steps[i].asks = 1..Len(steps[i].asks)
<1>1. steps[i] \in Steps
  OBVIOUS
<1>2. steps[i].asks \in Seq(Asks) \ {<<>>}
  BY <1>1 DEF Steps
<1> QED BY <1>1, <1>2, EmptySeq, LenProperties

(* A place is a standing, at an ask of one of the plan's steps.            *)
LEMMA PlaceShape ==
  ASSUME NEW steps \in Seq(Steps), NEW r
  PROVE  r \in Places(steps) <=> /\ r \in Standings(steps) /\ r.step \in DOMAIN steps
                                 /\ r.idx \in DOMAIN steps[r.step].asks
<1>1. DOMAIN steps = 1..Len(steps) /\ Len(steps) \in Nat
  OBVIOUS
<1>2. \A i \in DOMAIN steps : steps[i].asks \in Seq(Asks) /\ DOMAIN steps[i].asks \subseteq Nat
  BY StepFacts
<1> QED BY <1>1, <1>2 DEF Places, Standings

(* What stands at a place.                                                 *)
LEMMA PlaceFacts ==
  ASSUME NEW steps \in Seq(Steps), NEW r \in Places(steps)
  PROVE  /\ r.pc = "read" /\ r.steps = steps /\ r \in Standings(steps)
         /\ CurrentStep(r) = steps[r.step] /\ CurrentStep(r) \in Steps
         /\ CurrentAsk(r) \in Asks
         /\ r.idx \in 1..Len(CurrentStep(r).asks) /\ Len(CurrentStep(r).asks) \in Nat
         /\ r.step \in 1..Len(steps)
<1>1. r \in Standings(steps) /\ r.step \in DOMAIN steps /\ r.idx \in DOMAIN steps[r.step].asks
  BY PlaceShape
<1>2. steps[r.step] \in Steps
  BY <1>1
<1>3. steps[r.step].asks \in Seq(Asks)
  BY <1>2 DEF Steps
<1> QED BY <1>1, <1>2, <1>3 DEF Standings, CurrentStep, CurrentAsk

(* The next step is the end of the plan or the first ask of a later step.  *)
LEMMA NextStepAhead ==
  ASSUME NEW steps \in Seq(Steps), NEW r \in Standings(steps)
  PROVE  /\ NextStep(r) \in Seats(steps)
         /\ NextStep(r).pc = "read" => NextStep(r).step > r.step
<1> DEFINE skipped(i) == r.steps[i].after # 0 /\ r.steps[i].after \notin r.got
           rest == {i \in r.step + 1..Len(r.steps) : ~skipped(i)}
<1>1. CASE rest = {}
  <2>1. NextStep(r) = End("answer")
    BY <1>1 DEF NextStep
  <2> QED BY <2>1 DEF Seats, End
<1>2. CASE rest # {}
  <2> DEFINE i == CHOOSE i \in rest : \A j \in rest : i <= j
             x == [r EXCEPT !.step = i, !.idx = 1, !.hits = FALSE]
  <2>1. r.steps = steps /\ Len(steps) \in Nat /\ r.step \in Nat /\ DOMAIN steps = 1..Len(steps)
    BY DEF Standings
  <2>2. rest \subseteq Nat /\ rest \subseteq r.step + 1..Len(steps)
    BY <2>1
  <2> HIDE DEF rest
  <2>3. i \in rest
    <3>1. \E m \in rest : \A j \in rest : m <= j
      BY <1>2, <2>2, LeastNumber
    <3> QED BY <3>1
  <2>4. NextStep(r) = x
    BY <1>2 DEF NextStep, rest
  <2> HIDE DEF i
  <2>5. i \in 1..Len(steps) /\ i > r.step
    BY <2>1, <2>2, <2>3
  <2>6. 1 \in DOMAIN steps[i].asks
    <3>1. i \in DOMAIN steps
      BY <2>1, <2>5
    <3> QED BY <3>1, StepFacts
  <2>7. x \in Standings(steps) /\ x.step = i /\ x.idx = 1 /\ x.pc = "read"
    <3>1. i \in 0..Len(steps) /\ 1 \in Nat /\ i \in Nat
      BY <2>1, <2>5
    <3>2. x = [r EXCEPT !.step = i, !.idx = 1, !.hits = FALSE]
      OBVIOUS
    <3> HIDE DEF x
    <3> QED BY <3>1, <3>2 DEF Standings
  <2>8. x \in Places(steps)
    BY <2>1, <2>5, <2>6, <2>7, PlaceShape
  <2> QED BY <2>4, <2>5, <2>7, <2>8 DEF Seats
<1> QED BY <1>1, <1>2

(* After a step comes a later one, or the end.                             *)
LEMMA StepDoneAhead ==
  ASSUME NEW steps \in Seq(Steps), NEW r \in Places(steps), NEW rows \in BOOLEAN
  PROVE  StepDone(r, rows) \subseteq Ahead(steps, r)
<1> DEFINE awaited == \E j \in DOMAIN r.steps : r.steps[j].after = r.step
           s == [r EXCEPT !.got = IF rows /\ awaited THEN @ \cup {r.step} ELSE @]
<1>1. r \in Standings(steps) /\ r.step \in DOMAIN steps /\ r.idx \in Nat /\ r.step \in Nat
  BY PlaceFacts DEF Standings
<1>2. s \in Standings(steps) /\ s.step = r.step
  BY <1>1 DEF Standings
<1>3. StepDone(r, rows) \subseteq {NextStep(s), End("error")}
  BY DEF StepDone
<1> HIDE DEF s
<1>4. NextStep(s) \in Seats(steps) /\ (NextStep(s).pc = "read" => NextStep(s).step > r.step)
  BY <1>2, NextStepAhead
<1>5. End("error") \in Seats(steps) /\ End("error").pc = "error"
  BY DEF Seats, End
<1> QED BY <1>1, <1>3, <1>4, <1>5 DEF Ahead, Later

(* After an ask that is not the last comes the next of the step.           *)
LEMMA NextAskAhead ==
  ASSUME NEW steps \in Seq(Steps), NEW r \in Places(steps), ~LastAsk(r)
  PROVE  NextAsk(r) \in Ahead(steps, r)
<1>1. /\ r \in Standings(steps) /\ r.step \in DOMAIN steps /\ r.idx \in DOMAIN steps[r.step].asks
      /\ r.idx \in 1..Len(CurrentStep(r).asks) /\ Len(CurrentStep(r).asks) \in Nat
      /\ CurrentStep(r) = steps[r.step]
  BY PlaceFacts, PlaceShape
<1>2. r.idx + 1 \in DOMAIN steps[r.step].asks /\ r.idx \in Nat
  <2>1. DOMAIN steps[r.step].asks = 1..Len(steps[r.step].asks)
    BY <1>1, StepFacts
  <2> QED BY <1>1, <2>1 DEF LastAsk
<1>3. NextAsk(r) \in Standings(steps) /\ NextAsk(r).step = r.step /\ NextAsk(r).idx = r.idx + 1
  BY <1>1, <1>2 DEF NextAsk, Standings
<1>4. NextAsk(r) \in Places(steps)
  BY <1>1, <1>2, <1>3, PlaceShape
<1> QED BY <1>2, <1>3, <1>4 DEF Ahead, Later, Seats

(* Whatever an ask gives, the handler goes on to a later ask or ends.      *)
THEOREM CourseAhead ==
  ASSUME NEW steps \in Seq(Steps), NEW r \in Places(steps)
  PROVE  GotRows(r) \subseteq Ahead(steps, r) /\ GotNone(r) \subseteq Ahead(steps, r)
<1> DEFINE how == CurrentStep(r).how
           hit == IF how \in {"some", "seek"} THEN [r EXCEPT !.hits = TRUE] ELSE r
<1>1. r \in Standings(steps) /\ how \in Regimes
  <2>1. r \in Standings(steps) /\ CurrentStep(r) \in Steps
    BY PlaceFacts
  <2> QED BY <2>1 DEF Steps
<1>2. hit \in Standings(steps) /\ hit.step = r.step /\ hit.idx = r.idx
  BY <1>1 DEF Standings
<1>3. hit \in Places(steps)
  BY <1>2, PlaceShape
<1>4. CurrentStep(hit) = CurrentStep(r) /\ (LastAsk(hit) <=> LastAsk(r)) /\
        Ahead(steps, hit) = Ahead(steps, r)
  <2>1. CurrentStep(hit) = CurrentStep(r)
    <3>1. CurrentStep(hit) = steps[hit.step] /\ CurrentStep(r) = steps[r.step]
      <4> HIDE DEF hit
      <4> QED BY <1>3, PlaceFacts
    <3> QED BY <1>2, <3>1
  <2> QED BY <1>2, <2>1 DEF LastAsk, Ahead, Later
<1>5. \A e \in {"answer", "error", "hollow"} : End(e) \in Ahead(steps, r)
  BY DEF Ahead, Seats, End
<1> DEFINE fr == StepDone(hit, TRUE)
           fn == StepDone(hit, FALSE)
           na == NextAsk(hit)
<1>6. fr \subseteq Ahead(steps, r) /\ fn \subseteq Ahead(steps, r)
  BY <1>3, <1>4, StepDoneAhead
<1>7. ~LastAsk(r) => na \in Ahead(steps, r)
  BY <1>3, <1>4, NextAskAhead
<1>8. GotRows(r) \subseteq Ahead(steps, r)
  <2> DEFINE ends == CASE how = "scan" -> {End("error")}
                       [] how \in {"seek", "hunt"} -> fn
                       [] OTHER -> {}
  <2>1. ends \subseteq Ahead(steps, r)
    BY <1>5, <1>6
  <2>2. GotRows(r) = IF ~LastAsk(r) THEN {na} \cup IF how \in {"scan", "seek", "hunt"} THEN fr
          ELSE {}
                     ELSE fr \cup ends
    BY DEF GotRows
  <2> HIDE DEF ends, fr, na
  <2> QED BY <2>1, <2>2, <1>6, <1>7
<1>9. GotNone(r) \subseteq Ahead(steps, r)
  <2>1. \A b \in BOOLEAN : StepDone(r, b) \subseteq Ahead(steps, r)
    BY StepDoneAhead
  <2>2. ~LastAsk(r) => NextAsk(r) \in Ahead(steps, r)
    BY NextAskAhead
  <2> QED BY <1>1, <1>5, <2>1, <2>2 DEF GotNone, Regimes
<1> QED BY <1>8, <1>9

(* Where a handler may go from a seat, and what its ways are when those of *)
(* the seats it may go to are w.                                           *)
Succ(r) == IF r.pc = "read" THEN GotRows(r) \cup GotNone(r) ELSE {}
Unfold(w, r, k) ==
  IF r.pc # "read" THEN {r}
  ELSE LET rows == UNION {w[x] : x \in GotRows(r)}
           none == UNION {w[x] : x \in GotNone(r)}
       IN  IF Follows(r, k)
           THEN {[pc |-> "read", ask |-> CurrentAsk(r), told |-> CurrentStep(r).told,
                  rows |-> rows, none |-> none]}
           ELSE rows \cup none

(* A seat is a place or an end.                                            *)
LEMMA SeatCases ==
  ASSUME NEW steps, NEW r \in Seats(steps)
  PROVE  \/ r \in Places(steps) /\ r.pc = "read"
         \/ r.pc \in {"answer", "error", "hollow"} /\ r = End(r.pc) /\ r.pc # "read"
<1>1. CASE r \in Places(steps)
  BY <1>1 DEF Places
<1>2. CASE r \in {End(how) : how \in {"answer", "error", "hollow"}}
  BY <1>2 DEF End
<1> QED BY <1>1, <1>2 DEF Seats

(* A handler never comes back: among any seats there is one that leads to  *)
(* none of the others, the last place of the last step, or an end.         *)
LEMMA LastSeat ==
  ASSUME NEW steps \in Seq(Steps), NEW T \in SUBSET Seats(steps), T # {}
  PROVE  \E r \in T : \A x \in Succ(r) : x \in Seats(steps) /\ x \notin T
<1>1. CASE \E r \in T : r.pc # "read"
  BY <1>1 DEF Succ
<1>2. CASE \A r \in T : r.pc = "read"
  <2>1. \A r \in T : r \in Places(steps)
    BY <1>2, SeatCases
  <2>2. \A r \in T : r.step \in 1..Len(steps)
    BY <2>1, PlaceFacts
  <2>3. PICK q \in T : \A r \in T : r.step <= q.step
    <3> DEFINE U == {r.step : r \in T}
    <3>1. Len(steps) \in Nat /\ U \subseteq 0..Len(steps) /\ U # {}
      BY <2>2
    <3>2. \E m \in U : \A n \in U : n <= m
      <4> HIDE DEF U
      <4> QED BY <3>1, GreatestNumber
    <3> QED BY <3>2
  <2> DEFINE L == Len(steps[q.step].asks)
             V == {r \in T : r.step = q.step}
  <2>4. \A r \in V : r.idx \in 0..L /\ L \in Nat
    <3> SUFFICES ASSUME NEW r \in V PROVE r.idx \in 0..L /\ L \in Nat
      OBVIOUS
    <3>1. r \in Places(steps) /\ r.step = q.step
      BY <2>1
    <3>2. r.idx \in 1..Len(CurrentStep(r).asks) /\ Len(CurrentStep(r).asks) \in Nat /\
            CurrentStep(r) = steps[r.step]
      BY <3>1, PlaceFacts
    <3> QED BY <3>1, <3>2
  <2>5. PICK p \in V : \A r \in V : r.idx <= p.idx
    <3> DEFINE U == {r.idx : r \in V}
    <3>1. L \in Nat /\ U \subseteq 0..L /\ U # {}
      BY <2>4
    <3>2. \E m \in U : \A n \in U : n <= m
      <4> HIDE DEF U, L
      <4> QED BY <3>1, GreatestNumber
    <3> QED BY <3>2
  <2>6. \A x \in Succ(p) : x \in Ahead(steps, p)
    <3>1. p \in Places(steps)
      BY <2>1
    <3> QED BY <3>1, CourseAhead DEF Succ
  <2>7. ASSUME NEW x \in Succ(p), x \in T PROVE FALSE
    <3>1. x.pc = "read" /\ Later(x, p) /\ p.step = q.step
      BY <1>2, <2>6, <2>7 DEF Ahead
    <3>2. x.step <= q.step /\ x.step \in Nat /\ q.step \in Nat
      BY <2>2, <2>3, <2>7
    <3>3. x.step = p.step /\ x.idx > p.idx
      BY <3>1, <3>2 DEF Later
    <3>4. x \in V
      BY <2>7, <3>1, <3>3
    <3> QED BY <2>4, <2>5, <3>3, <3>4
  <2> QED BY <2>6, <2>7 DEF Ahead
<1> QED BY <1>1, <1>2

(* What unfolding reads are the ways of the seats one may go to.           *)
LEMMA UnfoldLocal ==
  ASSUME NEW w, NEW h, NEW r, NEW k, \A x \in Succ(r) : w[x] = h[x]
  PROVE  Unfold(w, r, k) = Unfold(h, r, k)
<1>1. CASE r.pc # "read"
  BY <1>1 DEF Unfold
<1>2. CASE r.pc = "read"
  <2>1. /\ UNION {w[x] : x \in GotRows(r)} = UNION {h[x] : x \in GotRows(r)}
        /\ UNION {w[x] : x \in GotNone(r)} = UNION {h[x] : x \in GotNone(r)}
    BY <1>2 DEF Succ
  <2> QED BY <1>2, <2>1 DEF Unfold
<1> QED BY <1>1, <1>2

(* The recursive function of Ways exists: its equation has one solution on *)
(* any set of seats that nothing leads out of, and these fit together.     *)
LEMMA WaysUnfold ==
  ASSUME NEW steps \in Seq(Steps), NEW k
  PROVE  \A r \in Seats(steps) : Ways(steps, k)[r] = Unfold(Ways(steps, k), r, k)
<1> DEFINE S == Seats(steps)
           Good(g) == /\ DOMAIN g \subseteq S
                      /\ \A y \in DOMAIN g : Succ(y) \subseteq DOMAIN g /\ g[y] = Unfold(g, y, k)
           Val(y, v) == \E g : Good(g) /\ y \in DOMAIN g /\ g[y] = v
           f == [y \in S |-> CHOOSE v : Val(y, v)]
           H == {y \in S : \E g : Good(g) /\ y \in DOMAIN g}
<1>1. ASSUME NEW g, NEW h, Good(g), Good(h), NEW y \in DOMAIN g, y \in DOMAIN h PROVE g[y] = h[y]
  <2> DEFINE T == {z \in DOMAIN g \cap DOMAIN h : g[z] # h[z]}
  <2>1. CASE T = {}
    BY <2>1, <1>1
  <2>2. CASE T # {}
    <3>1. T \in SUBSET Seats(steps)
      BY <1>1
    <3>2. PICK r \in T : \A x \in Succ(r) : x \notin T
      <4> HIDE DEF T
      <4> QED BY <2>2, <3>1, LastSeat
    <3>3. \A x \in Succ(r) : g[x] = h[x]
      BY <3>2, <1>1
    <3>4. Unfold(g, r, k) = Unfold(h, r, k)
      BY <3>3, UnfoldLocal
    <3> QED BY <3>4, <1>1
  <2> QED BY <2>1, <2>2
<1>2. ASSUME NEW g, Good(g), NEW y \in DOMAIN g PROVE f[y] = g[y] /\ y \in H
  <2>1. Val(y, g[y]) /\ y \in S
    BY <1>2
  <2>2. Val(y, CHOOSE v : Val(y, v))
    BY <2>1
  <2>3. (CHOOSE v : Val(y, v)) = g[y]
    BY <1>1, <1>2, <2>2
  <2> QED BY <1>2, <2>1, <2>3
<1> HIDE DEF f, S
<1>3. ASSUME NEW y \in H PROVE f[y] = Unfold(f, y, k) /\ Succ(y) \subseteq H
  <2>1. PICK g : Good(g) /\ y \in DOMAIN g
    BY <1>3
  <2>2. \A z \in DOMAIN g : f[z] = g[z] /\ z \in H
    BY <1>2, <2>1
  <2>3. \A x \in Succ(y) : f[x] = g[x] /\ x \in H
    BY <2>1, <2>2
  <2>4. Unfold(f, y, k) = Unfold(g, y, k)
    BY <2>3, UnfoldLocal
  <2> QED BY <2>1, <2>2, <2>3, <2>4
<1>4. S \subseteq H
  <2> DEFINE T == S \ H
  <2>1. CASE T = {}
    BY <2>1
  <2>2. CASE T # {}
    <3>1. PICK r \in T : \A x \in Succ(r) : x \in S /\ x \notin T
      <4>1. T \in SUBSET Seats(steps)
        BY DEF S
      <4> HIDE DEF T
      <4> QED BY <2>2, <4>1, LastSeat DEF S
    <3>2. Succ(r) \subseteq H /\ r \notin H /\ r \in S
      BY <3>1
    <3> DEFINE h == [x \in H \cup {r} |-> IF x = r THEN Unfold(f, r, k) ELSE f[x]]
    <3>3. DOMAIN h = H \cup {r} /\ (\A x \in H : h[x] = f[x]) /\ h[r] = Unfold(f, r, k)
      BY <3>2
    <3> HIDE DEF h, H
    <3>4. ASSUME NEW y \in H \cup {r} PROVE Succ(y) \subseteq H /\ h[y] = Unfold(h, y, k)
      <4>1. Succ(y) \subseteq H /\ h[y] = Unfold(f, y, k)
        BY <1>3, <3>2, <3>3, <3>4
      <4>2. Unfold(f, y, k) = Unfold(h, y, k)
        BY <3>3, <4>1, UnfoldLocal
      <4> QED BY <4>1, <4>2
    <3>5. H \subseteq S
      BY DEF H
    <3>6. Good(h) /\ r \in DOMAIN h
      BY <3>2, <3>3, <3>4, <3>5
    <3>7. r \in H
      BY <3>2, <3>6 DEF H
    <3> QED BY <3>2, <3>7
  <2> QED BY <2>1, <2>2
<1>5. f = [r \in S |-> Unfold(f, r, k)]
  <2>1. \A r \in S : f[r] = Unfold(f, r, k)
    BY <1>3, <1>4
  <2>2. f = [r \in S |-> f[r]]
    BY DEF f
  <2> QED BY <2>1, <2>2
<1>6. Ways(steps, k) = CHOOSE w : w = [r \in Seats(steps) |-> Unfold(w, r, k)]
  BY DEF Ways, Unfold
<1>7. Ways(steps, k) = [r \in Seats(steps) |-> Unfold(Ways(steps, k), r, k)]
  <2> DEFINE P(w) == w = [r \in Seats(steps) |-> Unfold(w, r, k)]
  <2>1. P(f)
    BY <1>5 DEF S
  <2>2. P(CHOOSE w : P(w))
    <3> HIDE DEF P
    <3> QED BY <2>1
  <2> QED BY <1>6, <2>2
<1>8. \A w : w = [r \in Seats(steps) |-> Unfold(w, r, k)]
        => \A r \in Seats(steps) : w[r] = Unfold(w, r, k)
  OBVIOUS
<1> QED BY <1>7, <1>8

(* All courses of a plan, from wherever its handler may stand.             *)
Forest(steps, k) == UNION {Ways(steps, k)[r] : r \in Seats(steps)}

(* A node of a course is an ask of the key followed, and what comes after  *)
(* it are courses of the plan again.                                       *)
Grows(x, k, F) == /\ x.pc = "read" /\ x.ask \in Asks /\ KeyString(x.ask) = k /\ x.told \in BOOLEAN
                  /\ x.rows \subseteq F /\ x.none \subseteq F

(* Every node of every course of a plan is such a node or an end; among    *)
(* the seats whose ways held another kind there would be a last one, and   *)
(* it has none.                                                            *)
LEMMA ForestGrows ==
  ASSUME NEW steps \in Seq(Steps), NEW k, NEW x \in Forest(steps, k)
  PROVE  x.pc \in {"answer", "error", "hollow"} \/ Grows(x, k, Forest(steps, k))
<1> DEFINE F == Forest(steps, k)
           Fine(y) == y.pc \in {"answer", "error", "hollow"} \/ Grows(y, k, F)
           w == Ways(steps, k)
           T == {r \in Seats(steps) : \E y \in w[r] : ~Fine(y)}
<1>1. \A r \in Seats(steps) : w[r] \subseteq F
  BY DEF Forest
<1> HIDE DEF F
<1>2. CASE T = {}
  <2>1. PICK r \in Seats(steps) : x \in w[r]
    BY DEF Forest
  <2> QED BY <1>2, <2>1 DEF F
<1>3. CASE T # {}
  <2>1. PICK r \in T : \A z \in Succ(r) : z \in Seats(steps) /\ z \notin T
    <3>1. T \in SUBSET Seats(steps)
      OBVIOUS
    <3> HIDE DEF T
    <3> QED BY <1>3, <3>1, LastSeat
  <2>2. PICK y \in w[r] : ~Fine(y)
    BY <2>1
  <2>3. w[r] = Unfold(w, r, k) /\ r \in Seats(steps)
    BY <2>1, WaysUnfold
  <2>4. CASE r.pc # "read"
    <3>1. y = r /\ r.pc \in {"answer", "error", "hollow"}
      BY <2>2, <2>3, <2>4, SeatCases DEF Unfold
    <3> QED BY <2>2, <3>1
  <2>5. CASE r.pc = "read"
    <3> DEFINE rows == UNION {w[z] : z \in GotRows(r)}
               none == UNION {w[z] : z \in GotNone(r)}
    <3>1. \A z \in GotRows(r) \cup GotNone(r) : w[z] \subseteq F /\ \A v \in w[z] : Fine(v)
      BY <1>1, <2>1, <2>5 DEF Succ
    <3>2. rows \subseteq F /\ none \subseteq F
      BY <3>1
    <3>3. CASE Follows(r, k)
      <4>1. y = [pc |-> "read", ask |-> CurrentAsk(r), told |-> CurrentStep(r).told, rows |-> rows,
              none |-> none]
        BY <2>2, <2>3, <2>5, <3>3 DEF Unfold
      <4>2. r \in Places(steps)
        BY <2>3, <2>5, SeatCases
      <4>3. CurrentAsk(r) \in Asks /\ CurrentStep(r).told \in BOOLEAN
        BY <4>2, PlaceFacts DEF Steps
      <4> HIDE DEF rows, none
      <4>4. Grows(y, k, F)
        BY <3>2, <3>3, <4>1, <4>3 DEF Grows, Follows
      <4> QED BY <2>2, <4>4
    <3>4. CASE ~Follows(r, k)
      <4>1. y \in rows \cup none
        BY <2>2, <2>3, <2>5, <3>4 DEF Unfold
      <4>2. PICK z \in GotRows(r) \cup GotNone(r) : y \in w[z]
        BY <4>1
      <4> QED BY <2>2, <3>1, <4>2
    <3> QED BY <3>3, <3>4
  <2> QED BY <2>4, <2>5
<1> QED BY <1>2, <1>3

(* Every course a call may be on.                                          *)
Stops == {"idle", "panic", "symbol", "argument", "pair"}
Grown(k) == {End(how) : how \in Stops} \cup UNION {Forest(p.steps, k) : p \in Plans}

(* A course a call may be on has ended or stands at an ask of the key.     *)
LEMMA GrownFacts ==
  ASSUME NEW k, NEW x \in Grown(k)
  PROVE  x.pc \in Stops \cup {"answer", "error", "hollow"} \/ Grows(x, k, Grown(k))
<1>1. CASE x \in {End(how) : how \in Stops}
  BY <1>1 DEF End
<1>2. CASE x \in UNION {Forest(p.steps, k) : p \in Plans}
  <2>1. PICK p \in Plans : x \in Forest(p.steps, k)
    BY <1>2
  <2>2. p.steps \in Seq(Steps)
    BY PlanSteps
  <2>3. x.pc \in {"answer", "error", "hollow"} \/ Grows(x, k, Forest(p.steps, k))
    BY <2>1, <2>2, ForestGrows
  <2>4. Forest(p.steps, k) \subseteq Grown(k)
    BY DEF Grown
  <2> QED BY <2>3, <2>4 DEF Grows
<1> QED BY <1>1, <1>2 DEF Grown

(* The courses of a plan of the registry are courses a call may be on.     *)
LEMMA CoursesGrown ==
  ASSUME NEW k, NEW plan \in Plans
  PROVE  Courses(plan, k) \subseteq Grown(k)
<1>1. CASE plan.refused # "no"
  BY <1>1, PlanSteps DEF Courses, Grown, Stops
<1>2. CASE plan.refused = "no"
  <2> DEFINE s == [pc |-> "read", steps |-> plan.steps, step |-> 0, idx |-> 0, hits |-> FALSE,
        got |-> {}]
  <2>1. plan.steps \in Seq(Steps) /\ Len(plan.steps) \in Nat
    BY PlanSteps
  <2>2. s \in Standings(plan.steps)
    BY <2>1 DEF Standings
  <2> HIDE DEF s
  <2>3. NextStep(s) \in Seats(plan.steps)
    BY <2>1, <2>2, NextStepAhead
  <2>4. Courses(plan, k) = Ways(plan.steps, k)[NextStep(s)]
    BY <1>2 DEF Courses, s
  <2>5. Courses(plan, k) \subseteq Forest(plan.steps, k)
    BY <2>3, <2>4 DEF Forest
  <2> QED BY <2>5 DEF Grown
<1> QED BY <1>1, <1>2

-----------------------------------------------------------------------------
(* What the calls share.                                                   *)

(* Two asks with one key are one question to the source.                   *)
LEMMA OneKeyOneQuestion ==
  ASSUME NEW a \in Asks, NEW b \in Asks, KeyString(a) = KeyString(b)
  PROVE  /\ Heeded(a) = Heeded(b) /\ (AsksForDay(a) <=> AsksForDay(b)) /\ DayAsked(a) = DayAsked(b)
<1>1. a.src = b.src /\ a.ds = b.ds /\ a.day = b.day /\ a.par = b.par
  BY DEF KeyString
<1>2. Sent(a) = Sent(b)
  BY <1>1 DEF Sent
<1> QED BY <1>1, <1>2 DEF Heeded, AsksForDay, DayAsked

(* Rows of edition ed, fetched for a request of which the source heeded    *)
(* h, answer an ask.                                                       *)
Answers(a, ed, h) == h = Heeded(a) /\ (AsksForDay(a) => ed \in {DayAsked(a), NoDay})
Fits(k, ed, h) == \A a \in Asks : KeyString(a) = k => Answers(a, ed, h)

(* Rows that answer one ask of a key answer all asks of it.                *)
LEMMA FitsAll ==
  ASSUME NEW a \in Asks, NEW ed, NEW h, Answers(a, ed, h)
  PROVE  Fits(KeyString(a), ed, h)
BY OneKeyOneQuestion DEF Fits, Answers

Questions == {Heeded(a) : a \in Asks}
Entries(k) == {e \in [ed : 0..LastDay, heeded : Questions, row : Rows, fresh : BOOLEAN,
      disk : BOOLEAN] :
                 Fits(k, e.ed, e.heeded)}
Flights(k) == {f \in [who : SUBSET Clients, ask : Asks, disk : BOOLEAN] : KeyString(f.ask) = k}
Outcomes(k) == {o \in [got : {"fresh", "stale"}, ed : 0..LastDay, heeded : Questions, row : Rows] :
                  Fits(k, o.ed, o.heeded)}
Waits(k) == {Running, Waiting, Failed} \cup Outcomes(k)
Readings == {r \in [ask : Asks, row : Rows, ed : 0..LastDay, heeded : Questions] :
               r.row = r.ask.row /\ Answers(r.ask, r.ed, r.heeded)}
Calls(k) == [at : Grown(k), wait : Waits(k), stale : BOOLEAN, told : BOOLEAN,
      seen : SUBSET Readings]

(* What holds of every reachable state: whatever lies under the key or is  *)
(* on its way answers each ask of that key; a call stands at an ask of the *)
(* key and was given good rows only; who waits is awaited.                 *)
CallsInv ==
  /\ now \in Nows /\ newest \in FirstDay - 1..LastDay
  /\ \A o \in menu : o.course \in Grown(key)
  /\ entry \in Entries(key) \cup {NoEntry}
  /\ flight \in Flights(key) \cup {NoFlight}
  /\ call \in [Clients -> Calls(key)]
  /\ \A c \in Clients : call[c].wait = Waiting => c \in flight.who

(* The four things a call may have of its read.                            *)
LEMMA WaitKinds ==
  ASSUME NEW k, NEW w \in Waits(k)
  PROVE  /\ Running # Waiting /\ Failed # Waiting
         /\ w \in Outcomes(k) => w # Waiting
         /\ w.got \in {"nothing", "fresh", "stale"} /\ w # Failed => w \in Outcomes(k)
<1>1. Running.got = "no" /\ Waiting.got = "not yet" /\ Failed.got = "nothing"
  BY DEF Running, Waiting, Failed
<1>2. \A o \in Outcomes(k) : o.got \in {"fresh", "stale"}
  BY DEF Outcomes
<1>3. w \in Outcomes(k) \/ w \in {Running, Waiting, Failed}
  BY DEF Waits
<1> QED BY <1>1, <1>2, <1>3

(* At the start nothing is stored, nothing is on its way and no call was   *)
(* made.                                                                   *)
LEMMA CallsInvInit == Init => CallsInv
<1> SUFFICES ASSUME Init PROVE CallsInv
  OBVIOUS
<1>1. PICK book : /\ book = Book
                  /\ menu = UNION {{[at |-> b.at, course |-> x] : x \in Courses(b.plan, key)} :
                                     b \in {b \in book : Touches(b, key)}}
  BY DEF Init
<1>2. \A b \in Book : b.plan \in Plans
  <2> SUFFICES ASSUME NEW b \in Book PROVE b.plan \in Plans
    OBVIOUS
  <2>1. PICK n \in Openings : b \in {[at |-> n, plan |-> o.plan,
          keys |-> KeysOf(o.plan)] : o \in Registry(n)}
    BY DEF Book
  <2>2. PICK o \in Registry(n) : b.plan = o.plan
    BY <2>1
  <2> QED BY <2>2 DEF Openings, Plans
<1>3. \A o \in menu : o.course \in Grown(key)
  <2> SUFFICES ASSUME NEW o \in menu PROVE o.course \in Grown(key)
    OBVIOUS
  <2>1. PICK b \in Book : o \in {[at |-> b.at, course |-> x] : x \in Courses(b.plan, key)}
    BY <1>1
  <2>2. o.course \in Courses(b.plan, key)
    BY <2>1
  <2> QED BY <1>2, <2>2, CoursesGrown
<1>4. now \in Nows /\ newest \in FirstDay - 1..LastDay
  BY DaysAssumption DEF Init, Nows, Opening
<1>5. NoCall \in Calls(key) /\ NoCall.wait # Waiting
  <2>1. End("idle") \in Grown(key)
    BY DEF Grown, Stops
  <2>2. Running \in Waits(key) /\ Running # Waiting
    BY WaitKinds DEF Waits
  <2> QED BY <2>1, <2>2 DEF NoCall, Calls
<1>6. call = [c \in Clients |-> NoCall] /\ entry = NoEntry /\ flight = NoFlight
  BY DEF Init
<1> QED BY <1>3, <1>4, <1>5, <1>6 DEF CallsInv

(* An ask is of the key, and what its rows lead to are courses again.      *)
LEMMA AtAnAsk ==
  ASSUME CallsInv, NEW c \in Clients, call[c].at.pc = "read"
  PROVE  /\ call[c] \in Calls(key)
         /\ call[c].at.ask \in Asks /\ KeyString(call[c].at.ask) = key /\
               call[c].at.told \in BOOLEAN
         /\ call[c].at.rows \subseteq Grown(key) /\ call[c].at.none \subseteq Grown(key)
<1>1. call[c] \in Calls(key)
  BY DEF CallsInv
<1>2. call[c].at \in Grown(key)
  BY <1>1 DEF Calls
<1>3. "read" \notin Stops \cup {"answer", "error", "hollow"}
  BY DEF Stops
<1>4. Grows(call[c].at, key, Grown(key))
  BY <1>2, <1>3, GrownFacts
<1> QED BY <1>1, <1>4 DEF Grows

(* Good rows leave a good call.                                            *)
LEMMA TakeGood ==
  ASSUME CallsInv, NEW c \in Clients, call[c].at.pc = "read",
         NEW row, NEW ed \in 0..LastDay, NEW heeded, NEW stale \in BOOLEAN,
         row = call[c].at.ask.row, Answers(call[c].at.ask, ed, heeded),
         NEW r \in Take(c, row, ed, heeded, stale)
  PROVE  r \in Calls(key) /\ r.wait = Running
<1> DEFINE a == call[c].at.ask
           q == Reading(a, row, ed, heeded)
<1>1. /\ call[c] \in Calls(key) /\ a \in Asks /\ call[c].at.told \in BOOLEAN
      /\ call[c].at.rows \subseteq Grown(key)
  BY AtAnAsk
<1>2. q \in Readings
  <2>1. heeded \in Questions /\ a.row \in Rows
    BY <1>1 DEF Answers, Questions, Rows
  <2> QED BY <1>1, <2>1 DEF Readings, Reading
<1> HIDE DEF q
<1>3. PICK x \in call[c].at.rows :
        r = [at |-> x, wait |-> Running, stale |-> call[c].stale \/ stale,
             told |-> call[c].told \/ (stale /\ call[c].at.told), seen |-> call[c].seen \cup {q}]
  BY DEF Take, q
<1>4. x \in Grown(key) /\ call[c].seen \subseteq Readings /\ Running \in Waits(key)
  BY <1>1, <1>3 DEF Calls, Waits
<1>5. (call[c].stale \/ stale) \in BOOLEAN /\ (call[c].told \/ (stale /\
                           call[c].at.told)) \in BOOLEAN
  OBVIOUS
<1> QED BY <1>2, <1>3, <1>4, <1>5 DEF Calls

(* A read that failed leaves a good call.                                  *)
LEMMA LoseGood ==
  ASSUME CallsInv, NEW c \in Clients, call[c].at.pc = "read", NEW r \in Lose(c)
  PROVE  r \in Calls(key) /\ r.wait = Running
<1>1. PICK x \in call[c].at.none : r = [call[c] EXCEPT !.at = x, !.wait = Running]
  BY DEF Lose
<1>2. x \in Grown(key) /\ call[c] \in Calls(key) /\ Running \in Waits(key)
  BY <1>1, AtAnAsk DEF Waits
<1> QED BY <1>1, <1>2 DEF Calls

(* A call that goes on disturbs nothing else.                              *)
LEMMA OneCallMoves ==
  ASSUME CallsInv, NEW c \in Clients, NEW r \in Calls(key), r.wait # Waiting,
         call' = [call EXCEPT ![c] = r], UNCHANGED <<now, newest, key, menu, flight>>,
         entry' \in Entries(key) \cup {NoEntry}
  PROVE  CallsInv'
<1>1. call' \in [Clients -> Calls(key)] /\ \A d \in Clients : call'[d] = IF d = c THEN r
        ELSE call[d]
  BY DEF CallsInv
<1>2. \A d \in Clients : call'[d].wait = Waiting => d \in flight.who
  BY <1>1 DEF CallsInv
<1> QED BY <1>1, <1>2 DEF CallsInv

(* A call that starts takes a course of the menu.                          *)
LEMMA StartKeeps ==
  ASSUME CallsInv, NEW c \in Clients, Start(c)
  PROVE  CallsInv'
<1>1. PICK o \in menu : call' = [call EXCEPT ![c].at = o.course]
  BY DEF Start
<1>2. o.course \in Grown(key) /\ call[c] \in Calls(key) /\ call \in [Clients -> Calls(key)]
  BY DEF CallsInv
<1> DEFINE r == [call[c] EXCEPT !.at = o.course]
<1>3. r \in Calls(key) /\ r.wait = call[c].wait
  BY <1>2 DEF Calls
<1>4. call' = [call EXCEPT ![c] = r]
  BY <1>1, <1>2
<1> HIDE DEF r
<1>5. call' \in [Clients -> Calls(key)] /\ \A d \in Clients : call'[d].wait = call[d].wait
  BY <1>2, <1>3, <1>4
<1> QED BY <1>5 DEF CallsInv, Start

(* Rows found in the cache answer the ask, and are stored back as its      *)
(* type.                                                                   *)
LEMMA ReadHitKeeps ==
  ASSUME CallsInv, NEW c \in Clients, ReadHit(c)
  PROVE  CallsInv'
<1> DEFINE a == call[c].at.ask
           row == IF entry.disk THEN a.row ELSE entry.row
<1>1. /\ call[c].at.pc = "read" /\ InMemory(a) /\ entry' = [entry EXCEPT !.row = a.row]
      /\ \E r \in Take(c, row, entry.ed, entry.heeded, FALSE) : call' = [call EXCEPT ![c] = r]
      /\ UNCHANGED <<now, newest, key, menu, flight>>
  BY DEF ReadHit, Reads
<1>2. a \in Asks /\ KeyString(a) = key /\ a.row \in Rows
  BY <1>1, AtAnAsk DEF Rows
<1>3. entry \in Entries(key) /\ row = a.row
  BY <1>1 DEF CallsInv, InMemory
<1>4. entry.ed \in 0..LastDay /\ Answers(a, entry.ed, entry.heeded)
  BY <1>2, <1>3 DEF Entries, Fits
<1>5. PICK r \in Take(c, row, entry.ed, entry.heeded, FALSE) : call' = [call EXCEPT ![c] = r]
  BY <1>1
<1>6. r \in Calls(key) /\ r.wait = Running
  <2>1. row = call[c].at.ask.row /\ Answers(call[c].at.ask, entry.ed, entry.heeded) /\
          FALSE \in BOOLEAN
    BY <1>3, <1>4
  <2>2. call[c].at.pc = "read" /\ entry.ed \in 0..LastDay
    BY <1>1, <1>4
  <2> DEFINE heeded == entry.heeded
             ed == entry.ed
  <2> HIDE DEF row, a, ed, heeded
  <2>3. r \in Take(c, row, ed, heeded, FALSE)
    BY <1>5 DEF ed, heeded
  <2> QED BY <2>1, <2>2, <2>3, TakeGood DEF ed, heeded
<1>7. [entry EXCEPT !.row = a.row] \in Entries(key)
  BY <1>2, <1>3 DEF Entries
<1>8. r.wait # Waiting
  BY <1>6, WaitKinds DEF Calls
<1> QED BY <1>1, <1>5, <1>6, <1>7, <1>8, OneCallMoves

(* A miss starts a request for the ask, or joins one of the same key.      *)
LEMMA ReadMissKeeps ==
  ASSUME CallsInv, NEW c \in Clients, ReadMiss(c)
  PROVE  CallsInv'
<1> DEFINE a == call[c].at.ask
           new == [who |-> {c}, ask |-> a, disk |-> WrittenToDisk(a, now.post)]
           joined == [flight EXCEPT !.who = @ \cup {c}]
<1>1. /\ call[c].at.pc = "read" /\ flight' = IF flight = NoFlight THEN new ELSE joined
      /\ entry' \in {entry, NoEntry} /\ call' = [call EXCEPT ![c].wait = Waiting]
      /\ UNCHANGED <<now, newest, key, menu>>
  BY DEF ReadMiss, Reads
<1>2. a \in Asks /\ KeyString(a) = key
  BY <1>1, AtAnAsk
<1>3. WrittenToDisk(a, now.post) \in BOOLEAN
  BY DEF WrittenToDisk
<1>4. new \in Flights(key) /\ new.who = {c}
  BY <1>2, <1>3 DEF Flights
<1>5. flight # NoFlight => joined \in Flights(key) /\ joined.who = flight.who \cup {c}
  BY DEF CallsInv, Flights
<1>6. flight = NoFlight => flight.who = {}
  BY DEF NoFlight
<1> HIDE DEF new, joined
<1>7. flight' \in Flights(key) /\ flight.who \cup {c} \subseteq flight'.who
  BY <1>1, <1>4, <1>5, <1>6
<1>8. call' \in [Clients -> Calls(key)] /\ \A d \in Clients : d # c => call'[d] = call[d]
  <2>1. call \in [Clients -> Calls(key)] /\ Waiting \in Waits(key)
    BY DEF CallsInv, Waits
  <2>2. [call[c] EXCEPT !.wait = Waiting] \in Calls(key)
    BY <2>1 DEF Calls
  <2>3. call' = [call EXCEPT ![c] = [call[c] EXCEPT !.wait = Waiting]]
    BY <1>1, <2>1
  <2> QED BY <2>1, <2>2, <2>3
<1>9. \A d \in Clients : call'[d].wait = Waiting => d \in flight'.who
  BY <1>7, <1>8 DEF CallsInv
<1> QED BY <1>1, <1>7, <1>8, <1>9 DEF CallsInv

(* An answer names a day there is, or none.                                *)
LEMMA EditionDays ==
  ASSUME CallsInv, NEW a, NEW ed \in Editions(a, newest)
  PROVE  ed \in 0..LastDay
BY DaysAssumption DEF CallsInv, Editions, NoDay

(* A read that bypasses the cache is of the day asked for.                 *)
LEMMA ReadDirectKeeps ==
  ASSUME CallsInv, NEW c \in Clients, ReadDirect(c)
  PROVE  CallsInv'
<1> DEFINE a == call[c].at.ask
<1>1. /\ call[c].at.pc = "read" /\ UNCHANGED <<now, newest, key, menu, entry, flight>>
      /\ \E r \in Lose(c) \cup UNION {Take(c, a.row, ed, Heeded(a), FALSE) :
                                       ed \in {e \in Editions(a, newest) : DateConsistent(a, e)}} :
           call' = [call EXCEPT ![c] = r]
  BY DEF ReadDirect, Reads
<1>2. PICK r \in Lose(c) \cup UNION {Take(c, a.row, ed, Heeded(a), FALSE) :
                                      ed \in {e \in Editions(a, newest) : DateConsistent(a, e)}} :
        call' = [call EXCEPT ![c] = r]
  BY <1>1
<1>3. r \in Calls(key) /\ r.wait = Running
  <2>1. CASE r \in Lose(c)
    BY <1>1, <2>1, LoseGood
  <2>2. CASE r \notin Lose(c)
    <3>1. PICK ed \in {e \in Editions(a, newest) : DateConsistent(a, e)} : r \in Take(c, a.row, ed,
            Heeded(a), FALSE)
      BY <2>2
    <3>2. Answers(a, ed, Heeded(a)) /\ ed \in 0..LastDay
      BY <3>1, EditionDays DEF Answers, DateConsistent
    <3> QED BY <1>1, <3>1, <3>2, TakeGood
  <2> QED BY <2>1, <2>2
<1>4. r.wait # Waiting /\ entry' \in Entries(key) \cup {NoEntry}
  BY <1>1, <1>3, WaitKinds DEF Calls, CallsInv
<1> QED BY <1>1, <1>2, <1>3, <1>4, OneCallMoves

(* Who wakes takes the rows of a request of the same key, or ends.         *)
LEMMA WokenKeeps ==
  ASSUME CallsInv, NEW c \in Clients, Woken(c)
  PROVE  CallsInv'
<1> DEFINE from == call[c].wait
           a    == call[c].at.ask
           gone == [call[c] EXCEPT !.at = End("panic"), !.wait = Running]
<1>1. /\ call[c].at.pc = "read" /\ from.got \in {"nothing", "fresh", "stale"}
      /\ UNCHANGED <<now, newest, key, menu, entry, flight>>
      /\ \E r \in IF from = Failed THEN Lose(c)
                  ELSE IF from.row # a.row THEN {gone}
                  ELSE Take(c, from.row, from.ed, from.heeded, from.got = "stale") :
           call' = [call EXCEPT ![c] = r]
  BY DEF Woken
<1>2. /\ call[c] \in Calls(key) /\ a \in Asks /\ KeyString(a) = key
  BY <1>1, AtAnAsk
<1>3. PICK r \in IF from = Failed THEN Lose(c)
                 ELSE IF from.row # a.row THEN {gone}
                 ELSE Take(c, from.row, from.ed, from.heeded, from.got = "stale") :
        call' = [call EXCEPT ![c] = r]
  BY <1>1
<1>4. r \in Calls(key) /\ r.wait = Running
  <2>1. CASE from = Failed
    <3>1. r \in Lose(c)
      BY <1>3, <2>1
    <3> QED BY <1>1, <3>1, LoseGood
  <2>2. CASE from # Failed /\ from.row # a.row
    <3>1. r = gone
      BY <1>3, <2>2
    <3>2. End("panic") \in Grown(key) /\ Running \in Waits(key)
      BY DEF Grown, Stops, Waits
    <3> QED BY <1>2, <3>1, <3>2 DEF Calls
  <2>3. CASE from # Failed /\ from.row = a.row
    <3>1. r \in Take(c, from.row, from.ed, from.heeded, from.got = "stale")
      BY <1>3, <2>3
    <3>2. from \in Outcomes(key)
      <4>1. from \in Waits(key)
        BY <1>2 DEF Calls
      <4> HIDE DEF from
      <4> QED BY <1>1, <2>3, <4>1, WaitKinds
    <3> HIDE DEF from
    <3>3. from.ed \in 0..LastDay /\ Answers(a, from.ed, from.heeded) /\
            (from.got = "stale") \in BOOLEAN
      BY <1>2, <3>2 DEF Outcomes, Fits
    <3>4. from.row = call[c].at.ask.row /\ Answers(call[c].at.ask, from.ed, from.heeded)
      BY <2>3, <3>3
    <3>5. call[c].at.pc = "read" /\ from.ed \in 0..LastDay /\ (from.got = "stale") \in BOOLEAN
      BY <1>1, <3>3
    <3> DEFINE st == from.got = "stale"
               ed == from.ed
               row == from.row
               heeded == from.heeded
    <3>6. st \in BOOLEAN /\ r \in Take(c, row, ed, heeded, st)
      BY <3>1, <3>5
    <3>7. row = call[c].at.ask.row /\ Answers(call[c].at.ask, ed, heeded) /\ ed \in 0..LastDay
      BY <3>4, <3>5
    <3> HIDE DEF a, st, ed, row, heeded
    <3> QED BY <3>5, <3>6, <3>7, TakeGood
  <2> QED BY <2>1, <2>2, <2>3
<1>5. r.wait # Waiting /\ entry' \in Entries(key) \cup {NoEntry}
  BY <1>1, <1>4, WaitKinds DEF Calls, CallsInv
<1> QED BY <1>1, <1>3, <1>4, <1>5, OneCallMoves

(* Whoever waited has been handed the outcome.                             *)
LEMMA HandOutGood ==
  ASSUME CallsInv, NEW outcome \in Waits(key), outcome # Waiting, HandOut(outcome)
  PROVE  call' \in [Clients -> Calls(key)] /\ \A c \in Clients : call'[c].wait # Waiting
<1>1. \A c \in Clients : call[c] \in Calls(key) /\ [call[c] EXCEPT !.wait = outcome] \in Calls(key)
  BY DEF CallsInv, Calls
<1>2. \A c \in Clients : call'[c] = IF c \in flight.who THEN [call[c] EXCEPT !.wait = outcome]
        ELSE call[c]
  BY DEF HandOut
<1>3. call' \in [Clients -> Calls(key)]
  BY <1>1, <1>2 DEF HandOut
<1>4. ASSUME NEW c \in Clients PROVE call'[c].wait # Waiting
  <2>1. CASE c \in flight.who
    <3>1. [call[c] EXCEPT !.wait = outcome].wait = outcome
      BY <1>1 DEF Calls
    <3> QED BY <1>2, <2>1, <3>1
  <2>2. CASE c \notin flight.who
    BY <1>2, <2>2 DEF CallsInv
  <2> QED BY <2>1, <2>2
<1> QED BY <1>3, <1>4

(* What the source answers is of the day asked for, and fits every ask of  *)
(* the key.                                                                *)
LEMMA UpstreamKeeps ==
  ASSUME CallsInv, Upstream
  PROVE  CallsInv'
<1> DEFINE a == flight.ask
<1>1. /\ flight # NoFlight /\ flight' = NoFlight /\ UNCHANGED <<now, newest, key, menu>>
      /\ \E ed \in {e \in Editions(a, newest) : DateConsistent(a, e)} :
           /\ entry' = [ed |-> ed, heeded |-> Heeded(a), row |-> a.row, fresh |-> TRUE,
                 disk |-> flight.disk]
           /\ HandOut(Brought("fresh", ed, Heeded(a), a.row))
  BY DEF Upstream
<1>2. PICK ed \in {e \in Editions(a, newest) : DateConsistent(a, e)} :
           /\ entry' = [ed |-> ed, heeded |-> Heeded(a), row |-> a.row, fresh |-> TRUE,
                 disk |-> flight.disk]
           /\ HandOut(Brought("fresh", ed, Heeded(a), a.row))
  BY <1>1
<1>3. a \in Asks /\ KeyString(a) = key /\ flight.disk \in BOOLEAN
  BY <1>1 DEF CallsInv, Flights
<1>4. ed \in 0..LastDay /\ Fits(key, ed, Heeded(a)) /\ Heeded(a) \in Questions /\ a.row \in Rows
  <2>1. Answers(a, ed, Heeded(a))
    BY DEF Answers, DateConsistent
  <2> HIDE DEF a
  <2>2. Heeded(a) \in Questions /\ a.row \in Rows
    BY <1>3 DEF Questions, Rows
  <2> QED BY <1>3, <2>1, <2>2, FitsAll, EditionDays
<1> HIDE DEF a
<1>5. entry' \in Entries(key)
  BY <1>2, <1>3, <1>4 DEF Entries
<1>6. Brought("fresh", ed, Heeded(a), a.row) \in Outcomes(key) /\
        Brought("fresh", ed, Heeded(a), a.row) # Waiting
  BY <1>4 DEF Outcomes, Brought, Waiting
<1>7. call' \in [Clients -> Calls(key)] /\ \A c \in Clients : call'[c].wait # Waiting
  BY <1>2, <1>6, HandOutGood DEF Waits
<1> QED BY <1>1, <1>5, <1>7 DEF CallsInv

(* When it fails, the stale rows served are the entry, which fits.         *)
LEMMA UpstreamFailsKeeps ==
  ASSUME CallsInv, UpstreamFails
  PROVE  CallsInv'
<1> DEFINE o == IF entry # NoEntry /\ entry.disk /\ ~entry.fresh /\ StaleServed(flight.ask)
                THEN Brought("stale", entry.ed, entry.heeded, flight.ask.row) ELSE Failed
<1>1. flight # NoFlight /\ flight' = NoFlight /\ HandOut(o) /\ UNCHANGED <<now, newest, key, menu,
                              entry>>
  BY DEF UpstreamFails
<1>2. o \in Waits(key) /\ o # Waiting
  <2>1. CASE entry = NoEntry
    BY <2>1 DEF Waits, Failed, Waiting
  <2>2. CASE entry # NoEntry
    <3>1. entry \in Entries(key) /\ flight.ask.row \in Rows
      BY <1>1, <2>2 DEF CallsInv, Flights, Rows
    <3>2. Brought("stale", entry.ed, entry.heeded, flight.ask.row) \in Outcomes(key)
      BY <3>1 DEF Entries, Outcomes, Brought
    <3>3. Brought("stale", entry.ed, entry.heeded, flight.ask.row) # Waiting /\ Failed # Waiting
      BY DEF Brought, Waiting, Failed
    <3> QED BY <3>2, <3>3 DEF Waits
  <2> QED BY <2>1, <2>2
<1> HIDE DEF o
<1>3. call' \in [Clients -> Calls(key)] /\ \A c \in Clients : call'[c].wait # Waiting
  BY <1>1, <1>2, HandOutGood
<1> QED BY <1>1, <1>3 DEF CallsInv

(* Time and publication change no rows.                                    *)
LEMMA ClockKeeps ==
  ASSUME CallsInv, Expire \/ Publish \/ Tick
  PROVE  CallsInv'
<1>1. CASE Expire
  <2>1. entry \in Entries(key)
    BY <1>1 DEF Expire, CallsInv
  <2>2. [entry EXCEPT !.fresh = FALSE] \in Entries(key)
    BY <2>1 DEF Entries
  <2> QED BY <1>1, <2>2 DEF Expire, CallsInv
<1>2. CASE Publish
  <2>1. newest + 1 \in FirstDay - 1..LastDay
    BY <1>2, DaysAssumption DEF Publish, CallsInv, Nows
  <2> QED BY <1>2, <2>1 DEF Publish, CallsInv
<1>3. CASE Tick
  <2>1. now \in Nows
    BY DEF CallsInv
  <2>2. now' \in Nows
    <3>1. CASE ~now.late
      BY <1>3, <2>1, <3>1 DEF Tick, Nows
    <3>2. CASE now.late /\ ~now.post
      BY <1>3, <2>1, <3>2 DEF Tick, Nows
    <3>3. CASE now.late /\ now.post
      BY <1>3, <2>1, <3>3, DaysAssumption DEF Tick, Nows, Opening
    <3> QED BY <2>1, <3>1, <3>2, <3>3
  <2> QED BY <1>3, <2>2 DEF Tick, CallsInv
<1> QED BY <1>1, <1>2, <1>3

(* Every step keeps it ...                                                 *)
LEMMA CallsInvStep == CallsInv /\ [Next]_vars => CallsInv'
<1> SUFFICES ASSUME CallsInv, [Next]_vars PROVE CallsInv'
  OBVIOUS
<1>1. ASSUME NEW c \in Clients, Start(c) PROVE CallsInv'
  BY <1>1, StartKeeps
<1>2. ASSUME NEW c \in Clients, GoOn(c) PROVE CallsInv'
  BY <1>2, ReadHitKeeps, ReadMissKeeps, ReadDirectKeeps, WokenKeeps DEF GoOn
<1>3. CASE Upstream \/ UpstreamFails
  BY <1>3, UpstreamKeeps, UpstreamFailsKeeps
<1>4. CASE Expire \/ Publish \/ Tick
  BY <1>4, ClockKeeps
<1>5. CASE UNCHANGED vars
  BY <1>5 DEF CallsInv, vars
<1> QED BY <1>1, <1>2, <1>3, <1>4, <1>5 DEF Next

(* ... so it holds for ever, for every set of clients, every key and every *)
(* span of days.                                                           *)
LEMMA CallsInvariant == Spec => []CallsInv
BY CallsInvInit, CallsInvStep, PTL DEF Spec

-----------------------------------------------------------------------------
(* Theorems.                                                               *)

(* The clock, the entry, the request and the calls have their types; a     *)
(* call ends in one of the ways a handler ends; who waits is among those   *)
(* awaited, so no request that ends leaves a waiter behind (TypeOK).       *)
THEOREM TypeCorrect == Spec => []TypeOK
<1>1. CallsInv => TypeOK
  <2> SUFFICES ASSUME CallsInv PROVE TypeOK
    OBVIOUS
  <2>1. entry = NoEntry \/ entry.ed \in 0..LastDay
    BY DEF CallsInv, Entries
  <2>2. flight = NoFlight \/ flight.who \subseteq Clients
    BY DEF CallsInv, Flights
  <2>3. ASSUME NEW c \in Clients PROVE call[c].at.pc \in {"idle", "read"} \cup Ends
    <3>1. call[c].at \in Grown(key)
      BY DEF CallsInv, Calls
    <3> QED BY <3>1, GrownFacts DEF Grows, Stops, Ends
  <2> QED BY <2>1, <2>2, <2>3 DEF CallsInv, TypeOK
<1> QED BY <1>1, CallsInvariant, PTL

(* What the calls have been given are good readings.                       *)
LEMMA SeenReadings == CallsInv => Seen \subseteq Readings
BY DEF CallsInv, Calls, Seen

(* Whoever asked first, the rows a call is given answer its own question:  *)
(* what the official endpoint pays heed to is part of the key (key.go, the *)
(* url builders), for every key of every registered tool                   *)
(* (OneQuestionPerKey).                                                    *)
THEOREM OneQuestion == Spec => []OneQuestionPerKey
<1>1. CallsInv => OneQuestionPerKey
  BY SeenReadings DEF OneQuestionPerKey, Readings, Answers
<1> QED BY <1>1, CallsInvariant, PTL

(* The rows of a report page asked for by day, where they name a day, are  *)
(* of the day the call asked for, fresh, shared or stale, through any      *)
(* number of refills, expiries and calls: asks of two days never meet      *)
(* under a key (validateDateConsistency, key.go; DatedRowsAreOfTheirDay).  *)
THEOREM DatedRows == Spec => []DatedRowsAreOfTheirDay
<1>1. CallsInv => DatedRowsAreOfTheirDay
  BY SeenReadings DEF DatedRowsAreOfTheirDay, Readings, Answers
<1> QED BY <1>1, CallsInvariant, PTL

(* A call is given rows of the type it names, and that is the type the     *)
(* data set's normaliser makes, also when they lie in the cache or come    *)
(* with another call's request (DecodedAsNormalized).                      *)
THEOREM Decoded == Spec => []DecodedAsNormalized
<1>1. CallsInv => DecodedAsNormalized
  BY SeenReadings, AsksAreSound DEF DecodedAsNormalized, Readings, SoundAsk
<1> QED BY <1>1, CallsInvariant, PTL

(* No call stands at a read of a table without a cache policy              *)
(* (policyDataset in fetch.go, EveryTableHasAPolicy).                      *)
THEOREM Policies == Spec => []EveryTableHasAPolicy
<1>1. CallsInv => EveryTableHasAPolicy
  BY AtAnAsk, AsksAreSound DEF EveryTableHasAPolicy, SoundAsk
<1> QED BY <1>1, CallsInvariant, PTL

(* No call of a tool with a value that its schema's enum allows is turned  *)
(* away for that value (EnumsAreServed).                                   *)
THEOREM Enums == Spec => []EnumsAreServed
<1>1. CallsInv => EnumsAreServed
  <2> SUFFICES ASSUME CallsInv, NEW c \in Clients PROVE call[c].at.pc # "option"
    BY DEF EnumsAreServed
  <2>1. call[c].at \in Grown(key)
    BY DEF CallsInv, Calls
  <2> QED BY <2>1, GrownFacts DEF Grows, Stops
<1> QED BY <1>1, CallsInvariant, PTL
=============================================================================
