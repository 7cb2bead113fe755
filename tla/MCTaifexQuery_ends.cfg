SPECIFICATION FairSpec
CONSTANTS
  c1 = c1
  c2 = c2
  dated = dated
  Callers = {c1, c2}
  NoCaller = NoCaller
  Datasets = {dated}
  ApiSets = {dated}
  DlSets = {dated}
  RawSets = {}
  TradingDays = {2}
  FirstDay = 2
  LastDay = 2
  QueryDays = {1, 2}
  GapWindow = 1
  Ttl = 1
  RangeDays = 2
PROPERTY EveryQueryEnds
