SPECIFICATION Spec
CONSTANTS
  c1 = c1
  c2 = c2
  raw = raw
  Callers = {c1}
  NoCaller = NoCaller
  Datasets = {raw}
  ApiSets = {raw}
  DlSets = {}
  RawSets = {raw}
  TradingDays = {2, 3}
  FirstDay = 3
  LastDay = 4
  QueryDays = {3, 4}
  GapWindow = 1
  Ttl = 2
  RangeDays = 2
INVARIANT RowsOfTheirDay
