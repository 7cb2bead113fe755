SPECIFICATION Spec
CONSTANTS
  c1 = c1
  c2 = c2
  dated = dated
  Callers = {c1, c2}
  NoCaller = NoCaller
  Datasets = {dated}
  ApiSets = {dated}
  DlSets = {dated}
  RawSets = {}
  TradingDays = {2, 3}
  FirstDay = 3
  LastDay = 4
  QueryDays = {3, 4}
  GapWindow = 1
  Ttl = 1
  RangeDays = 2
SYMMETRY Symmetry
INVARIANTS
  TypeOK
  DatedRowsOfTheirDay
  PublishedDayIsFound
  NotOlderThanDawn
