SPECIFICATION FairSpec
CONSTANTS
  Codes = {a, b}
  Followed = a
  Prices = {1, 2}
  MaxVol = 2
  Capacity = 2
  MaxFailures = 2
  LastDay = 3
  TradingDays = {1, 3}
  MaxTicks = 3
INVARIANTS
  TypeOK
  RingIsTail
  VwapIsOfAllTicks
  DegradedMeansFailures
PROPERTY DegradedEnds
