SPECIFICATION Spec
CONSTANTS
  Codes = {a, b}
  Followed = a
  Prices = {1, 2}
  MaxVol = 2
  Capacity = 2
  MaxFailures = 2
  LastDay = 1
  TradingDays = {1}
  MaxTicks = 3
INVARIANT VolumeCountedOnce
