SPECIFICATION Spec
CONSTANTS
  Clients = {c1}
  TseCodes = {t}
  OtcCodes = {o}
  LastDay = 1
  TradingDays = {1}
  KnownClosures = {}
  MaxLives = 1
INVARIANT NoListsIsTold
