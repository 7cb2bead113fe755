SPECIFICATION FairSpec
CONSTANTS
  Clients = {c1}
  TseCodes = {t}
  OtcCodes = {o}
  LastDay = 2
  TradingDays = {2}
  KnownClosures = {}
  MaxLives = 2
INVARIANTS
  TypeOK
  WholeBuilds
PROPERTIES
  ScanKeepsToItsDate
  StagesRun
  ScreensEnd
