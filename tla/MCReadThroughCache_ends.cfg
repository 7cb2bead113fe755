SPECIFICATION FairSpec
CONSTANTS
  Callers = {c1, c2}
  NoCaller = none
  Keys = {k1}
  Ttls = {2}
  L2Keys = {k1}
  StaleKeys = {k1}
  MinL2Ttl = 2
  Forever = 99
  MaxTime = 2
  MaxVer = 1
  InstantRefill = TRUE
  L2Faults = TRUE
  Cancellable = {c1}
  CronPatterns = {"all"}
PROPERTY EveryCallEnds
