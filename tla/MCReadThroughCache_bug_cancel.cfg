SPECIFICATION Spec
CONSTANTS
  Callers = {c1, c2}
  NoCaller = none
  Keys = {k1}
  Ttls = {1, 2}
  L2Keys = {k1}
  StaleKeys = {k1}
  MinL2Ttl = 2
  Forever = 99
  MaxTime = 2
  MaxVer = 2
  InstantRefill = TRUE
  L2Faults = FALSE
  Cancellable = {c1, c2}
  CronPatterns = {}
INVARIANT LiveCallerGetsFallback
SYMMETRY CallerSymmetry
