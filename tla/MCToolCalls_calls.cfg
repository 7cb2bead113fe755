\* All keys, two callers, two days.  A behaviour ends with its calls and its days.
SPECIFICATION Spec
CONSTANTS
  c1 = c1
  c2 = c2
  Clients = {c1, c2}
  FirstDay = 4
  LastDay = 5
  OnlyKeys = {}
SYMMETRY Sym
CHECK_DEADLOCK FALSE
INVARIANTS TypeOK OneQuestionPerKey DecodedAsNormalized DatedRowsAreOfTheirDay EveryTableHasAPolicy EnumsAreServed
