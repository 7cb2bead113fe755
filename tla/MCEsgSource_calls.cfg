SPECIFICATION FairSpec
CONSTANTS
  Calls = {c1, c2}
  Topics = {1, 2}
  ProbeTopic = 1
INVARIANTS
  TypeOK
  RefusedOnlyByBoth
PROPERTIES
  SwapsAreEarned
  CallsEnd
