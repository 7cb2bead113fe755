SPECIFICATION Spec
CONSTANTS
  c1 = c1
  c2 = c2
  Clients = {c1, c2}
  FirstDay = 4
  LastDay = 4
  OnlyKeys = {}
SYMMETRY Sym
CHECK_DEADLOCK FALSE
INVARIANT NoCallPanics
