SPECIFICATION Spec
CONSTANTS
  Callers = {c1, c2, c3, c4}
  Clients = {k1, k2}
  k1 = k1
  k2 = k2
  c1 = c1
  c2 = c2
  c3 = c3
  c4 = c4
  MaxFailures = 2
  OpenFor = 3
  Interval = 2
  Jitters = {0, 1}
  MisClients = {k2}
  MaxRetries = 1
  FirstBackoff = 1
  BackoffCap = 2
  Cancellable = {c1, c2, c3}
  PromptWake = TRUE
  MaxSlot = 6
  ClientOf <- MisApart
INVARIANT TypeOK
INVARIANT ClosedHasRoom
INVARIANT SlotsApart
PROPERTY PauseRunsItsCourse
PROPERTY FirstRequestsNearlySpaced
SYMMETRY CallerSymmetry
