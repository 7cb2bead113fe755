SPECIFICATION Spec
CONSTANTS
  Callers = {c1, c2}
  Clients = {k1}
  k1 = k1
  k2 = k2
  c1 = c1
  c2 = c2
  c3 = c3
  c4 = c4
  MaxFailures = 2
  OpenFor = 3
  Interval = 2
  Jitters = {0}
  MisClients = {}
  MaxRetries = 1
  FirstBackoff = 1
  BackoffCap = 2
  Cancellable = {c1, c2}
  PromptWake = TRUE
  MaxSlot = 6
  ClientOf <- OneClient
PROPERTY RequestsKeepInterval
SYMMETRY CallerSymmetry
