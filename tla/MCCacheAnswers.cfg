SPECIFICATION AnswersSpec
CONSTANTS
  Requests = {q1, q2}
  Refreshers = {b1}
  CacheTTL = 2
  NegativeTTL = 0
  StaleGrace = 0
  RefreshPercent = 50
  MaxStale = 0
  FailOpen = FALSE
  Budget = 1
  RefreshBudget = 1
  MaxClock = 1
  Clients = {"acme", ""}
  Callers = {c1, c2}
  RPS = 1
  Burst = 2
  PerTenant = TRUE
  MaxTenants = 1
  IdleEviction = 2
  SweepEvery = 1
  Stall = 1
  MaxBuckets = 3
  MaxTime = 5
  Kids = {k1, k2}
  Verifiers = {v1, v2}
  KeyTTL = 2
  MinRefresh = 2
  FetchTimeout = 1
  MaxMoment = 6
PROPERTY
  AllAnswered
CHECK_DEADLOCK FALSE
