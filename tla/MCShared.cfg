SPECIFICATION SSpec
CONSTANTS
  Requests = {q1, q2}
  Refreshers = {b1}
  CacheTTL = 2
  NegativeTTL = 1
  StaleGrace = 1
  RefreshPercent = 50
  MaxStale = 1
  FailOpen = TRUE
  Budget = 1
  RefreshBudget = 1
  MaxClock = 3
  Clients = {"acme", ""}
  Callers = {c1, c2}
  RPS = 1
  Burst = 2
  PerTenant = TRUE
  MaxTenants = 1
  IdleEviction = 2
  SweepEvery = 1
  Stall = 1
  MaxBuckets = 3
  MaxTime = 5
  Kids = {k1, k2}
  Verifiers = {v1, v2}
  KeyTTL = 2
  MinRefresh = 2
  FetchTimeout = 1
  MaxMoment = 6
SYMMETRY Symmetry
INVARIANTS
  HitAgeBounded
  NotFoundBounded
  StaleServed
  AllowanceHeld
  OneFetch
  KeysFollow
CHECK_DEADLOCK FALSE
