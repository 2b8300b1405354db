SPECIFICATION SourceSpec
CONSTANTS
  Calls = {c1, c2, c3}
  Slots = 2
  CallTimeout = 3
  Deadlines = {0, 5}
  MaxAttempts = 2
  MaxBackoff = 1
  BudgetPercent = 60
  Callers = {p1, p2, p3, p4}
  MaxConcurrent = 2
  MaxQueue = 2
INVARIANTS
  Paired
  TokensConserved
  GaugeLag
PROPERTIES
  RetriesInBudget
  CallsReturn
  IsSemaphore
  WaitersServed
