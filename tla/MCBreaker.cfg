SPECIFICATION RSpec
CONSTANTS
  Calls = {c1, c2, c3}
  BucketsPerWindow = 2
  OpenTimeout = 1
  MinimumRequests = 2
  FailurePercent = 50
  HalfOpenMaxCalls = 2
  HalfOpenSuccesses = 2
  MaxClock = 3
  MaxTally = 2
INVARIANTS
  TypeOK
  SlotsConserved
  ProbeCountersFresh
  RingExact
PROPERTIES
  TripExact
  IsCircuit
  Recovery
CHECK_DEADLOCK FALSE
