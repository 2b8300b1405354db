SPECIFICATION Spec
CONSTANTS
  Instances = {i1, i2}
  Keys <- CacheKeys
  Tasks = {t1, t2}
  MaxItems = 1
  L1TTL = 1
  Lifetimes = {1}
  StaleGrace = 1
  OpTime = 1
  MaxVersion = 2
  MaxNow = 3
  Records = {r1, r2}
  Probers = {p1, p2}
  MemoTTL = 2
  MaxEntries = 1
  ProbeTimeout = 1
  TTL = 1
  SkewTolerance = 1
  Skews <- SourceSkews
  MaxClock = 4
SYMMETRY Symmetry
INVARIANTS
  GoneIsGone
  LifeNotProlonged
  FreshIsFresh
  WritesAreSeen
CHECK_DEADLOCK FALSE
