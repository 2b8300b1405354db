SPECIFICATION Spec
CONSTANTS
  Suppliers <- MCSuppliers
  TTLs = {0, 1}
  Ceilings = {0, 2}
  SkewTolerance = 1
  Now = 4
  Times <- MCTimes
CHECK_DEADLOCK FALSE
INVARIANTS
  StaleWithinCeiling
  StrongIsLive
  RefusalJustified
  MeetsContract
PROPERTY
  AlwaysDecides
