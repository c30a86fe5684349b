SPECIFICATION Spec
CONSTANTS
  Workers = {w1, w2}
  HardLimit = 2
  Visibility = 3
  QueuedStale = 1
  RunningStale = 4
  MaxTime = 11
SYMMETRY WorkerSymmetry
INVARIANTS
  TypeOK
  SingleLive
  OrphanAfterLease
PROPERTIES
  IsolatesOnlyTheDead
CHECK_DEADLOCK FALSE
