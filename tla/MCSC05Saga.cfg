SPECIFICATION Spec
CONSTANTS
  Tasks = {t1, t2}
  MaxOps = 3
  MaxResumes = 2
  MaxFaults = 3
  Faults = {"call", "crash", "abort", "unsent", "hand"}
SYMMETRY TaskSymmetry
INVARIANTS
  TypeOK
  RollbackComplete
  ClientMirrorsRun
  RoundTrip
  FailureHasCause
CHECK_DEADLOCK FALSE
