SPECIFICATION Spec
CONSTANTS
  Runs = {r1}
  Kinds = {"SC-04", "SC-05", "SC-20"}
  Workers = {w1, w2}
  MaxAttempts = 1
  MaxGrants = 1
  Faults = {"refuse", "duplicate", "lost", "timeout", "drop", "purge", "slow_upload"}
SYMMETRY WorkerSymmetry
INVARIANTS
  OneAuthority
PROPERTIES
  SettledStays
CHECK_DEADLOCK FALSE
