SPECIFICATION FairSpec
CONSTANTS
  Runs = {r1}
  Kinds = {"SC-20"}
  Workers = {w1}
  MaxAttempts = 1
  MaxGrants = 1
  Faults = {"purge"}
PROPERTIES
  EventuallySettled
CHECK_DEADLOCK FALSE
