SPECIFICATION FairSpec
CONSTANTS
  Runs = {r1}
  Kinds = {"SC-04", "SC-05", "SC-20"}
  Workers = {w1, w2}
  MaxAttempts = 1
  MaxGrants = 2
  Faults = {"refuse", "lost", "timeout"}
INVARIANTS
  TypeOK
  LiveExecutionKeepsFence
  StartsLicensed
  ConfirmedIsCarried
  PartialRunKeepsClientPartial
PROPERTIES
  ImplementsEffects
  EventuallySettled
CHECK_DEADLOCK FALSE
