SPECIFICATION Spec
CONSTANTS
  Certificates = {c1}
  Channels = {"email", "whatsapp"}
  Runs = {r1, r2}
  MaxChanges = 1
  MaxFaults = 2
  Faults = {"crash", "timeout"}
SYMMETRY Symmetry
INVARIANTS
  FailedMeansRefused
CHECK_DEADLOCK FALSE
