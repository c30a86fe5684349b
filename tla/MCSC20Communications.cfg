SPECIFICATION Spec
CONSTANTS
  Certificates = {c1}
  Channels = {"email", "whatsapp"}
  Runs = {r1, r2, r3}
  MaxChanges = 1
  MaxFaults = 2
  Faults = {"crash", "exception", "timeout", "isolate"}
SYMMETRY Symmetry
INVARIANTS
  TypeOK
  AcceptedAtMostOnce
  CommunicationMirrorsAttempts
  AmbiguityIsIsolated
CHECK_DEADLOCK FALSE
