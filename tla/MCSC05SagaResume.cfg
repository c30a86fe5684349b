SPECIFICATION Spec
CONSTANTS
  Tasks = {t1}
  MaxOps = 1
  MaxResumes = 1
  MaxFaults = 2
  Faults = {"call", "crash"}
SYMMETRY TaskSymmetry
INVARIANTS
  NoHiddenResidue
CHECK_DEADLOCK FALSE
