SPECIFICATION Spec
CONSTANTS
  Briefings = {"b1"}
  People = {p1, p2}
  Candidates <- AllCandidates
  MaxVersions = 2
SYMMETRY Symmetry
INVARIANTS
  TypeOK
  StoredIsVisible
  FormAgreesWithServer
  RunMirrorsBriefing
  OnlyEmptyDiscarded
PROPERTIES
  TerminalIsFinal
  ImplementsRunTrace
