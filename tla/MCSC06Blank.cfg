SPECIFICATION Spec
CONSTANTS
  Briefings = {"b1"}
  People = {p1}
  Candidates <- OnlyBlank
  MaxVersions = 1
INVARIANTS
  SeenIsKept
