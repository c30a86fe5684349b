SPECIFICATION Spec
CONSTANTS
  Runs = {r1, r2}
  Writers = {w1, w2}
  Keys = {k1, k2}
  Contents = {"one", "other", "secret"}
  Contexts = {"first", "again"}
  Unsafe = {"secret"}
  MaxEvents = 3
INVARIANTS
  TypeOK
  Continuous
  OneEventPerKey
PROPERTY ImplementsRunTrace
CHECK_DEADLOCK FALSE
