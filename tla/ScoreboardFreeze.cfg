SPECIFICATION Spec
CONSTANTS
  s1 = s1
  s2 = s2
  r1 = r1
  r2 = r2
  Free = Free
  Readers = {r1}
  Solvers = {s1}
  MaxTime = 3
  MaxEdits = 2
SYMMETRY Symmetry
INVARIANTS
  TypeOK
  FreezeHidesLaterSolves
PROPERTIES
  FrozenStandingsSettle
CHECK_DEADLOCK FALSE
