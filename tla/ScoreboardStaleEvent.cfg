SPECIFICATION Spec
CONSTANTS
  s1 = s1
  s2 = s2
  r1 = r1
  r2 = r2
  Free = Free
  Readers = {r1}
  Solvers = {s1}
  MaxTime = 1
  MaxEdits = 1
SYMMETRY Symmetry
INVARIANTS
  ServedBoardsHaveCurrentEvent
CHECK_DEADLOCK FALSE
