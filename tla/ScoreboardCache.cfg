SPECIFICATION FairSpec
CONSTANTS
  s1 = s1
  s2 = s2
  r1 = r1
  r2 = r2
  Free = Free
  Readers = {r1, r2}
  Solvers = {s1}
  MaxTime = 2
  MaxEdits = 0
INVARIANTS
  ServedBoardsAreFresh
  LeaseProtectsItsOwner
PROPERTIES
  StaleBoardsGoAway
CHECK_DEADLOCK FALSE
