SPECIFICATION Spec
CONSTANTS
  c1 = c1
  c2 = c2
  c3 = c3
  t1 = t1
  t2 = t2
  Challenges = {c1, c2, c3}
  Teams = {t1, t2}
  Scorings <- MCScorings
  NoEdit = NoEdit
CONSTRAINT FewAtOnce
SYMMETRY CatalogueSymmetry
INVARIANTS
  TypeOK
  NobodyLockedOut
PROPERTIES
  FrozenRankingIsFinal
  SolvingPays
CHECK_DEADLOCK FALSE
