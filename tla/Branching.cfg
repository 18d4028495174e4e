SPECIFICATION Spec
CONSTANTS
  t1 = t1
  t2 = t2
  t3 = t3
  k1 = k1
  k2 = k2
  Gate = gate
  Targets = {t1, t2, t3}
  Expressions <- SomeExpressions
  Keys = {k1, k2}
  Numbers = {1, 2}
  Junk = junk
  NoValue = NoValue
  NoTarget = NoTarget
  MaxWrites = 2
SYMMETRY TargetSymmetry
INVARIANTS
  ChoiceIsAbstract
  FollowedWasTrue
CHECK_DEADLOCK FALSE
