SPECIFICATION Spec
CONSTANTS
  c1 = c1
  c2 = c2
  Callers = {c1, c2}
  MaxMissions = 2
  Disturbances = {}
INVARIANTS
  OldMissionGone
CHECK_DEADLOCK FALSE
