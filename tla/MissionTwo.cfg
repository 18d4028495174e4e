SPECIFICATION Spec
CONSTANTS
  c1 = c1
  c2 = c2
  Callers = {c1, c2}
  MaxMissions = 1
  Disturbances = {"orphan", "signal"}
INVARIANTS
  StatusLocked
PROPERTIES
  StatusOrder
CHECK_DEADLOCK FALSE
