SPECIFICATION FairSpec
CONSTANTS
  c1 = c1
  c2 = c2
  Callers = {c1}
  MaxMissions = 1
  Disturbances = {"orphan"}
PROPERTIES
  CallsReturn
CHECK_DEADLOCK FALSE
