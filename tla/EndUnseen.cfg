SPECIFICATION Spec
CONSTANTS
  c1 = c1
  c2 = c2
  Callers = {c1}
  MaxMissions = 1
  Disturbances = {}
INVARIANTS
  EndedIsOver
