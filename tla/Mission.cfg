SPECIFICATION FairSpec
CONSTANTS
  c1 = c1
  c2 = c2
  Callers = {c1}
  MaxMissions = 2
  Disturbances = {}
INVARIANTS
  OldMissionGone
  MissionIsHeard
PROPERTIES
  OutcomeIsOwn
  WaitIsOver
  CallsReturn
