SPECIFICATION FairSpec
CONSTANTS
  c1 = c1
  c2 = c2
  c3 = c3
  Main = Main
  Children = {c1, c2, c3}
PROPERTIES
  JoinWaitsForAll
  NothingSkipped
  ResumedEnds
CHECK_DEADLOCK FALSE
