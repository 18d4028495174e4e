SPECIFICATION FairSpec
CONSTANTS
  c1 = c1
  c2 = c2
  p = p
  q = q
  NoCall = NoCall
  Calls = {c1, c2}
  Processes = {p, q}
  Naming <- OneOrTwo
  Resuming = {c2}
  MaxSpurious = 1
  MaxStops = 1
INVARIANTS
  OutcomeIsTrue
  NoRunLeftBehind
  NoDanglingCallback
PROPERTIES
  WaitingCallEnds
CHECK_DEADLOCK FALSE
