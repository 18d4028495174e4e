SPECIFICATION FairSpec
CONSTANTS
  s = s
  u = u
  r1 = r1
  r2 = r2
  NoTask = NoTask
  Unset = Unset
  Tasks = {s, u}
  Resources = {r1, r2}
  Service = {s}
  Derived = {u}
  Writers = {s}
  Named <- NamedResource
  Default <- DefaultResource
  MaxCallers = 1
  Stored = {Unset}
INVARIANTS
  NoLeak
  CommandOwnsResource
  CancelledOnlyIfTold
PROPERTIES
  TerminationHeard
  InterruptionSeen
  DestructorReturns
CHECK_DEADLOCK FALSE
