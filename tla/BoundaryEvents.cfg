SPECIFICATION FairSpec
CONSTANTS
  h1 = h1
  h2 = h2
  t = t
  s1 = s1
  NoHost = NoHost
  NoEvent = NoEvent
  Hosts = {h1, h2}
  Timer = t
  Signals = {s1}
  Interrupting = {t}
INVARIANTS
  TimerStopped
  InterrupterKnown
PROPERTIES
  CleanupReturns
CHECK_DEADLOCK FALSE
