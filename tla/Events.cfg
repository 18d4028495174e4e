SPECIFICATION FairSpec
CONSTANTS
  e = e
  c1 = c1
  c2 = c2
  c3 = c3
  h = h
  t1 = t1
  o = o
  NoOne = NoOne
  MaxDisturbed = 1
  Events = {e}
  Catchers = {c1, c2, c3}
  Hosts = {h}
  Listens <- AllListen
  Throwers = {t1}
  Outside = {o}
  Throws <- AllThrow
  Resuming = {c2}
  Timed = {c3}
INVARIANTS
  CatchIsTrue
  NoDanglingNotify
  ThrowReaches
PROPERTIES
  WaitingCatches
CHECK_DEADLOCK FALSE
