SPECIFICATION FairSpec
CONSTANTS
  s = s
  a = a
  b = b
  c = c
  j = j
  e = e
  x = x
  y = y
  t1 = t1
  t2 = t2
  t3 = t3
  Self = Self
  Outside = Outside
  NoNode = NoNode
  NoToken = NoToken
  Nodes = {s, a, b, j, e}
  Starts = {s}
  Ends = {e}
  Terminators = {}
  Joins = {j}
  Exclusive = {}
  Flows <- ForkFlows
  Conditional = {}
  Default = {}
  Boundary <- NoBoundary
  Lasting = {a, b}
  Deaf = {b}
  Faulty = {j}
  Disturbances = {"interrupt"}
  Tokens = {t1, t2}
INVARIANTS
  NoOrphan
  NeverStranded
  NoMissedJoin
PROPERTIES
  LastChildEndsProcess
  KeepsScope
