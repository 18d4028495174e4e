SPECIFICATION Spec
CONSTANTS
  s = s
  a = a
  b = b
  c = c
  j = j
  e = e
  x = x
  y = y
  t1 = t1
  t2 = t2
  t3 = t3
  Self = Self
  Outside = Outside
  NoNode = NoNode
  NoToken = NoToken
  Nodes = {s, b, j, e}
  Starts = {s}
  Ends = {e}
  Terminators = {}
  Joins = {j}
  Exclusive = {}
  Flows <- DirectFlows
  Conditional = {}
  Default = {}
  Boundary <- NoBoundary
  Lasting = {b}
  Deaf = {}
  Faulty = {}
  Disturbances = {}
  Tokens = {t1, t2, t3}
INVARIANTS
  NoMissedJoin
