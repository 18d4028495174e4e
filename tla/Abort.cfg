SPECIFICATION FairSpec
CONSTANTS
  s = s
  a = a
  b = b
  c = c
  j = j
  e = e
  x = x
  y = y
  t1 = t1
  t2 = t2
  t3 = t3
  Self = Self
  Outside = Outside
  NoNode = NoNode
  NoToken = NoToken
  Nodes = {s, a, b, e}
  Starts = {s}
  Ends = {e}
  Terminators = {}
  Joins = {}
  Exclusive = {}
  Flows <- SpawnFlows
  Conditional = {}
  Default = {}
  Boundary <- NoBoundary
  Lasting = {a, b}
  Deaf = {}
  Faulty = {}
  Disturbances = {"terminate"}
  Tokens = {t1, t2}
PROPERTIES
  AbortEndsProcess
