SPECIFICATION FairSpec
CONSTANTS
  s = s
  a = a
  b = b
  c = c
  j = j
  e = e
  x = x
  y = y
  t1 = t1
  t2 = t2
  t3 = t3
  Self = Self
  Outside = Outside
  NoNode = NoNode
  NoToken = NoToken
  Nodes = {s, x, y}
  Starts = {s}
  Ends = {x, y}
  Terminators = {x, y}
  Joins = {}
  Exclusive = {}
  Flows <- TwoTerminatorFlows
  Conditional = {}
  Default = {}
  Boundary <- NoBoundary
  Lasting = {}
  Deaf = {}
  Faulty = {}
  Disturbances = {}
  Tokens = {t1, t2}
PROPERTIES
  TerminateReturns
