SPECIFICATION FairSpec
CONSTANTS
  s = s
  a = a
  b = b
  c = c
  j = j
  e = e
  x = x
  y = y
  t1 = t1
  t2 = t2
  t3 = t3
  Self = Self
  Outside = Outside
  NoNode = NoNode
  NoToken = NoToken
  Nodes = {s, a, b, c, e, x, y}
  Starts = {s}
  Ends = {e, x}
  Terminators = {e, x}
  Joins = {}
  Exclusive = {c}
  Flows <- FailureFlows
  Conditional <- FailureConditional
  Default <- FailureDefault
  Boundary <- FailureBoundary
  Lasting = {a, b}
  Deaf = {b}
  Faulty = {a, c}
  Disturbances = {"terminate"}
  Tokens = {t1, t2}
INVARIANTS
  OverwatchInv
PROPERTIES
  TerminateSettles
  ExceptionEndsProcess
