SPECIFICATION ParserSpec
CONSTANTS
  NoFile = NoFile
  None = None
  NoRef = None
  MaxLoads = 2
  Files <- MCFiles
INVARIANTS
  ModelIsTheFile
  PortsMatchFlows
  SubprocessesKnown
CHECK_DEADLOCK FALSE
