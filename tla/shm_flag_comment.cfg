SPECIFICATION Spec
CONSTANTS
  Blocks = 2
  Short = TRUE
  MaxOut = 3
  MaxClients = 1
  MaxServers = 1
INVARIANT ZeroMeansNoData
CHECK_DEADLOCK FALSE
