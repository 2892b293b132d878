SPECIFICATION FairSpec
CONSTANTS
  Blocks = 2
  Short = TRUE
  MaxOut = 4
  MaxClients = 2
  MaxServers = 2
INVARIANT Inductive
INVARIANT TornBound
INVARIANT LostBound
PROPERTY ClientFirstLocksOut
PROPERTY NeverStuck
CHECK_DEADLOCK FALSE
