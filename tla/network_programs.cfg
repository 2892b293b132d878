SPECIFICATION NetworkSpec
CONSTANT MaxClients = 2
CONSTANT MaxSent = 2
CONSTANT MAX_CLNT = 4
CONSTANT MaxAccepts = 5
INVARIANT ShownIsSent
INVARIANT LostOnlyToLater
PROPERTY LetsGo
CHECK_DEADLOCK FALSE
