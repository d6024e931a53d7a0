\* One HTTP thread and one WebSocket connection that save tokens; two
\* connections of one device or of two clients.
SPECIFICATION ClientsSpec
CONSTANTS
  conn1 = conn1
  conn2 = conn2
  device = device
  Conns = {conn1}
  Http = Http
  Secret = Secret
  Empty = Empty
  Torn = Torn
  None = None
  CodeLife = 0
  MaxTokens = 2
  MaxCodes = 1
  MaxTime = 1
  MaxKills = 1
  Clients = {conn1, conn2}
  Keys = {device}
  Self = Self
  Nobody = Nobody
  Life = 1
  MaxClock = 3
INVARIANTS
  AnswersStayTrue
  RotationLeavesOne
  ActiveIsListed
CHECK_DEADLOCK FALSE
