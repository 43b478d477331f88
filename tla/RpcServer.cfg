CONSTANTS
  c1 = c1
  c2 = c2
  c3 = c3
  Clients = {c1, c2, c3}
  MaxClients = 2
SPECIFICATION ServeSpec
CHECK_DEADLOCK FALSE

INVARIANTS Quiet
PROPERTIES StopReturns ClientsAnswered
