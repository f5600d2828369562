SPECIFICATION Spec
CONSTANTS
  Clients = {c1, c2}
  NoRequest = NoRequest
  Restarted = Restarted
  MaxCalls = 2
  MaxRestarts = 1
INVARIANTS
  AtMostOnce
  OwnResponse
PROPERTIES
  CallsEnd
  ImplementsRpcService
CHECK_DEADLOCK FALSE
