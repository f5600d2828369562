SPECIFICATION ConnSpec
CONSTANTS
  Clients = {c1}
  NoRequest = NoRequest
  Restarted = Restarted
  MaxCalls = 3
  MaxRestarts = 1
  Retries = 1
INVARIANTS
  FreshReply
  EmptyWhenUsed
PROPERTIES
  ReconnectsWithReason
  CommandsEnd
CHECK_DEADLOCK FALSE
