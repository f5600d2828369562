SPECIFICATION Spec
CONSTANTS
  a = a
  b = b
  p = p
  Apps = {a, b}
  Pages = {p}
  QueueSize = 1
  MaxLogs = 2
  PageLimit = 1
  Setups <- MCSetups
  MaxRecords = 4
CHECK_DEADLOCK FALSE
INVARIANTS
  NoSilentLoss
  LogInOrder
PROPERTIES
  AppendsAtomically
  PageComplete
  PageUpToDate
  WorkerEnds
