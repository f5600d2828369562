SPECIFICATION Spec
CONSTANTS
  Drivers = {TRUE, FALSE}
  MaxRequests = 2
INVARIANTS
  PublishedWhole
  ReleasedAtEnd
  NoFailureWhileServing
PROPERTIES
  StopCompletes
CHECK_DEADLOCK FALSE
