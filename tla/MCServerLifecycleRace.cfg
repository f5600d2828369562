SPECIFICATION Spec
CONSTANTS
  Drivers = {FALSE}
  MaxRequests = 2
INVARIANTS
  OnlyReceiveRace
CHECK_DEADLOCK FALSE
