CONSTANTS
  c1 = c1
  c2 = c2
  c3 = c3
  c4 = c4
  NoCall = NoCall
  Calls <- ThreeCalls
  Faults <- LiveFaults
  MaxInFlight = 2
SPECIFICATION FairSpec
CHECK_DEADLOCK FALSE
PROPERTIES
  StopEnds
  CallsEnd
