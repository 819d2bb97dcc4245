CONSTANTS
  c1 = c1
  c2 = c2
  c3 = c3
  c4 = c4
  NoCall = NoCall
  Calls <- TwoCalls
  Faults <- NoFaults
  MaxInFlight = 2
SYMMETRY AnyOrder
SPECIFICATION Spec
CHECK_DEADLOCK FALSE
PROPERTY CrashIsUnasked
