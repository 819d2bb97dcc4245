CONSTANTS
  c1 = c1
  c2 = c2
  c3 = c3
  c4 = c4
  NoCall = NoCall
  Calls <- ThreeCalls
  Faults <- AllFaults
  MaxInFlight = 3
SYMMETRY AnyOrder
SPECIFICATION Spec
CHECK_DEADLOCK FALSE
INVARIANTS
  TypeOK
  StoppingIsOwned
  RestIsTruthful
