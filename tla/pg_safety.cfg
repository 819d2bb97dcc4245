CONSTANTS
  c1 = c1
  c2 = c2
  c3 = c3
  c4 = c4
  NoCall = NoCall
  Calls <- FourCalls
  Faults <- AllFaults
SYMMETRY AnyOrder
SPECIFICATION Spec
CHECK_DEADLOCK FALSE
INVARIANTS
  TypeOK
  RunningIsWatched
  StoppingIsOwned
  RestIsTruthful
PROPERTY ImplementsLifecycle
