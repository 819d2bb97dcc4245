CONSTANTS
  c1 = c1
  c2 = c2
  s1 = s1
  s2 = s2
  Absent = Absent
  Clients <- TwoClients
  Servers <- OneServer
  Wishes <- AllOrNothing
  Faults <- AllFaults
  EventCap = 1
  LineCap = 1
  BufferLines = 2
  MaxAsked = 2
  MaxMoves = 3
  MaxLines = 3
  MaxRestarts = 1
  MaxInputs = 5
SYMMETRY AnyOrder
SPECIFICATION Spec
CHECK_DEADLOCK FALSE
INVARIANTS
  TypeOK
  OnlyRegisteredRun
  DurableFirst
  AccountsAgree
  GapsAreTold
  PolicyIsWatched
