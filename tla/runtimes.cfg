CONSTANTS
  c1 = c1
  c2 = c2
  v1 = v1
  v2 = v2
  Absent = Absent
  Person = Person
  Clients <- TwoClients
  Versions <- TwoVersions
  Machine <- OwnV2
  Kinds <- All
  MaxAsked = 4
  MaxFaults = 1
  MaxCrashes = 1
  MaxInputs = 5
SYMMETRY AnyOrder
SPECIFICATION Spec
CHECK_DEADLOCK FALSE
INVARIANTS
  TypeOK
  RunsWhatIsWhole
  UserCodeStays
  RetryHelps
