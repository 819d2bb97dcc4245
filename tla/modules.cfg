CONSTANTS
  c1 = c1
  c2 = c2
  base = base
  app = app
  n1 = n1
  n2 = n2
  v1 = v1
  v2 = v2
  Absent = Absent
  Clients <- TwoClients
  Modules <- BothModules
  Needs <- AppOnBase
  Requests <- AppAlone
  Starters <- JustApp
  Versions <- BothTexts
  Names <- TwoNames
  Faults <- NoCut
  MaxOutside = 1
  MaxAsked = 3
SYMMETRY AnyOrder
SPECIFICATION Spec
CHECK_DEADLOCK FALSE
INVARIANTS
  TypeOK
PROPERTIES
  LiveIsLive
  ServedIsCurrent
  OkMeansCurrent
