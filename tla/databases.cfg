CONSTANTS
  c1 = c1
  c2 = c2
  c3 = c3
  home = home
  copy = copy
  a1 = a1
  First = First
  Absent = Absent
  Calls <- ThreeCalls
  Names <- BothNames
  Attachments <- OneFile
  Home <- home
  Into <- IntoCopy
  Faults <- AllFaults
  MaxInFlight = 2
  MaxBeside = 1
  Hops = 2
SYMMETRY AnyOrder
SPECIFICATION Spec
CHECK_DEADLOCK FALSE
INVARIANTS
  TypeOK
  RowsHaveDatabases
  DatabasesHaveRows
  RevertCanBeUndone
  UpgradeHasWayBack
  RestIsCoherent
PROPERTIES
  UpgradeSparesOriginal
