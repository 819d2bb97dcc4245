CONSTANTS
  c1 = c1
  c2 = c2
  Broken = Broken
  Clients <- TwoClients
  Folders <- Tree
  Above <- Up
  Marks <- Signs
  Disk <- Code
  MaxDepth = 4
  Offered <- Known
  Names <- TwoNames
  Domains <- TwoDomains
  Hosts <- ThreeHosts
  Ports <- OnePort
  MaxPort = 4
  Workspaces <- Start
  MaxGiven = 2
  Calls <- All
  MaxAsked = 2
  MaxRequests = 1
  MaxRestarts = 1
  MaxInputs = 3
SYMMETRY AnyOrder
SPECIFICATION Spec
CHECK_DEADLOCK FALSE
INVARIANTS
  TypeOK
  ServersAreFiled
  ScanIsSound
  OwnCodeWins
PROPERTIES
  CopiesGetFreePorts
  NeverTheWrongBooks
