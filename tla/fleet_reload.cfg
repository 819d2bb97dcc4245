CONSTANTS
  c1 = c1
  c2 = c2
  s1 = s1
  s2 = s2
  Absent = Absent
  Clients <- OneClient
  Servers <- OneServer
  Wishes <- AllOrNothing
  Faults <- NoFaults
  EventCap = 1
  LineCap = 1
  BufferLines = 2
  MaxAsked = 3
  MaxMoves = 4
  MaxLines = 0
  MaxRestarts = 0
  MaxInputs = 7
SPECIFICATION Spec
CHECK_DEADLOCK FALSE
PROPERTY NextStartHonoursPolicy
