\* The socket of a turn closes while the other place's socket stays open.
CONSTANTS
  NoTurn = NoTurn
  NoPanel = NoPanel
  NoPort = NoPort
  NoPlace = NoPlace
  MaxPiece = 1
  MaxQueue = 3
  PortsReused = TRUE
  Questions = FALSE
  Turns = {t1}
  Panels = {n1, n2}
  Ports = {p1, p2}
  Places = {x1, x2}
  UserBudget = 2
  WorldBudget = 1
  SameTenant = FALSE
  Handoffs = FALSE
  Repeats = FALSE
  LoneCloses = TRUE
SPECIFICATION MCFairSpec
PROPERTY RequestSettles
CHECK_DEADLOCK FALSE
