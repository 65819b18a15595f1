\* Two panels, each at a place, and the workers of the two places.
CONSTANTS
  Turns = {t1, t2}
  Panels = {n1, n2}
  Ports = {p1, p2}
  Places = {x1, x2}
  NoTurn = NoTurn
  NoPanel = NoPanel
  NoPort = NoPort
  NoPlace = NoPlace
  MaxPiece = 1
  MaxQueue = 3
  UserBudget = 2
  WorldBudget = 2
  SameTenant = FALSE
  Handoffs = FALSE
  Repeats = FALSE
  LoneCloses = TRUE
  PortsReused = TRUE
  Questions = TRUE
SPECIFICATION MCSpec
INVARIANTS TypeOK TurnTablesAgree StrayStopsWereStranded BusyOnlyWhileWorking NoRequestIsForgotten
  StrangeQuestionsGo
PROPERTY TurnIsKept
CHECK_DEADLOCK FALSE
