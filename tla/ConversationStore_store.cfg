\* Two tabs, two tenants.
CONSTANTS
  Tabs = {b1, b2}
  Keys = {kA, kB}
  Turns = {t1, t2}
  NoTab = NoTab
  NoKey = NoKey
  NoTurn = NoTurn
  NoConvKey = NoConvKey
  MaxDelta = 1
  MaxConv = 4
  Budget = 3
  MayRetryClosed = FALSE
  MayRelogin = FALSE
SPECIFICATION MCSpec
INVARIANTS TypeOK ConversationsStayApart IndexLeadsToTranscripts NothingOutlivesItsTab SuspendedIsShownAgain
SYMMETRY Symmetry
CHECK_DEADLOCK FALSE
