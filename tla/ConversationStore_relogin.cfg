\* A tab changes its tenant while its turn runs.
CONSTANTS
  Tabs = {b1, b2}
  Keys = {kA, kB}
  Turns = {t1, t2}
  NoTab = NoTab
  NoKey = NoKey
  NoTurn = NoTurn
  NoConvKey = NoConvKey
  MaxDelta = 1
  MaxConv = 4
  Budget = 2
  MayRetryClosed = FALSE
  MayRelogin = TRUE
SPECIFICATION MCSpec
INVARIANT ConversationsStayApart
CHECK_DEADLOCK FALSE
