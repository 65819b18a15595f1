\* One console tab under fairness.
CONSTANTS
  Tabs = {t1}
  Keys = {kA}
  NoTab = NoTab
  NoKey = NoKey
  NoTurn = NoTurn
  NoPrompt = NoPrompt
  FreshConv = FreshConv
  TurnIds = {i1}
  MaxTries = 1
  MaxRun = 5
  MaxInbox = 3
  Budget = 2
  FreeTimers = TRUE
  Scenes = {"retenant"}
SPECIFICATION MCFairSpec
PROPERTIES ReadyingEnds DisconnectedRecovers
CHECK_DEADLOCK FALSE
