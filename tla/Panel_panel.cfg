\* Two tabs and one tenant, then one tab and two tenants.
CONSTANTS
  Tabs = {t1, t2}
  Keys = {kA, kB}
  NoTab = NoTab
  NoKey = NoKey
  NoTurn = NoTurn
  NoPrompt = NoPrompt
  FreshConv = FreshConv
  TurnIds = {i1, i2}
  MaxTries = 1
  MaxRun = 2
  MaxInbox = 3
  Budget = 5
  FreeTimers = FALSE
  Scenes = {"switch", "retenant"}
SPECIFICATION MCSpec
SYMMETRY Symmetry
INVARIANTS TypeOK GateInFlightIsTimed TurnIsOfBoundTab
  BoundKeyIsTabsKey UsableShowsOwnConversation CachedViewConverges
PROPERTY TaggedSnapshotIsOwn
CHECK_DEADLOCK FALSE
