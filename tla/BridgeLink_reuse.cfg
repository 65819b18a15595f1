\* One port of the range and one that a pin alone can reach; two workers of two tabs.
CONSTANTS
  Ports = {p1, p2}
  DiscoveryPorts = {p1}
  Slots = {s1, s2}
  Workers = {w1, w2}
  Tabs = {t1, t2}
  Keys = {kA}
  Panels = {n1}
  DefaultPort = p1
  NoPort = NoPort
  NoTab = NoTab
  NoKey = NoKey
  NoInfo = NoInfo
  NoSlot = NoSlot
  NoWorker = NoWorker
  Scenes = {"reuse", "pin"}
SPECIFICATION MCSpec
INVARIANTS TypeOK LiveSocketIsTracked NothingOutlivesThePort
  RoutedTurnReachesOwnWorker ToolDrivesOwnTab SkillsReachAskers
PROPERTY PinnedPortOnly
CHECK_DEADLOCK FALSE
