\* One port under fairness.
CONSTANTS
  Ports = {p1}
  DiscoveryPorts = {p1}
  Slots = {s1, s2}
  Workers = {w1}
  Tabs = {t1}
  Keys = {kA}
  Panels = {}
  DefaultPort = p1
  NoPort = NoPort
  NoTab = NoTab
  NoKey = NoKey
  NoInfo = NoInfo
  NoSlot = NoSlot
  NoWorker = NoWorker
  Scenes = {"live"}
SPECIFICATION MCFairSpec
PROPERTIES ReconnectStormEnds ListeningWorkerIsConnected
CHECK_DEADLOCK FALSE
