\* One tab whose buffer is full.
CONSTANTS
  Tabs = {b1}
  Tenants = {kA}
  Calls = {c1}
  Waits = {w1}
  NoTab = NoTab
  Blank = Blank
  Gone = Gone
  NoBody = NoBody
  Cap = 2
  MaxEvents = 3
  Budget = 5
  MaxRefused = 1
  Scenes = {"wait"}
SPECIFICATION MCSpec
INVARIANT NewResponsesAreSeen
CHECK_DEADLOCK FALSE
