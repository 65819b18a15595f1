\* Two tabs and two overlapping bindings, then a wait and a buffer that drops an entry.
CONSTANTS
  Tabs = {b1, b2}
  Tenants = {kA}
  Calls = {c1, c2}
  Waits = {w1}
  NoTab = NoTab
  Blank = Blank
  Gone = Gone
  NoBody = NoBody
  Cap = 2
  MaxEvents = 3
  Budget = 5
  MaxRefused = 1
  Scenes = {"bind", "wait"}
SPECIFICATION MCSpec
INVARIANTS TypeOK ControlledTabIsGrouped SeenUntilFull
SYMMETRY Symmetry
CHECK_DEADLOCK FALSE
