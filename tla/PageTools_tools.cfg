\* Two calls that overlap.
CONSTANTS
  Calls = {c1, c2}
  N = 2
  Points = {p1}
  NoPoint = NoPoint
  Within = {}
  Reloads = 1
  Hold = 2
  Cleanup = 1
  Starters = 2
  Moves = 1
  Alone = {"select", "navigate", "read"}
SPECIFICATION MCFairSpec
INVARIANT PressIsVerified
PROPERTIES BoundedWaitsEnd HoldIsKept IndicatorGoesOut
CHECK_DEADLOCK FALSE
