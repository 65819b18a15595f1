\* The code's own limits; every source is dispatched twice.
CONSTANTS
  Answers <- MCAnswers
  Resets = {1, 600}
  Jitters = {0}
  Unknown = Unknown
  MaxAttempts = 5
  WaitBudget = 900
  ReceiptAttempts = 2
  ReceiptBudget = 60
  MaxRuns = 2
  MaxDispatches = 2
SPECIFICATION Spec
INVARIANT OneUsableRun
PROPERTY DispatchEnds
CHECK_DEADLOCK FALSE
