SPECIFICATION Spec
CONSTANTS
  TimeWidth = 64
  Boot = 0
  Horizon = 14
  Margin = 2
  AsapTrig = 4
  RescheduleOffset = 3
  ListenTime = 1
  Longest = 3
  Overrun = 1
  MaxCalls = 3
  Requests <- ClassCTasks
  Chains <- ClassCChain
  Abortable = {7}
  Endless = {7}
  CriticalMasks = TRUE
  PendingVisible = TRUE
  None = None
INVARIANTS
  RadioOwned
CHECK_DEADLOCK FALSE
