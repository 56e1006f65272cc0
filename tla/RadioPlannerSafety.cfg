SPECIFICATION Spec
CONSTANTS
  TimeWidth = 64
  Boot = 56
  Horizon = 6
  Margin = 2
  AsapTrig = 4
  RescheduleOffset = 3
  ListenTime = 1
  Longest = 3
  Overrun = 1
  MaxCalls = 3
  Requests <- AllTasks
  Chains <- ChainTable
  Abortable = {1, 2, 7}
  Endless = {7}
  CriticalMasks = TRUE
  PendingVisible = TRUE
  None = None
INVARIANTS
  OneRunning
  OwedOnce
  NothingForgotten
PROPERTIES
  StartsOnTime
  BestKeepsRadio
  Promised
CHECK_DEADLOCK FALSE
