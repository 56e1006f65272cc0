SPECIFICATION FairSpec
CONSTANTS
  TimeWidth = 16
  Boot = 0
  Horizon = 16
  Margin = 2
  AsapTrig = 4
  RescheduleOffset = 3
  ListenTime = 1
  Longest = 3
  Overrun = 1
  MaxCalls = 2
  Requests <- LbtTasks
  Chains <- ChainTable
  Abortable = {}
  Endless = {7}
  CriticalMasks = TRUE
  PendingVisible = TRUE
  None = None
INVARIANTS
  ExclusiveInv
  NoStaleInterrupt
PROPERTIES
  Answered
CHECK_DEADLOCK FALSE
