SPECIFICATION FairSpec
CONSTANTS
  NonceMax = 3
  MaxTrans = 3
  MaxCalls = 5
  MaxCnt = 4
  Windows = {"open", "grazed", "missed"}
  Downlinks <- Acknowledging
  None = None
INVARIANTS
  TypeOK
  InStep
  NoUnexpectedInterrupt
  Repetitions
PROPERTIES
  FreshCounter
  FreshNonce
  CycleEnds
CHECK_DEADLOCK FALSE
