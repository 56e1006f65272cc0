SPECIFICATION Spec
CONSTANTS
  NonceMax = 3
  MaxTrans = 2
  MaxCalls = 4
  MaxCnt = 4
  Windows = {"open", "grazed", "missed"}
  Downlinks <- AnyDownlink
  None = None
PROPERTIES
  FreshCounter
CHECK_DEADLOCK FALSE
