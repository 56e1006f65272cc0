SPECIFICATION FairSpec
CONSTANTS
  Size = 7
  Header = 2
  Lengths = {1, 3}
  DownData = DownData
  Reset = Reset
  MainTypes = {Time}
  IrqTypes = {Time, UserRadio}
  Slots = 4
  CountMax = 3
  MaxDown = 3
  MaxRaised = 2
INVARIANTS TypeOK InStack
PROPERTIES Downlinks Delivered
CHECK_DEADLOCK FALSE
