SPECIFICATION Spec
CONSTANTS
  NGroups = 2
  Channels = {c1, c2}
  NoChannel = NoChannel
  None = None
  Low = 2
  MaxCnt = 2
  Tracked = {0}
INVARIANT
  NoPanic
