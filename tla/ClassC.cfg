SPECIFICATION FairSpec
CONSTANTS
  NGroups = 2
  Channels = {c1, c2}
  NoChannel = NoChannel
  None = None
  Low = 3
  MaxCnt = 3
  Tracked = {1}
INVARIANTS
  TypeOK
  Listening
  Tuned
  GroupsOnce
PROPERTIES
  Resumes
