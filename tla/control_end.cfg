SPECIFICATION FairControlSpec
CONSTANTS
  Channels = {c1,c2}
  MaxRec = 1
  Chunk = 3
  Align = 3
  Search = 3
  Ahead = 1
  Day = 100
  StartAt <- Around
  PostRolls = {0,1}
  StopBack = 0
  MaxDrop = 1
  CaptureMayDie = FALSE
  SpawnMayFail = FALSE
  StartBy = 6
  MaxNow = 14
INVARIANTS StopHonoured ChunksAbut
PROPERTY StopCompletes
CHECK_DEADLOCK FALSE
