SPECIFICATION ControlSpec
CONSTANTS
  Channels = {c1,c2}
  MaxRec = 2
  Chunk = 2
  Align = 2
  Search = 3
  Ahead = 1
  Day = 100
  StartAt = {0}
  PostRolls = {0}
  StopBack = 0
  MaxDrop = 0
  CaptureMayDie = TRUE
  SpawnMayFail = TRUE
  StartBy = 3
  MaxNow = 5
SYMMETRY Symmetry
INVARIANTS ControlTypeOK ThreadsOwnRecorder TrafficHeld TrafficReleased
CHECK_DEADLOCK FALSE
