SPECIFICATION ArchiveSpec
CONSTANTS
  RingSize = 4
  WaitGood = 1
  Skip = 2
  BrowseEnabled = FALSE
  Backup = TRUE
  MaxFrame = 4
  MaxStarts = 2
  MaxFaults = 1
INVARIANTS ArchiveTypeOK FileFaithful KeptIsWhole NoGap DeadIsAborted
PROPERTY StopEnds
CHECK_DEADLOCK FALSE
