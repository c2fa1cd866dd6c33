SPECIFICATION ArchiveSpec
CONSTANTS
  RingSize = 3
  WaitGood = 1
  Skip = 2
  BrowseEnabled = TRUE
  Backup = FALSE
  MaxFrame = 1
  MaxStarts = 1
  MaxFaults = 1
INVARIANT BrowseMatches
PROPERTY BrowseDone
CHECK_DEADLOCK FALSE
