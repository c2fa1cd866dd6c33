SPECIFICATION FairRecordSpec
CONSTANTS
  RingLen = 4
  SignalMayFail = FALSE
  DmaMayFail = FALSE
  MaxSkip = 0
  Workers = {w1,w2}
  Options <- AllKinds
  Target = 2
  SearchLimit = 2
  MaxAhead = 0
  CaptureMayDie = TRUE
  StartAt <- Soon
  MaxLag = 2
  MaxFrame = 10
PROPERTY Ends
CHECK_DEADLOCK FALSE
