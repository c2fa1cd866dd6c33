SPECIFICATION RecordSpec
CONSTANTS
  RingLen = 4
  SignalMayFail = TRUE
  DmaMayFail = FALSE
  MaxSkip = 1
  Workers = {w1,w2}
  Options <- AllKinds
  Target = 2
  SearchLimit = 2
  MaxAhead = 1
  CaptureMayDie = FALSE
  StartAt <- AtOnce
  MaxLag = 99
  MaxFrame = 5
SYMMETRY Symmetry
INVARIANTS RecordTypeOK Accounting InOneHand VideoFaithful
CHECK_DEADLOCK FALSE
