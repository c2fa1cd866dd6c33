SPECIFICATION RingSpec
CONSTANTS
  RingLen = 4
  FifoLen = 2
  GoodPolls = 2
  MaxRecover = 2
  SignalMayFail = TRUE
  DmaMayFail = TRUE
  MaxNow = 8
INVARIANTS TypeOK ReadyUnlessExcused DropsAccounted
PROPERTIES ReadableIsStable ImplementsFrameRing
CHECK_DEADLOCK FALSE
