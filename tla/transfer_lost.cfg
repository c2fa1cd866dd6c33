SPECIFICATION TransferSpec
CONSTANTS
  rec = rec
  gui = gui
  s1 = s1
  s2 = s2
  f1 = f1
  f2 = f2
  x1 = x1
  Recorders = {rec}
  Players = {}
  Routers = {rec}
  MaxIndex = 1
  MaxNet = 1
  Sources = {s1}
  PriorityOf <- One
  Files = {f1, f2, x1}
  SourceOf <- OneSource
  DirOf <- OneDir
  Collected = {x1}
  LastArrival = 2
  MaxNow = 3
  MaxFaults = 1
INVARIANT NothingLostAtAll
CHECK_DEADLOCK FALSE
