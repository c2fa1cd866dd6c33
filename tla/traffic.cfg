SPECIFICATION TransferSpec
CONSTANTS
  rec = rec
  gui = gui
  s1 = s1
  s2 = s2
  f1 = f1
  f2 = f2
  x1 = x1
  Recorders = {rec}
  Players = {gui}
  Routers = {}
  MaxIndex = 1
  MaxNet = 1
  Sources = {s1, s2}
  PriorityOf <- Two
  Files = {f2}
  SourceOf <- LowSource
  DirOf <- LowDir
  Collected = {f2}
  LastArrival = 1
  MaxNow = 2
  MaxFaults = 1
INVARIANTS DiscsSpared FastOtherwise Remembered
PROPERTIES LimitReleased CopiedInTheEnd
CHECK_DEADLOCK FALSE
