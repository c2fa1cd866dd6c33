SPECIFICATION PlayerSpec
CONSTANTS
  FileLength = 2
  LengthKnown = FALSE
  SourceSize = 2
  SinkSize = 2
  DropModes = {TRUE}
  MaxInputs = 2
  MaxTimeouts = 0
  MaxFaults = 1
  MayClose = FALSE
INVARIANTS PlayerTypeOK ShownAsLabelled
CHECK_DEADLOCK FALSE
