SPECIFICATION PlayerSpec
CONSTANTS
  FileLength = 2
  LengthKnown = FALSE
  SourceSize = 2
  SinkSize = 2
  DropModes = {FALSE}
  MaxInputs = 1
  MaxTimeouts = 1
  MaxFaults = 0
  MayClose = TRUE
PROPERTIES SinkIsQueue PlayerGoesOn
CHECK_DEADLOCK FALSE
