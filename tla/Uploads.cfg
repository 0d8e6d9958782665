SPECIFICATION UploadsSpec
CONSTANTS
  MaxEntries = 4
  MaxFiles = 3
  MaxSize = 2
  Framing = 2
INVARIANTS TypeOK AcceptedIsWhole DoneIsWhole SignalReleased ProgressFaithful
PROPERTIES SourceErrorThrows ImplementsTransfer
CHECK_DEADLOCK FALSE
