SPECIFICATION Spec
CONSTANTS
  MaxItems = 2
  MaxLines = 2
  Wordy = {"value"}
INVARIANT ArgumentsArrive
CHECK_DEADLOCK FALSE
