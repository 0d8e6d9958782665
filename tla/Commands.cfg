SPECIFICATION Spec
CONSTANTS
  MaxItems = 2
  MaxLines = 3
  Wordy = {}
INVARIANTS TypeOK Released DoneIsAnswered QueryFits
PROPERTIES OnlyFreshRequests AbortSettles
CHECK_DEADLOCK FALSE
