SPECIFICATION Spec
CONSTANTS
  Requests = {r1}
  Signals = {s1}
  NoSignal = NoSignal
PROPERTIES GlobalTimeoutSettles
CHECK_DEADLOCK FALSE
