SPECIFICATION Spec
CONSTANTS
  Requests = {r1, r2}
  Signals = {s1, s2}
  NoSignal = NoSignal
INVARIANTS TypeOK ListenersReleased ResultFitsAnswer
PROPERTIES AbortSettles AbortEndsBody
CHECK_DEADLOCK FALSE
