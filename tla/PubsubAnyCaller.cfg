SPECIFICATION Spec
CONSTANTS
  Topics = {t1}
  Handlers = {h1, h2}
  Calls = {c1, c2, c3}
  Signals = {s1}
  Options = {o1}
  NoSignal = NoSignal
  NoCall = NoCall
  MaxLines = 1
  Habits = {"resubscribe", "shareOptions", "abortedSignal"}
SYMMETRY Symmetry
INVARIANTS TypeOK TrackerAgrees RejectedIsReleased
PROPERTIES SignalForwarded AbortIsSilent
