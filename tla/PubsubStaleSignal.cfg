SPECIFICATION Spec
CONSTANTS
  Topics = {t1}
  Handlers = {h1}
  Calls = {c1, c2}
  Signals = {s1}
  Options = {o1, o2}
  NoSignal = NoSignal
  NoCall = NoCall
  MaxLines = 1
  Habits = {"resubscribe"}

INVARIANTS EndIsReported
