SPECIFICATION Spec
CONSTANTS
  Callers = {c1}
  MaxStarts = 3
  RestartLimit = 1
INVARIANT StopIsFinal
