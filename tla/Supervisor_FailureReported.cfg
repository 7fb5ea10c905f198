SPECIFICATION SerialSpec
CONSTANTS
  Callers = {c1}
  MaxStarts = 3
  RestartLimit = 1
INVARIANT FailureReported
