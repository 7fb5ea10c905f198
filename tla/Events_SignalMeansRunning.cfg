SPECIFICATION Spec
CONSTANTS
  Observers = {o1}
  MaxRuns = 2
  MaxEvents = 2
  Kinds = {"playing", "paused"}
CHECK_DEADLOCK FALSE
INVARIANT SignalMeansRunning
