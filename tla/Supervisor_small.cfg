SPECIFICATION Spec
CONSTANTS
  Callers = {c1, c2}
  MaxStarts = 2
  RestartLimit = 1
INVARIANTS
  OneWatcher
  WatchedWhileDesired
  ReapsItsOwn
  BackoffBacked
  EarlyReturnUnused
PROPERTIES
  CallsReturn
  CrashAnswered
