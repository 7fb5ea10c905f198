SPECIFICATION Spec
CONSTANTS
  Limit = 2
  Window = 8
  Cap = 4
  Reap = 1
  Prompt = 1
  Horizon = 13
  MaxCrashes = 5
INVARIANTS
  RestartsSpaced
  StormStopped
