SPECIFICATION Spec
CONSTANTS
  Observers = {o1, o2}
  MaxRuns = 2
  MaxEvents = 3
  Kinds = {"playing"}
\* The bounds end every behaviour.
CHECK_DEADLOCK FALSE
INVARIANTS
  OwnGeneration
  DispatchedInOrder
  ErrorsOfTheLast
  TwiceOnlyAfterSwitch
PROPERTIES
  EventuallyDispatched
