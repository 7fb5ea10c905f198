SPECIFICATION SerialSpec
CONSTANTS
  Callers = {c1}
  MaxStarts = 3
  RestartLimit = 1
INVARIANTS
  RunningIsWanted
  StopIsFinal
  NewestGenerationWins
  EventsReachable
  ExhaustionReported
PROPERTIES
  GroupReaped
  ImplementsService
