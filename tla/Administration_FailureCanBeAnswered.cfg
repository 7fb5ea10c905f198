SPECIFICATION AdminSpec
CONSTANTS
  Switches <- MCSwitches
  OptionalFields = {}
  Directories = {}
  MediaRoots = {}
INVARIANT FailureCanBeAnswered
