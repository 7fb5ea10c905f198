SPECIFICATION Spec
CONSTANTS
  Switches <- MCSwitches
  OptionalFields = {}
  Directories <- MCDirectories
  MediaRoots <- MCMediaRoots
INVARIANT AcceptedCanLaunch
