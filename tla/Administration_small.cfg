SPECIFICATION AdminSpec
CONSTANTS
  Switches <- MCSwitches
  OptionalFields = {}
  Directories = {album}
  MediaRoots = {album}
INVARIANTS
  AdminTypeOK
  PlainCanLaunch
  OnlyBareIsUnreachable
  OffersAreHonest
  RunsWhatIsStored
  RunningIsOwned
  NothingRemains
