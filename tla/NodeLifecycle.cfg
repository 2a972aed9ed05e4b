SPECIFICATION FairSpec
CONSTANTS
  Files = {"factory", "update", "notes"}
  ValidFiles = {"factory", "update"}
  Factory = "factory"
  Chunks = 2
  MaxUploads = 2
  MaxFaults = 2
  TickMs = 10
  MeasurementMs = 13
INVARIANTS
  BitFollowsLink
  BootImageIsComplete
  SuccessIsInstalled
  ReadingIsItsOwn
PROPERTIES
  NodeComesBack
  UpdateEnds
CHECK_DEADLOCK FALSE
