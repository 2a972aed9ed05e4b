SPECIFICATION Spec
CONSTANTS
  Files = {"factory", "update", "notes"}
  ValidFiles = {"factory", "update"}
  Factory = "factory"
  Chunks = 2
  MaxUploads = 0
  MaxFaults = 2
  TickMs = 10
  MeasurementMs = 13
INVARIANT MeasurementIsReady
CHECK_DEADLOCK FALSE
