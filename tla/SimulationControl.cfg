SPECIFICATION FairSpec
CONSTANTS
  UserConfigs = {"corners", "no number", "no address"}
  Malformed = {"no number"}
  Incomplete = {"no address"}
  Fetches = {1}
  MaxToggles = 2
  MaxLoads = 1
  MaxSaves = 1
  MaxFailures = 1
  MaxLosses = 1
INVARIANTS
  LoneToggleHeals
  PipelineFollowsBackend
PROPERTIES
  ConfigIsApplied
CHECK_DEADLOCK FALSE
