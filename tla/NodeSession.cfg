SPECIFICATION FairSpec
CONSTANTS
  Volumes = {100, 101}
  MaxConnections = 3
  MaxChanges = 2
  MaxUnderway = 1
  MaxReboots = 1
  MaxBackendRestarts = 1
INVARIANTS
  LastAnnouncedIsRegistered
  NodeWillHaveConfig
PROPERTIES
  VolumeIsApplied
