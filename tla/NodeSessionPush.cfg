SPECIFICATION Spec
CONSTANTS
  Volumes = {100}
  MaxConnections = 2
  MaxChanges = 0
  MaxUnderway = 1
  MaxReboots = 0
  MaxBackendRestarts = 0
INVARIANT TalkingNodeIsRegistered
