SPECIFICATION Spec
CONSTANTS
  Nodes = {1, 2, 3, 4}
  RequiredNodes = 3
  SamplesPerPacket = 2
  FrameSize = 4
  MaxDrift = 3
  SampleRate = 1
  TicksPerSecond = 2
  Packets = 2
  Jitter = 0
  Stream <- JitteryStreams
  TimestampError = 0
  MaxReplays = 0
  Configurations <- AllFour
  MaxConfigurations = 1
INVARIANT ThreeNodesLocate
CHECK_DEADLOCK FALSE
