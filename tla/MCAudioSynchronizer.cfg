SPECIFICATION FairSpec
CONSTANTS
  Nodes = {1, 2, 3}
  RequiredNodes = 2
  SamplesPerPacket = 2
  FrameSize = 3
  MaxDrift = 3
  SampleRate = 1
  TicksPerSecond = 2
  Packets = 3
  Jitter = 1
  Stream <- JitteryStreams
  TimestampError = 1
  MaxReplays = 1
  Configurations <- Three
  MaxConfigurations = 1
INVARIANTS
  PlacedNearCapture
  NoArrivedSampleIsLost
  FrameUsesOneConfiguration
  LocationIsOfItsConfiguration
PROPERTIES
  ReachedIsEmitted
CHECK_DEADLOCK FALSE
