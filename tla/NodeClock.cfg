SPECIFICATION Spec
CONSTANTS
  SamplesPerChunk = 4
  SampleRate = 3
  TicksPerSecond = 4
  HistoryLength = 2
  Inertia = 3
  Boot = 5
  MaxDelay = 7
  MaxChunks = 6
  MaxLost = 4
  Interval = 9
  MaxOutages = 1
INVARIANTS
  StampsAreGood
PROPERTIES
  StampsInOrder
  StampsRecover
  SendsInEachInterval
CHECK_DEADLOCK FALSE
