SPECIFICATION FairSpec
CONSTANTS
  TargetBufferSize = 3
  SeqMod = 8
  TsfMod = 16
  PacketPeriod = 2
  PeriodNum = 7
  PeriodDen = 3
  MaxJitter = 1
  Arriving <- JitteringSender
INVARIANTS
  RunIsConsecutive
  SilenceOnSenderClock
PROPERTIES
  RunEndsWithReceived
  LeavesOnlyByPlaying
  BufferedIsPlayed
  ImplementsRuns
