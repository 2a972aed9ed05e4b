SPECIFICATION FairSpec
CONSTANTS
  TargetBufferSize = 1
  SeqMod = 8
  TsfMod = 16
  PacketPeriod = 5
  PeriodNum = 16
  PeriodDen = 3
  Seqs1 = {0, 2}
  Seqs2 = {0}
  Sent <- TwoSenders
  MaxDuplicates = 1
  MaxReports = 1
  MaxRecvErrors = 1
INVARIANTS
  ForwardsWhatWasPlayed
  SkippedIsCountedLost
  StatisticsAgree
  PlayedAtMostAsOftenAsDelivered
  NoFalseDrift
PROPERTIES
  DrainIsComplete
  EachBufferPlaysOut
  PlayableIsForwarded
  ReceivedIsPushed
  DrainThreadEnds
CHECK_DEADLOCK FALSE
