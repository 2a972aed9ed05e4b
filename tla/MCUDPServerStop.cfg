SPECIFICATION FairSpec
CONSTANTS
  TargetBufferSize = 2
  SeqMod = 8
  TsfMod = 16
  PacketPeriod = 5
  PeriodNum = 16
  PeriodDen = 3
  Seqs1 = {0, 1}
  Seqs2 = {}
  Sent <- TwoSenders
  MaxDuplicates = 0
  MaxReports = 0
  MaxRecvErrors = 0
PROPERTY StopCompletes
CHECK_DEADLOCK FALSE
