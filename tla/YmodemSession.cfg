SPECIFICATION FairSpec
CONSTANTS
  Blk = 2  StxBlk = 4  SeqRange = 3
  Sessions <- AllSessions
  PartLen = 6  Sector = 4
  Tries = 3  MaxFaults = 2  MaxResend = 1
INVARIANTS TypeOK StoredIntact AgreeOnSuccess FileClosed CleanSession
PROPERTIES ReceiverReturns SenderReturns
CHECK_DEADLOCK FALSE
