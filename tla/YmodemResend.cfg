SPECIFICATION Spec
CONSTANTS
  Blk = 2  StxBlk = 4  SeqRange = 3
  Sessions <- ResendSessions
  PartLen = 6  Sector = 4
  Tries = 3  MaxFaults = 0  MaxResend = 1
INVARIANT InSequence
CHECK_DEADLOCK FALSE
