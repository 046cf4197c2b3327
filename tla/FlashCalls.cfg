SPECIFICATION FairSpec
CONSTANTS
  Words = 96  Base = 24
  Size = 24  Page = 4  Sector = 8  Word = 2
  Parts <- TwoParts
  Buffers = {a}
  WriteCalls <- Calls
  EraseCalls <- Calls
  Erased = Erased  Mixed = Mixed  Stray = Stray
  MaxFaults = 1  MaxCalls = 2
INVARIANTS TypeOK WriteStores EraseClears PartitionContained
PROPERTY Returns
CHECK_DEADLOCK FALSE
