SPECIFICATION FairSpec
CONSTANTS
  B = 8  H = 2  Cap = 10  Wild = 12  Align = 4
  MaxBlocks = 3  MaxSize = 11
  Layouts <- AnyLayouts
INVARIANTS TypeOK HandledInOrder OnlyHandled
PROPERTY Terminates
CHECK_DEADLOCK FALSE
