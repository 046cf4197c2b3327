SPECIFICATION Spec
CONSTANTS
  B = 8  H = 2  Cap = 10  Wild = 12  Align = 4
  MaxBlocks = 4  MaxSize = 7
  Layouts <- LongLayouts
INVARIANT DecodesAll
CHECK_DEADLOCK FALSE
