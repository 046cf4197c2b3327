SPECIFICATION Spec
CONSTANTS
  B = 8  H = 2  Cap = 10  Wild = 12  Align = 4
  MaxBlocks = 4  MaxSize = 6
  Layouts <- EdgeLayouts
INVARIANT InOrder
CHECK_DEADLOCK FALSE
