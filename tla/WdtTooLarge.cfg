SPECIFICATION Spec
CONSTANTS
  Words = 32  Second = 9  MaxTimeout = 5
INVARIANT TooLargeRefused
CHECK_DEADLOCK FALSE
