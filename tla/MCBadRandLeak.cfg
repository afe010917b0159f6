SPECIFICATION Spec
CONSTANTS
  MaxNodes = 4
INVARIANTS
  OneShotsAreReported
CHECK_DEADLOCK FALSE
