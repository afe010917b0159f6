SPECIFICATION Spec
CONSTANTS
  MaxNodes = 5
INVARIANTS
  TemporariesAreInCtors
CHECK_DEADLOCK FALSE
