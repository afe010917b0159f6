SPECIFICATION Spec
CONSTANTS
  MaxNodes = 5
  Pointers = {p, q}
INVARIANTS
  ReleasesAreFollowed
CHECK_DEADLOCK FALSE
