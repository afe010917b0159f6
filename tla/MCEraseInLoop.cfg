SPECIFICATION Spec
CONSTANTS
  Vars = {it, jt}
  NoVar = NoVar
  MaxNodes = 5
INVARIANTS
  TypeOK
  StackIsOpenLoops
  ReportsAreExact
CHECK_DEADLOCK FALSE
