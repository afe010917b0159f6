SPECIFICATION Spec
CONSTANTS
  MaxNodes = 4
  IndexValues = 256
  ConstSignatures <- MCConstSignatures
  Paths <- MCPaths
  Methods <- MCMethods
  MoveSignatures <- MCMoveSignatures
  Addresses = {1, 2, 3}
  FunctionDecls <- MCFunctionDecls
  Callees <- MCCallees
INVARIANTS
  IncrementedAreNotReported
CHECK_DEADLOCK FALSE
