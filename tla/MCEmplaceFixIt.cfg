SPECIFICATION Spec
CONSTANTS
  Tokens <- MCTokens
  MaxLength = 3
  Records = {map, vector}
  TryRecords = {map}
  Args <- MCArgs
  MaxArgs = 3
  MaxCalls = 2
INVARIANTS
  FixKeepsKey
CHECK_DEADLOCK FALSE
