SPECIFICATION Spec
CONSTANTS
  Tokens <- MCTokens
  MaxLength = 4
  Records = {map, vector}
  TryRecords = {map}
  Args <- MCArgs
  MaxArgs = 3
  MaxCalls = 2
INVARIANTS
  IdenticalIsSound
  IdenticalIsComplete
  DefaultsAreReported
  FixCallsTryEmplace
CHECK_DEADLOCK FALSE
