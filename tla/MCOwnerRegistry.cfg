SPECIFICATION Spec
CONSTANTS
  N = 2
  Primaries = {1,2}
  Lane = FALSE
  Attempts = 1
  Work = 1
  RetiredLimit = 2
  MaxBindings = 2
  MaxRetained = 4
  ToolCalls = {1}
INVARIANTS
  TypeOK
  OnePrimary
PROPERTIES
  ToolResultCurrent
