SPECIFICATION FairSpec
CONSTANTS
  N = 2
  Primaries = {1}
  Lane = TRUE
  Attempts = 2
  Work = 1
  RetiredLimit = 1
  MaxBindings = 2
  MaxRetained = 3
  ToolCalls = {}
INVARIANTS
  CallerIsCurrent
  ReleaseCovered
  TotalExact
PROPERTIES
  CloseReturns
  GateReleased
