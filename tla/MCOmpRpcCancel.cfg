SPECIFICATION Spec
CONSTANTS
  Commands = {}
  Prompts = {p}
  Uis = {}
  MaxPendingCalls = 1
  MaxPendingWrites = 1
  MaxRetained = 2
  Outcomes = {"ok", "error"}
  Faults = {}
INVARIANTS
  AcceptedResponseWins
CHECK_DEADLOCK FALSE
