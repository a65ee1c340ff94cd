SPECIFICATION FairSpec
CONSTANTS
  HostCalls = 1
  NativeCalls = 1
  MaxPendingCalls = 1
  MaxActiveCalls = 1
  MaxPendingWrites = 2
  MaxRetained = 3
  Outcomes = {"error"}
  Cancelling = {"host"}
  Faults = {"close", "loss"}
INVARIANTS
  TypeOK
PROPERTIES
  CallSettles
  StopJoins
CHECK_DEADLOCK FALSE
