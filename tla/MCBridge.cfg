SPECIFICATION Spec
CONSTANTS
  HostCalls = 2
  NativeCalls = 1
  MaxPendingCalls = 2
  MaxActiveCalls = 1
  MaxPendingWrites = 2
  MaxRetained = 3
  Outcomes = {"ok"}
  Cancelling = {"host"}
  Faults = {"ready"}
INVARIANTS
  NoProtocolFailure
  CancelFollows
PROPERTIES
  ImplementsRemoteCall
CHECK_DEADLOCK FALSE
