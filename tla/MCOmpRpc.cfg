SPECIFICATION FairSpec
CONSTANTS
  Commands = {a}
  Prompts = {p}
  Uis = {u}
  MaxPendingCalls = 1
  MaxPendingWrites = 2
  MaxRetained = 2
  Outcomes = {"ok","bad"}
  Faults = {"late","chunks","exit","events"}
INVARIANTS
  TypeOK
  RetainedExact
  OnlyLateErrorsSurprise
PROPERTIES
  ImplementsRemoteCall
  StopSettles
CHECK_DEADLOCK FALSE
