SPECIFICATION Spec
CONSTANTS
  m1 = m1
  NoMsg = NoMsg
  Msgs = {m1}
  MaxOwners = 2
  Tracked = 2
  Work = 1
  QueueLimit = 1
  ReportLimit = 3
  Pipeline = 1
  Faults = {}
INVARIANTS
  ReplacementPreservesLaunch
