SPECIFICATION Spec
CONSTANTS
  m1 = m1
  m2 = m2
  NoMsg = NoMsg
  Msgs = {m1,m2}
  MaxOwners = 2
  Tracked = 8
  Work = 2
  QueueLimit = 2
  ReportLimit = 3
  Pipeline = 2
  Faults = {}
SYMMETRY Symmetry
INVARIANTS
  TypeOK
  NoProtocolFailure
  QuiescentAgreement
PROPERTIES
  ImplementsFifo
