SPECIFICATION FairSpec
CONSTANTS
  m1 = m1
  NoMsg = NoMsg
  Msgs = {m1}
  MaxOwners = 3
  Tracked = 1
  Work = 1
  QueueLimit = 1
  ReportLimit = 2
  Pipeline = 1
  Faults = {"conn","exit","reset","bytes"}
INVARIANTS
  ReceiptHonest
PROPERTIES
  EveryDeliveryAnswered
  ResetIsFinal
