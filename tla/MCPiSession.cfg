SPECIFICATION FairSpec
CONSTANTS
  m1 = m1
  m2 = m2
  a = a
  Msgs = {m1}
  Ids = {a}
  NoId = NoId
  Titles = {"title"}
  MaxInst = 2
  MaxEvents = 1
  MaxGen = 2
  Events = {"turn", "switch", "quit"}
  Faults = {"supersede","loss"}
  SlotLimit = 1
  QueueLimit = 1
CHECK_DEADLOCK FALSE
INVARIANTS
  TypeOK
  OneLifetime
  QueueStable
PROPERTIES
  QueuedIsDelivered
  CallsAnswered
