SPECIFICATION Spec
CONSTANTS
  m1 = m1
  m2 = m2
  a = a
  Msgs = {m1,m2}
  Ids = {a}
  NoId = NoId
  Titles = {"", "title"}
  MaxInst = 1
  MaxEvents = 1
  MaxGen = 2
  Events = {"turn","compact","rename", "tree","tool"}
  Faults = {"loss","refuse","abort","crash","supersede","invalid","bytes"}
  SlotLimit = 2
  QueueLimit = 2
SYMMETRY Symmetry
CHECK_DEADLOCK FALSE
INVARIANTS
  NamePublished
  ReceiptHonest
PROPERTIES
  NoOvertaking
  SupersededIsFinal
