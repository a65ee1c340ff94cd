SPECIFICATION FairSpec
CONSTANTS
  MaxRuns = 2
  Natures = {"agent", "none", "silent", "both", "refused"}
  Faults = {"late", "stray", "broken", "exit", "ctx"}
  MaxIncidents = 2
CHECK_DEADLOCK FALSE
INVARIANTS
  TypeOK
  AnswerIsOwn
  ReceiptHonest
  OnlyFaultsRetire
PROPERTIES
  EveryRunReturns
