SPECIFICATION FairSpec
CONSTANTS
  MaxCalls = 3
  MaxSolutions = 2
  MaxTrail = 2
INVARIANTS
  CallsTypeOK
  EngineInOrder
  NothingSwallowed
PROPERTIES
  ImplementsTransactions
  EverythingCloses
CHECK_DEADLOCK FALSE
