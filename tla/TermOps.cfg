SPECIFICATION Spec
CONSTANT
  MaxLen = 3
INVARIANTS
  OpsTypeOK
  EngineLeftClean
  FirstExceptionReported
  CollectedWhole
