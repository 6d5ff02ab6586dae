SPECIFICATION FairSpec
CONSTANTS
  Callers = {c1, c2, c3}
  Nobody = Nobody
  MaxAttempts = 2
INVARIANTS
  InitTypeOK
  InitialiseSerialized
  OneRuntime
  RefusedOnlyWhenUp
PROPERTY CallsReturn
CHECK_DEADLOCK FALSE
