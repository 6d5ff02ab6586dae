SPECIFICATION Spec
CONSTANTS
  Threads = {t1, t2}
  Engines = {e1, e2, e3}
  MainThread = t1
  None = None
  MaxGen = 4
  MaxWitnesses = 2
INVARIANTS
  TypeOK
  StampedHandleFindsItsEngine
  RestoreSucceeds
  IdleEngineIsDetached
PROPERTY ImplementsEngineStacks
