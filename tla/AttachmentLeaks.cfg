SPECIFICATION LeakSpec
CONSTANTS
  Threads = {t1, t2}
  Engines = {e1, e2, e3}
  MainThread = t1
  None = None
  MaxGen = 3
  MaxWitnesses = 2
INVARIANT LeakNeverCrossesEngines
PROPERTY LeakStaysCurrent
