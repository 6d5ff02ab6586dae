SPECIFICATION ScopesSpec
CONSTANTS
  Threads = {t1, t2}
  Engines = {e1, e2}
  MainThread = t1
  None = None
  MaxGen = 3
  MaxWitnesses = 1
  ScopeIds = {s1, s2}
  TermIds = {x1}
SYMMETRY Symmetry
PROPERTY MeetsFliContract
