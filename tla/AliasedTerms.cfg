SPECIFICATION ScopesSpec
CONSTANTS
  Threads = {t1}
  Engines = {e1}
  MainThread = t1
  None = None
  MaxGen = 1
  MaxWitnesses = 1
  ScopeIds = {s1}
  TermIds = {x1}
INVARIANT UsableReferencesAreLive
