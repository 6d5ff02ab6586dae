SPECIFICATION ScopesSpec
CONSTANTS
  Threads = {t1}
  Engines = {e1, e2}
  MainThread = t1
  None = None
  MaxGen = 3
  MaxWitnesses = 1
  ScopeIds = {s1, s2, s3}
  TermIds = {x1}
SYMMETRY Symmetry
INVARIANTS
  ScopesTypeOK
  CloseHitsTop
  AllocationLandsInContext
  UsableReferencesAreOnTheirEngine
  BorrowedReferencesAreLive
  RefusedIffScopesRemain
