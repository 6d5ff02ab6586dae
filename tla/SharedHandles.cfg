SPECIFICATION Spec
CONSTANTS
  Threads = {t1, t2}
  Cells = {c1, c2}
  Texts = {x1, x2}
  Atoms = {h1, h2}
  Copies = {r1, r2}
  Records = {k1, k2, k3}
  None = None
SYMMETRY Symmetry
INVARIANTS
  HandlesTypeOK
  HandlesMeanTheirText
  EqualityIsByText
  CountsAreExact
  OneErase
  RecordsMeanTheirText
PROPERTIES
  ImplementsSharedAtoms
  ImplementsSharedCopies
