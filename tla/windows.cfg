SPECIFICATION Spec
CONSTANTS
  a1 = a1
  Anchors = {a1}
  NoAnchor = NoAnchor
  Events <- Boundaries
  Hooks = {h1, h2}
  MaxSize = 2
  MaxRewrites = 1
  MaxAborts = 1
  MaxPruned = 1
  MaxRepeats = 1
SYMMETRY Symmetry
CONSTRAINT FewTroubles
CHECK_DEADLOCK FALSE
INVARIANTS
  TypeOK
  HorizonCovered
  WindowsDisjoint
  WindowsWellFormed
