SPECIFICATION Spec
CONSTANTS
  e1 = e1
  e2 = e2
  d1 = d1
  d2 = d2
  Ids = {e1, e2}
  NoId = NoId
  Deletes = {d1, d2}
  Ingests = {i1}
  MaxLinks = 2
  MaxStored = 2
SYMMETRY Symmetric
INVARIANTS
  DanglingIsExplained
CHECK_DEADLOCK FALSE
