SPECIFICATION Spec
CONSTANTS
  Agents <- MCAgents
  Calls = {w1, w2}
  Texts <- MCTexts
SYMMETRY CallSymmetry
INVARIANT CreatedProfilesPersist
CHECK_DEADLOCK FALSE
