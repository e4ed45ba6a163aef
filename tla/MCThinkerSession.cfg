SPECIFICATION SessionSpec
CONSTANTS
  Jobs = {j1, j2}
  MaxAttempts = 2
  MaxHits = 0
  Events = {e1, e2}
  NoEvent = NoEvent
  NoJob = NoJob
  MaxPolls = 1
SYMMETRY SessionSymmetry
INVARIANTS
  HandedIsDecided
  ShownIsCurrent
  OfferedIsAccepted
  EventOfSession
