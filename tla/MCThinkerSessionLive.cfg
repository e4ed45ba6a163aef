SPECIFICATION SessionFairSpec
CONSTANTS
  Jobs = {j1}
  MaxAttempts = 2
  MaxHits = 0
  Events = {e1}
  NoEvent = NoEvent
  NoJob = NoJob
  MaxPolls = 2
PROPERTIES
  FlowEnds
