SPECIFICATION FairSpec
CONSTANTS
  Jobs = {j1, j2}
  MaxAttempts = 2
  MaxHits = 2
INVARIANTS
  OneExecutor
  ResultOfLatestAttempt
  OnePayload
PROPERTIES
  FollowsLifecycle
  EveryRunEnds
