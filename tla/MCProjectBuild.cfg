SPECIFICATION FairSpec
CONSTANTS
  Builds = {b1, b2}
  Resets = {r1}
  NoBuild = NoBuild
INVARIANTS
  BuildingIsAlive
  CompletedIsBuilt
  ProjectAgreesWithTask
  ReadableAtRest
PROPERTIES
  EveryTaskIsDecided
