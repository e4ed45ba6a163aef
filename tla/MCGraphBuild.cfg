SPECIFICATION FairSpec
CONSTANTS
  Jobs = {j1, j2}
  Graphs = {g1, g2}
  MaxChunks = 2
  NoJob = NoJob
INVARIANTS
  NoJobForgotten
  CompletedIsInGraph
  AtMostTwice
  MetadataOfLatestBuild
PROPERTIES
  BuildsAreSerial
  EveryBuildIsDecided
