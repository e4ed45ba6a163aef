SPECIFICATION ServiceSpec
CONSTANTS
  Jobs = {j1, j2}
  Graphs = {g1}
  MaxChunks = 2
  NoJob = NoJob
  Readers = {r1, r2}
SYMMETRY ReaderSymmetry
INVARIANTS
  SnapshotIsPast
PROPERTIES
  LastSuccessKept
  EdgesNeverRegress
