SPECIFICATION Spec
CONSTANTS
  Calls <- MCCalls
  Lower <- MCLower
  Reserved <- MCReserved
  Similar <- MCSimilar
  Most = 4
  Utc = "UTC"
INVARIANTS
  TraversalIsBreadthFirst
  TextIsKept
  SchemaIsMet
  ReadsAgree
  ExtractionClosed
  EvolutionIsFair
  MemoriesSurvive
CHECK_DEADLOCK FALSE
