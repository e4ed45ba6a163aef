SPECIFICATION Spec
CONSTANTS
  Threads <- MCThreads
  Dispatcher <- MCDispatcher
INVARIANTS
  DriversArePatched
  WrappedAtMostTwice
  SafeUnlessOverlapping
