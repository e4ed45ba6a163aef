SPECIFICATION Spec
CONSTANTS
  Threads <- MCThreads
  Dispatcher <- MCDispatcher
INVARIANT LoopIsRestored
