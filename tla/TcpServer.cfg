SPECIFICATION FairSpec
CONSTANTS
  MaxConns = 2
  MaxThreads = 2
INVARIANTS AssertionsHold ShutdownIffIdle
PROPERTIES ClosedIsFreed
