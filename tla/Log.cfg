SPECIFICATION Spec
CONSTANTS
  SIZE = 3
  MaxLines = 6
  MaxInits = 2
  MaxLoads = 1
CHECK_DEADLOCK FALSE
INVARIANTS LinesConserved EnoughBuffers StartsRunning
PROPERTY FullBuffersWritten
