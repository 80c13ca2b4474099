SPECIFICATION ThreadSpec
CONSTANTS
  LoopThread = loop
  Callers = {owner}
  Owner = owner
  Functors = {f1, f2}
  EventfdMax = 2
CHECK_DEADLOCK FALSE
INVARIANTS PublishedLoopAlive
PROPERTIES StartLoopReturns RunningLoopStops
