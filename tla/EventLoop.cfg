SPECIFICATION FairSpec
CONSTANTS
  LoopThread = loop
  Callers = {t1, t2}
  Functors = {f1, f2, f3}
  EventfdMax = 2
INVARIANTS NoLostWakeup WakeupInv
PROPERTIES ImplementsFunctorQueue QueuedFunctorsRun QuitStopsLoop
