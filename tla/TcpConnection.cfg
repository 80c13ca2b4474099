SPECIFICATION FairSpec
CONSTANTS
  LoopOps = {"send", "shutdown", "force_close", "start_read", "stop_read"}
  ForeignOps = {"send", "shutdown", "force_close", "start_read", "stop_read"}
  MsgLen = 2
  HighWater = 3
  MaxCalls = 3
  MaxMixed = 2
  MaxRecv = 1
CHECK_DEADLOCK FALSE
INVARIANTS AssertionsHold StreamIntegrity ArmedIffBuffered FinAfterData UpThenDownOnce DestroyedClean
PROPERTY PeerGoneIsDestroyed
