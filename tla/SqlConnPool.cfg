SPECIFICATION Spec
CONSTANTS
  Users = {u1, u2, u3}
  MAX_CONN_ = 2
CHECK_DEADLOCK FALSE
INVARIANTS PermitsMatchQueue PopFindsHandle ExclusiveHandles
