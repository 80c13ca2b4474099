SPECIFICATION VerifySpec
CONSTANTS
  Users = {u1, u2, u3}
  MAX_CONN_ = 2
  Names = {alice}
  Passwords = {pw}
  NoText = NoText
CHECK_DEADLOCK FALSE
INVARIANT HandleNotShared
