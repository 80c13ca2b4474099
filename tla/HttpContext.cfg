SPECIFICATION HttpSpec
CONSTANTS
  Requests <- MCRequests
  FileStat <- MCFileStat
  MaxRequests = 3
CHECK_DEADLOCK FALSE
INVARIANTS WholeRequestsAnswered VerifiedAtMostOnce
