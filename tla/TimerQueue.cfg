SPECIFICATION Spec
CONSTANTS
  ontime = ontime
  loading = loading
  third = third
  Timers <- MCTimers
  Interval <- MCInterval
  Second = 2
  MaxWhen = 3
  MaxLate = 1
  MaxLag = 2
CHECK_DEADLOCK FALSE
INVARIANTS IndexMatchesHeap TimerfdCoversEarliest RootIsEarliest
