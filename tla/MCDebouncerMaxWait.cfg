SPECIFICATION DebouncerSpec
CONSTANTS
  WaitTime = 2
  MaxWaits = {1}
  Start = 10
  Duration = 5
  MaxCalls = 2
INVARIANTS
  DelayedAtMostMaxWait
CHECK_DEADLOCK FALSE
