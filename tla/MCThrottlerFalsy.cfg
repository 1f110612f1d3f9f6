SPECIFICATION ThrottlerSpec
CONSTANTS
  Tasks = {t1, t2}
  Throwers = {}
  Reentrants = {}
  WaitCalls = {w1}
  MaxConcurrency = 1
PROPERTIES
  ReleasedWhenEmpty
CHECK_DEADLOCK FALSE
