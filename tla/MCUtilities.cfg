SPECIFICATION FairSpec
CONSTANTS
  Tasks = {t1, t2, t3}
  Throwers = {t3}
  Reentrants = {t1}
  WaitCalls = {w1}
  MaxConcurrency = 3
  WaitTime = 2
  MaxWaits = {0, 1, 3}
  Start = 10
  Duration = 5
  MaxCalls = 4
  k1 = k1
  k2 = k2
  get = get
  getAll = getAll
  Keys = {k1, k2}
  Method <- MethodOf
  Begins <- BeginsOf
  Swept <- SweptOf
  Calls = {c1, c2, c3}
  NoKey = NoKey
  MaxSize = 2
  Ttl = 1
  MaxTime = 2
  MaxClears = 1
  Services = {a, b, c}
  Stores = {c}
  Documents <- DocumentsOf
  Names = {"a", "o", "x", "items", "i", "j"}
INVARIANTS
  TypesOK
  SlotsAreUsed
  PassedOnInTime
  ComputedOnce
  StaleOnlyIfLate
  InitAfterDependencies
  StatesFollowCalls
  MergedAsReference
PROPERTIES
  ReleasedWhenDrained
  TasksAreRun
CHECK_DEADLOCK FALSE
