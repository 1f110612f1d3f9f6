SPECIFICATION RepositorySpec
CONSTANTS
  Keys = {k1, k2}
  Absent = Absent
  Callers = {p, q}
  PageSize = 1
  MaxNumber = 1
  MaxLength = 1
  MaxCalls = 5
INVARIANTS
  ConditionsAreChecked
CHECK_DEADLOCK FALSE
