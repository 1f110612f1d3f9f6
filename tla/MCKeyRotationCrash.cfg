SPECIFICATION FairSpec
CONSTANTS
  Instances = {a, b}
  Nobody = Nobody
  MaxTime = 2
  MaxKeys = 3
  MaxCrashes = 1
  MaxErrors = 0
PROPERTIES
  FirstKeyIsCreated
CHECK_DEADLOCK FALSE
