SPECIFICATION FairSpec
CONSTANTS
  Instances = {a, b, c}
  Nobody = Nobody
  MaxTime = 3
  MaxKeys = 3
  MaxCrashes = 1
  MaxErrors = 1
INVARIANTS
  TypeOK
  CurrentHasKey
  AcceptedByAll
PROPERTIES
  KeysAreKept
  FirstKeyUnlessFault
CHECK_DEADLOCK FALSE
