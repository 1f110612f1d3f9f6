SPECIFICATION CacheSpec
CONSTANTS
  get = get
  getAll = getAll
  k1 = k1
  k2 = k2
  Keys = {k1, k2}
  Method <- MethodOf
  Begins <- BeginsOf
  Swept <- SweptOf
  Calls = {c1, c2, c3}
  NoKey = NoKey
  MaxSize = 2
  Ttl = 1
  MaxTime = 2
  MaxClears = 1
PROPERTIES
  DeletionIsSpecific
CHECK_DEADLOCK FALSE
