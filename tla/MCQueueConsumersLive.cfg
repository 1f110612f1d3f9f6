SPECIFICATION FairConsumersSpec
CONSTANTS
  Messages = {m1, m2}
  Poison = {}
  Readers = {parent, child1}
  Parent = parent
  MaxConsumers = 2
  NoMessage = NoMessage
  ReadTimeout = TRUE
  MaxLapses = 1
  MaxPendingReads = 2
PROPERTIES
  EventuallyProcessed
  ScalesDown
CHECK_DEADLOCK FALSE
