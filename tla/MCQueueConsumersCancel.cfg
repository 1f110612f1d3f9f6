SPECIFICATION ConsumersSpec
CONSTANTS
  Messages = {m1, m2, m3}
  Poison = {m3}
  Readers = {parent, child1, child2}
  Parent = parent
  MaxConsumers = 2
  NoMessage = NoMessage
  ReadTimeout = FALSE
  MaxLapses = 1
  MaxPendingReads = 3
PROPERTIES
  NoLaunchAfterCancel
CHECK_DEADLOCK FALSE
