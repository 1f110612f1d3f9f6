SPECIFICATION Spec
CONSTANTS
  Messages = {m1, m2, m3}
  Readers = {r1, r2}
  Poison = {m3}
  NoMessage = NoMessage
  ReadTimeout = TRUE
  MaxLapses = 1
  MaxPendingReads = 3
INVARIANTS
  TypeOK
  ExclusiveClaim
  FirstDeliveryInOrder
  BlockedIsListed
PROPERTIES
  IsAtLeastOnce
