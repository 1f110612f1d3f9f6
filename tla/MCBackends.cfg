SPECIFICATION FairSpec
CONSTANTS
  Keys = {k1, k2}
  Absent = Absent
  Callers = {p, q}
  PageSize = 1
  MaxNumber = 2
  MaxLength = 2
  MaxCalls = 4
  Hashes = {h1, h2}
  NoHash = NoHash
  Objects = {o1, o2}
  Requests = {u1, u2}
  MaxRequests = 4
  MaxServerCrashes = 1
  Messages = {m1, m2}
  r1 = r1
  r2 = r2
  r3 = r3
  Readers = {r1, r2, r3}
  Process <- ProcessOf
  Poison = {m2}
  NoMessage = NoMessage
  MaxExpiries = 2
  MaxProcessCrashes = 1
  Peers = {p1, p2, p3}
  Nobody = Nobody
  Stale = Stale
  MaxSent = 2
  MaxPeerCrashes = 1
  MaxStops = 1
  n1 = n1
  n2 = n2
  e1 = e1
  Nodes = {n1, n2}
  Events = {e1}
  EmittedAt <- EmittedAtOf
  KeepAlive = 3
  Ttl = 6
  MaxDelay = 2
  MaxLosses = 1
  MaxNodeCrashes = 1
INVARIANTS
  TypesOK
  IterationIsComplete
  StoredWhileUsed
  StableCluster
PROPERTIES
  AtomicUnlessExcepted
  FolderIsAtLeastOnce
  DispatchedAtMostOnce
  OneHubInTheEnd
  MembersConverge
CHECK_DEADLOCK FALSE
