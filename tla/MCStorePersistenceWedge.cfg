SPECIFICATION FairSpec
CONSTANTS
  Keys = {k1, k2}
  Streams = {s1, s2}
  MaxWrites = 2
  MaxErrors = 0
PROPERTIES
  EventuallySaved
