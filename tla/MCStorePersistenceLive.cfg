SPECIFICATION FairSpec
CONSTANTS
  Keys = {k1, k2}
  Streams = {s1, s2}
  MaxWrites = 1
  MaxErrors = 1
PROPERTIES
  SavedUnlessWedged
