SPECIFICATION Spec
CONSTANTS
  Keys = {k1, k2}
  Streams = {s1, s2}
  MaxWrites = 2
  MaxErrors = 1
INVARIANTS
  TypeOK
  OneTimerStream
  SavedIsInFile
PROPERTIES
  StopSavesAll
SYMMETRY Symmetry
