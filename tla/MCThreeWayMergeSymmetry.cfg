SPECIFICATION MergeSpec
CONSTANTS
  Documents <- DocumentsOf
  Names = {"a", "o", "x", "items", "i", "j"}
INVARIANTS
  CleanMergesAreSymmetric
CHECK_DEADLOCK FALSE
