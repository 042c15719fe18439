\* One getn() of each size and the writes that answer it.
SPECIFICATION Spec
CONSTANTS
  AllocSize = 2
  ReadSizes = {1, 2}
  WriteSizes = {3}
  MaxOps = 2
INVARIANT GetnReportsCount
CHECK_DEADLOCK FALSE
