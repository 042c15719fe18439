SPECIFICATION Spec
CONSTANTS
  AllocSize = 2
  ReadSizes = {1, 2}
  WriteSizes = {3}
  MaxOps = 3
INVARIANTS
  TypeOK
  BlocksTileStream
  NoMissedFulfilment
  HandlerAtMostOnce
  AcquiredDataStays
  EofIsFinal
PROPERTIES
  ReadsFollowStream
  StreamContract
  CloseAnswersEveryCall
CHECK_DEADLOCK FALSE
