\* Data of up to three bytes, a head that may be anywhere, five calls.
SPECIFICATION Spec
CONSTANTS
  Byte = {0, 7}
  ReadSize = {1, 2}
  MaxSize = 3
  MaxOps = 5
INVARIANTS
  TypeOK
  EveryByteOnce
PROPERTY OnlyWrittenChanges
\* The calls are bounded.
CHECK_DEADLOCK FALSE
