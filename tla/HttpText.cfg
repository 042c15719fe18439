\* Heads of up to six bytes in every division, four header lines, paths of seven characters and
\* chunks whose size has up to three digits.
SPECIFICATION TextSpec
CONSTANTS
  MaxInput = 6
  Name = {"n"}
  Value = {"v", "w"}
  MaxLines = 4
  MaxUrl = 6
  MaxChunk = 260
INVARIANTS
  SearchFindsEnd
  HeadIsUnderstood
  FramesReadBack
\* A head that is found, or that the client does not end, leaves nothing to do.
CHECK_DEADLOCK FALSE
