\* Texts of up to four bytes: two buffers, with every place for the line ends.
SPECIFICATION Spec
CONSTANTS
  BufSize = 2
  MaxText = 4
INVARIANTS
  TypeOK
  BytesInOrder
  StopsAtDelim
  EndCounts
PROPERTY EndReadFinishes
\* A read that has ended, or waits for a writer that has gone, leaves nothing to do.
CHECK_DEADLOCK FALSE
