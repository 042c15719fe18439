\* A text that has no delimiter.
SPECIFICATION Spec
CONSTANTS
  BufSize = 2
  MaxText = 2
PROPERTY DelimReadFinishes
\* A read that has ended, or waits for a writer that has gone, leaves nothing to do.
CHECK_DEADLOCK FALSE
