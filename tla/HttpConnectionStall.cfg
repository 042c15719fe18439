\* One short body is enough.
SPECIFICATION Spec
CONSTANTS
  ChunkSize = 2
  BodyLength = {0, 3}
  ChunkLength = {1, 2}
  IntMax = 4
  SizeMod = 16
  Ahead = 1
  MaxBody = 3
PROPERTY ContentReadyIsSignalled
\* A connection that is dropped, or that waits for its client, may stay as it is.
CHECK_DEADLOCK FALSE
