\* A body of two reads, chunks of every kind of size and reads that take up to six bytes more.
SPECIFICATION Spec
CONSTANTS
  ChunkSize = 2
  BodyLength = {0, 3}
  ChunkLength <- MCChunkLength
  IntMax = 4
  SizeMod = 16
  Ahead = 6
  MaxBody = 4
INVARIANTS
  TypeOK
  OneOperation
  NothingAfterDrop
  PutHasBytes
  BodyIsWhole
  AnsweredOnce
PROPERTY RefusedIsDropped
\* A connection that is dropped, or that waits for its client, may stay as it is.
CHECK_DEADLOCK FALSE
