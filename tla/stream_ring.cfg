SPECIFICATION FairSpec
CONSTANTS
  p1 = p1  p2 = p2  p3 = p3  r1 = r1  c1 = c1  c2 = c2  None = None
  Requests = {p1}
  Convs = {c1}
  ConvOf <- MCConvOfOne
  Failing = {}
  Readers = {r1}
  ReaderConv <- MCReaderConv
  From = {0, 1, 3}
  Cap = 3
  ChunkSizes = {1, 2, 5}
  MaxBytes = 8
CHECK_DEADLOCK FALSE
INVARIANTS RingIsTail ReaderExact EndIsComplete
PROPERTY ReaderEnds
