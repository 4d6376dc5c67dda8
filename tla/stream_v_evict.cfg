SPECIFICATION Spec
CONSTANTS
  p1 = p1  p2 = p2  p3 = p3  r1 = r1  c1 = c1  c2 = c2  None = None
  Requests = {p1, p2}
  Convs = {c1}
  ConvOf <- MCConvOfTwo
  Failing = {p1}
  Readers = {}
  ReaderConv <- MCNoReaderConv
  From = {0}
  Cap = 1
  ChunkSizes = {1}
  MaxBytes = 1
CHECK_DEADLOCK FALSE
INVARIANT LiveIsReachable
