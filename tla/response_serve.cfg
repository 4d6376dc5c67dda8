SPECIFICATION FairSpec
CONSTANTS
  stream = stream  plain = plain  s1 = s1  p1 = p1  p2 = p2
  Readers = {stream, plain}
  Tasks = {s1, p1, p2}
  Owner <- MCOwner
  Streams = {stream}
  MaxPartials = 2
  Options = {"error", "disconnect", "traffic"}
CHECK_DEADLOCK FALSE
INVARIANTS TypeOK NoOrphans AllAnswered CancelReaches
PROPERTIES DeliversInOrder AnsweredReturns
