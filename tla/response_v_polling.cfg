SPECIFICATION FairSpec
CONSTANTS
  stream = stream  plain = plain  s1 = s1  p1 = p1  p2 = p2
  Readers = {stream, plain}
  Tasks = {s1, p1}
  Owner <- MCOwnerOne
  Streams = {stream}
  MaxPartials = 1
  Options = {"disconnect", "traffic"}
CHECK_DEADLOCK FALSE
PROPERTY GoneNoticed
