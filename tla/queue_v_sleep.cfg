SPECIFICATION FairSpec
CONSTANTS
  w1 = w1  w2 = w2  w3 = w3  r1 = r1
  None = None  AnySlot = AnySlot
  Clients = {w1}
  Kind <- MCKind
  Pin <- MCNoPin
  Slots <- OneSlot
  Options = {"sleep"}
  MaxChunks = 1
  MaxCycles = 0
CHECK_DEADLOCK FALSE
PROPERTY TaskWakesServer
