SPECIFICATION FairSpec
CONSTANTS
  w1 = w1  w2 = w2  w3 = w3  r1 = r1
  None = None  AnySlot = AnySlot
  Clients = {w1, w2, r1}
  Kind <- MCKind
  Pin <- MCPin
  Slots <- OneSlot
  Options = {"sleep", "terminate", "throw"}
  MaxChunks = 1
  MaxCycles = 1
CHECK_DEADLOCK FALSE
PROPERTIES EveryTaskSettled TerminateEndsLoop WaiterReturns
