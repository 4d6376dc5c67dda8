SPECIFICATION Spec
CONSTANTS
  w1 = w1  w2 = w2  w3 = w3  r1 = r1
  None = None  AnySlot = AnySlot
  Clients = {w1, w2, w3, r1}
  Kind <- MCKind
  Pin <- MCPin
  Slots <- TwoSlots
  Options = {"throw"}
  MaxChunks = 2
  MaxCycles = 1
INVARIANTS TypeOK TaskConservation WorkerQuiescent NoStrandedTask
PROPERTY DeclinedKeepOrder
