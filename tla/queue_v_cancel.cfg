SPECIFICATION Spec
CONSTANTS
  w1 = w1  w2 = w2  w3 = w3  r1 = r1
  None = None  AnySlot = AnySlot
  Clients = {w1, w2}
  Kind <- MCKind
  Pin <- MCNoPin
  Slots <- OneSlot
  Options = {"cancel"}
  MaxChunks = 1
  MaxCycles = 1
INVARIANT CancelEffective
