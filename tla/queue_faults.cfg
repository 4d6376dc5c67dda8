SPECIFICATION Spec
CONSTANTS
  w1 = w1  w2 = w2  w3 = w3  r1 = r1
  None = None  AnySlot = AnySlot
  Clients = {w1, w2}
  Kind <- MCKind
  Pin <- MCNoPin
  Slots <- OneSlot
  Options = {"cancel", "reject", "terminate", "lease", "capture", "sleep"}
  MaxChunks = 2
  MaxCycles = 1
SYMMETRY MCSymmetry
CHECK_DEADLOCK FALSE
INVARIANTS TaskConservation GenerationNeverStalls CaptureYields
