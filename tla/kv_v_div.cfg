SPECIFICATION Spec
CONSTANTS
    n_cells = 3
    n_positions = 3
    Seqs = {0, 1}
    n_ubatch = 2
    Caches <- MCDivided
    Shifts <- MCShifts
    MaxShift = 1
    MaxTokens = 3
INVARIANT
    KeysFollow
