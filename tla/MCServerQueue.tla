--------------------------- MODULE MCServerQueue ---------------------------
(***************************************************************************)
(* Instances of ServerQueue for TLC: two completions and one slot read, one *)
(* or two slots, and the pins that make pop_deferred_task choose.           *)
(***************************************************************************)
EXTENDS ServerQueue

CONSTANTS w1, w2, w3, r1

MCKind == [c \in Clients |-> IF c = r1 THEN "read" ELSE "work"]

\* nobody asks for a slot; or w2 asks for slot 0, where only one task runs
MCNoPin == [c \in Clients |-> AnySlot]
MCPin   == [c \in Clients |-> IF c = w2 THEN 0 ELSE AnySlot]

\* without pins the completions are interchangeable
MCSymmetry == Permutations({w1, w2})

OneSlot  == {0}
TwoSlots == {0, 1}

=============================================================================
