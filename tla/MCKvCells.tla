------------------------------ MODULE MCKvCells ------------------------------
(* Instances of KvCells for TLC.                                           *)
EXTENDS KvCells

\* A window and a VBR budget: no shifts.  Rows are removed.
Window == [n_swa |-> 2, vbr |-> TRUE, shift_fails |-> FALSE,
           edits |-> {"rm", "keep", "clear"}, max_pos |-> 3]

\* The same, and sequences are copied.
Copying == [Window EXCEPT !.edits = {"cp", "clear"}]

\* The same, and both, on fewer positions.
Sharing == [Window EXCEPT !.edits = {"rm", "cp", "keep"}, !.max_pos = 2]

\* A window, and context shifts.
Shifting == [n_swa |-> 2, vbr |-> FALSE, shift_fails |-> FALSE,
             edits |-> {"rm", "add", "clear"}, max_pos |-> 2]

\* No window: a K-shift graph that may fail.
Failing == [n_swa |-> 0, vbr |-> FALSE, shift_fails |-> TRUE,
            edits |-> {"add", "clear"}, max_pos |-> 2]

\* No window: divided positions.
Divided == [n_swa |-> 0, vbr |-> FALSE, shift_fails |-> FALSE,
            edits |-> {"cp", "div", "clear"}, max_pos |-> 3]

MCCaches == {Window, Copying, Sharing, Shifting, Failing, Divided}
MCDivided == {Divided}
MCWindow == {Window}
MCShiftFails == {[Shifting EXCEPT !.shift_fails = TRUE]}
MCShifts == {-2, 1}
=============================================================================
