------------------------------ MODULE KvCells ------------------------------
(***************************************************************************)
(* The metadata of a unified KV cache: llama_kv_cells of                   *)
(* src/llama-kv-cells.h, the sequence edits, slot search, planning and     *)
(* placement of src/llama-kv-cache.cpp, the ownership index of             *)
(* src/llama-vbr-extent.cpp, and the part of llama_context::decode that    *)
(* drives them.                                                            *)
(*                                                                         *)
(* A cell knows its position and the sequences it belongs to.  Three       *)
(* redundant indexes follow it: the set of used cells, the ordered set of  *)
(* (position, cell) pairs of each sequence, and, in a cache with a VBR     *)
(* budget, the ownership view of each sequence.  A decode plans all its    *)
(* ubatches by placing them on the real cells and putting a journal back,  *)
(* then places them again one by one, each before its graph is computed.   *)
(*                                                                         *)
(* One stream (n_stream = 1), the causal batch of a text model, and the    *)
(* standard sliding window.  Loops over cells whose iterations do not      *)
(* depend on each other are written for all cells at once.  Payload (ext,  *)
(* K and V data) is left out but for the rotation of the keys.             *)
(***************************************************************************)
EXTENDS Integers, Sequences, FiniteSets, FiniteSetsExt

CONSTANTS
    n_cells,   \* kv_size
    n_positions, \* the positions the ownership index can count
    Seqs,      \* the sequence ids
    n_ubatch,  \* tokens per ubatch
    Caches,    \* the kinds of cache: the sliding window (0 is none), whether
               \* it has a VBR budget, whether the K-shift graph may fail,
               \* the edits its caller uses, and a bound on its positions
    Shifts,    \* bound: by how much positions are moved
    MaxShift,  \* bound: the rotation a key waits for
    MaxTokens  \* bound: tokens per batch

Edits == {"rm", "cp", "keep", "add", "div", "clear"}

ASSUME CellsAssumption ==
    /\ n_cells \in Nat \ {0}
    /\ n_positions \in Nat /\ n_positions >= n_cells
    /\ Seqs \subseteq Nat /\ IsFiniteSet(Seqs)
    /\ n_ubatch \in Nat \ {0}
    /\ Caches \subseteq [n_swa : Nat, vbr : BOOLEAN, shift_fails : BOOLEAN,
                         edits : SUBSET Edits, max_pos : Nat]
    /\ Shifts \subseteq Int
    /\ MaxShift \in Nat
    /\ MaxTokens \in Nat

VARIABLES
    cells,    \* v_cells[0]
    head,     \* v_heads[0]
    kind,     \* the kind of this cache, decided at construction
    owner,    \* vbr_ownership_: the view of each sequence
    phase,    \* where the decode is
    ubs,      \* the ubatches still to plan or to compute
    plan,     \* the slots found for them
    journal,  \* plan_slots: the states to put back
    before,   \* history: cells and head when the planning began
    rot,      \* history: the position the key in a cell was written for, and
              \* the rotations since
    divided,  \* history: the cells whose position seq_div has changed
    unwritten \* history: the sequences of the token whose key a cell waits
              \* for, or never got; none when the key is there

vars == <<cells, head, kind, owner, phase, ubs, plan, journal, before, rot,
          divided, unwritten>>

Cells == 0 .. n_cells - 1
n_swa == kind.n_swa
MaxPos == kind.max_pos
armed == kind.vbr           \* vbr_ownership_ exists

-----------------------------------------------------------------------------
(* llama_kv_cells                                                          *)

EmptyCells ==
    [pos     |-> [i \in Cells |-> -1],
     shift   |-> [i \in Cells |-> 0],
     seq     |-> [i \in Cells |-> {}],
     used    |-> {},
     seq_pos |-> [s \in Seqs |-> {}]]

\* The cells of sequence s, and the entries of those in I in its index.
Members(c, s) == {i \in Cells : s \in c.seq[i]}
Entries(c, I) == {<<c.pos[i], i>> : i \in I}

PosIn(c, i, p0, p1) == c.pos[i] >= p0 /\ c.pos[i] < p1

seq_pos_min(c, s) ==
    IF c.seq_pos[s] = {} THEN -1 ELSE Min({e[1] : e \in c.seq_pos[s]})

seq_pos_max(c, s) ==
    IF c.seq_pos[s] = {} THEN -1 ELSE Max({e[1] : e \in c.seq_pos[s]})

\* The cells that lose their last sequence when gone[i] leave cell i.
Emptied(c, gone) ==
    {i \in Cells : gone[i] # {} /\ c.seq[i] \subseteq gone[i]}

\* Variant: the index keeps the entries of emptied cells.
BugDrop(c, gone) ==
    LET dead == Emptied(c, gone)
    IN  [pos     |-> [i \in Cells |-> IF i \in dead THEN -1 ELSE c.pos[i]],
         shift   |-> [i \in Cells |-> IF i \in dead THEN 0 ELSE c.shift[i]],
         seq     |-> [i \in Cells |-> c.seq[i] \ gone[i]],
         used    |-> c.used \ dead,
         seq_pos |-> [s \in Seqs |-> c.seq_pos[s] \
                        Entries(c, {i \in Cells \ dead : s \in gone[i]})]]

\* seq_rm, rm and seq_keep of cells: the sequences gone[i] leave cell i, and
\* a cell without sequences is empty.
Drop(c, gone) ==
    LET dead == Emptied(c, gone)
    IN  [pos     |-> [i \in Cells |-> IF i \in dead THEN -1 ELSE c.pos[i]],
         shift   |-> [i \in Cells |-> IF i \in dead THEN 0 ELSE c.shift[i]],
         seq     |-> [i \in Cells |-> c.seq[i] \ gone[i]],
         used    |-> c.used \ dead,
         seq_pos |-> [s \in Seqs |-> c.seq_pos[s] \
                        Entries(c, {i \in Cells : s \in gone[i]})]]

\* seq_add of cells: s joins the cells I.
Share(c, I, s) ==
    [c EXCEPT !.seq = [i \in Cells |-> IF i \in I THEN c.seq[i] \cup {s}
                                       ELSE c.seq[i]],
              !.seq_pos[s] = @ \cup Entries(c, I)]

\* pos_set and seq_add of empty cells: cell i of I takes position p[i] and
\* the sequences q[i].
Put(c, I, p, q) ==
    [pos     |-> [i \in Cells |-> IF i \in I THEN p[i] ELSE c.pos[i]],
     shift   |-> c.shift,
     seq     |-> [i \in Cells |-> IF i \in I THEN q[i] ELSE c.seq[i]],
     used    |-> c.used \cup I,
     seq_pos |-> [s \in Seqs |-> c.seq_pos[s] \cup
                    {<<p[i], i>> : i \in {j \in I : s \in q[j]}}]]

\* Variant: a position below 0 is kept.
BugMove(c, I, p, d) ==
    [c EXCEPT !.pos   = [i \in Cells |-> IF i \in I THEN p[i] ELSE c.pos[i]],
              !.shift = [i \in Cells |-> IF i \in I THEN c.shift[i] + d[i]
                                         ELSE c.shift[i]],
              !.seq_pos = [s \in Seqs |->
                             (c.seq_pos[s] \ Entries(c, I \cap Members(c, s)))
                             \cup {<<p[i], i>> : i \in I \cap Members(c, s)}]]

\* pos_add and pos_div: the cells I move to the positions p, which adds d to
\* the rotation their keys wait for; one that falls below 0 is emptied.
Move(c, I, p, d) ==
    LET dead == {i \in I : p[i] < 0}
        moved == I \ dead
    IN  [pos     |-> [i \in Cells |-> IF i \in dead THEN -1
                                      ELSE IF i \in moved THEN p[i]
                                      ELSE c.pos[i]],
         shift   |-> [i \in Cells |-> IF i \in dead THEN 0
                                      ELSE IF i \in moved THEN c.shift[i] + d[i]
                                      ELSE c.shift[i]],
         seq     |-> [i \in Cells |-> IF i \in dead THEN {} ELSE c.seq[i]],
         used    |-> c.used \ dead,
         seq_pos |-> [s \in Seqs |->
                        (c.seq_pos[s] \ Entries(c, I \cap Members(c, s))) \cup
                        {<<p[i], i>> : i \in moved \cap Members(c, s)}]]

\* set: the cells I become what they were in o.  The shift is not restored.
Restored(c, I, o) ==
    LET live == {i \in I : o.pos[i] # -1}
    IN  [pos     |-> [i \in Cells |-> IF i \in I THEN o.pos[i] ELSE c.pos[i]],
         shift   |-> c.shift,
         seq     |-> [i \in Cells |-> IF i \in I THEN o.seq[i] ELSE c.seq[i]],
         used    |-> (c.used \ (I \ live)) \cup live,
         seq_pos |-> [s \in Seqs |->
                        (c.seq_pos[s] \ Entries(c, I \cap Members(c, s))) \cup
                        Entries(o, live \cap Members(o, s))]]

-----------------------------------------------------------------------------
(* vbr_ownership_index.  A view: the cells in its page masks and, for each *)
(* position it can count, what its Fenwick tree holds there.               *)

NoView == [in_use |-> FALSE, unavailable |-> FALSE, mask |-> {},
           count |-> [p \in 0 .. n_positions - 1 |-> 0]]

InDomain(p) == p >= 0 /\ p < n_positions

\* add_cell for the cells I at positions p.  A position outside of the domain
\* makes the view unavailable and is not recorded.
Owned(v, I, p) ==
    LET new == {i \in I \ v.mask : InDomain(p[i])}
    IN  IF I = {} THEN v
        ELSE [in_use      |-> TRUE,
              unavailable |-> v.unavailable \/ \E i \in I : ~InDomain(p[i]),
              mask        |-> v.mask \cup new,
              count       |-> [k \in DOMAIN v.count |->
                                 v.count[k] + Cardinality({i \in new : p[i] = k})]]

\* Variant: the positions stay counted.
BugDisowned(v, I, p) == [v EXCEPT !.mask = @ \ I]

\* remove_cell for the cells I, which were at positions p.
Disowned(v, I, p) ==
    LET old == I \cap v.mask
    IN  IF ~v.in_use THEN v
        ELSE [v EXCEPT !.unavailable = @ \/ \E i \in old : ~InDomain(p[i]),
                       !.mask = @ \ old,
                       !.count = [k \in DOMAIN @ |->
                                    @[k] - Cardinality({i \in old : p[i] = k})]]

\* seq_rm releases the view of a sequence that is gone.
Released(c, v, s) == IF c.seq_pos[s] = {} THEN NoView ELSE v

-----------------------------------------------------------------------------
(* Slots                                                                   *)

\* is_masked_swa, LLAMA_SWA_TYPE_STANDARD: a token at p1 does not see p0.
Masked(p0, p1) == n_swa > 0 /\ p1 - p0 >= n_swa

\* Variant: one owner that has moved on is enough.
BugCanReuse(c, i) ==
    \/ c.pos[i] = -1
    \/ \E s \in c.seq[i] : Masked(c.pos[i], seq_pos_max(c, s) + 1)

\* can_reuse_cell: empty, or seen by the next token of none of its owners.
CanReuse(c, i) ==
    \/ c.pos[i] = -1
    \/ n_swa > 0 /\ \A s \in c.seq[i] : Masked(c.pos[i], seq_pos_max(c, s) + 1)

\* find_slot: the first n reusable cells from the head on, all around.  The
\* set has one member, or none when there are not enough.
FindSlot(c, h, n) ==
    LET start  == IF h > Cardinality(c.used) + 2 * n THEN 0 ELSE h
        far(i) == (i - start) % n_cells
    IN  {slot \in [1 .. n -> {i \in Cells : CanReuse(c, i)}] :
           /\ \A k \in 1 .. n - 1 : far(slot[k]) < far(slot[k + 1])
           /\ \A i \in Cells : CanReuse(c, i) /\ far(i) <= far(slot[n]) =>
                                \E k \in 1 .. n : slot[k] = i}

SlotCells(slot) == {slot[k] : k \in DOMAIN slot}

\* The token of ubatch u that goes to cell i.
TokenOf(slot, u, i) == u[CHOOSE k \in DOMAIN slot : slot[k] = i]

\* seq_pos_max_rm: the largest position of s that the slot overwrites.
PosMaxRm(c, slot, s) ==
    LET lost == {c.pos[i] : i \in SlotCells(slot) \cap Members(c, s)}
    IN  IF lost = {} THEN -1 ELSE Max(lost)

\* Variant: the older rows of an overwritten sequence are left.
BugPurged(c, slot, placed) == [i \in Cells |-> {}]

\* The purge at the end of apply_ubatch: what is not younger than an
\* overwritten row of its sequence.
Purged(c, slot, placed) ==
    [i \in Cells |-> {s \in placed.seq[i] :
                        PosIn(placed, i, 0, PosMaxRm(c, slot, s) + 1)}]

\* apply_ubatch before the purge: the occupied cells are cleared, and the
\* tokens written.
Placed(c, slot, u) ==
    LET I == SlotCells(slot)
    IN  Put(Drop(c, [i \in Cells |-> IF i \in I THEN c.seq[i] ELSE {}]), I,
            [i \in I |-> TokenOf(slot, u, i).pos],
            [i \in I |-> TokenOf(slot, u, i).seqs])

ApplyUbatch(c, slot, u) ==
    LET placed == Placed(c, slot, u)
    IN  Drop(placed, Purged(c, slot, placed))

\* Variant: only the slot itself is journalled.
BugTouched(c, slot) == SlotCells(slot)

\* plan_slots: the cells that apply_ubatch can touch.
Touched(c, slot) ==
    SlotCells(slot) \cup
    {i \in Cells : \E s \in c.seq[i] : PosIn(c, i, 0, PosMaxRm(c, slot, s) + 1)}

-----------------------------------------------------------------------------
(* Edits by the caller, between decodes                                    *)

\* The cell the search starts at next: the first one freed, if it comes
\* before.
HeadAfter(dead) ==
    IF dead # {} /\ Min(dead) < head THEN Min(dead) ELSE head

\* The views after the sequences gone[i] left cell i of c.
Disown(c, gone) ==
    IF armed THEN [s \in Seqs |->
                     Disowned(owner[s], {i \in Cells : s \in gone[i]}, c.pos)]
    ELSE owner

\* History: an empty cell has no key.
ForgetKeys ==
    /\ rot' = [i \in Cells |-> IF cells'.pos[i] = -1 THEN 0 ELSE rot[i]]
    /\ divided' = {i \in divided : cells'.pos[i] # -1}
    /\ unwritten' = [i \in Cells |-> IF cells'.pos[i] = -1 THEN {}
                                     ELSE unwritten[i]]

WithinShift(d) == -MaxShift <= d /\ d <= MaxShift

MayEdit(op) == phase = "idle" /\ op \in kind.edits

\* seq_rm of one sequence: the cells with positions in p0 .. p1 - 1.
SeqRm(s, p0, p1) ==
    LET gone == [i \in Cells |-> IF PosIn(cells, i, p0, p1)
                                 THEN cells.seq[i] \cap {s} ELSE {}]
    IN  /\ cells' = Drop(cells, gone)
        /\ head' = HeadAfter(Emptied(cells, gone))
        /\ owner' = IF armed
                    THEN [Disown(cells, gone) EXCEPT ![s] = Released(cells', @, s)]
                    ELSE owner

EditRm ==
    /\ MayEdit("rm")
    /\ \E s \in Seqs, p0 \in 0 .. MaxPos, p1 \in 1 .. MaxPos + 1 :
            p0 < p1 /\ SeqRm(s, p0, p1)
    /\ ForgetKeys
    /\ UNCHANGED <<kind, phase, ubs, plan, journal, before>>

\* seq_rm of all sequences.
EditRmAll ==
    /\ MayEdit("rm")
    /\ \E p0 \in 0 .. MaxPos, p1 \in 1 .. MaxPos + 1 :
         LET gone == [i \in Cells |-> IF PosIn(cells, i, p0, p1)
                                      THEN cells.seq[i] ELSE {}]
         IN  /\ p0 < p1
             /\ cells' = Drop(cells, gone)
             /\ head' = HeadAfter(Emptied(cells, gone))
             /\ owner' = Disown(cells, gone)
    /\ ForgetKeys
    /\ UNCHANGED <<kind, phase, ubs, plan, journal, before>>

\* seq_cp within the stream.
EditCp ==
    /\ MayEdit("cp")
    /\ \E s, t \in Seqs, p0 \in 0 .. MaxPos, p1 \in 1 .. MaxPos + 1 :
         LET I == {i \in Cells : /\ PosIn(cells, i, p0, p1)
                                 /\ s \in cells.seq[i] /\ t \notin cells.seq[i]}
         IN  /\ s # t /\ p0 < p1
             /\ cells' = Share(cells, I, t)
             /\ owner' = IF armed
                         THEN [owner EXCEPT ![t] = Owned(@, I, cells.pos)]
                         ELSE owner
    /\ UNCHANGED <<head, kind, phase, ubs, plan, journal, before, rot, divided,
                  unwritten>>

\* seq_keep: all others leave.
EditKeep ==
    /\ MayEdit("keep")
    /\ \E s \in Seqs :
         LET gone == [i \in Cells |-> cells.seq[i] \ {s}]
         IN  /\ cells' = Drop(cells, gone)
             /\ head' = HeadAfter(Emptied(cells, gone))
             /\ owner' = Disown(cells, gone)
    /\ ForgetKeys
    /\ UNCHANGED <<kind, phase, ubs, plan, journal, before>>

\* clear.
EditClear ==
    /\ MayEdit("clear")
    /\ cells' = EmptyCells
    /\ head' = 0
    /\ owner' = [s \in Seqs |-> NoView]
    /\ ForgetKeys
    /\ UNCHANGED <<kind, phase, ubs, plan, journal, before>>

\* seq_add: the cells of s from p0 on move by d.  A cache with a VBR budget
\* cannot shift (get_can_shift), and its callers ask.
EditAdd ==
    /\ MayEdit("add") /\ ~armed
    /\ \E s \in Seqs, p0 \in 0 .. MaxPos, d \in Shifts \ {0} :
         LET I == {i \in Members(cells, s) : cells.pos[i] >= p0}
             p == [i \in Cells |-> cells.pos[i] + d]
             dead == {i \in I : p[i] < 0}
         IN  /\ \A i \in I \ dead : /\ p[i] <= MaxPos
                                   /\ WithinShift(cells.shift[i] + d)
             /\ cells' = Move(cells, I, p, [i \in Cells |-> d])
             /\ head' = IF dead # {} THEN Min(dead) ELSE 0
    /\ ForgetKeys
    /\ UNCHANGED <<kind, owner, phase, ubs, plan, journal, before>>

\* seq_div: positions are divided, and pos_div adds what they lost.
EditDiv ==
    /\ MayEdit("div") /\ ~armed
    /\ \E s \in Seqs, p0 \in 0 .. MaxPos :
         LET I == {i \in Members(cells, s) : cells.pos[i] >= p0}
             p == [i \in Cells |-> cells.pos[i] \div 2]
         IN  /\ cells' = Move(cells, I, p,
                              [i \in Cells |-> cells.pos[i] - p[i]])
             /\ \A i \in I : WithinShift(cells'.shift[i])
             /\ divided' = divided \cup {i \in I : p[i] # cells.pos[i]}
    /\ UNCHANGED <<head, kind, owner, phase, ubs, plan, journal, before, rot,
                  unwritten>>

-----------------------------------------------------------------------------
(* decode                                                                  *)

\* The batches llama_batch_allocr lets through: the positions of a sequence
\* go on where it ended, and sequences that share a token share their range.
Batches ==
    {b \in UNION {[1 .. n -> (SUBSET Seqs) \ {{}}] : n \in 1 .. MaxTokens} :
       \A k \in DOMAIN b : \A s, t \in b[k] :
          /\ seq_pos_min(cells, s) = seq_pos_min(cells, t)
          /\ seq_pos_max(cells, s) = seq_pos_max(cells, t)
          /\ \A j \in 1 .. k - 1 : s \in b[j] <=> t \in b[j]}

TokenPos(b, k) ==
    LET s == CHOOSE s \in b[k] : TRUE
    IN  seq_pos_max(cells, s) + 1 + Cardinality({j \in 1 .. k - 1 : s \in b[j]})

\* split_simple: n_ubatch tokens at a time.
Split(tokens) ==
    [k \in 1 .. (Len(tokens) + n_ubatch - 1) \div n_ubatch |->
       SubSeq(tokens, (k - 1) * n_ubatch + 1,
              IF k * n_ubatch < Len(tokens) THEN k * n_ubatch ELSE Len(tokens))]

\* The rotations of the keys that are there, each turned by its shift.
Turned == [i \in Cells |-> IF unwritten[i] = {} THEN rot[i] + cells.shift[i]
                           ELSE rot[i]]

\* Variant: the shift is not reset.
BugKShift ==
    /\ rot' = Turned
    /\ UNCHANGED cells

\* update: the keys get the rotation they wait for.
KShift ==
    /\ rot' = Turned
    /\ cells' = [cells EXCEPT !.shift = [i \in Cells |-> 0]]

\* The K-shift graph cannot be allocated, or fails before it has rotated a
\* key.  memory_update logs it, and the decode goes on.
KShiftFails ==
    /\ kind.shift_fails
    /\ \E i \in Cells : cells.shift[i] # 0
    /\ UNCHANGED <<cells, rot>>

\* Outside of a decode, and once its first ubatch is placed.
NoBefore == [cells |-> EmptyCells, head |-> -1]

\* A decode begins: memory_update, and the split of the batch.
Decode ==
    /\ phase = "idle"
    /\ KShift \/ KShiftFails
    /\ \E b \in Batches :
         LET tokens == [k \in DOMAIN b |-> [pos |-> TokenPos(b, k), seqs |-> b[k]]]
         IN  /\ \A k \in DOMAIN tokens : tokens[k].pos \in 0 .. MaxPos
             /\ ubs' = Split(tokens)
    /\ before' = [cells |-> cells', head |-> head]
    /\ phase' = "plan"
    /\ UNCHANGED <<head, kind, owner, plan, journal, divided, unwritten>>

\* The decode is over: what only it knows is forgotten.
EndDecode ==
    /\ phase' = "idle"
    /\ ubs' = <<>> /\ plan' = <<>> /\ journal' = <<>>
    /\ before' = NoBefore

\* plan_slots: the next ubatch finds a slot and is placed for a try.
PlanUbatch ==
    LET u     == ubs[Len(plan) + 1]
        slots == FindSlot(cells, head, Len(u))
    IN
    /\ phase = "plan" /\ Len(plan) < Len(ubs)
    /\ \/ \E slot \in slots :
            /\ plan' = Append(plan, slot)
            /\ journal' = Append(journal, [idxs |-> Touched(cells, slot),
                                           cells |-> cells, head |-> head])
            /\ cells' = ApplyUbatch(cells, slot, u)
            /\ head' = slot[Len(slot)] + 1
            /\ UNCHANGED <<phase, ubs, before>>
       \/ /\ slots = {} /\ journal = <<>>
          /\ EndDecode
          /\ UNCHANGED <<cells, head>>
       \/ /\ slots = {} /\ journal # <<>>
          /\ phase' = "fail"
          /\ UNCHANGED <<cells, head, ubs, plan, journal, before>>
    /\ UNCHANGED <<kind, owner, rot, divided, unwritten>>

\* plan_slots puts the last journalled state back.
PlanRestore ==
    LET j == journal[Len(journal)]
        last == Len(journal) = 1
    IN
    /\ \/ phase = "plan" /\ Len(plan) = Len(ubs)
       \/ phase \in {"undo", "fail"}
    /\ cells' = Restored(cells, j.idxs, j.cells)
    /\ head' = j.head
    /\ IF last /\ phase = "fail" THEN EndDecode
       ELSE /\ journal' = SubSeq(journal, 1, Len(journal) - 1)
            /\ phase' = IF last THEN "commit"
                        ELSE IF phase = "fail" THEN "fail" ELSE "undo"
            /\ UNCHANGED <<ubs, plan, before>>
    /\ UNCHANGED <<kind, owner, rot, divided, unwritten>>

\* No memory for the mapping, the scratch or the outputs: the decode ends
\* before the first ubatch.
Abandon ==
    /\ phase = "commit" /\ before # NoBefore
    /\ EndDecode
    /\ UNCHANGED <<cells, head, kind, owner, rot, divided, unwritten>>

\* apply_ubatch of the next ubatch, for good.  Only the metadata: the keys are
\* not written yet.
Commit ==
    LET u      == Head(ubs)
        slot   == Head(plan)
        I      == SlotCells(slot)
        placed == Placed(cells, slot, u)
        purged == Purged(cells, slot, placed)
        \* the views, as the cells are cleared, written and purged
        lost(s)  == Disowned(owner[s], I \cap Members(cells, s), cells.pos)
        added(s) == Owned(lost(s), {i \in I : s \in placed.seq[i]}, placed.pos)
        trimmed(s) == Disowned(added(s), {i \in Cells : s \in purged[i]},
                               placed.pos)
    IN
    /\ phase = "commit"
    /\ cells' = ApplyUbatch(cells, slot, u)
    /\ head' = slot[Len(slot)] + 1
    /\ owner' = IF armed
                THEN [s \in Seqs |->
                        IF PosMaxRm(cells, slot, s) = -1 THEN added(s)
                        ELSE Released(cells', trimmed(s), s)]
                ELSE owner
    /\ rot' = [i \in Cells |-> IF i \in I \/ cells'.pos[i] = -1 THEN 0 ELSE rot[i]]
    /\ divided' = {i \in divided \ I : cells'.pos[i] # -1}
    /\ unwritten' = [i \in Cells |-> IF cells'.pos[i] = -1 THEN {}
                                     ELSE IF i \in I THEN TokenOf(slot, u, i).seqs
                                     ELSE unwritten[i]]
    /\ phase' = "compute"
    /\ before' = NoBefore
    /\ UNCHANGED <<kind, ubs, plan, journal>>

\* The graph of the ubatch is computed: it writes the keys, rotated to the
\* positions of the tokens.
Computed ==
    LET u    == Head(ubs)
        slot == Head(plan)
        I    == SlotCells(slot)
    IN
    /\ phase = "compute"
    /\ IF Len(ubs) = 1 THEN EndDecode
       ELSE /\ phase' = "commit"
            /\ ubs' = Tail(ubs) /\ plan' = Tail(plan)
            /\ UNCHANGED <<journal, before>>
    /\ rot' = [i \in Cells |-> IF i \in I THEN TokenOf(slot, u, i).pos ELSE rot[i]]
    /\ unwritten' = [i \in Cells |-> IF i \in I THEN {} ELSE unwritten[i]]
    /\ UNCHANGED <<cells, head, kind, owner, divided>>

\* It fails: seq_rm from the first position of the ubatch on, for the first
\* sequence of each token.  No key can be relied on in a row that stays.
ComputeFails ==
    LET u == Head(ubs)
        from(s) == {u[k].pos : k \in {j \in DOMAIN u : s = Min(u[j].seqs)}}
        gone == [i \in Cells |-> {s \in cells.seq[i] :
                                    from(s) # {} /\ cells.pos[i] >= Min(from(s))}]
    IN
    /\ phase = "compute"
    /\ cells' = Drop(cells, gone)
    /\ head' = HeadAfter(Emptied(cells, gone))
    /\ owner' = IF armed
                THEN [s \in Seqs |-> IF from(s) = {} THEN owner[s]
                                     ELSE Released(cells', Disown(cells, gone)[s], s)]
                ELSE owner
    /\ EndDecode
    /\ ForgetKeys
    /\ UNCHANGED kind

-----------------------------------------------------------------------------
(* Specification                                                           *)

Init ==
    /\ cells = EmptyCells /\ head = 0
    /\ kind \in Caches
    /\ owner = [s \in Seqs |-> NoView]
    /\ phase = "idle" /\ ubs = <<>> /\ plan = <<>> /\ journal = <<>>
    /\ before = NoBefore
    /\ rot = [i \in Cells |-> 0] /\ divided = {}
    /\ unwritten = [i \in Cells |-> {}]

Next ==
    \/ EditRm \/ EditRmAll \/ EditCp \/ EditKeep \/ EditClear \/ EditAdd
    \/ EditDiv
    \/ Decode \/ PlanUbatch \/ PlanRestore \/ Abandon \/ Commit \/ Computed
    \/ ComputeFails

Spec == Init /\ [][Next]_vars

-----------------------------------------------------------------------------
(* Properties                                                              *)

CellsType ==
    [pos : [Cells -> Int], shift : [Cells -> Int], seq : [Cells -> SUBSET Seqs],
     used : SUBSET Cells, seq_pos : [Seqs -> SUBSET (Int \X Cells)]]

TypeOK ==
    /\ cells \in CellsType
    /\ \A i \in Cells : cells.pos[i] >= -1
    /\ head \in 0 .. n_cells
    /\ kind \in Caches
    /\ phase \in {"idle", "plan", "undo", "fail", "commit", "compute"}
    /\ \A k \in DOMAIN plan : SlotCells(plan[k]) \subseteq Cells
    /\ rot \in [Cells -> Int]
    /\ divided \subseteq Cells
    /\ unwritten \in [Cells -> SUBSET Seqs]

\* No trial placements are on the cells.
Settled == phase \in {"idle", "commit", "compute"}

Agree(c) ==
    /\ c.used = {i \in Cells : c.pos[i] # -1}
    /\ \A i \in Cells : /\ c.pos[i] = -1 <=> c.seq[i] = {}
                        /\ c.pos[i] = -1 => c.shift[i] = 0
    /\ \A s \in Seqs : c.seq_pos[s] = Entries(c, Members(c, s))

\* The redundant views of the cells agree, in every state of every operation,
\* the trial placements included: a cell is used exactly when it has a
\* position and a sequence, and the index of a sequence holds its cells, each
\* once and at its position.  seq_pos_min and seq_pos_max, the slot search
\* and the checks of the next batch all read the indexes only.
IndexesAgree == Agree(cells)

\* Planning leaves no trace: what plan_slots puts back, one journalled state
\* after the other, is exactly what it found, whichever ubatch found no slot.
PlanRestores ==
    [][(phase \in {"plan", "undo", "fail"}) /\ phase' \in {"commit", "idle"}
         => cells' = before.cells /\ head' = before.head]_vars

\* The plan made on trial placements holds when the ubatches are placed one
\* by one, with graphs computed in between: each gets the cells that the
\* search would choose at that time.
PlanHolds ==
    phase = "commit" => FindSlot(cells, head, Len(Head(ubs))) = {Head(plan)}

\* A decode takes from a sequence no row that its next token can see: not
\* the rows it overwrites, not the older ones it purges, and not those of a
\* sequence that has no token in the batch.
DecodeSparesWindow ==
    [][Commit => \A s \in Seqs : \A e \in cells.seq_pos[s] \ cells'.seq_pos[s] :
                    Masked(e[1], seq_pos_max(cells, s) + 1)]_vars

Gapless(c, s) ==
    {e[1] : e \in c.seq_pos[s]} =
        IF c.seq_pos[s] = {} THEN {} ELSE seq_pos_min(c, s) .. seq_pos_max(c, s)

\* All positions between the smallest and the largest of a sequence are
\* present after a decode, and after one that failed, if they were before.
NoGap ==
    [][(phase \in {"commit", "compute"}) => \A s \in Seqs :
          Gapless(cells, s) => Gapless(cells', s)]_vars

\* The graph that is to write the key of cell i is being computed.
InGraph(i) == phase = "compute" /\ i \in SlotCells(Head(plan))

\* A row has its key, and the rotation that waits for the key brings it to the
\* position of the row, whatever edits, decodes and failures came between.
\* There are two exceptions.  A row whose position seq_div changed has its
\* key at another rotation.  A row has no key while its graph is computed,
\* and when that graph failed; then its token had several sequences.
RowsRotated ==
    Settled => \A i \in cells.used :
        IF unwritten[i] = {}
        THEN i \in divided \/ cells.pos[i] = rot[i] + cells.shift[i]
        ELSE InGraph(i) \/ \E s, t \in unwritten[i] : s # t

\* The keys that were written are rotated to their positions, divided or not.
KeysFollow ==
    Settled => \A i \in cells.used :
        unwritten[i] = {} => cells.pos[i] = rot[i] + cells.shift[i]

\* A view that says it is available enumerates exactly the cells of its
\* sequence and ranks exactly their positions; without a view, there are no
\* cells.  (The trial placements of a plan do not touch the views.)
OwnershipExact ==
    armed /\ Settled =>
        \A s \in Seqs :
          LET v == owner[s] IN
          /\ ~v.in_use => Members(cells, s) = {}
          /\ v.in_use /\ ~v.unavailable =>
               /\ v.mask = Members(cells, s)
               /\ \A p \in DOMAIN v.count :
                    v.count[p] = Cardinality({i \in v.mask : cells.pos[i] = p})

\* "Remove all positions of that ubatch": after a failed graph, none of the
\* rows it was to write is left in any sequence.
FailedRowsGone ==
    [][ComputeFails => \A i \in SlotCells(Head(plan)) : cells'.pos[i] = -1]_vars

=============================================================================
