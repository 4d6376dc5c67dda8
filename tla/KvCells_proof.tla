--------------------------- MODULE KvCells_proof ---------------------------
(***************************************************************************)
(* Proofs about KvCells, for every size of the cache, set of sequences,    *)
(* kind of cache and bound: the indexes of the cells agree with the cells  *)
(* in every state, planning a batch leaves no trace, and keys are rotated  *)
(* to the positions of their rows.                                         *)
(***************************************************************************)
EXTENDS KvCells, SequenceTheorems, WellFoundedInduction, TLAPS

Token == [pos : Nat, seqs : (SUBSET Seqs) \ {{}}]
Ubatch == {u \in Seq(Token) : u # <<>>}

\* The history of the keys.
KeysType ==
    /\ rot \in [Cells -> Int]
    /\ divided \subseteq Cells
    /\ unwritten \in [Cells -> SUBSET Seqs]

\* Cells in order.
Good(c) ==
    /\ c \in CellsType
    /\ \A i \in Cells : c.pos[i] >= -1
    /\ Agree(c)

-----------------------------------------------------------------------------
(* The operations of llama_kv_cells                                        *)

\* An entry names its cell.
LEMMA EntriesMinus ==
  ASSUME NEW c, NEW A, NEW B
  PROVE  Entries(c, A) \ Entries(c, B) = Entries(c, A \ B)
<1>1. \A i, j : <<c.pos[i], i>> = <<c.pos[j], j>> => i = j
  OBVIOUS
<1> QED
  BY <1>1 DEF Entries

\* Cells with the same positions have the same entries.
LEMMA EntriesSame ==
  ASSUME NEW c, NEW d, NEW A, \A i \in A : c.pos[i] = d.pos[i]
  PROVE  Entries(c, A) = Entries(d, A)
BY DEF Entries

\* The empty cache is in order.
LEMMA EmptyGood == Good(EmptyCells)
  BY DEF Good, EmptyCells, CellsType, Agree, Entries, Members

\* Sequences that leave cells take their entries along, and a cell without
\* sequences is empty (seq_rm, rm, seq_keep).
LEMMA DropGood ==
  ASSUME NEW c, Good(c),
         NEW gone \in [Cells -> SUBSET Seqs],
         \A i \in Cells : gone[i] \subseteq c.seq[i]
  PROVE  Good(Drop(c, gone))
<1> DEFINE dead == Emptied(c, gone)
           r == Drop(c, gone)
<1>1. dead \subseteq Cells
  BY DEF Emptied
<1>2. /\ r.pos = [i \in Cells |-> IF i \in dead THEN -1 ELSE c.pos[i]]
      /\ r.shift = [i \in Cells |-> IF i \in dead THEN 0 ELSE c.shift[i]]
      /\ r.seq = [i \in Cells |-> c.seq[i] \ gone[i]]
      /\ r.used = c.used \ dead
      /\ r.seq_pos = [s \in Seqs |-> c.seq_pos[s] \
                         Entries(c, {i \in Cells : s \in gone[i]})]
  BY DEF Drop
<1>3. r \in CellsType
  BY <1>1 DEF Good, CellsType, Drop
<1>4. \A i \in Cells : r.pos[i] >= -1
  BY <1>2 DEF Good, CellsType
<1>5. \A i \in Cells : i \in dead <=> gone[i] # {} /\ r.seq[i] = {}
  BY <1>2 DEF Emptied
<1>6. \A i \in Cells : r.seq[i] = {} <=> i \in dead \/ c.pos[i] = -1
  BY <1>2, <1>5 DEF Good, Agree, CellsType
<1>7. \A s \in Seqs : r.seq_pos[s] = Entries(r, Members(r, s))
  <2> TAKE s \in Seqs
  <2>1. \A i \in Members(r, s) : i \in Cells /\ r.pos[i] = c.pos[i]
    BY <1>2, <1>5 DEF Members
  <2>2. Members(r, s) = Members(c, s) \ {i \in Cells : s \in gone[i]}
    BY <1>2 DEF Members
  <2>3. c.seq_pos[s] = Entries(c, Members(c, s))
    BY DEF Good, Agree
  <2>4. Entries(r, Members(r, s)) = Entries(c, Members(r, s))
    BY <2>1, EntriesSame
  <2>5. r.seq_pos[s] = c.seq_pos[s] \ Entries(c, {i \in Cells : s \in gone[i]})
    BY <1>2
  <2>6. Entries(c, Members(c, s)) \ Entries(c, {i \in Cells : s \in gone[i]})
          = Entries(c, Members(c, s) \ {i \in Cells : s \in gone[i]})
    BY EntriesMinus
  <2> HIDE DEF r
  <2> QED
    BY <2>2, <2>3, <2>4, <2>5, <2>6
<1>8. r.used = {i \in Cells : r.pos[i] # -1}
  BY <1>1, <1>2 DEF Good, Agree, CellsType
<1>9. \A i \in Cells : r.pos[i] = -1 <=> i \in dead \/ c.pos[i] = -1
  BY <1>2
<1>10. \A i \in Cells : r.pos[i] = -1 => r.shift[i] = 0
  BY <1>2, <1>9 DEF Good, Agree
<1> HIDE DEF r, dead
<1> QED
  BY <1>3, <1>4, <1>6, <1>7, <1>8, <1>9, <1>10 DEF Good, Agree, r

\* A sequence that joins used cells takes their entries (seq_add).
LEMMA ShareGood ==
  ASSUME NEW c, Good(c), NEW I \in SUBSET Cells, NEW t \in Seqs,
         \A i \in I : c.pos[i] # -1
  PROVE  Good(Share(c, I, t))
<1> DEFINE r == Share(c, I, t)
<1>1. /\ r.pos = c.pos /\ r.shift = c.shift /\ r.used = c.used
      /\ r.seq = [i \in Cells |-> IF i \in I THEN c.seq[i] \cup {t} ELSE c.seq[i]]
      /\ r.seq_pos = [c.seq_pos EXCEPT ![t] = @ \cup Entries(c, I)]
  BY DEF Share, Good, CellsType
<1>2. Entries(c, I) \subseteq Int \X Cells
  BY DEF Entries, Good, CellsType
<1>3. r \in CellsType
  BY <1>2 DEF Share, Good, CellsType
<1>4. \A s \in Seqs : r.seq_pos[s] = Entries(r, Members(r, s))
  <2> TAKE s \in Seqs
  <2>1. Entries(r, Members(r, s)) = Entries(c, Members(r, s))
    BY <1>1, EntriesSame
  <2>2. Members(r, s) = IF s = t THEN Members(c, s) \cup I ELSE Members(c, s)
    BY <1>1 DEF Members
  <2>3. c.seq_pos[s] = Entries(c, Members(c, s))
    BY DEF Good, Agree
  <2>4. Entries(c, Members(c, s) \cup I) = Entries(c, Members(c, s)) \cup Entries(c, I)
    BY DEF Entries
  <2>5. r.seq_pos[s] = IF s = t THEN c.seq_pos[s] \cup Entries(c, I) ELSE c.seq_pos[s]
    BY <1>1 DEF Good, CellsType
  <2> HIDE DEF r
  <2> QED
    BY <2>1, <2>2, <2>3, <2>4, <2>5
<1>5. \A i \in Cells : r.seq[i] = {} <=> c.seq[i] = {}
  BY <1>1 DEF Good, Agree
<1> HIDE DEF r
<1> QED
  BY <1>1, <1>3, <1>4, <1>5 DEF Good, Agree, r

\* Empty cells that take a position and sequences (pos_set, seq_add).
LEMMA PutGood ==
  ASSUME NEW c, Good(c), NEW I \in SUBSET Cells,
         \A i \in I : c.pos[i] = -1,
         NEW p \in [I -> Nat], NEW q \in [I -> (SUBSET Seqs) \ {{}}]
  PROVE  Good(Put(c, I, p, q))
<1> DEFINE r == Put(c, I, p, q)
<1>1. /\ r.pos = [i \in Cells |-> IF i \in I THEN p[i] ELSE c.pos[i]]
      /\ r.shift = c.shift
      /\ r.seq = [i \in Cells |-> IF i \in I THEN q[i] ELSE c.seq[i]]
      /\ r.used = c.used \cup I
      /\ r.seq_pos = [s \in Seqs |-> c.seq_pos[s] \cup
                        {<<p[i], i>> : i \in {j \in I : s \in q[j]}}]
  BY DEF Put
<1>2. r \in CellsType
  BY DEF Put, Good, CellsType
<1>3. \A s \in Seqs : r.seq_pos[s] = Entries(r, Members(r, s))
  <2> TAKE s \in Seqs
  <2> DEFINE J == {j \in I : s \in q[j]}
  <2>1. Members(r, s) = Members(c, s) \cup J
    BY <1>1 DEF Members, Good, Agree
  <2>2. \A i \in Members(c, s) : r.pos[i] = c.pos[i]
    BY <1>1 DEF Members, Good, Agree
  <2>3. Entries(r, Members(c, s)) = c.seq_pos[s]
    BY <2>2, EntriesSame DEF Good, Agree
  <2>4. Entries(r, J) = {<<p[i], i>> : i \in J}
    BY <1>1 DEF Entries
  <2>5. Entries(r, Members(c, s) \cup J) = Entries(r, Members(c, s)) \cup Entries(r, J)
    BY DEF Entries
  <2>6. r.seq_pos[s] = c.seq_pos[s] \cup {<<p[i], i>> : i \in J}
    BY <1>1
  <2> HIDE DEF r, J
  <2> QED
    BY <2>1, <2>3, <2>4, <2>5, <2>6
<1>4. \A i \in Cells : r.pos[i] >= -1 /\ (r.pos[i] = -1 <=> i \notin I /\ c.pos[i] = -1)
  BY <1>1 DEF Good, CellsType
<1>5. \A i \in Cells : r.seq[i] = {} <=> i \notin I /\ c.seq[i] = {}
  <2>1. \A i \in I : q[i] # {}
    OBVIOUS
  <2> QED
    BY <1>1, <2>1
<1>6. r.used = {i \in Cells : r.pos[i] # -1}
  BY <1>1, <1>4 DEF Good, Agree
<1> HIDE DEF r
<1> QED
  BY <1>1, <1>2, <1>3, <1>4, <1>5, <1>6 DEF Good, Agree, r

\* Used cells that move take their entries along, or leave all indexes
\* (pos_add, pos_div).
LEMMA MoveGood ==
  ASSUME NEW c, Good(c), NEW I \in SUBSET c.used,
         NEW p \in [Cells -> Int], NEW d \in [Cells -> Int]
  PROVE  Good(Move(c, I, p, d))
<1> DEFINE r == Move(c, I, p, d)
           dead == {i \in I : p[i] < 0}
           moved == I \ dead
<1>1. /\ r.pos = [i \in Cells |-> IF i \in dead THEN -1
                                  ELSE IF i \in moved THEN p[i] ELSE c.pos[i]]
      /\ r.shift = [i \in Cells |-> IF i \in dead THEN 0
                                  ELSE IF i \in moved THEN c.shift[i] + d[i]
                                  ELSE c.shift[i]]
      /\ r.seq = [i \in Cells |-> IF i \in dead THEN {} ELSE c.seq[i]]
      /\ r.used = c.used \ dead
      /\ r.seq_pos = [s \in Seqs |->
                        (c.seq_pos[s] \ Entries(c, I \cap Members(c, s))) \cup
                        {<<p[i], i>> : i \in moved \cap Members(c, s)}]
  BY DEF Move
<1>2. I \subseteq Cells
  BY DEF Good, Agree
<1>3. r \in CellsType
  <2>1. r.pos \in [Cells -> Int] /\ r.shift \in [Cells -> Int]
    BY <1>1 DEF Good, CellsType
  <2>2. r.seq \in [Cells -> SUBSET Seqs] /\ r.used \in SUBSET Cells
    BY <1>1 DEF Good, CellsType
  <2>3. r.seq_pos \in [Seqs -> SUBSET (Int \X Cells)]
    BY <1>1, <1>2 DEF Good, CellsType
  <2> QED
    BY <2>1, <2>2, <2>3 DEF CellsType, Move
<1>4. \A s \in Seqs : r.seq_pos[s] = Entries(r, Members(r, s))
  <2> TAKE s \in Seqs
  <2> DEFINE M == Members(c, s)
  <2>1. Members(r, s) = (M \ I) \cup (moved \cap M)
    BY <1>1, <1>2 DEF Members
  <2>2. Entries(r, M \ I) = Entries(c, M \ I)
    <3>1. \A i \in M \ I : r.pos[i] = c.pos[i]
      BY <1>1 DEF Members
    <3> QED
      BY <3>1, EntriesSame
  <2>3. Entries(r, moved \cap M) = {<<p[i], i>> : i \in moved \cap M}
    BY <1>1, <1>2 DEF Entries
  <2>4. c.seq_pos[s] \ Entries(c, I \cap M) = Entries(c, M \ I)
    <3>1. c.seq_pos[s] = Entries(c, M)
      BY DEF Good, Agree
    <3>2. \A i, j : <<c.pos[i], i>> = <<c.pos[j], j>> => i = j
      OBVIOUS
    <3> HIDE DEF M
    <3> QED
      BY <3>1, <3>2 DEF Entries
  <2>5. Entries(r, (M \ I) \cup (moved \cap M))
          = Entries(r, M \ I) \cup Entries(r, moved \cap M)
    BY DEF Entries
  <2>6. r.seq_pos[s] = (c.seq_pos[s] \ Entries(c, I \cap M)) \cup
                       {<<p[i], i>> : i \in moved \cap M}
    BY <1>1
  <2> HIDE DEF r, M, moved
  <2> QED
    BY <2>1, <2>2, <2>3, <2>4, <2>5, <2>6
<1>5. \A i \in Cells : /\ r.pos[i] >= -1
                       /\ r.pos[i] = -1 <=> i \in dead \/ c.pos[i] = -1
  BY <1>1, <1>2 DEF Good, CellsType, Agree
<1>6. \A i \in Cells : r.seq[i] = {} <=> i \in dead \/ c.seq[i] = {}
  BY <1>1
<1>7. r.used = {i \in Cells : r.pos[i] # -1}
  BY <1>1, <1>5 DEF Good, Agree
<1>8. \A i \in Cells : r.pos[i] = -1 => r.shift[i] = 0
  BY <1>1, <1>5 DEF Good, Agree
<1> HIDE DEF r, dead
<1> QED
  BY <1>3, <1>4, <1>5, <1>6, <1>7, <1>8 DEF Good, Agree, r

\* Cells that are put back as they were (set).
LEMMA RestoredGood ==
  ASSUME NEW c, Good(c), NEW o, Good(o), NEW I \in SUBSET Cells,
         \A i \in I : o.pos[i] = -1 => c.shift[i] = 0
  PROVE  Good(Restored(c, I, o))
<1> DEFINE r == Restored(c, I, o)
           live == {i \in I : o.pos[i] # -1}
<1>1. /\ r.pos = [i \in Cells |-> IF i \in I THEN o.pos[i] ELSE c.pos[i]]
      /\ r.shift = c.shift
      /\ r.seq = [i \in Cells |-> IF i \in I THEN o.seq[i] ELSE c.seq[i]]
      /\ r.used = (c.used \ (I \ live)) \cup live
      /\ r.seq_pos = [s \in Seqs |->
                        (c.seq_pos[s] \ Entries(c, I \cap Members(c, s))) \cup
                        Entries(o, live \cap Members(o, s))]
  BY DEF Restored
<1>2. r \in CellsType
  <2>1. r.pos \in [Cells -> Int] /\ r.shift \in [Cells -> Int]
    BY <1>1 DEF Good, CellsType
  <2>2. r.seq \in [Cells -> SUBSET Seqs] /\ r.used \in SUBSET Cells
    BY <1>1 DEF Good, CellsType
  <2>3. \A s \in Seqs : Entries(o, live \cap Members(o, s)) \subseteq Int \X Cells
    BY DEF Good, CellsType, Entries
  <2>4. r.seq_pos \in [Seqs -> SUBSET (Int \X Cells)]
    BY <1>1, <2>3 DEF Good, CellsType
  <2> QED
    BY <2>1, <2>2, <2>4 DEF CellsType, Restored
<1>3. \A s \in Seqs : r.seq_pos[s] = Entries(r, Members(r, s))
  <2> TAKE s \in Seqs
  <2> DEFINE M == Members(c, s)
             N == live \cap Members(o, s)
  <2>1. Members(r, s) = (M \ I) \cup N
    BY <1>1 DEF Members, Good, Agree
  <2>2. Entries(r, M \ I) = Entries(c, M \ I)
    <3>1. \A i \in M \ I : r.pos[i] = c.pos[i]
      BY <1>1 DEF Members
    <3> QED
      BY <3>1, EntriesSame
  <2>3. Entries(r, N) = Entries(o, N)
    <3>1. \A i \in N : r.pos[i] = o.pos[i]
      BY <1>1 DEF Members
    <3> QED
      BY <3>1, EntriesSame
  <2>4. c.seq_pos[s] \ Entries(c, I \cap M) = Entries(c, M \ I)
    <3>1. c.seq_pos[s] = Entries(c, M)
      BY DEF Good, Agree
    <3>2. \A i, j : <<c.pos[i], i>> = <<c.pos[j], j>> => i = j
      OBVIOUS
    <3> HIDE DEF M
    <3> QED
      BY <3>1, <3>2 DEF Entries
  <2>5. Entries(r, (M \ I) \cup N) = Entries(r, M \ I) \cup Entries(r, N)
    BY DEF Entries
  <2>6. r.seq_pos[s] = (c.seq_pos[s] \ Entries(c, I \cap M)) \cup Entries(o, N)
    BY <1>1
  <2> HIDE DEF r, M, N
  <2> QED
    BY <2>1, <2>2, <2>3, <2>4, <2>5, <2>6
<1>4. \A i \in Cells : /\ r.pos[i] >= -1
                       /\ r.pos[i] = -1 <=> r.seq[i] = {}
                       /\ r.pos[i] = -1 => r.shift[i] = 0
  BY <1>1 DEF Good, Agree, CellsType
<1>5. r.used = {i \in Cells : r.pos[i] # -1}
  BY <1>1 DEF Good, Agree
<1> HIDE DEF r
<1> QED
  BY <1>2, <1>3, <1>4, <1>5 DEF Good, Agree, r

\* Cells in order are determined by what the indexes repeat.
LEMMA GoodEqual ==
  ASSUME NEW a, NEW b, Good(a), Good(b),
         a.pos = b.pos, a.shift = b.shift, a.seq = b.seq
  PROVE  a = b
<1>1. a.used = b.used
  BY DEF Good, Agree
<1>2. \A s \in Seqs : a.seq_pos[s] = b.seq_pos[s]
  <2> TAKE s \in Seqs
  <2>1. Members(a, s) = Members(b, s)
    BY DEF Members
  <2>2. Entries(a, Members(a, s)) = Entries(b, Members(a, s))
    BY DEF Entries
  <2> QED
    BY <2>1, <2>2 DEF Good, Agree
<1>3. a.seq_pos = b.seq_pos
  BY <1>2 DEF Good, CellsType
<1> QED
  BY <1>1, <1>3 DEF Good, CellsType

-----------------------------------------------------------------------------
(* Placing an ubatch                                                       *)

\* The token that goes to a cell of the slot.
LEMMA TokenTyped ==
  ASSUME NEW u \in Ubatch, NEW slot \in [1 .. Len(u) -> Cells],
         NEW i \in SlotCells(slot)
  PROVE  /\ TokenOf(slot, u, i) \in Token
         /\ \E k \in DOMAIN u : TokenOf(slot, u, i) = u[k]
<1>1. \E k \in DOMAIN slot : slot[k] = i
  BY DEF SlotCells
<1>2. (CHOOSE k \in DOMAIN slot : slot[k] = i) \in 1 .. Len(u)
  BY <1>1
<1> DEFINE k == CHOOSE k \in DOMAIN slot : slot[k] = i
<1>3. k \in DOMAIN u /\ TokenOf(slot, u, i) = u[k]
  BY <1>2 DEF TokenOf, Ubatch
<1>4. u[k] \in Token
  <2> HIDE DEF k
  <2> QED
    BY <1>3 DEF Ubatch
<1> HIDE DEF k
<1> QED
  BY <1>3, <1>4

\* apply_ubatch before the purge: the slot holds the tokens, with no rotation
\* to wait for, and the other cells are as they were.
LEMMA PlacedGood ==
  ASSUME NEW c, Good(c), NEW u \in Ubatch, NEW slot \in [1 .. Len(u) -> Cells]
  PROVE  /\ SlotCells(slot) \subseteq Cells
         /\ Good(Placed(c, slot, u))
         /\ \A i \in Cells : LET r == Placed(c, slot, u) IN
              IF i \in SlotCells(slot)
              THEN /\ r.shift[i] = 0 /\ r.pos[i] = TokenOf(slot, u, i).pos
                   /\ r.seq[i] = TokenOf(slot, u, i).seqs
              ELSE /\ r.pos[i] = c.pos[i] /\ r.seq[i] = c.seq[i]
                   /\ r.shift[i] = c.shift[i]
<1> DEFINE I == SlotCells(slot)
           gone == [i \in Cells |-> IF i \in I THEN c.seq[i] ELSE {}]
           e == Drop(c, gone)
           p == [i \in I |-> TokenOf(slot, u, i).pos]
           q == [i \in I |-> TokenOf(slot, u, i).seqs]
           r == Placed(c, slot, u)
<1>1. I \subseteq Cells
  BY DEF SlotCells
<1>2. gone \in [Cells -> SUBSET Seqs] /\ \A i \in Cells : gone[i] \subseteq c.seq[i]
  BY DEF Good, CellsType
<1>3. Good(e)
  <2> HIDE DEF gone
  <2> QED
    BY <1>2, DropGood
<1>4. \A i \in Cells : i \in Emptied(c, gone) <=> i \in I /\ c.seq[i] # {}
  BY <1>1 DEF Emptied
<1>5. /\ e.pos = [i \in Cells |-> IF i \in Emptied(c, gone) THEN -1 ELSE c.pos[i]]
      /\ e.shift = [i \in Cells |-> IF i \in Emptied(c, gone) THEN 0 ELSE c.shift[i]]
      /\ e.seq = [i \in Cells |-> c.seq[i] \ gone[i]]
  BY DEF Drop
<1>6. \A i \in I : e.pos[i] = -1 /\ e.shift[i] = 0
  <2> HIDE DEF e, gone, I
  <2> QED
    BY <1>1, <1>4, <1>5 DEF Good, Agree
<1>7. \A i \in Cells \ I : /\ e.pos[i] = c.pos[i] /\ e.seq[i] = c.seq[i]
                           /\ e.shift[i] = c.shift[i]
  <2>1. \A i \in Cells \ I : gone[i] = {}
    OBVIOUS
  <2> HIDE DEF e, gone, I
  <2> QED
    BY <1>4, <1>5, <2>1
<1>8. \A i \in I : TokenOf(slot, u, i) \in Token
  BY TokenTyped
<1>9. p \in [I -> Nat] /\ q \in [I -> (SUBSET Seqs) \ {{}}]
  BY <1>8 DEF Token
<1>10. r = Put(e, I, p, q)
  BY DEF Placed
<1>11. Good(r)
  <2> HIDE DEF e, I, p, q, r
  <2> QED
    BY <1>1, <1>3, <1>6, <1>9, <1>10, PutGood
<1>12. \A i \in Cells : /\ r.pos[i] = IF i \in I THEN p[i] ELSE e.pos[i]
                        /\ r.seq[i] = IF i \in I THEN q[i] ELSE e.seq[i]
                        /\ r.shift[i] = e.shift[i]
  <2> HIDE DEF e, I, p, q, r
  <2> QED
    BY <1>10 DEF Put
<1>13. \A i \in I : /\ p[i] = TokenOf(slot, u, i).pos
                    /\ q[i] = TokenOf(slot, u, i).seqs
  OBVIOUS
<1> HIDE DEF e, p, q, r, gone
<1> QED
  BY <1>1, <1>6, <1>7, <1>11, <1>12, <1>13 DEF r

\* apply_ubatch: the cells stay in order, no key is left to wait for a
\* rotation that did not, and the cells that plan_slots does not journal are
\* as they were.
LEMMA ApplyGood ==
  ASSUME NEW c, Good(c), NEW u \in Ubatch, NEW slot \in [1 .. Len(u) -> Cells]
  PROVE  /\ Good(ApplyUbatch(c, slot, u))
         /\ Touched(c, slot) \subseteq Cells
         /\ \A i \in Cells : LET r == ApplyUbatch(c, slot, u) IN
              /\ c.shift[i] = 0 => r.shift[i] = 0
              /\ r.pos[i] = -1 \/
                   /\ r.pos[i] = Placed(c, slot, u).pos[i]
                   /\ r.shift[i] = Placed(c, slot, u).shift[i]
                   /\ r.seq[i] \subseteq Placed(c, slot, u).seq[i]
              /\ i \notin Touched(c, slot) =>
                   /\ r.pos[i] = c.pos[i] /\ r.seq[i] = c.seq[i]
                   /\ r.shift[i] = c.shift[i]
<1> DEFINE t == Placed(c, slot, u)
           gone == Purged(c, slot, t)
           r == ApplyUbatch(c, slot, u)
<1>1. /\ SlotCells(slot) \subseteq Cells
      /\ Good(t)
      /\ \A i \in Cells :
              IF i \in SlotCells(slot)
              THEN t.shift[i] = 0 /\ t.pos[i] = TokenOf(slot, u, i).pos
              ELSE /\ t.pos[i] = c.pos[i] /\ t.seq[i] = c.seq[i]
                   /\ t.shift[i] = c.shift[i]
  BY PlacedGood
<1> HIDE DEF t
<1>2. gone \in [Cells -> SUBSET Seqs] /\ \A i \in Cells : gone[i] \subseteq t.seq[i]
  BY <1>1 DEF Purged, Good, CellsType
<1>3. r = Drop(t, gone)
  BY DEF ApplyUbatch, t
<1>4. Touched(c, slot) \subseteq Cells
  BY <1>1 DEF Touched
<1>5. \A i \in Cells \ Touched(c, slot) : i \notin SlotCells(slot) /\ gone[i] = {}
  BY <1>1 DEF Touched, Purged, PosIn
<1> HIDE DEF gone, r
<1>6. Good(r)
  BY <1>1, <1>2, <1>3, DropGood
<1>7. \A i \in Cells :
         /\ r.pos[i] = IF i \in Emptied(t, gone) THEN -1 ELSE t.pos[i]
         /\ r.shift[i] = IF i \in Emptied(t, gone) THEN 0 ELSE t.shift[i]
         /\ r.seq[i] = t.seq[i] \ gone[i]
  BY <1>3 DEF Drop
<1>8. \A i \in Cells : gone[i] = {} => i \notin Emptied(t, gone)
  BY DEF Emptied
<1>9. \A i \in Cells : c.shift[i] = 0 => r.shift[i] = 0
  BY <1>1, <1>7
<1>10. \A i \in Cells \ Touched(c, slot) :
          r.pos[i] = c.pos[i] /\ r.seq[i] = c.seq[i] /\ r.shift[i] = c.shift[i]
  BY <1>1, <1>5, <1>7, <1>8
<1> QED
  BY <1>4, <1>6, <1>7, <1>9, <1>10 DEF r, t

\* What plan_slots journals is enough to take an ubatch off again, if no key
\* in it waits for a rotation.
LEMMA UndoApply ==
  ASSUME NEW c, Good(c), NEW u \in Ubatch, NEW slot \in [1 .. Len(u) -> Cells],
         \A i \in Touched(c, slot) : c.shift[i] = 0
  PROVE  Restored(ApplyUbatch(c, slot, u), Touched(c, slot), c) = c
<1> DEFINE T == Touched(c, slot)
           r == ApplyUbatch(c, slot, u)
           b == Restored(r, T, c)
<1>1. /\ Good(r)
      /\ T \subseteq Cells
      /\ \A i \in Cells :
              /\ c.shift[i] = 0 => r.shift[i] = 0
              /\ i \notin T => /\ r.pos[i] = c.pos[i] /\ r.seq[i] = c.seq[i]
                               /\ r.shift[i] = c.shift[i]
  BY ApplyGood
<1> HIDE DEF r, T
<1>2. \A i \in T : c.shift[i] = 0
  BY DEF T
<1>3. Good(b)
  BY <1>1, <1>2, RestoredGood
<1>4. /\ b.pos = [i \in Cells |-> IF i \in T THEN c.pos[i] ELSE r.pos[i]]
      /\ b.shift = r.shift
      /\ b.seq = [i \in Cells |-> IF i \in T THEN c.seq[i] ELSE r.seq[i]]
  BY DEF Restored
<1> HIDE DEF b
<1>5. b.pos = c.pos
  BY <1>1, <1>4 DEF Good, CellsType
<1>6. b.seq = c.seq
  BY <1>1, <1>4 DEF Good, CellsType
<1>7. b.shift = c.shift
  <2>1. \A i \in Cells : r.shift[i] = c.shift[i]
    BY <1>1, <1>2
  <2> QED
    BY <1>1, <1>4, <2>1 DEF Good, CellsType
<1>8. b = c
  BY <1>3, <1>5, <1>6, <1>7, GoodEqual
<1> QED
  BY <1>8 DEF b, r, T

-----------------------------------------------------------------------------
(* The inductive invariant                                                 *)

\* What is known of the batch being decoded.
BatchInv ==
    /\ ubs \in Seq(Ubatch)
    /\ plan \in Seq(Seq(Cells))
    /\ Len(plan) <= Len(ubs)
    /\ \A k \in 1 .. Len(plan) : plan[k] \in [1 .. Len(ubs[k]) -> Cells]
    /\ IF phase = "idle" THEN ubs = <<>> /\ plan = <<>> ELSE ubs # <<>>
    /\ phase \in {"undo", "commit", "compute"} => Len(plan) = Len(ubs)

Entry == [idxs : SUBSET Cells, cells : CellsType, head : 0 .. n_cells]

\* What is known of the journal: it holds cells in order, and a cell that was
\* empty in one of its states does not wait for a rotation now.
JournalInv ==
    /\ journal \in Seq(Entry)
    /\ \A k \in 1 .. Len(journal) :
         /\ Good(journal[k].cells)
         /\ \A i \in Cells : journal[k].cells.pos[i] = -1 => cells.shift[i] = 0
    /\ phase \in {"idle", "commit", "compute"} => journal = <<>>
    /\ phase = "plan" => Len(journal) = Len(plan)
    /\ phase \in {"undo", "fail"} => journal # <<>>

IInv == TypeOK /\ IndexesAgree /\ BatchInv /\ JournalInv

LEMMA GoodIff == TypeOK /\ IndexesAgree => Good(cells)
  BY DEF TypeOK, IndexesAgree, Good

\* A set of numbers has a least one.
LEMMA MinNat ==
  ASSUME NEW D \in SUBSET Nat, D # {}
  PROVE  Min(D) \in D /\ \A y \in D : Min(D) <= y
<1>1. PICK x \in D : \A y \in D : ~ (<<y, x>> \in OpToRel(<, Nat))
  BY NatLessThanWellFounded, WFMin
<1>2. ASSUME NEW y \in D, ~(x =< y) PROVE FALSE
  <2>1. x \in Nat /\ y \in Nat /\ y < x
    BY <1>2
  <2>2. <<y, x>> \in Nat \X Nat /\ <<y, x>>[1] < <<y, x>>[2]
    BY <2>1
  <2>3. <<y, x>> \in OpToRel(<, Nat)
    BY <2>2, Zenon DEF OpToRel
  <2> QED
    BY <1>1, <2>3
<1> QED
  BY <1>2 DEF Min

\* A set of cells has a first one.
LEMMA MinCell ==
  ASSUME NEW D \in SUBSET Cells, D # {}
  PROVE  Min(D) \in D
<1>1. D \in SUBSET Nat
  BY CellsAssumption DEF Cells
<1> QED
  BY <1>1, MinNat

LEMMA HeadInRange ==
  ASSUME head \in 0 .. n_cells, NEW D \in SUBSET Cells
  PROVE  HeadAfter(D) \in 0 .. n_cells
<1>1. CASE D = {}
  BY <1>1 DEF HeadAfter
<1>2. CASE D # {}
  <2>1. Min(D) \in Cells
    BY <1>2, MinCell
  <2> QED
    BY <2>1, CellsAssumption DEF HeadAfter, Cells
<1> QED
  BY <1>1, <1>2

\* split_simple leaves no ubatch without a token.
LEMMA SplitShape ==
  ASSUME NEW tokens \in Ubatch
  PROVE  Split(tokens) \in Seq(Ubatch) /\ Split(tokens) # <<>>
<1> DEFINE n == Len(tokens)
           m == (n + n_ubatch - 1) \div n_ubatch
<1>1. n \in Nat /\ n >= 1 /\ n_ubatch \in Nat /\ n_ubatch >= 1
  BY CellsAssumption DEF Ubatch
<1>2. m \in Nat /\ m >= 1 /\ m * n_ubatch <= n + n_ubatch - 1
  <2> HIDE DEF n
  <2> QED
    BY <1>1, Z3
<1>3. ASSUME NEW k \in 1 .. m
      PROVE  SubSeq(tokens, (k - 1) * n_ubatch + 1,
                    IF k * n_ubatch < n THEN k * n_ubatch ELSE n) \in Ubatch
  <2> DEFINE a == (k - 1) * n_ubatch + 1
             b == IF k * n_ubatch < n THEN k * n_ubatch ELSE n
  <2>1. k * n_ubatch <= m * n_ubatch /\ (k - 1) * n_ubatch = k * n_ubatch - n_ubatch
    <3> HIDE DEF m, n
    <3> QED
      BY <1>1, <1>2
  <2>2. a \in Int /\ b \in Int /\ 1 <= a /\ a <= b /\ b <= n
    <3> HIDE DEF m, n
    <3> QED
      BY <1>1, <1>2, <2>1
  <2>3. \A i \in a .. b : tokens[i] \in Token
    BY <2>2 DEF Ubatch
  <2> HIDE DEF a, b
  <2>4. SubSeq(tokens, a, b) \in Seq(Token) /\ Len(SubSeq(tokens, a, b)) = b - a + 1
    BY <2>2, <2>3, SubSeqProperties
  <2>5. Len(SubSeq(tokens, a, b)) >= 1
    BY <2>2, <2>4
  <2>6. SubSeq(tokens, a, b) # <<>>
    <3> DEFINE x == SubSeq(tokens, a, b)
    <3>1. x \in Seq(Token) /\ Len(x) >= 1
      BY <2>4, <2>5
    <3> HIDE DEF x
    <3>2. x # <<>>
      BY <3>1
    <3> QED
      BY <3>2 DEF x
  <2>7. SubSeq(tokens, a, b) \in Ubatch
    BY <2>4, <2>6 DEF Ubatch
  <2> QED
    BY <2>7 DEF a, b
<1>4. Split(tokens) = [k \in 1 .. m |->
         SubSeq(tokens, (k - 1) * n_ubatch + 1,
                IF k * n_ubatch < n THEN k * n_ubatch ELSE n)]
  BY DEF Split
<1> HIDE DEF m, n
<1> QED
  BY <1>2, <1>3, <1>4

LEMMA InitIInv == Init => IInv
<1> SUFFICES ASSUME Init PROVE IInv
  OBVIOUS
<1>1. cells = EmptyCells /\ Good(cells)
  BY EmptyGood DEF Init
<1>2. plan = <<>> /\ ubs = <<>> /\ journal = <<>>
  BY DEF Init
<1>3. TypeOK
  BY <1>1, <1>2, CellsAssumption DEF Init, TypeOK, Good
<1> QED
  BY <1>1, <1>2, <1>3 DEF Init, IInv, BatchInv, JournalInv, IndexesAgree, Good

-----------------------------------------------------------------------------
(* Edits                                                                   *)

\* What an edit has to show.
LEMMA EditKeeps ==
  ASSUME IInv, phase = "idle", Good(cells)', head' \in 0 .. n_cells,
         KeysType',
         UNCHANGED <<kind, phase, ubs, plan, journal>>
  PROVE  IInv'
<1>1. journal = <<>>
  BY DEF IInv, JournalInv
<1>2. TypeOK'
  BY DEF IInv, TypeOK, KeysType, Good
<1>3. IndexesAgree'
  BY DEF IndexesAgree, Good
<1>4. BatchInv'
  BY DEF IInv, BatchInv
<1>5. JournalInv'
  BY <1>1 DEF IInv, JournalInv
<1> QED
  BY <1>2, <1>3, <1>4, <1>5 DEF IInv

LEMMA KeysTyped ==
  ASSUME IInv, ForgetKeys
  PROVE  KeysType'
BY DEF IInv, TypeOK, KeysType, ForgetKeys

\* seq_rm and seq_keep.
LEMMA DropKeeps ==
  ASSUME IInv, phase = "idle",
         NEW gone \in [Cells -> SUBSET Seqs],
         \A i \in Cells : gone[i] \subseteq cells.seq[i],
         cells' = Drop(cells, gone),
         head' = HeadAfter(Emptied(cells, gone)),
         ForgetKeys, UNCHANGED <<kind, phase, ubs, plan, journal>>
  PROVE  IInv'
<1>1. Good(cells)
  BY GoodIff DEF IInv
<1>2. Good(cells)'
  BY <1>1, DropGood
<1>3. head' \in 0 .. n_cells
  <2>1. Emptied(cells, gone) \in SUBSET Cells
    BY DEF Emptied
  <2>2. head \in 0 .. n_cells
    BY DEF IInv, TypeOK
  <2> QED
    BY <2>1, <2>2, HeadInRange
<1> QED
  BY <1>2, <1>3, KeysTyped, EditKeeps

LEMMA EditRmIInv == IInv /\ EditRm => IInv'
<1> SUFFICES ASSUME IInv, EditRm PROVE IInv'
  OBVIOUS
<1>1. PICK s \in Seqs, p0 \in 0 .. MaxPos, p1 \in 1 .. MaxPos + 1 : SeqRm(s, p0, p1)
  BY DEF EditRm
<1> DEFINE gone == [i \in Cells |-> IF PosIn(cells, i, p0, p1)
                                    THEN cells.seq[i] \cap {s} ELSE {}]
<1>2. gone \in [Cells -> SUBSET Seqs] /\ \A i \in Cells : gone[i] \subseteq cells.seq[i]
  BY DEF IInv, TypeOK, CellsType
<1>3. cells' = Drop(cells, gone) /\ head' = HeadAfter(Emptied(cells, gone))
  BY <1>1 DEF SeqRm
<1>4. /\ phase = "idle" /\ ForgetKeys
      /\ UNCHANGED <<kind, phase, ubs, plan, journal>>
  BY DEF EditRm, MayEdit
<1> HIDE DEF gone
<1> QED
  BY <1>2, <1>3, <1>4, DropKeeps

LEMMA EditRmAllIInv == IInv /\ EditRmAll => IInv'
<1> SUFFICES ASSUME IInv, EditRmAll PROVE IInv'
  OBVIOUS
<1>1. PICK p0 \in 0 .. MaxPos, p1 \in 1 .. MaxPos + 1 :
         LET gone == [i \in Cells |-> IF PosIn(cells, i, p0, p1)
                                      THEN cells.seq[i] ELSE {}]
         IN  /\ cells' = Drop(cells, gone)
             /\ head' = HeadAfter(Emptied(cells, gone))
  BY DEF EditRmAll
<1> DEFINE gone == [i \in Cells |-> IF PosIn(cells, i, p0, p1)
                                    THEN cells.seq[i] ELSE {}]
<1>2. gone \in [Cells -> SUBSET Seqs] /\ \A i \in Cells : gone[i] \subseteq cells.seq[i]
  BY DEF IInv, TypeOK, CellsType
<1>3. cells' = Drop(cells, gone) /\ head' = HeadAfter(Emptied(cells, gone))
  BY <1>1
<1>4. /\ phase = "idle" /\ ForgetKeys
      /\ UNCHANGED <<kind, phase, ubs, plan, journal>>
  BY DEF EditRmAll, MayEdit
<1> HIDE DEF gone
<1> QED
  BY <1>2, <1>3, <1>4, DropKeeps

LEMMA EditKeepIInv == IInv /\ EditKeep => IInv'
<1> SUFFICES ASSUME IInv, EditKeep PROVE IInv'
  OBVIOUS
<1>1. PICK s \in Seqs :
         LET gone == [i \in Cells |-> cells.seq[i] \ {s}]
         IN  /\ cells' = Drop(cells, gone)
             /\ head' = HeadAfter(Emptied(cells, gone))
  BY DEF EditKeep
<1> DEFINE gone == [i \in Cells |-> cells.seq[i] \ {s}]
<1>2. gone \in [Cells -> SUBSET Seqs] /\ \A i \in Cells : gone[i] \subseteq cells.seq[i]
  BY DEF IInv, TypeOK, CellsType
<1>3. cells' = Drop(cells, gone) /\ head' = HeadAfter(Emptied(cells, gone))
  BY <1>1
<1>4. /\ phase = "idle" /\ ForgetKeys
      /\ UNCHANGED <<kind, phase, ubs, plan, journal>>
  BY DEF EditKeep, MayEdit
<1> HIDE DEF gone
<1> QED
  BY <1>2, <1>3, <1>4, DropKeeps

LEMMA EditCpIInv == IInv /\ EditCp => IInv'
<1> SUFFICES ASSUME IInv, EditCp PROVE IInv'
  OBVIOUS
<1>1. PICK s \in Seqs, t \in Seqs, p0 \in 0 .. MaxPos, p1 \in 1 .. MaxPos + 1 :
         LET I == {i \in Cells : /\ PosIn(cells, i, p0, p1)
                                 /\ s \in cells.seq[i] /\ t \notin cells.seq[i]}
         IN  cells' = Share(cells, I, t)
  BY DEF EditCp
<1> DEFINE I == {i \in Cells : /\ PosIn(cells, i, p0, p1)
                               /\ s \in cells.seq[i] /\ t \notin cells.seq[i]}
<1>2. Good(cells)
  BY GoodIff DEF IInv
<1>3. I \in SUBSET Cells /\ \A i \in I : cells.pos[i] # -1
  BY <1>2 DEF Good, Agree
<1>4. cells' = Share(cells, I, t)
  BY <1>1
<1> HIDE DEF I
<1>5. Good(cells)'
  BY <1>2, <1>3, <1>4, ShareGood
<1>6. phase = "idle" /\ UNCHANGED <<head, kind, phase, ubs, plan, journal, rot, divided, unwritten>>
  BY DEF EditCp, MayEdit
<1>7. head \in 0 .. n_cells /\ rot \in [Cells -> Int] /\ divided \subseteq Cells
  BY DEF IInv, TypeOK
<1>8. KeysType'
  BY <1>6 DEF IInv, TypeOK, KeysType
<1> QED
  BY <1>5, <1>6, <1>7, <1>8, EditKeeps

LEMMA EditClearIInv == IInv /\ EditClear => IInv'
<1> SUFFICES ASSUME IInv, EditClear PROVE IInv'
  OBVIOUS
<1>1. Good(cells)'
  BY EmptyGood DEF EditClear
<1>2. head' \in 0 .. n_cells
  BY CellsAssumption DEF EditClear
<1>3. phase = "idle" /\ ForgetKeys /\ UNCHANGED <<kind, phase, ubs, plan, journal>>
  BY DEF EditClear, MayEdit
<1> QED
  BY <1>1, <1>2, <1>3, KeysTyped, EditKeeps

LEMMA EditAddIInv == IInv /\ EditAdd => IInv'
<1> SUFFICES ASSUME IInv, EditAdd PROVE IInv'
  OBVIOUS
<1>1. PICK s \in Seqs, p0 \in 0 .. MaxPos, d \in Shifts \ {0} :
         LET I == {i \in Members(cells, s) : cells.pos[i] >= p0}
             p == [i \in Cells |-> cells.pos[i] + d]
             dead == {i \in I : p[i] < 0}
         IN  /\ cells' = Move(cells, I, p, [i \in Cells |-> d])
             /\ head' = IF dead # {} THEN Min(dead) ELSE 0
  BY DEF EditAdd
<1> DEFINE I == {i \in Members(cells, s) : cells.pos[i] >= p0}
           p == [i \in Cells |-> cells.pos[i] + d]
           e == [i \in Cells |-> d]
           dead == {i \in I : p[i] < 0}
<1>2. Good(cells)
  BY GoodIff DEF IInv
<1>3. I \in SUBSET cells.used /\ I \in SUBSET Cells
  BY <1>2 DEF Good, Agree, Members
<1>4. p \in [Cells -> Int] /\ e \in [Cells -> Int]
  BY <1>2, CellsAssumption DEF Good, CellsType
<1>5. cells' = Move(cells, I, p, e) /\ head' = IF dead # {} THEN Min(dead) ELSE 0
  BY <1>1
<1>6. dead \in SUBSET Cells
  BY <1>3
<1> HIDE DEF I, p, e, dead
<1>7. Good(cells)'
  BY <1>2, <1>3, <1>4, <1>5, MoveGood
<1>8. head' \in 0 .. n_cells
  <2>1. CASE dead = {}
    BY <1>5, <2>1, CellsAssumption
  <2>2. CASE dead # {}
    <3>1. Min(dead) \in Cells
      BY <1>6, <2>2, MinCell
    <3> QED
      BY <1>5, <2>2, <3>1, CellsAssumption DEF Cells
  <2> QED
    BY <2>1, <2>2
<1>9. phase = "idle" /\ ForgetKeys /\ UNCHANGED <<kind, phase, ubs, plan, journal>>
  BY DEF EditAdd, MayEdit
<1> QED
  BY <1>7, <1>8, <1>9, KeysTyped, EditKeeps

LEMMA EditDivIInv == IInv /\ EditDiv => IInv'
<1> SUFFICES ASSUME IInv, EditDiv PROVE IInv'
  OBVIOUS
<1>1. PICK s \in Seqs, p0 \in 0 .. MaxPos :
         LET I == {i \in Members(cells, s) : cells.pos[i] >= p0}
             p == [i \in Cells |-> cells.pos[i] \div 2]
         IN  /\ cells' = Move(cells, I, p,
                              [i \in Cells |-> cells.pos[i] - p[i]])
             /\ divided' = divided \cup {i \in I : p[i] # cells.pos[i]}
  BY DEF EditDiv
<1> DEFINE I == {i \in Members(cells, s) : cells.pos[i] >= p0}
           p == [i \in Cells |-> cells.pos[i] \div 2]
           e == [i \in Cells |-> cells.pos[i] - p[i]]
<1>2. Good(cells)
  BY GoodIff DEF IInv
<1>3. I \in SUBSET cells.used /\ I \in SUBSET Cells
  BY <1>2 DEF Good, Agree, Members
<1>4. p \in [Cells -> Int] /\ e \in [Cells -> Int]
  BY <1>2, CellsAssumption DEF Good, CellsType
<1>5. cells' = Move(cells, I, p, e)
  BY <1>1
<1>6. KeysType'
  BY <1>1, <1>3 DEF IInv, TypeOK, KeysType, EditDiv
<1> HIDE DEF I, p, e
<1>7. Good(cells)'
  BY <1>2, <1>3, <1>4, <1>5, MoveGood
<1>8. phase = "idle" /\ UNCHANGED <<head, kind, phase, ubs, plan, journal>>
  BY DEF EditDiv, MayEdit
<1>9. head \in 0 .. n_cells
  BY DEF IInv, TypeOK
<1> QED
  BY <1>6, <1>7, <1>8, <1>9, EditKeeps

-----------------------------------------------------------------------------
(* Decodes                                                                 *)

\* What the end of a decode has to show.
LEMMA EndKeeps ==
  ASSUME IInv, EndDecode, Good(cells)', head' \in 0 .. n_cells,
         KeysType', UNCHANGED kind
  PROVE  IInv'
<1>1. plan' = <<>> /\ ubs' = <<>> /\ journal' = <<>> /\ phase' = "idle"
  BY DEF EndDecode
<1>2. TypeOK'
  BY <1>1 DEF IInv, TypeOK, KeysType, Good
<1>3. IndexesAgree'
  BY DEF IndexesAgree, Good
<1>4. BatchInv'
  BY <1>1 DEF BatchInv
<1>5. JournalInv'
  BY <1>1 DEF JournalInv
<1> QED
  BY <1>2, <1>3, <1>4, <1>5 DEF IInv

\* The cells without the rotations that wait.
LEMMA ShiftedGood ==
  ASSUME NEW c, Good(c)
  PROVE  Good([c EXCEPT !.shift = [i \in Cells |-> 0]])
<1> DEFINE r == [c EXCEPT !.shift = [i \in Cells |-> 0]]
<1>1. /\ r \in CellsType
      /\ r.pos = c.pos /\ r.seq = c.seq /\ r.used = c.used /\ r.seq_pos = c.seq_pos
      /\ r.shift = [i \in Cells |-> 0]
  BY DEF Good, CellsType
<1> HIDE DEF r
<1>2. \A s \in Seqs : r.seq_pos[s] = Entries(r, Members(r, s))
  <2> TAKE s \in Seqs
  <2>1. Members(r, s) = Members(c, s)
    BY <1>1 DEF Members
  <2>2. Entries(r, Members(c, s)) = Entries(c, Members(c, s))
    BY <1>1, EntriesSame
  <2> QED
    BY <1>1, <2>1, <2>2 DEF Good, Agree
<1>3. Good(r)
  BY <1>1, <1>2 DEF Good, Agree
<1> QED
  BY <1>3 DEF r

LEMMA DecodeIInv == IInv /\ Decode => IInv'
<1> SUFFICES ASSUME IInv, Decode PROVE IInv'
  OBVIOUS
<1>1. Good(cells)
  BY GoodIff DEF IInv
<1>2. Good(cells)' /\ rot' \in [Cells -> Int]
  <2>1. CASE KShift
    BY <1>1, <2>1, ShiftedGood DEF KShift, Turned, IInv, TypeOK, CellsType
  <2>2. CASE KShiftFails
    BY <1>1, <2>2 DEF KShiftFails, IInv, TypeOK, Good, Agree, Entries, Members
  <2> QED
    BY <2>1, <2>2 DEF Decode
<1>3. PICK b \in Batches :
         LET tokens == [k \in DOMAIN b |-> [pos |-> TokenPos(b, k), seqs |-> b[k]]]
         IN  /\ \A k \in DOMAIN tokens : tokens[k].pos \in 0 .. MaxPos
             /\ ubs' = Split(tokens)
  BY DEF Decode
<1>4. PICK n \in 1 .. MaxTokens : b \in [1 .. n -> (SUBSET Seqs) \ {{}}]
  BY DEF Batches
<1> DEFINE tokens == [k \in DOMAIN b |-> [pos |-> TokenPos(b, k), seqs |-> b[k]]]
<1>5. tokens \in Ubatch
  <2>1. n \in Nat /\ n >= 1 /\ DOMAIN b = 1 .. n
    BY <1>4, CellsAssumption
  <2>2. \A k \in 1 .. n : TokenPos(b, k) \in Nat
    BY <1>3, <2>1
  <2>3. \A k \in 1 .. n : tokens[k] \in Token
    BY <1>4, <2>1, <2>2 DEF Token
  <2>4. tokens = [k \in 1 .. n |-> tokens[k]]
    BY <2>1
  <2> HIDE DEF tokens
  <2>5. tokens \in Seq(Token) /\ Len(tokens) = n
    BY <2>1, <2>3, <2>4
  <2> QED
    BY <2>1, <2>5 DEF Ubatch
<1>6. ubs' \in Seq(Ubatch) /\ ubs' # <<>>
  <2>1. ubs' = Split(tokens)
    BY <1>3
  <2> HIDE DEF tokens
  <2> QED
    BY <1>5, <2>1, SplitShape
<1>7. phase = "idle" /\ phase' = "plan" /\ UNCHANGED <<head, kind, plan, journal, divided, unwritten>>
  BY DEF Decode
<1>8. journal = <<>> /\ Len(plan) = 0 /\ plan = <<>>
  <2>1. ubs = <<>>
    BY <1>7 DEF IInv, BatchInv
  <2> QED
    BY <1>7, <2>1 DEF IInv, BatchInv, JournalInv
<1>9. TypeOK'
  BY <1>2, <1>7 DEF IInv, TypeOK, Good
<1>10. IndexesAgree'
  BY <1>2 DEF IndexesAgree, Good
<1>11. BatchInv'
  BY <1>6, <1>7, <1>8 DEF BatchInv
<1>12. JournalInv'
  BY <1>7, <1>8 DEF JournalInv
<1> QED
  BY <1>9, <1>10, <1>11, <1>12 DEF IInv

\* The slot for ubatch k + 1, found by the search.
LEMMA SlotTyped ==
  ASSUME NEW c, NEW h, NEW n, NEW slot \in FindSlot(c, h, n)
  PROVE  slot \in [1 .. n -> Cells] /\ \A k \in 1 .. n : CanReuse(c, slot[k])
BY DEF FindSlot

\* The head after a slot.
LEMMA HeadAfterSlot ==
  ASSUME NEW u \in Ubatch, NEW slot \in [1 .. Len(u) -> Cells]
  PROVE  slot \in Seq(Cells) /\ Len(slot) = Len(u) /\ slot[Len(slot)] + 1 \in 0 .. n_cells
<1>1. Len(u) \in Nat /\ Len(u) >= 1
  BY DEF Ubatch
<1>2. slot \in Seq(Cells) /\ Len(slot) = Len(u)
  BY <1>1
<1>3. slot[Len(slot)] \in Cells
  BY <1>1, <1>2
<1> QED
  BY <1>2, <1>3, CellsAssumption DEF Cells

\* A journal entry put on top, and the one on top taken off.
LEMMA JournalPush ==
  ASSUME NEW S, NEW s \in Seq(S), NEW e \in S
  PROVE  /\ Append(s, e) \in Seq(S) /\ Len(Append(s, e)) = Len(s) + 1
         /\ Append(s, e)[Len(s) + 1] = e
         /\ \A k \in 1 .. Len(s) : Append(s, e)[k] = s[k]
BY AppendProperties

LEMMA JournalPop ==
  ASSUME NEW S, NEW s \in Seq(S), s # <<>>
  PROVE  /\ s[Len(s)] \in S /\ Len(s) >= 1
         /\ SubSeq(s, 1, Len(s) - 1) \in Seq(S)
         /\ Len(SubSeq(s, 1, Len(s) - 1)) = Len(s) - 1
         /\ \A k \in 1 .. Len(s) - 1 : SubSeq(s, 1, Len(s) - 1)[k] = s[k]
<1>1. Len(s) \in Nat /\ Len(s) >= 1
  OBVIOUS
<1>2. \A k \in 1 .. Len(s) : s[k] \in S
  OBVIOUS
<1> DEFINE n == Len(s) - 1
           r == SubSeq(s, 1, n)
<1>3. n \in Nat /\ n \in Int /\ 1 \in Int /\ \A k \in 1 .. n : s[k] \in S
  BY <1>1, <1>2
<1> HIDE DEF n
<1>4. /\ r \in Seq(S)
      /\ Len(r) = IF 1 <= n THEN n - 1 + 1 ELSE 0
      /\ \A k \in 1 .. n - 1 + 1 : r[k] = s[1 + k - 1]
  BY <1>3, SubSeqProperties
<1>5. Len(r) = n /\ \A k \in 1 .. n : r[k] = s[k]
  BY <1>3, <1>4
<1> QED
  BY <1>1, <1>2, <1>4, <1>5 DEF n

\* The next ubatch gets a slot and is placed for a try.
TryUbatch(u, slot) ==
    /\ plan' = Append(plan, slot)
    /\ journal' = Append(journal, [idxs |-> Touched(cells, slot),
                                   cells |-> cells, head |-> head])
    /\ cells' = ApplyUbatch(cells, slot, u)
    /\ head' = slot[Len(slot)] + 1
    /\ UNCHANGED <<phase, ubs, before, kind, owner, rot, divided, unwritten>>

LEMMA TryIInv ==
  ASSUME IInv, phase = "plan", Len(plan) < Len(ubs),
         NEW slot \in FindSlot(cells, head, Len(ubs[Len(plan) + 1])),
         TryUbatch(ubs[Len(plan) + 1], slot)
  PROVE  IInv'
<1> DEFINE u == ubs[Len(plan) + 1]
<1>1. Good(cells)
  BY GoodIff DEF IInv
<1>2. u \in Ubatch
  BY DEF IInv, BatchInv
<1>3. slot \in [1 .. Len(u) -> Cells]
  BY SlotTyped
<1>4. slot \in Seq(Cells) /\ slot[Len(slot)] + 1 \in 0 .. n_cells
  BY <1>2, <1>3, HeadAfterSlot
<1>5. /\ Good(cells)'
      /\ Touched(cells, slot) \subseteq Cells
      /\ \A i \in Cells : cells.shift[i] = 0 => cells'.shift[i] = 0
  BY <1>1, <1>2, <1>3, ApplyGood DEF TryUbatch
<1>6. SlotCells(slot) \subseteq Cells
  BY <1>3 DEF SlotCells
<1>7. /\ plan' \in Seq(Seq(Cells)) /\ Len(plan') = Len(plan) + 1
      /\ plan'[Len(plan) + 1] = slot
      /\ \A k \in 1 .. Len(plan) : plan'[k] = plan[k]
  BY <1>4, JournalPush DEF IInv, BatchInv, TryUbatch
<1> DEFINE e == [idxs |-> Touched(cells, slot), cells |-> cells, head |-> head]
<1>8. e \in Entry
  BY <1>1, <1>5 DEF Entry, IInv, TypeOK, Good
<1>9. /\ journal' \in Seq(Entry) /\ Len(journal') = Len(journal) + 1
      /\ journal'[Len(journal) + 1] = e
      /\ \A k \in 1 .. Len(journal) : journal'[k] = journal[k]
  BY <1>8, JournalPush DEF IInv, JournalInv, TryUbatch
<1>10. Len(plan) \in Nat /\ Len(journal) \in Nat /\ Len(ubs) \in Nat
  BY DEF IInv, BatchInv, JournalInv
<1>11. BatchInv'
  <2>1. \A k \in 1 .. Len(plan') : plan'[k] \in [1 .. Len(ubs[k]) -> Cells]
    <3> TAKE k \in 1 .. Len(plan')
    <3>1. CASE k = Len(plan) + 1
      BY <1>3, <1>7, <3>1
    <3>2. CASE k \in 1 .. Len(plan)
      BY <1>7, <3>2 DEF IInv, BatchInv
    <3> QED
      BY <1>7, <1>10, <3>1, <3>2
  <2> QED
    BY <1>7, <1>10, <2>1 DEF IInv, BatchInv, TryUbatch
<1>12. JournalInv'
  <2>1. ASSUME NEW k \in 1 .. Len(journal')
        PROVE  /\ Good(journal'[k].cells)
               /\ \A i \in Cells : journal'[k].cells.pos[i] = -1 => cells'.shift[i] = 0
    <3>1. CASE k = Len(journal) + 1
      <4>1. journal'[k].cells = cells
        BY <1>9, <3>1
      <4>2. \A i \in Cells : cells.pos[i] = -1 => cells.shift[i] = 0
        BY <1>1 DEF Good, Agree
      <4> QED
        BY <1>1, <1>5, <4>1, <4>2
    <3>2. CASE k \in 1 .. Len(journal)
      BY <1>5, <1>9, <3>2 DEF IInv, JournalInv
    <3> QED
      BY <1>9, <1>10, <3>1, <3>2
  <2>2. Len(journal') = Len(plan')
    BY <1>7, <1>9 DEF IInv, JournalInv
  <2>3. phase' = "plan"
    BY DEF TryUbatch
  <2> QED
    BY <1>9, <2>1, <2>2, <2>3 DEF JournalInv, Good
<1>13. TypeOK'
  <2>1. \A k \in DOMAIN plan' : SlotCells(plan'[k]) \subseteq Cells
    BY <1>11 DEF BatchInv, SlotCells
  <2> QED
    BY <1>4, <1>5, <2>1 DEF IInv, TypeOK, TryUbatch, Good
<1> QED
  BY <1>5, <1>11, <1>12, <1>13 DEF IInv, IndexesAgree, Good

LEMMA PlanUbatchIInv == IInv /\ PlanUbatch => IInv'
<1> SUFFICES ASSUME IInv, PlanUbatch PROVE IInv'
  OBVIOUS
<1> DEFINE u == ubs[Len(plan) + 1]
<1>1. /\ phase = "plan" /\ Len(plan) < Len(ubs)
      /\ UNCHANGED <<kind, owner, rot, divided, unwritten>>
  BY DEF PlanUbatch
<1>2. Good(cells)
  BY GoodIff DEF IInv
<1>3. CASE \E slot \in FindSlot(cells, head, Len(u)) : TryUbatch(u, slot)
  BY <1>1, <1>3, TryIInv
<1>4. CASE EndDecode /\ UNCHANGED <<cells, head>>
  <2>1. Good(cells)'
    BY <1>2, <1>4 DEF Good, Agree, Entries, Members
  <2> QED
    BY <1>1, <1>4, <2>1, EndKeeps DEF IInv, TypeOK, KeysType
<1>5. CASE /\ phase' = "fail" /\ journal # <<>>
           /\ UNCHANGED <<cells, head, ubs, plan, journal, before>>
  <2>1. TypeOK'
    BY <1>1, <1>5 DEF IInv, TypeOK
  <2>2. IndexesAgree'
    BY <1>5 DEF IInv, IndexesAgree, Agree, Entries, Members
  <2>3. BatchInv'
    BY <1>1, <1>5 DEF IInv, BatchInv
  <2>4. JournalInv'
    BY <1>1, <1>5 DEF IInv, JournalInv
  <2> QED
    BY <2>1, <2>2, <2>3, <2>4 DEF IInv
<1> QED
  BY <1>3, <1>4, <1>5 DEF PlanUbatch, TryUbatch

LEMMA PlanRestoreIInv == IInv /\ PlanRestore => IInv'
<1> SUFFICES ASSUME IInv, PlanRestore PROVE IInv'
  OBVIOUS
<1> DEFINE j == journal[Len(journal)]
           rest == SubSeq(journal, 1, Len(journal) - 1)
<1>1. Good(cells)
  BY GoodIff DEF IInv
<1>2. journal # <<>> /\ journal \in Seq(Entry)
  <2>1. CASE phase = "plan" /\ Len(plan) = Len(ubs)
    <3>1. ubs # <<>> /\ ubs \in Seq(Ubatch)
      BY <2>1 DEF IInv, BatchInv
    <3>2. Len(ubs) # 0
      BY <3>1
    <3> QED
      BY <2>1, <3>2 DEF IInv, JournalInv
  <2>2. CASE phase \in {"undo", "fail"}
    BY <2>2 DEF IInv, JournalInv
  <2> QED
    BY <2>1, <2>2 DEF PlanRestore
<1>3. /\ j \in Entry /\ Len(journal) >= 1 /\ Len(journal) \in Nat
      /\ rest \in Seq(Entry) /\ Len(rest) = Len(journal) - 1
      /\ \A k \in 1 .. Len(journal) - 1 : rest[k] = journal[k]
  BY <1>2, JournalPop
<1>4. /\ Good(j.cells)
      /\ \A i \in Cells : j.cells.pos[i] = -1 => cells.shift[i] = 0
  BY <1>3 DEF IInv, JournalInv
<1>5. /\ cells' = Restored(cells, j.idxs, j.cells)
      /\ head' = j.head
      /\ UNCHANGED <<kind, owner, rot, divided, unwritten>>
  BY DEF PlanRestore
<1>6. j.idxs \in SUBSET Cells /\ j.head \in 0 .. n_cells
  BY <1>3 DEF Entry
<1> HIDE DEF j
<1>7. Good(cells)' /\ cells'.shift = cells.shift
  <2>1. \A i \in j.idxs : j.cells.pos[i] = -1 => cells.shift[i] = 0
    BY <1>4, <1>6
  <2>2. Good(Restored(cells, j.idxs, j.cells))
    BY <1>1, <1>4, <1>6, <2>1, RestoredGood
  <2> QED
    BY <1>5, <2>2 DEF Restored
<1>8. head' \in 0 .. n_cells /\ KeysType'
  BY <1>5, <1>6 DEF IInv, TypeOK, KeysType
<1>9. CASE EndDecode
  BY <1>5, <1>7, <1>8, <1>9, EndKeeps
<1>10. CASE ~ (Len(journal) = 1 /\ phase = "fail")
  <2>1. /\ journal' = rest
        /\ phase' = IF Len(journal) = 1 THEN "commit"
                    ELSE IF phase = "fail" THEN "fail" ELSE "undo"
        /\ UNCHANGED <<ubs, plan, before>>
    BY <1>10 DEF PlanRestore
  <2>2. phase' \in {"commit", "undo"} => Len(plan) = Len(ubs)
    BY <1>3, <1>10, <2>1 DEF PlanRestore, IInv, BatchInv
  <2>3. phase' \in {"undo", "fail", "commit"} /\ phase # "idle"
    BY <2>1 DEF PlanRestore
  <2>4. TypeOK'
    BY <1>5, <1>7, <1>8, <2>1, <2>3 DEF IInv, TypeOK, KeysType, Good
  <2>5. BatchInv'
    BY <2>1, <2>2, <2>3 DEF IInv, BatchInv
  <2>6. JournalInv'
    <3>1. journal' = rest /\ Len(rest) = Len(journal) - 1 /\ rest \in Seq(Entry)
      BY <1>3, <2>1
    <3>2. \A k \in 1 .. Len(rest) : rest[k] = journal[k] /\ k \in 1 .. Len(journal)
      BY <1>3
    <3>3. \A k \in 1 .. Len(rest) :
             /\ Good(rest[k].cells)
             /\ \A i \in Cells : rest[k].cells.pos[i] = -1 => cells'.shift[i] = 0
      BY <1>7, <3>2 DEF IInv, JournalInv
    <3> HIDE DEF rest
    <3>4. phase' = "commit" => rest = <<>>
      BY <1>3, <2>1
    <3>5. phase' \in {"undo", "fail"} => rest # <<>>
      BY <1>3, <2>1
    <3> QED
      BY <2>3, <3>1, <3>3, <3>4, <3>5 DEF JournalInv, Good
  <2> QED
    BY <1>7, <2>4, <2>5, <2>6 DEF IInv, IndexesAgree, Good
<1> QED
  BY <1>9, <1>10 DEF PlanRestore

LEMMA AbandonIInv == IInv /\ Abandon => IInv'
<1> SUFFICES ASSUME IInv, Abandon PROVE IInv'
  OBVIOUS
<1>1. EndDecode /\ UNCHANGED <<cells, head, kind, owner, rot, divided, unwritten>>
  BY DEF Abandon
<1>2. Good(cells)'
  BY <1>1, GoodIff DEF IInv, Good, Agree, Entries, Members
<1> QED
  BY <1>1, <1>2, EndKeeps DEF IInv, TypeOK, KeysType

\* The ubatch that comes next, and its slot.
LEMMA HeadOfPlan ==
  ASSUME BatchInv, phase \in {"commit", "compute"}
  PROVE  Head(ubs) \in Ubatch /\ Head(plan) \in [1 .. Len(Head(ubs)) -> Cells]
<1>1. /\ ubs \in Seq(Ubatch) /\ ubs # <<>> /\ plan \in Seq(Seq(Cells))
      /\ Len(plan) = Len(ubs)
      /\ \A k \in 1 .. Len(plan) : plan[k] \in [1 .. Len(ubs[k]) -> Cells]
  BY DEF BatchInv
<1>2. Len(ubs) >= 1 /\ Len(ubs) \in Nat /\ plan # <<>>
  BY <1>1
<1>3. Head(ubs) = ubs[1] /\ Head(plan) = plan[1] /\ 1 \in 1 .. Len(plan)
  BY <1>1, <1>2
<1> QED
  BY <1>1, <1>2, <1>3

LEMMA CommitIInv == IInv /\ Commit => IInv'
<1> SUFFICES ASSUME IInv, Commit PROVE IInv'
  OBVIOUS
<1> DEFINE u == Head(ubs)
           slot == Head(plan)
<1>1. Good(cells)
  BY GoodIff DEF IInv
<1>2. /\ phase = "commit" /\ phase' = "compute"
      /\ cells' = ApplyUbatch(cells, slot, u)
      /\ head' = slot[Len(slot)] + 1
      /\ rot' = [i \in Cells |-> IF i \in SlotCells(slot) \/ cells'.pos[i] = -1
                                 THEN 0 ELSE rot[i]]
      /\ divided' = {i \in divided \ SlotCells(slot) : cells'.pos[i] # -1}
      /\ unwritten' = [i \in Cells |-> IF cells'.pos[i] = -1 THEN {}
                                       ELSE IF i \in SlotCells(slot)
                                            THEN TokenOf(slot, u, i).seqs
                                            ELSE unwritten[i]]
      /\ UNCHANGED <<kind, ubs, plan, journal>>
  BY DEF Commit
<1>3. u \in Ubatch /\ slot \in [1 .. Len(u) -> Cells]
  BY <1>2, HeadOfPlan DEF IInv
<1> HIDE DEF u, slot
<1>4. slot[Len(slot)] + 1 \in 0 .. n_cells
  BY <1>3, HeadAfterSlot
<1>5. Good(cells)'
  BY <1>1, <1>2, <1>3, ApplyGood
<1>6. \A i \in SlotCells(slot) : TokenOf(slot, u, i).seqs \in SUBSET Seqs
  BY <1>3, TokenTyped DEF Token
<1>7. KeysType'
  BY <1>2, <1>6 DEF IInv, TypeOK, KeysType
<1>8. TypeOK'
  BY <1>2, <1>4, <1>5, <1>7 DEF IInv, TypeOK, KeysType, Good
<1>9. BatchInv'
  BY <1>2 DEF IInv, BatchInv
<1>10. JournalInv'
  BY <1>2 DEF IInv, JournalInv
<1> QED
  BY <1>5, <1>8, <1>9, <1>10 DEF IInv, IndexesAgree, Good

LEMMA ComputedIInv == IInv /\ Computed => IInv'
<1> SUFFICES ASSUME IInv, Computed PROVE IInv'
  OBVIOUS
<1> DEFINE u == Head(ubs)
           slot == Head(plan)
<1>1. /\ phase = "compute" /\ UNCHANGED <<cells, head, kind, owner, divided>>
      /\ rot' = [i \in Cells |-> IF i \in SlotCells(slot)
                                 THEN TokenOf(slot, u, i).pos ELSE rot[i]]
      /\ unwritten' = [i \in Cells |-> IF i \in SlotCells(slot) THEN {}
                                       ELSE unwritten[i]]
  BY DEF Computed
<1>2. KeysType'
  <2>1. u \in Ubatch /\ slot \in [1 .. Len(u) -> Cells]
    BY <1>1, HeadOfPlan DEF IInv
  <2>2. \A i \in SlotCells(slot) : TokenOf(slot, u, i).pos \in Int
    BY <2>1, TokenTyped DEF Token
  <2> HIDE DEF u, slot
  <2> QED
    BY <1>1, <2>2 DEF IInv, TypeOK, KeysType
<1> HIDE DEF u, slot
<1>3. Good(cells)'
  BY <1>1, GoodIff DEF IInv, Good, Agree, Entries, Members
<1>4. CASE EndDecode
  BY <1>1, <1>3, <1>4, <1>2, EndKeeps DEF IInv, TypeOK
<1>5. CASE Len(ubs) # 1
  <2>1. /\ phase' = "commit" /\ ubs' = Tail(ubs) /\ plan' = Tail(plan)
        /\ UNCHANGED <<journal, before>>
    BY <1>5 DEF Computed
  <2>2. /\ ubs \in Seq(Ubatch) /\ ubs # <<>> /\ plan \in Seq(Seq(Cells))
        /\ Len(plan) = Len(ubs)
        /\ \A k \in 1 .. Len(plan) : plan[k] \in [1 .. Len(ubs[k]) -> Cells]
        /\ journal = <<>>
    BY <1>1 DEF IInv, BatchInv, JournalInv
  <2>3. Len(ubs) \in Nat /\ Len(ubs) >= 2 /\ plan # <<>>
    BY <1>5, <2>2
  <2>4. /\ ubs' \in Seq(Ubatch) /\ Len(ubs') = Len(ubs) - 1
        /\ \A k \in 1 .. Len(ubs) - 1 : ubs'[k] = ubs[k + 1]
    BY <2>1, <2>2, <2>3, HeadTailProperties
  <2>5. /\ plan' \in Seq(Seq(Cells)) /\ Len(plan') = Len(plan) - 1
        /\ \A k \in 1 .. Len(plan) - 1 : plan'[k] = plan[k + 1]
    BY <2>1, <2>2, <2>3, HeadTailProperties
  <2>6. \A k \in 1 .. Len(plan') : plan'[k] \in [1 .. Len(ubs'[k]) -> Cells]
    <3> TAKE k \in 1 .. Len(plan')
    <3>1. k + 1 \in 1 .. Len(plan) /\ k \in 1 .. Len(plan) - 1
      BY <2>2, <2>3, <2>5
    <3> QED
      BY <2>2, <2>4, <2>5, <3>1
  <2>7. ubs' # <<>>
    BY <2>3, <2>4
  <2>8. BatchInv'
    BY <2>1, <2>2, <2>4, <2>5, <2>6, <2>7 DEF BatchInv
  <2>9. JournalInv'
    BY <2>1, <2>2 DEF IInv, JournalInv
  <2>10. TypeOK'
    <3>1. \A k \in DOMAIN plan' : SlotCells(plan'[k]) \subseteq Cells
      BY <2>8 DEF BatchInv, SlotCells
    <3> QED
      BY <1>1, <1>2, <2>1, <3>1 DEF IInv, TypeOK, KeysType
  <2> QED
    BY <1>3, <2>8, <2>9, <2>10 DEF IInv, IndexesAgree, Good
<1> QED
  BY <1>4, <1>5 DEF Computed

LEMMA ComputeFailsIInv == IInv /\ ComputeFails => IInv'
<1> SUFFICES ASSUME IInv, ComputeFails PROVE IInv'
  OBVIOUS
<1> DEFINE u == Head(ubs)
           from(s) == {u[k].pos : k \in {j \in DOMAIN u : s = Min(u[j].seqs)}}
           gone == [i \in Cells |-> {s \in cells.seq[i] :
                                       from(s) # {} /\ cells.pos[i] >= Min(from(s))}]
<1>1. Good(cells)
  BY GoodIff DEF IInv
<1>2. gone \in [Cells -> SUBSET Seqs] /\ \A i \in Cells : gone[i] \subseteq cells.seq[i]
  <2>1. \A i \in Cells : cells.seq[i] \subseteq Seqs
    BY <1>1 DEF Good, CellsType
  <2> HIDE DEF from
  <2> QED
    BY <2>1
<1>3. /\ cells' = Drop(cells, gone)
      /\ head' = HeadAfter(Emptied(cells, gone))
      /\ EndDecode /\ ForgetKeys /\ UNCHANGED kind
  BY DEF ComputeFails
<1> HIDE DEF gone
<1>4. Good(cells)'
  BY <1>1, <1>2, <1>3, DropGood
<1>5. head' \in 0 .. n_cells
  <2>1. Emptied(cells, gone) \in SUBSET Cells
    BY DEF Emptied
  <2>2. head \in 0 .. n_cells
    BY DEF IInv, TypeOK
  <2> QED
    BY <1>3, <2>1, <2>2, HeadInRange
<1> QED
  BY <1>3, <1>4, <1>5, KeysTyped, EndKeeps

LEMMA NextIInv == IInv /\ [Next]_vars => IInv'
<1> SUFFICES ASSUME IInv, [Next]_vars PROVE IInv'
  OBVIOUS
<1>1. CASE UNCHANGED vars
  <2>1. TypeOK' /\ BatchInv' /\ JournalInv'
    BY <1>1 DEF IInv, vars, TypeOK, BatchInv, JournalInv
  <2>2. IndexesAgree'
    BY <1>1 DEF IInv, vars, IndexesAgree, Agree, Entries, Members
  <2> QED
    BY <2>1, <2>2 DEF IInv
<1> QED
  BY <1>1, EditRmIInv, EditRmAllIInv, EditCpIInv, EditKeepIInv, EditClearIInv,
     EditAddIInv, EditDivIInv, DecodeIInv, PlanUbatchIInv, PlanRestoreIInv,
     AbandonIInv, CommitIInv, ComputedIInv, ComputeFailsIInv DEF Next

\* The cells, the positions a decode uses and its plan stay in their domains
\* whatever edits and decodes come: no index of src/llama-kv-cells.h or of
\* apply_ubatch is out of range.
THEOREM TypeCorrect == Spec => []TypeOK
<1>1. IInv => TypeOK
  BY DEF IInv
<1> QED
  BY <1>1, InitIInv, NextIInv, PTL DEF Spec

\* The used set and the index of every sequence repeat the cells exactly, in
\* every state of every edit, trial placement, restore and decode.
THEOREM IndexesConsistent == Spec => []IndexesAgree
<1>1. IInv => IndexesAgree
  BY DEF IInv
<1> QED
  BY <1>1, InitIInv, NextIInv, PTL DEF Spec

-----------------------------------------------------------------------------
(* Planning leaves no trace                                                *)

\* A window and a K-shift graph that may fail do not come together.
ShiftsSafe == \A k \in Caches : k.n_swa = 0 \/ ~k.shift_fails

Planning == phase \in {"plan", "undo", "fail"}

\* The journal leads back, state by state, to what the planning found.
TraceInv ==
    Planning =>
      /\ ~kind.shift_fails => \A i \in Cells : cells.shift[i] = 0
      /\ journal = <<>> => cells = before.cells /\ head = before.head
      /\ journal # <<>> =>
           LET n == Len(journal) IN
           /\ journal[1].cells = before.cells /\ journal[1].head = before.head
           /\ Restored(cells, journal[n].idxs, journal[n].cells) = journal[n].cells
           /\ \A k \in 1 .. n - 1 :
                Restored(journal[k + 1].cells, journal[k].idxs, journal[k].cells)
                  = journal[k].cells

\* Without a window only empty cells are taken, and only they are touched.
LEMMA TouchedAtRest ==
  ASSUME ShiftsSafe, IInv, NEW n, NEW slot \in FindSlot(cells, head, n),
         ~kind.shift_fails => \A i \in Cells : cells.shift[i] = 0
  PROVE  \A i \in Touched(cells, slot) : cells.shift[i] = 0
<1>1. Good(cells)
  BY GoodIff DEF IInv
<1>2. slot \in [1 .. n -> Cells] /\ \A k \in 1 .. n : CanReuse(cells, slot[k])
  BY SlotTyped
<1>3. SlotCells(slot) \subseteq Cells /\ \A i \in SlotCells(slot) : CanReuse(cells, i)
  BY <1>2 DEF SlotCells
<1>4. CASE ~kind.shift_fails
  BY <1>3, <1>4 DEF Touched
<1>5. CASE kind.shift_fails
  <2>1. n_swa = 0
    BY <1>5 DEF ShiftsSafe, IInv, TypeOK, n_swa
  <2>2. \A i \in SlotCells(slot) : cells.pos[i] = -1
    BY <1>3, <2>1 DEF CanReuse
  <2>3. \A i \in SlotCells(slot) : cells.shift[i] = 0 /\ cells.seq[i] = {}
    BY <1>1, <1>3, <2>2 DEF Good, Agree
  <2>4. \A s : PosMaxRm(cells, slot, s) = -1
    BY <2>3 DEF PosMaxRm, Members
  <2>5. \A i \in Cells : \A s : ~PosIn(cells, i, 0, PosMaxRm(cells, slot, s) + 1)
    BY <1>1, <2>4 DEF PosIn, Good, CellsType
  <2> QED
    BY <2>3, <2>5 DEF Touched
<1> QED
  BY <1>4, <1>5

LEMMA InitTrace == Init => TraceInv
  BY DEF Init, TraceInv, Planning

LEMMA DecodeTrace == IInv /\ Decode => TraceInv'
<1> SUFFICES ASSUME IInv, Decode PROVE TraceInv'
  OBVIOUS
<1>1. journal' = <<>>
  BY DEF Decode, IInv, JournalInv
<1>2. before' = [cells |-> cells', head |-> head'] /\ UNCHANGED kind
  BY DEF Decode
<1>3. ~kind.shift_fails => \A i \in Cells : cells'.shift[i] = 0
  <2>1. ~kind.shift_fails => KShift
    BY DEF Decode, KShiftFails
  <2>2. KShift => \A i \in Cells : cells'.shift[i] = 0
    BY DEF KShift, IInv, TypeOK, CellsType
  <2> QED
    BY <2>1, <2>2
<1> QED
  BY <1>1, <1>2, <1>3 DEF TraceInv

LEMMA TryTrace ==
  ASSUME ShiftsSafe, IInv, TraceInv, phase = "plan", Len(plan) < Len(ubs),
         NEW slot \in FindSlot(cells, head, Len(ubs[Len(plan) + 1])),
         TryUbatch(ubs[Len(plan) + 1], slot)
  PROVE  TraceInv'
<1> DEFINE u == ubs[Len(plan) + 1]
           e == [idxs |-> Touched(cells, slot), cells |-> cells, head |-> head]
<1>1. Good(cells)
  BY GoodIff DEF IInv
<1>2. u \in Ubatch
  BY DEF IInv, BatchInv
<1>3. slot \in [1 .. Len(u) -> Cells]
  BY SlotTyped
<1>4. \A i \in Touched(cells, slot) : cells.shift[i] = 0
  BY TouchedAtRest DEF TraceInv, Planning
<1>5. Restored(cells', Touched(cells, slot), cells) = cells
  <2> HIDE DEF u
  <2>1. cells' = ApplyUbatch(cells, slot, u)
    BY DEF TryUbatch, u
  <2> QED
    BY <1>1, <1>2, <1>3, <1>4, <2>1, UndoApply
<1>6. \A i \in Cells : cells.shift[i] = 0 => cells'.shift[i] = 0
  BY <1>1, <1>2, <1>3, ApplyGood DEF TryUbatch
<1>7. e \in Entry
  <2>1. Touched(cells, slot) \subseteq Cells
    BY <1>1, <1>2, <1>3, ApplyGood
  <2> QED
    BY <1>1, <2>1 DEF Entry, IInv, TypeOK, Good
<1>8. /\ journal' \in Seq(Entry) /\ Len(journal') = Len(journal) + 1
      /\ journal'[Len(journal) + 1] = e
      /\ \A k \in 1 .. Len(journal) : journal'[k] = journal[k]
      /\ journal \in Seq(Entry) /\ Len(journal) \in Nat
  BY <1>7, JournalPush DEF IInv, JournalInv, TryUbatch
<1>9. UNCHANGED <<kind, phase, before>>
  BY DEF TryUbatch
<1>10. journal'[1].cells = before.cells /\ journal'[1].head = before.head
  <2>1. CASE journal = <<>>
    BY <1>8, <2>1 DEF TraceInv, Planning
  <2>2. CASE journal # <<>>
    <3>1. 1 \in 1 .. Len(journal)
      BY <1>8, <2>2
    <3> QED
      BY <1>8, <2>2, <3>1 DEF TraceInv, Planning
  <2> QED
    BY <2>1, <2>2
<1>11. \A k \in 1 .. Len(journal') - 1 :
          Restored(journal'[k + 1].cells, journal'[k].idxs, journal'[k].cells)
            = journal'[k].cells
  <2> TAKE k \in 1 .. Len(journal') - 1
  <2>1. k \in 1 .. Len(journal) /\ journal'[k] = journal[k] /\ journal # <<>>
    BY <1>8
  <2>2. CASE k = Len(journal)
    <3>1. journal'[k + 1].cells = cells
      BY <1>8, <2>2
    <3> QED
      BY <2>1, <2>2, <3>1 DEF TraceInv, Planning
  <2>3. CASE k \in 1 .. Len(journal) - 1
    <3>1. journal'[k + 1] = journal[k + 1]
      BY <1>8, <2>3
    <3> QED
      BY <2>1, <2>3, <3>1 DEF TraceInv, Planning
  <2> QED
    BY <1>8, <2>1, <2>2, <2>3
<1>12. journal' # <<>> /\ journal'[Len(journal')] = e
  BY <1>8
<1>13. ~kind.shift_fails => \A i \in Cells : cells'.shift[i] = 0
  BY <1>6 DEF TraceInv, Planning
<1> QED
  BY <1>5, <1>9, <1>10, <1>11, <1>12, <1>13 DEF TraceInv

\* plan_slots puts a state back exactly.
LEMMA RestoreExact ==
  ASSUME IInv, TraceInv, PlanRestore
  PROVE  /\ journal # <<>> /\ Planning
         /\ cells' = journal[Len(journal)].cells
         /\ head' = journal[Len(journal)].head
         /\ cells'.shift = cells.shift
<1>1. Planning
  BY DEF PlanRestore, Planning
<1>2. journal # <<>>
  <2>1. CASE phase = "plan" /\ Len(plan) = Len(ubs)
    <3>1. ubs # <<>> /\ ubs \in Seq(Ubatch)
      BY <2>1 DEF IInv, BatchInv
    <3>2. Len(ubs) # 0
      BY <3>1
    <3> QED
      BY <2>1, <3>2 DEF IInv, JournalInv
  <2>2. CASE phase \in {"undo", "fail"}
    BY <2>2 DEF IInv, JournalInv
  <2> QED
    BY <2>1, <2>2 DEF PlanRestore
<1>3. cells' = journal[Len(journal)].cells
  BY <1>1, <1>2 DEF TraceInv, PlanRestore
<1>4. cells'.shift = cells.shift
  BY DEF PlanRestore, Restored
<1> QED
  BY <1>1, <1>2, <1>3, <1>4 DEF PlanRestore

LEMMA RestoreTrace == IInv /\ TraceInv /\ PlanRestore => TraceInv'
<1> SUFFICES ASSUME IInv, TraceInv, PlanRestore, Planning' PROVE TraceInv'
  BY DEF TraceInv
<1> DEFINE n == Len(journal)
           rest == SubSeq(journal, 1, n - 1)
<1>1. /\ journal # <<>> /\ Planning /\ cells' = journal[n].cells
      /\ cells'.shift = cells.shift
  BY RestoreExact
<1>2. n # 1
  BY DEF PlanRestore, EndDecode, Planning
<1>3. journal' = rest /\ UNCHANGED <<kind, before>>
  BY <1>2 DEF PlanRestore
<1>4. /\ n \in Nat /\ n >= 2
      /\ Len(rest) = n - 1 /\ rest \in Seq(Entry)
      /\ \A k \in 1 .. n - 1 : rest[k] = journal[k]
  BY <1>1, <1>2, JournalPop DEF IInv, JournalInv
<1> HIDE DEF n, rest
<1>5. rest # <<>> /\ 1 \in 1 .. n - 1 /\ n - 1 \in 1 .. n - 1 /\ (n - 1) + 1 = n
  BY <1>4
<1>6. /\ journal[1].cells = before.cells /\ journal[1].head = before.head
      /\ \A k \in 1 .. n - 1 :
           Restored(journal[k + 1].cells, journal[k].idxs, journal[k].cells)
             = journal[k].cells
      /\ ~kind.shift_fails => \A i \in Cells : cells.shift[i] = 0
  BY <1>1 DEF TraceInv, n
<1>7. rest[1] = journal[1] /\ rest[n - 1] = journal[n - 1]
  BY <1>4, <1>5
<1>8. Restored(cells', rest[n - 1].idxs, rest[n - 1].cells) = rest[n - 1].cells
  BY <1>1, <1>5, <1>6, <1>7
<1>9. \A k \in 1 .. (n - 1) - 1 :
         Restored(rest[k + 1].cells, rest[k].idxs, rest[k].cells) = rest[k].cells
  <2> TAKE k \in 1 .. (n - 1) - 1
  <2>1. k \in 1 .. n - 1 /\ k + 1 \in 1 .. n - 1
    BY <1>4
  <2> QED
    BY <1>4, <1>6, <2>1
<1>10. ~kind.shift_fails => \A i \in Cells : cells'.shift[i] = 0
  BY <1>1, <1>6
<1>11. journal'[Len(journal')] = rest[n - 1] /\ Len(journal') = n - 1
  BY <1>3, <1>4
<1> QED
  BY <1>3, <1>5, <1>6, <1>7, <1>8, <1>9, <1>10, <1>11 DEF TraceInv

LEMMA NextTrace ==
  ASSUME ShiftsSafe, IInv, TraceInv, [Next]_vars
  PROVE  TraceInv'
<1>1. CASE Decode
  BY <1>1, DecodeTrace
<1>2. CASE PlanUbatch
  <2>1. CASE \E slot \in FindSlot(cells, head, Len(ubs[Len(plan) + 1])) :
               TryUbatch(ubs[Len(plan) + 1], slot)
    BY <1>2, <2>1, TryTrace DEF PlanUbatch
  <2>2. CASE EndDecode
    BY <2>2 DEF EndDecode, TraceInv, Planning
  <2>3. CASE UNCHANGED <<cells, head, ubs, plan, journal, before, kind>>
    BY <1>2, <2>3 DEF PlanUbatch, TraceInv, Planning
  <2> QED
    BY <1>2, <2>1, <2>2, <2>3 DEF PlanUbatch, TryUbatch
<1>3. CASE PlanRestore
  BY <1>3, RestoreTrace
<1>4. CASE UNCHANGED vars
  BY <1>4 DEF vars, TraceInv, Planning
<1>5. CASE phase' \in {"idle", "commit", "compute"}
  BY <1>5 DEF TraceInv, Planning
<1>6. ASSUME EditRm \/ EditRmAll \/ EditCp \/ EditKeep \/ EditClear \/ EditAdd
             \/ EditDiv
      PROVE  phase' = "idle"
  BY <1>6 DEF EditRm, EditRmAll, EditCp, EditKeep, EditClear, EditAdd, EditDiv, MayEdit
<1>7. ASSUME Abandon \/ Commit \/ Computed \/ ComputeFails
      PROVE  phase' \in {"idle", "commit", "compute"}
  BY <1>7 DEF Abandon, Commit, Computed, ComputeFails, EndDecode
<1> QED
  BY <1>1, <1>2, <1>3, <1>4, <1>5, <1>6, <1>7 DEF Next

\* A step that ends the planning leaves the cells as the planning found them.
LEMMA PlanningEnds ==
  ASSUME IInv, TraceInv, [Next]_vars,
         Planning, phase' \in {"commit", "idle"}
  PROVE  cells' = before.cells /\ head' = before.head
<1>1. CASE PlanUbatch
  <2>1. journal = <<>> /\ UNCHANGED <<cells, head>>
    BY <1>1 DEF PlanUbatch
  <2> QED
    BY <2>1 DEF TraceInv
<1>2. CASE PlanRestore
  <2>1. Len(journal) = 1
    BY <1>2 DEF PlanRestore, EndDecode
  <2>2. /\ journal # <<>> /\ cells' = journal[Len(journal)].cells
        /\ head' = journal[Len(journal)].head
    BY <1>2, RestoreExact
  <2> QED
    BY <2>1, <2>2 DEF TraceInv
<1>3. CASE UNCHANGED vars
  BY <1>3 DEF vars, Planning
<1> QED
  BY <1>1, <1>2, <1>3 DEF Next, Planning, EditRm, EditRmAll, EditCp, EditKeep,
     EditClear, EditAdd, EditDiv, MayEdit, Decode, Abandon, Commit, Computed,
     ComputeFails

\* plan_slots leaves no trace on the cells and the head, for every batch and
\* whichever ubatch found no slot, unless keys of a sliding window wait for a
\* rotation that failed.
THEOREM PlanLeavesNoTrace ==
  ASSUME ShiftsSafe
  PROVE  Spec => PlanRestores
<1>1. IInv /\ TraceInv /\ [Next]_vars =>
        (phase \in {"plan", "undo", "fail"} /\ phase' \in {"commit", "idle"}
           => cells' = before.cells /\ head' = before.head)
  BY PlanningEnds DEF Planning
<1>2. IInv /\ TraceInv /\ [Next]_vars => TraceInv'
  BY NextTrace
<1> QED
  BY <1>1, <1>2, InitIInv, InitTrace, NextIInv, PTL DEF Spec, PlanRestores

-----------------------------------------------------------------------------
(* Keys are rotated to their positions                                     *)

\* The key of a used cell of c: it is there and asks for exactly the rotation
\* that brings it to the position of the cell, or its token had several
\* sequences.
Row(c, i) == IF unwritten[i] = {}
             THEN i \in divided \/ c.pos[i] = rot[i] + c.shift[i]
             ELSE \E s, t \in unwritten[i] : s # t

\* So it is for all cells but those whose keys are being written.
Rotated(c) == \A i \in c.used : InGraph(i) \/ Row(c, i)

\* While a graph is computed, its slot holds its tokens, and their keys are
\* still to be written.
GraphInv ==
    phase = "compute" =>
        \A i \in SlotCells(Head(plan)) \cap cells.used :
           LET t == TokenOf(Head(plan), Head(ubs), i)
           IN  /\ cells.pos[i] = t.pos /\ cells.shift[i] = 0
               /\ cells.seq[i] \subseteq t.seqs /\ unwritten[i] = t.seqs

\* The rows of the cells, or, while they hold trial placements, of those the
\* planning will put back.
RowsInv == Rotated(IF Planning THEN before.cells ELSE cells) /\ GraphInv

\* Cells that are left after some sequences left cells.
LEMMA DropRow ==
  ASSUME IInv, NEW gone, cells' = Drop(cells, gone), ForgetKeys,
         NEW i \in cells'.used
  PROVE  /\ i \in cells.used /\ i \notin Emptied(cells, gone)
         /\ Row(cells, i) => Row(cells, i)'
         /\ unwritten'[i] = unwritten[i]
<1>1. i \in cells.used /\ i \notin Emptied(cells, gone) /\ i \in Cells
  BY DEF Drop, IInv, TypeOK, CellsType
<1>2. cells'.pos[i] = cells.pos[i] /\ cells'.shift[i] = cells.shift[i]
  BY <1>1 DEF Drop
<1>3. cells.pos[i] # -1
  BY <1>1 DEF IInv, IndexesAgree, Agree
<1>4. rot'[i] = rot[i] /\ (i \in divided => i \in divided') /\ unwritten'[i] = unwritten[i]
  BY <1>1, <1>2, <1>3 DEF ForgetKeys
<1> QED
  BY <1>1, <1>2, <1>4 DEF Row

LEMMA DropRotated ==
  ASSUME IInv, phase = "idle", Rotated(cells), NEW gone,
         cells' = Drop(cells, gone), ForgetKeys
  PROVE  Rotated(cells)'
<1> SUFFICES ASSUME NEW i \in cells'.used
             PROVE  Row(cells, i)'
  BY DEF Rotated
<1>1. i \in cells.used /\ (Row(cells, i) => Row(cells, i)')
  BY DropRow
<1>2. ~InGraph(i)
  BY DEF InGraph
<1> QED
  BY <1>1, <1>2 DEF Rotated

LEMMA EditRows ==
  ASSUME IInv, Rotated(cells), EditRm \/ EditRmAll \/ EditKeep \/ EditClear \/ EditCp
  PROVE  Rotated(cells)'
<1>0. phase = "idle" /\ phase' = "idle"
  BY DEF EditRm, EditRmAll, EditCp, EditKeep, EditClear, MayEdit
<1>1. CASE EditRm
  <2>1. \E gone : cells' = Drop(cells, gone)
    BY <1>1 DEF EditRm, SeqRm
  <2> QED
    BY <1>0, <1>1, <2>1, DropRotated DEF EditRm
<1>2. CASE EditRmAll
  <2>1. \E gone : cells' = Drop(cells, gone)
    BY <1>2 DEF EditRmAll
  <2> QED
    BY <1>0, <1>2, <2>1, DropRotated DEF EditRmAll
<1>3. CASE EditKeep
  <2>1. \E gone : cells' = Drop(cells, gone)
    BY <1>3 DEF EditKeep
  <2> QED
    BY <1>0, <1>3, <2>1, DropRotated DEF EditKeep
<1>4. CASE EditClear
  BY <1>4 DEF EditClear, EmptyCells, Rotated
<1>5. CASE EditCp
  <2>1. PICK I, t : cells' = Share(cells, I, t)
    BY <1>5 DEF EditCp
  <2>2. cells'.pos = cells.pos /\ cells'.shift = cells.shift /\ cells'.used = cells.used
    BY <2>1 DEF Share, IInv, TypeOK, CellsType
  <2>3. UNCHANGED <<rot, divided, unwritten, phase>>
    BY <1>0, <1>5 DEF EditCp
  <2>4. \A i \in cells.used : Row(cells, i)
    BY <1>0 DEF Rotated, InGraph
  <2>5. \A i \in cells'.used : Row(cells, i)'
    BY <2>2, <2>3, <2>4 DEF Row
  <2> QED
    BY <2>5 DEF Rotated
<1> QED
  BY <1>1, <1>2, <1>3, <1>4, <1>5

\* A move changes the rotation to wait for by what it changes the position.
LEMMA MoveRotated ==
  ASSUME IInv, phase = "idle", Rotated(cells), NEW I \in SUBSET Cells,
         NEW p \in [Cells -> Int], NEW d \in [Cells -> Int],
         cells' = Move(cells, I, p, d),
         \A i \in Cells : cells'.pos[i] # -1 =>
             rot'[i] = rot[i] /\ unwritten'[i] = unwritten[i],
         \A i \in cells'.used : i \in divided => i \in divided',
         \A i \in I : i \notin divided' => d[i] = p[i] - cells.pos[i]
  PROVE  Rotated(cells)'
<1> SUFFICES ASSUME NEW i \in cells'.used
             PROVE  Row(cells, i)'
  BY DEF Rotated
<1>1. cells \in CellsType /\ rot \in [Cells -> Int]
  BY DEF IInv, TypeOK
<1>2. i \in cells.used /\ i \in Cells /\ ~ (i \in I /\ p[i] < 0)
  BY <1>1 DEF Move, CellsType
<1>3. cells.pos[i] >= 0 /\ cells.pos[i] \in Int /\ cells.shift[i] \in Int /\ rot[i] \in Int
  <2>1. cells.pos[i] # -1 /\ cells.pos[i] >= -1
    BY <1>2 DEF IInv, TypeOK, IndexesAgree, Agree
  <2> QED
    BY <1>1, <1>2, <2>1 DEF CellsType
<1>4. Row(cells, i)
  BY <1>2 DEF Rotated, InGraph
<1>5. /\ cells'.pos[i] = IF i \in I THEN p[i] ELSE cells.pos[i]
      /\ cells'.shift[i] = IF i \in I THEN cells.shift[i] + d[i] ELSE cells.shift[i]
  BY <1>2 DEF Move
<1>6. p[i] \in Int /\ d[i] \in Int /\ (i \in I => p[i] >= 0)
  BY <1>2
<1>7. cells'.pos[i] # -1
  BY <1>3, <1>5, <1>6
<1>8. rot'[i] = rot[i] /\ unwritten'[i] = unwritten[i]
  BY <1>2, <1>7
<1>9. CASE unwritten[i] # {}
  BY <1>4, <1>8, <1>9 DEF Row
<1>10. CASE i \in divided'
  BY <1>4, <1>8, <1>10 DEF Row
<1>11. CASE unwritten[i] = {} /\ i \notin divided'
  <2>1. cells.pos[i] = rot[i] + cells.shift[i]
    BY <1>4, <1>11 DEF Row
  <2>2. cells'.pos[i] = rot'[i] + cells'.shift[i]
    BY <1>3, <1>5, <1>6, <1>8, <1>11, <2>1
  <2> QED
    BY <1>8, <1>11, <2>2 DEF Row
<1> QED
  BY <1>9, <1>10, <1>11

LEMMA AddRows ==
  ASSUME IInv, Rotated(cells), EditAdd
  PROVE  Rotated(cells)'
<1>1. PICK s \in Seqs, p0 \in 0 .. MaxPos, d \in Shifts \ {0} :
         cells' = Move(cells, {i \in Members(cells, s) : cells.pos[i] >= p0},
                       [i \in Cells |-> cells.pos[i] + d], [i \in Cells |-> d])
  BY DEF EditAdd
<1> DEFINE I == {i \in Members(cells, s) : cells.pos[i] >= p0}
           p == [i \in Cells |-> cells.pos[i] + d]
           e == [i \in Cells |-> d]
<1>2. d \in Int /\ cells.pos \in [Cells -> Int]
  BY CellsAssumption DEF IInv, TypeOK, CellsType
<1>3. /\ I \in SUBSET Cells /\ p \in [Cells -> Int] /\ e \in [Cells -> Int]
      /\ \A i \in I : e[i] = p[i] - cells.pos[i]
  BY <1>2 DEF Members
<1>4. cells' = Move(cells, I, p, e)
  BY <1>1
<1> HIDE DEF I, p, e
<1>5. Good(cells)'
  BY EditAddIInv, GoodIff DEF IInv, Good, TypeOK, IndexesAgree
<1>6. /\ \A i \in Cells : cells'.pos[i] # -1 =>
             rot'[i] = rot[i] /\ unwritten'[i] = unwritten[i]
      /\ \A i \in cells'.used : i \in divided => i \in divided'
  BY <1>5 DEF EditAdd, ForgetKeys, Good, Agree
<1>7. phase = "idle"
  BY DEF EditAdd, MayEdit
<1> QED
  BY <1>3, <1>4, <1>6, <1>7, MoveRotated

LEMMA DivRows ==
  ASSUME IInv, Rotated(cells), EditDiv
  PROVE  Rotated(cells)'
<1>1. PICK s \in Seqs, p0 \in 0 .. MaxPos :
         LET I == {i \in Members(cells, s) : cells.pos[i] >= p0}
             p == [i \in Cells |-> cells.pos[i] \div 2]
         IN  /\ cells' = Move(cells, I, p,
                              [i \in Cells |-> cells.pos[i] - p[i]])
             /\ divided' = divided \cup {i \in I : p[i] # cells.pos[i]}
  BY DEF EditDiv
<1> DEFINE I == {i \in Members(cells, s) : cells.pos[i] >= p0}
           p == [i \in Cells |-> cells.pos[i] \div 2]
           e == [i \in Cells |-> cells.pos[i] - p[i]]
<1>2. cells.pos \in [Cells -> Int]
  BY DEF IInv, TypeOK, CellsType
<1>3. I \in SUBSET Cells /\ p \in [Cells -> Int] /\ e \in [Cells -> Int]
  BY <1>2 DEF Members
<1>4. \A i \in I : e[i] = cells.pos[i] - p[i]
  BY <1>3
<1>5. cells' = Move(cells, I, p, e) /\ divided' = divided \cup {i \in I : p[i] # cells.pos[i]}
  BY <1>1
<1> HIDE DEF I, p, e
<1>6. \A i \in I : i \notin divided' => e[i] = p[i] - cells.pos[i]
  BY <1>2, <1>3, <1>4, <1>5
<1>7. /\ \A i \in Cells : cells'.pos[i] # -1 =>
             rot'[i] = rot[i] /\ unwritten'[i] = unwritten[i]
      /\ \A i \in cells'.used : i \in divided => i \in divided'
  BY <1>5 DEF EditDiv
<1>8. phase = "idle"
  BY DEF EditDiv, MayEdit
<1> QED
  BY <1>3, <1>5, <1>6, <1>7, <1>8, MoveRotated

\* A decode begins: the keys get the rotation, or keep waiting for it.
LEMMA DecodeRows ==
  ASSUME IInv, Rotated(cells), Decode
  PROVE  Rotated(cells)'
<1>0. phase = "idle" /\ divided' = divided /\ unwritten' = unwritten
  BY DEF Decode
<1>1. \A i \in cells.used : Row(cells, i)
  BY <1>0 DEF Rotated, InGraph
<1>2. CASE KShift
  <2>1. /\ cells'.pos = cells.pos /\ cells'.used = cells.used
        /\ cells'.shift = [i \in Cells |-> 0]
    BY <1>2 DEF KShift, IInv, TypeOK, CellsType
  <2>2. /\ cells.used \subseteq Cells /\ rot \in [Cells -> Int]
        /\ cells.shift \in [Cells -> Int]
    BY DEF IInv, TypeOK, CellsType
  <2>3. \A i \in Cells : unwritten[i] = {} => rot'[i] = rot[i] + cells.shift[i]
    BY <1>2 DEF KShift, Turned
  <2>4. \A i \in cells'.used : Row(cells, i)'
    BY <1>0, <1>1, <2>1, <2>2, <2>3 DEF Row
  <2> QED
    BY <2>4 DEF Rotated
<1>3. CASE KShiftFails
  <2>1. \A i \in cells'.used : Row(cells, i)'
    BY <1>0, <1>1, <1>3 DEF KShiftFails, Row
  <2> QED
    BY <2>1 DEF Rotated
<1> QED
  BY <1>2, <1>3 DEF Decode

\* The ubatch is placed: its keys are to be written at the positions that its
\* cells have now.
LEMMA CommitRows ==
  ASSUME IInv, Rotated(cells), Commit
  PROVE  Rotated(cells)' /\ GraphInv'
<1> DEFINE u == Head(ubs)
           slot == Head(plan)
           placed == Placed(cells, slot, u)
<1>1. Good(cells)
  BY GoodIff DEF IInv
<1>2. /\ phase = "commit" /\ phase' = "compute" /\ UNCHANGED <<ubs, plan>>
      /\ cells' = ApplyUbatch(cells, slot, u)
      /\ rot' = [i \in Cells |-> IF i \in SlotCells(slot) \/ cells'.pos[i] = -1
                                 THEN 0 ELSE rot[i]]
      /\ divided' = {i \in divided \ SlotCells(slot) : cells'.pos[i] # -1}
      /\ unwritten' = [i \in Cells |-> IF cells'.pos[i] = -1 THEN {}
                                       ELSE IF i \in SlotCells(slot)
                                            THEN TokenOf(slot, u, i).seqs
                                            ELSE unwritten[i]]
  BY DEF Commit
<1>3. u \in Ubatch /\ slot \in [1 .. Len(u) -> Cells]
  BY <1>2, HeadOfPlan DEF IInv
<1>4. slot' = slot /\ u' = u
  BY <1>2
<1> HIDE DEF u, slot
<1>5. /\ Good(cells)'
      /\ \A i \in Cells : cells'.pos[i] = -1 \/
            /\ cells'.pos[i] = placed.pos[i] /\ cells'.shift[i] = placed.shift[i]
            /\ cells'.seq[i] \subseteq placed.seq[i]
  BY <1>1, <1>2, <1>3, ApplyGood
<1>6. /\ Good(placed)
      /\ \A i \in Cells :
           IF i \in SlotCells(slot)
           THEN /\ placed.shift[i] = 0 /\ placed.pos[i] = TokenOf(slot, u, i).pos
                /\ placed.seq[i] = TokenOf(slot, u, i).seqs
           ELSE placed.pos[i] = cells.pos[i] /\ placed.shift[i] = cells.shift[i]
  BY <1>1, <1>3, PlacedGood
<1> HIDE DEF placed
<1>7. \A i \in cells'.used : i \in Cells /\ cells'.pos[i] # -1
  BY <1>5 DEF Good, Agree
<1>8. GraphInv'
  <2>1. \A i \in SlotCells(slot) \cap cells'.used :
           LET t == TokenOf(slot, u, i)
           IN  /\ cells'.pos[i] = t.pos /\ cells'.shift[i] = 0
               /\ cells'.seq[i] \subseteq t.seqs /\ unwritten'[i] = t.seqs
    BY <1>2, <1>5, <1>6, <1>7
  <2> QED
    BY <1>4, <2>1 DEF GraphInv, slot, u
<1>9. \A i \in cells'.used : i \notin SlotCells(slot) => Row(cells, i)'
  <2> SUFFICES ASSUME NEW i \in cells'.used, i \notin SlotCells(slot)
               PROVE  Row(cells, i)'
    OBVIOUS
  <2>1. cells'.pos[i] = cells.pos[i] /\ cells'.shift[i] = cells.shift[i]
    BY <1>5, <1>6, <1>7
  <2>2. /\ rot'[i] = rot[i] /\ unwritten'[i] = unwritten[i]
        /\ i \in divided => i \in divided'
    BY <1>2, <1>7
  <2>3. i \in cells.used
    BY <1>1, <1>7, <2>1 DEF Good, Agree
  <2>4. Row(cells, i)
    BY <1>2, <2>3 DEF Rotated, InGraph
  <2> QED
    BY <2>1, <2>2, <2>4 DEF Row
<1>10. \A i \in SlotCells(slot) : InGraph(i)'
  BY <1>2, <1>4 DEF InGraph, slot
<1> QED
  BY <1>8, <1>9, <1>10 DEF Rotated

\* The graph has written the keys of its slot.
LEMMA ComputedRows ==
  ASSUME IInv, Rotated(cells), GraphInv, Computed
  PROVE  Rotated(cells)'
<1> DEFINE u == Head(ubs)
           slot == Head(plan)
<1>1. /\ phase = "compute" /\ UNCHANGED <<cells, divided>>
      /\ rot' = [i \in Cells |-> IF i \in SlotCells(slot)
                                 THEN TokenOf(slot, u, i).pos ELSE rot[i]]
      /\ unwritten' = [i \in Cells |-> IF i \in SlotCells(slot) THEN {}
                                       ELSE unwritten[i]]
  BY DEF Computed
<1>2. \A i \in SlotCells(slot) \cap cells.used :
         cells.pos[i] = TokenOf(slot, u, i).pos /\ cells.shift[i] = 0
  BY <1>1 DEF GraphInv
<1>3. \A i \in cells.used : InGraph(i) => i \in SlotCells(slot)
  BY DEF InGraph
<1> HIDE DEF u, slot
<1>4. cells.used \subseteq Cells /\ \A i \in Cells : cells.pos[i] \in Int
  BY DEF IInv, TypeOK, CellsType
<1> SUFFICES ASSUME NEW i \in cells'.used
             PROVE  Row(cells, i)'
  BY DEF Rotated
<1>5. CASE i \in SlotCells(slot)
  <2>1. i \in Cells /\ cells'.pos[i] = rot'[i] + cells'.shift[i] /\ unwritten'[i] = {}
    BY <1>1, <1>2, <1>4, <1>5
  <2> QED
    BY <2>1 DEF Row
<1>6. CASE i \notin SlotCells(slot)
  <2>1. Row(cells, i)
    BY <1>1, <1>3, <1>6 DEF Rotated
  <2>2. i \in Cells /\ rot'[i] = rot[i] /\ unwritten'[i] = unwritten[i]
    BY <1>1, <1>4, <1>6
  <2> QED
    BY <1>1, <2>1, <2>2 DEF Row
<1> QED
  BY <1>5, <1>6

\* The graph has failed: of its rows, those of tokens with one sequence are
\* gone.
LEMMA FailsRows ==
  ASSUME IInv, Rotated(cells), GraphInv, ComputeFails
  PROVE  Rotated(cells)'
<1> DEFINE u == Head(ubs)
           slot == Head(plan)
           from(s) == {u[k].pos : k \in {j \in DOMAIN u : s = Min(u[j].seqs)}}
           gone == [i \in Cells |-> {s \in cells.seq[i] :
                                       from(s) # {} /\ cells.pos[i] >= Min(from(s))}]
<1>1. phase = "compute" /\ cells' = Drop(cells, gone) /\ ForgetKeys
  BY DEF ComputeFails
<1>2. u \in Ubatch /\ slot \in [1 .. Len(u) -> Cells]
  BY <1>1, HeadOfPlan DEF IInv
<1>3. \A i \in SlotCells(slot) \cap cells.used :
           LET t == TokenOf(slot, u, i)
           IN  /\ cells.pos[i] = t.pos
               /\ cells.seq[i] \subseteq t.seqs /\ unwritten[i] = t.seqs
  BY <1>1 DEF GraphInv
<1>4. \A i \in cells.used : InGraph(i) => i \in SlotCells(slot)
  BY DEF InGraph
<1>5. \A k \in DOMAIN u : u[k] \in Token
  <2> HIDE DEF u
  <2> QED
    BY <1>2 DEF Ubatch
<1>6. \A s : from(s) \in SUBSET Nat
  <2> HIDE DEF u
  <2> QED
    BY <1>5 DEF Token
<1>7. \A k \in DOMAIN u : \A s : u[k].seqs = {s} => u[k].pos \in from(s)
  <2> SUFFICES ASSUME NEW k \in DOMAIN u, NEW s, u[k].seqs = {s}
               PROVE  u[k].pos \in from(s)
    OBVIOUS
  <2> HIDE DEF u
  <2>1. u[k].seqs \subseteq Seqs
    BY <1>5 DEF Token
  <2>2. s \in Nat
    BY <2>1, CellsAssumption
  <2>3. Min(u[k].seqs) = s
    BY <2>2, MinNat
  <2> QED
    BY <2>3
<1> SUFFICES ASSUME NEW i \in cells'.used
             PROVE  Row(cells, i)'
  BY DEF Rotated
<1> HIDE DEF gone
<1>8. /\ i \in cells.used /\ i \notin Emptied(cells, gone) /\ i \in Cells
      /\ Row(cells, i) => Row(cells, i)'
      /\ unwritten'[i] = unwritten[i]
  BY <1>1, DropRow DEF IInv, TypeOK, CellsType
<1>9. CASE i \notin SlotCells(slot)
  BY <1>4, <1>8, <1>9 DEF Rotated
<1>10. CASE i \in SlotCells(slot)
  <2> DEFINE t == TokenOf(slot, u, i)
  <2>1. t \in Token /\ \E k \in DOMAIN u : t = u[k]
    BY <1>2, <1>10, TokenTyped
  <2>2. cells.pos[i] = t.pos /\ cells.seq[i] \subseteq t.seqs /\ unwritten[i] = t.seqs
    BY <1>3, <1>8, <1>10
  <2> HIDE DEF t, u, slot
  <2>3. t.seqs # {}
    BY <2>1 DEF Token
  <2>4. ASSUME \A a, b \in t.seqs : a = b PROVE FALSE
    <3>1. PICK s : t.seqs = {s}
      BY <2>3, <2>4
    <3>2. t.pos \in from(s)
      BY <1>7, <2>1, <3>1
    <3> HIDE DEF from
    <3>3. t.pos >= Min(from(s)) /\ from(s) # {}
      BY <1>6, <3>2, MinNat
    <3>4. cells.seq[i] # {} /\ cells.seq[i] \subseteq {s}
      BY <1>8, <2>2, <3>1 DEF IInv, IndexesAgree, Agree
    <3>5. gone[i] = {s}
      BY <1>8, <2>2, <3>3, <3>4 DEF gone
    <3> QED
      BY <1>8, <3>4, <3>5 DEF Emptied
  <2> QED
    BY <1>8, <2>2, <2>3, <2>4 DEF Row
<1> QED
  BY <1>9, <1>10

LEMMA NextRows ==
  ASSUME IInv, TraceInv, RowsInv, [Next]_vars
  PROVE  RowsInv'
<1>1. CASE EditRm \/ EditRmAll \/ EditKeep \/ EditClear \/ EditCp \/ EditAdd \/ EditDiv
  <2>1. phase = "idle" /\ phase' = "idle"
    BY <1>1 DEF EditRm, EditRmAll, EditCp, EditKeep, EditClear, EditAdd, EditDiv, MayEdit
  <2>2. Rotated(cells)'
    BY <1>1, <2>1, EditRows, AddRows, DivRows DEF RowsInv, Planning
  <2> QED
    BY <2>1, <2>2 DEF RowsInv, Planning, GraphInv
<1>2. CASE Decode
  <2>1. ~Planning /\ Planning' /\ before'.cells = cells' /\ phase' = "plan"
    BY <1>2 DEF Decode, Planning
  <2>2. Rotated(cells)'
    BY <1>2, <2>1, DecodeRows DEF RowsInv
  <2> QED
    BY <2>1, <2>2 DEF RowsInv, GraphInv, Rotated, Row
<1>3. CASE PlanUbatch \/ PlanRestore
  <2>1. Planning /\ UNCHANGED <<rot, divided, unwritten>>
    BY <1>3 DEF PlanUbatch, PlanRestore, Planning
  <2>2. \A i \in before.cells.used : Row(before.cells, i)
    BY <2>1 DEF RowsInv, Rotated, InGraph, Planning
  <2>3. CASE phase' \in {"commit", "idle"}
    <3>1. cells' = before.cells
      BY <2>1, <2>3, PlanningEnds
    <3>2. \A i \in cells'.used : Row(cells, i)'
      BY <2>1, <2>2, <3>1 DEF Row
    <3> QED
      BY <2>3, <3>2 DEF RowsInv, Rotated, Planning, GraphInv
  <2>4. CASE phase' \notin {"commit", "idle"}
    <3>1. UNCHANGED before /\ Planning'
      BY <1>3, <2>1, <2>4 DEF PlanUbatch, PlanRestore, EndDecode, Planning
    <3>2. \A i \in before'.cells.used : Row(before.cells, i)'
      BY <2>1, <2>2, <3>1 DEF Row
    <3> QED
      BY <3>1, <3>2 DEF RowsInv, Rotated, Planning, GraphInv
  <2> QED
    BY <2>3, <2>4
<1>4. CASE Abandon
  <2>1. /\ phase = "commit" /\ phase' = "idle"
        /\ UNCHANGED <<cells, rot, divided, unwritten>>
    BY <1>4 DEF Abandon, EndDecode
  <2>2. \A i \in cells.used : Row(cells, i)
    BY <2>1 DEF RowsInv, Rotated, Planning, InGraph
  <2>3. \A i \in cells'.used : Row(cells, i)'
    BY <2>1, <2>2 DEF Row
  <2> QED
    BY <2>1, <2>3 DEF RowsInv, Rotated, Planning, GraphInv
<1>5. CASE Commit
  <2>1. ~Planning /\ ~Planning'
    BY <1>5 DEF Commit, Planning
  <2> QED
    BY <1>5, <2>1, CommitRows DEF RowsInv
<1>6. CASE Computed \/ ComputeFails
  <2>1. ~Planning /\ ~Planning' /\ phase' # "compute"
    BY <1>6 DEF Computed, ComputeFails, EndDecode, Planning
  <2>2. Rotated(cells)'
    BY <1>6, <2>1, ComputedRows, FailsRows DEF RowsInv
  <2> QED
    BY <2>1, <2>2 DEF RowsInv, GraphInv
<1>7. CASE UNCHANGED vars
  BY <1>7 DEF vars, RowsInv, Rotated, Row, InGraph, GraphInv, Planning
<1> QED
  BY <1>1, <1>2, <1>3, <1>4, <1>5, <1>6, <1>7 DEF Next

\* What the invariant says once no trial placements are on the cells.
LEMMA RowsSettled == IInv /\ RowsInv => RowsRotated
<1> SUFFICES ASSUME IInv, RowsInv, Settled, NEW i \in cells.used
             PROVE  IF unwritten[i] = {}
                    THEN i \in divided \/ cells.pos[i] = rot[i] + cells.shift[i]
                    ELSE InGraph(i) \/ \E s, t \in unwritten[i] : s # t
  BY DEF RowsRotated
<1>1. InGraph(i) \/ Row(cells, i)
  BY DEF RowsInv, Rotated, Planning, Settled
<1>2. ASSUME InGraph(i) PROVE unwritten[i] # {}
  <2>1. phase = "compute" /\ i \in SlotCells(Head(plan))
    BY <1>2 DEF InGraph
  <2>2. unwritten[i] = TokenOf(Head(plan), Head(ubs), i).seqs
    BY <2>1 DEF RowsInv, GraphInv
  <2>3. Head(ubs) \in Ubatch /\ Head(plan) \in [1 .. Len(Head(ubs)) -> Cells]
    BY <2>1, HeadOfPlan DEF IInv
  <2> QED
    BY <2>1, <2>2, <2>3, TokenTyped DEF Token
<1> QED
  BY <1>1, <1>2 DEF Row

\* Between decodes and around every graph, every row has its key, and the
\* rotation that waits for the key brings it to the position of the row.  The
\* exceptions: rows whose position seq_div changed, rows whose graph is being
\* computed, and rows of tokens with several sequences whose graph failed.
THEOREM KeysRotated ==
  ASSUME ShiftsSafe
  PROVE  Spec => []RowsRotated
<1>1. Init => RowsInv
  BY DEF Init, RowsInv, GraphInv, Rotated, Planning, EmptyCells
<1>2. IInv /\ TraceInv /\ [Next]_vars => TraceInv'
  BY NextTrace
<1>3. IInv /\ TraceInv /\ RowsInv /\ [Next]_vars => RowsInv'
  BY NextRows
<1>4. IInv /\ RowsInv => RowsRotated
  BY RowsSettled
<1> QED
  BY <1>1, <1>2, <1>3, <1>4, InitIInv, InitTrace, NextIInv, PTL DEF Spec

=============================================================================
