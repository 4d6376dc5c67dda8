--------------------------- MODULE KvDecode_proof ---------------------------
(***************************************************************************)
(* Proofs about the decode and the ownership index of KvCells, for every   *)
(* size of the cache, set of sequences, kind of cache and bound: the plan  *)
(* made on trial placements is put back and still holds when the ubatches  *)
(* are placed for good; a placement takes no row that a sequence still     *)
(* sees; a decode leaves no gap in a sequence; a plan is given up only for *)
(* want of cells; the views of the ownership index are exact.              *)
(***************************************************************************)
EXTENDS KvCells_proof, SeqLemmas

-----------------------------------------------------------------------------
(* Cells that differ in their shifts only                                  *)

Same(a, b) ==
    a.pos = b.pos /\ a.seq = b.seq /\ a.used = b.used /\ a.seq_pos = b.seq_pos

\* In cells that are in order the indexes follow.
LEMMA SameGood ==
  ASSUME NEW a, NEW b, Good(a), Good(b), a.pos = b.pos, a.seq = b.seq
  PROVE  Same(a, b)
<1>1. a.used = b.used
  BY DEF Good, Agree
<1>2. \A s \in Seqs : a.seq_pos[s] = b.seq_pos[s]
  <2> TAKE s \in Seqs
  <2>1. Members(a, s) = Members(b, s)
    BY DEF Members
  <2>2. Entries(a, Members(a, s)) = Entries(b, Members(a, s))
    BY DEF Entries
  <2> QED
    BY <2>1, <2>2 DEF Good, Agree
<1>3. a.seq_pos = b.seq_pos
  BY <1>2 DEF Good, CellsType
<1> QED
  BY <1>1, <1>3 DEF Same

\* The search reads no shift.
LEMMA SameReuse ==
  ASSUME NEW a, NEW b, Same(a, b)
  PROVE  \A i : CanReuse(a, i) <=> CanReuse(b, i)
<1>1. \A s : seq_pos_max(a, s) = seq_pos_max(b, s)
  BY DEF Same, seq_pos_max
<1> QED
  BY <1>1 DEF CanReuse, Same

\* Two caches that differ in shifts only offer the same slots.
LEMMA SameSlots ==
  ASSUME NEW a, NEW b, Same(a, b), NEW h, NEW n
  PROVE  FindSlot(a, h, n) = FindSlot(b, h, n)
<1>1. {i \in Cells : CanReuse(a, i)} = {i \in Cells : CanReuse(b, i)}
  BY SameReuse
<1>2. a.used = b.used /\ \A i : CanReuse(a, i) <=> CanReuse(b, i)
  BY SameReuse DEF Same
<1> QED
  BY <1>1, <1>2 DEF FindSlot

\* Nor does a placement.
LEMMA SameTouched ==
  ASSUME NEW a, NEW b, Same(a, b), NEW slot
  PROVE  /\ \A s : PosMaxRm(a, slot, s) = PosMaxRm(b, slot, s)
         /\ Touched(a, slot) = Touched(b, slot)
<1>1. \A s : Members(a, s) = Members(b, s)
  BY DEF Members, Same
<1>2. ASSUME NEW s PROVE PosMaxRm(a, slot, s) = PosMaxRm(b, slot, s)
  <2>1. {a.pos[i] : i \in SlotCells(slot) \cap Members(a, s)}
          = {b.pos[i] : i \in SlotCells(slot) \cap Members(b, s)}
    BY <1>1 DEF Same
  <2> QED
    BY <2>1, Zenon DEF PosMaxRm
<1> QED
  BY <1>2 DEF Touched, PosIn, Same

\* Sequences leave both alike.
LEMMA SameDrop ==
  ASSUME NEW a, NEW b, Same(a, b), NEW gone
  PROVE  Same(Drop(a, gone), Drop(b, gone))
<1>1. Emptied(a, gone) = Emptied(b, gone)
  BY DEF Emptied, Same
<1>2. \A I : Entries(a, I) = Entries(b, I)
  BY DEF Entries, Same
<1> QED
  BY <1>1, <1>2 DEF Drop, Same

\* Tokens enter both alike.
LEMMA SamePut ==
  ASSUME NEW a, NEW b, Same(a, b), NEW I, NEW p, NEW q
  PROVE  Same(Put(a, I, p, q), Put(b, I, p, q))
BY DEF Put, Same

\* An ubatch overwrites both alike.
LEMMA SamePlaced ==
  ASSUME NEW a, NEW b, Same(a, b), NEW slot, NEW u
  PROVE  Same(Placed(a, slot, u), Placed(b, slot, u))
<1> DEFINE I == SlotCells(slot)
           x == [i \in Cells |-> IF i \in I THEN a.seq[i] ELSE {}]
           y == [i \in Cells |-> IF i \in I THEN b.seq[i] ELSE {}]
<1>1. x = y
  BY DEF Same
<1>2. Same(Drop(a, x), Drop(b, x))
  BY SameDrop
<1> HIDE DEF x, y, I
<1>3. Same(Put(Drop(a, x), I, [i \in I |-> TokenOf(slot, u, i).pos],
                              [i \in I |-> TokenOf(slot, u, i).seqs]),
           Put(Drop(b, x), I, [i \in I |-> TokenOf(slot, u, i).pos],
                              [i \in I |-> TokenOf(slot, u, i).seqs]))
  BY <1>2, SamePut
<1> QED
  BY <1>1, <1>3 DEF Placed, x, y, I

\* And is placed, with its purge, on both alike.
LEMMA SameApply ==
  ASSUME NEW a, NEW b, Same(a, b), NEW slot, NEW u
  PROVE  Same(ApplyUbatch(a, slot, u), ApplyUbatch(b, slot, u))
<1> DEFINE x == Placed(a, slot, u)
           y == Placed(b, slot, u)
<1>1. Same(x, y)
  BY SamePlaced
<1> HIDE DEF x, y
<1>2. Purged(a, slot, x) = Purged(b, slot, y)
  BY <1>1, SameTouched DEF Purged, PosIn, Same
<1>3. Same(Drop(x, Purged(a, slot, x)), Drop(y, Purged(a, slot, x)))
  BY <1>1, SameDrop
<1> QED
  BY <1>2, <1>3 DEF ApplyUbatch, x, y

\* What plan_slots journals is enough to take an ubatch off again, up to the
\* shifts.
LEMMA UndoSame ==
  ASSUME NEW c, Good(c), NEW o, Good(o), NEW u \in Ubatch,
         NEW slot \in [1 .. Len(u) -> Cells],
         Same(c, ApplyUbatch(o, slot, u)),
         NEW T, T = Touched(o, slot), Good(Restored(c, T, o))
  PROVE  Same(Restored(c, T, o), o)
<1> DEFINE r == ApplyUbatch(o, slot, u)
           b == Restored(c, T, o)
<1>1. \A i \in Cells : i \notin T => r.pos[i] = o.pos[i] /\ r.seq[i] = o.seq[i]
  BY ApplyGood
<1>2. T \subseteq Cells
  BY ApplyGood
<1>3. c.pos = r.pos /\ c.seq = r.seq
  BY DEF Same
<1>4. /\ b.pos = [i \in Cells |-> IF i \in T THEN o.pos[i] ELSE c.pos[i]]
      /\ b.seq = [i \in Cells |-> IF i \in T THEN o.seq[i] ELSE c.seq[i]]
  BY DEF Restored
<1>5. Good(b)
  OBVIOUS
<1> HIDE DEF r, b
<1>6. b.pos = o.pos
  BY <1>1, <1>3, <1>4 DEF Good, CellsType
<1>7. b.seq = o.seq
  BY <1>1, <1>3, <1>4 DEF Good, CellsType
<1>8. Same(b, o)
  BY <1>5, <1>6, <1>7, SameGood
<1> QED
  BY <1>8 DEF b

-----------------------------------------------------------------------------
(* The search finds one slot                                               *)

\* A sequence of numbers in which each is below the next.
LEMMA Ascends ==
  ASSUME NEW n \in Nat, NEW f, \A k \in 1 .. n : f[k] \in Int,
         \A k \in 1 .. n - 1 : f[k] < f[k + 1]
  PROVE  \A j, k \in 1 .. n : j < k => f[j] < f[k]
<1> DEFINE T == {d \in Nat : \A j \in 1 .. n : j + d + 1 \in 1 .. n => f[j] < f[j + d + 1]}
<1>1. 0 \in T
  BY Z3
<1>2. ASSUME NEW d \in Nat, d \in T PROVE d + 1 \in T
  <2> SUFFICES ASSUME NEW j \in 1 .. n, j + (d + 1) + 1 \in 1 .. n
               PROVE  f[j] < f[j + (d + 1) + 1]
    OBVIOUS
  <2>1. j + d + 1 \in 1 .. n - 1 /\ j + d + 1 \in 1 .. n
    OBVIOUS
  <2>2. f[j] < f[j + d + 1]
    BY <1>2, <2>1
  <2>3. f[j + d + 1] < f[(j + d + 1) + 1]
    BY <2>1
  <2>4. (j + d + 1) + 1 = j + (d + 1) + 1
    OBVIOUS
  <2>5. f[j] \in Int /\ f[j + d + 1] \in Int /\ f[j + (d + 1) + 1] \in Int
    BY <2>1
  <2> QED
    BY <2>2, <2>3, <2>4, <2>5
<1>3. Nat \subseteq T
  <2> HIDE DEF T
  <2> QED
    BY <1>1, <1>2, NatSetInduction
<1> SUFFICES ASSUME NEW j \in 1 .. n, NEW k \in 1 .. n, j < k
             PROVE  f[j] < f[k]
  OBVIOUS
<1>4. k - j - 1 \in Nat /\ j + (k - j - 1) + 1 = k
  OBVIOUS
<1>5. k - j - 1 \in T
  BY <1>3, <1>4
<1> QED
  BY <1>4, <1>5

\* find_slot walks the cells in one order: it finds one slot, or none.
LEMMA OneSlot ==
  ASSUME NEW c, NEW h \in Int, NEW n \in Nat, n >= 1, c.used \subseteq Cells,
         NEW a \in FindSlot(c, h, n), NEW b \in FindSlot(c, h, n)
  PROVE  a = b
<1> DEFINE start == IF h > Cardinality(c.used) + 2 * n THEN 0 ELSE h
           far(i) == (i - start) % n_cells
           fa == [k \in 1 .. n |-> far(a[k])]
           fb == [k \in 1 .. n |-> far(b[k])]
<1>1. n_cells \in Nat /\ n_cells >= 1 /\ start \in Int
  BY CellsAssumption
<1>2. /\ a \in [1 .. n -> Cells] /\ b \in [1 .. n -> Cells]
      /\ \A k \in 1 .. n : CanReuse(c, a[k]) /\ CanReuse(c, b[k])
  BY SlotTyped
<1>3. /\ \A k \in 1 .. n - 1 : far(a[k]) < far(a[k + 1])
      /\ \A i \in Cells : CanReuse(c, i) /\ far(i) <= far(a[n]) =>
                           \E k \in 1 .. n : a[k] = i
      /\ \A k \in 1 .. n - 1 : far(b[k]) < far(b[k + 1])
      /\ \A i \in Cells : CanReuse(c, i) /\ far(i) <= far(b[n]) =>
                           \E k \in 1 .. n : b[k] = i
  BY DEF FindSlot
<1> HIDE DEF start
<1>4. \A i \in Cells : far(i) \in Int
  BY <1>1 DEF Cells
<1> HIDE DEF far
<1>5. \A k \in 1 .. n : fa[k] = far(a[k]) /\ fb[k] = far(b[k]) /\ fa[k] \in Int /\ fb[k] \in Int
  BY <1>2, <1>4
<1>6. \A k \in 1 .. n - 1 : k \in 1 .. n /\ k + 1 \in 1 .. n
  OBVIOUS
<1> HIDE DEF fa, fb
<1>7. \A k \in 1 .. n - 1 : fa[k] < fa[k + 1] /\ fb[k] < fb[k + 1]
  BY <1>3, <1>5, <1>6
<1>8. \A j, k \in 1 .. n : j < k => fa[j] < fa[k]
  BY <1>5, <1>7, Ascends
<1>9. \A j, k \in 1 .. n : j < k => fb[j] < fb[k]
  BY <1>5, <1>7, Ascends
<1> DEFINE T == {d \in Nat : \A k \in 1 .. n : k <= d => a[k] = b[k]}
<1>10. 0 \in T
  OBVIOUS
<1>11. ASSUME NEW d \in Nat, d \in T PROVE d + 1 \in T
  <2> SUFFICES ASSUME d + 1 \in 1 .. n PROVE a[d + 1] = b[d + 1]
    BY <1>11
  <2> DEFINE m == d + 1
  <2>1. m \in 1 .. n /\ n \in 1 .. n /\ \A k \in 1 .. n : k < m => a[k] = b[k]
    BY <1>11
  <2>2. fa[m] <= fa[n] /\ fb[m] <= fb[n]
    BY <1>5, <1>8, <1>9, <2>1
  <2> HIDE DEF m
  <2>3. ASSUME fa[m] <= fb[m] PROVE a[m] = b[m]
    <3>1. far(a[m]) <= far(b[n]) /\ CanReuse(c, a[m]) /\ a[m] \in Cells
      BY <1>2, <1>5, <2>1, <2>2, <2>3
    <3>2. PICK k \in 1 .. n : b[k] = a[m]
      BY <1>3, <3>1
    <3>3. fb[k] = fa[m]
      BY <1>5, <2>1, <3>2
    <3>4. ~(k < m)
      BY <1>5, <1>8, <2>1, <3>2, <3>3
    <3>5. ~(m < k)
      BY <1>5, <1>9, <2>1, <2>3, <3>3
    <3> QED
      BY <2>1, <3>2, <3>4, <3>5
  <2>4. ASSUME fb[m] <= fa[m] PROVE a[m] = b[m]
    <3>1. far(b[m]) <= far(a[n]) /\ CanReuse(c, b[m]) /\ b[m] \in Cells
      BY <1>2, <1>5, <2>1, <2>2, <2>4
    <3>2. PICK k \in 1 .. n : a[k] = b[m]
      BY <1>3, <3>1
    <3>3. fa[k] = fb[m]
      BY <1>5, <2>1, <3>2
    <3>4. ~(k < m)
      BY <1>5, <1>9, <2>1, <3>2, <3>3
    <3>5. ~(m < k)
      BY <1>5, <1>8, <2>1, <2>4, <3>3
    <3> QED
      BY <2>1, <3>2, <3>4, <3>5
  <2>5. a[m] = b[m]
    BY <1>5, <2>1, <2>3, <2>4
  <2> QED
    BY <2>5 DEF m
<1>12. Nat \subseteq T
  <2> HIDE DEF T
  <2> QED
    BY <1>10, <1>11, NatSetInduction
<1>13. \A k \in 1 .. n : a[k] = b[k]
  BY <1>12
<1> QED
  BY <1>2, <1>13

-----------------------------------------------------------------------------
(* The plan holds                                                          *)

\* The ubatches us get the slots ps, one after the other: C[k] are the cells
\* and H[k] the head before ubatch k is placed.
Chain(C, H, us, ps) ==
    \A k \in 1 .. Len(ps) :
       /\ FindSlot(C[k], H[k], Len(us[k])) = {ps[k]}
       /\ Same(C[k + 1], ApplyUbatch(C[k], ps[k], us[k]))
       /\ H[k + 1] = ps[k][Len(ps[k])] + 1

\* The cells and the head are those before ubatch k of a chain.
At(C, H, k) == Same(cells, C[k]) /\ head = H[k]

\* The journal is the beginning of the chain, up to where the cells are, and
\* the planning began where the chain does.
Journalled(C, H) ==
    /\ Len(journal) <= Len(plan)
    /\ \A k \in 1 .. Len(journal) : /\ Same(journal[k].cells, C[k])
                                    /\ journal[k].head = H[k]
                                    /\ journal[k].idxs = Touched(C[k], plan[k])
    /\ Same(before.cells, C[1]) /\ before.head = H[1]

\* The plan is a chain from where the planning began, and what is left of it
\* one from where the placing is.
PlanInv ==
    /\ Planning => \E C, H : /\ Chain(C, H, ubs, plan) /\ Journalled(C, H)
                             /\ At(C, H, Len(journal) + 1)
    /\ phase = "commit" => \E C, H : Chain(C, H, ubs, plan) /\ At(C, H, 1)
    /\ phase = "compute" => \E C, H : Chain(C, H, ubs, plan) /\ At(C, H, 2)

\* The search depends on the kind of the cache, which never changes.
LEMMA SlotsOfKind ==
  ASSUME kind' = kind
  PROVE  \A c, h, n : FindSlot(c, h, n)' = FindSlot(c, h, n)
<1>1. \A c, i : CanReuse(c, i)' <=> CanReuse(c, i)
  BY DEF CanReuse, Masked, n_swa
<1> QED
  BY <1>1 DEF FindSlot

\* A chain of the next ubatches and slots.
LEMMA ChainNext ==
  ASSUME kind' = kind, NEW C, NEW H, NEW us, NEW ps, Chain(C, H, us, ps),
         ubs' = us, plan' = ps
  PROVE  Chain(C, H, ubs, plan)'
<1>1. \A k \in 1 .. Len(ps) :
         FindSlot(C[k], H[k], Len(us[k]))' = FindSlot(C[k], H[k], Len(us[k]))
  BY SlotsOfKind
<1> QED
  BY <1>1 DEF Chain

\* A decode begins with an empty plan.
LEMMA DecodePlan == IInv /\ Decode => PlanInv'
<1> SUFFICES ASSUME IInv, Decode PROVE PlanInv'
  OBVIOUS
<1>1. journal' = <<>> /\ plan' = <<>> /\ phase' = "plan"
  BY DEF Decode, IInv, JournalInv, BatchInv
<1>2. before'.cells = cells' /\ before'.head = head'
  BY DEF Decode
<1>2a. PICK C, H : C = [k \in Nat |-> cells'] /\ H = [k \in Nat |-> head']
  OBVIOUS
<1>3. Len(journal') = 0 /\ Len(plan') = 0
  BY <1>1
<1>4. C[1] = cells' /\ H[1] = head'
  BY <1>2a
<1>5. Chain(C, H, ubs, plan)'
  BY <1>3 DEF Chain
<1>6. Journalled(C, H)'
  BY <1>2, <1>3, <1>4 DEF Journalled, Same
<1>7. At(C, H, Len(journal) + 1)'
  BY <1>3, <1>4 DEF At, Same
<1> QED
  BY <1>1, <1>5, <1>6, <1>7 DEF PlanInv

\* The next ubatch is tried: the chain grows by its slot.
LEMMA TryPlan ==
  ASSUME IInv, PlanInv, phase = "plan", Len(plan) < Len(ubs),
         NEW slot \in FindSlot(cells, head, Len(ubs[Len(plan) + 1])),
         TryUbatch(ubs[Len(plan) + 1], slot)
  PROVE  PlanInv'
<1> DEFINE n == Len(plan)
           u == ubs[n + 1]
           e == [idxs |-> Touched(cells, slot), cells |-> cells, head |-> head]
<1>1. Good(cells) /\ u \in Ubatch /\ n \in Nat /\ Len(journal) = n /\ head \in Int
  BY GoodIff DEF IInv, BatchInv, JournalInv, TypeOK
<1>2. slot \in [1 .. Len(u) -> Cells] /\ slot \in Seq(Cells)
  BY <1>1, SlotTyped, HeadAfterSlot
<1>3. e \in Entry
  <2>1. Touched(cells, slot) \subseteq Cells
    BY <1>1, <1>2, ApplyGood
  <2> QED
    BY <1>1, <2>1 DEF Entry, IInv, TypeOK, Good
<1>4. /\ Len(journal') = n + 1 /\ journal'[n + 1] = e
      /\ \A k \in 1 .. n : journal'[k] = journal[k]
  <2> HIDE DEF e
  <2> QED
    BY <1>1, <1>3, JournalPush DEF IInv, JournalInv, TryUbatch, e
<1>5. /\ Len(plan') = n + 1 /\ plan'[n + 1] = slot
      /\ \A k \in 1 .. n : plan'[k] = plan[k]
  BY <1>2, JournalPush DEF IInv, BatchInv, TryUbatch
<1>6. /\ cells' = ApplyUbatch(cells, slot, u) /\ head' = slot[Len(slot)] + 1
      /\ UNCHANGED <<phase, ubs, before>>
  BY DEF TryUbatch
<1>7. FindSlot(cells, head, Len(u)) = {slot}
  <2>1. Len(u) \in Nat /\ Len(u) >= 1
    BY <1>1 DEF Ubatch
  <2>2. cells.used \subseteq Cells
    BY <1>1 DEF Good, CellsType
  <2> QED
    BY <1>1, <2>1, <2>2, OneSlot
<1>8. PICK C, H : Chain(C, H, ubs, plan) /\ Journalled(C, H) /\ At(C, H, n + 1)
  BY <1>1 DEF PlanInv, Planning
<1>8a. PICK D, G : /\ D = [k \in Nat |-> IF k = n + 2 THEN cells' ELSE C[k]]
                   /\ G = [k \in Nat |-> IF k = n + 2 THEN head' ELSE H[k]]
  OBVIOUS
<1>9. /\ \A k \in 1 .. n + 1 : D[k] = C[k] /\ G[k] = H[k]
      /\ D[n + 2] = cells' /\ G[n + 2] = head'
  BY <1>1, <1>8a
<1>9a. UNCHANGED kind
  BY DEF TryUbatch
<1> HIDE DEF u, n
<1>10. Chain(D, G, ubs, plan')
  <2> SUFFICES ASSUME NEW k \in 1 .. n + 1
               PROVE  /\ FindSlot(D[k], G[k], Len(ubs[k])) = {plan'[k]}
                      /\ Same(D[k + 1], ApplyUbatch(D[k], plan'[k], ubs[k]))
                      /\ G[k + 1] = plan'[k][Len(plan'[k])] + 1
    BY <1>5 DEF Chain
  <2>1. CASE k \in 1 .. n
    <3>1. k + 1 \in 1 .. n + 1 /\ k \in 1 .. n + 1 /\ k \in 1 .. Len(plan)
      BY <1>1, <2>1 DEF n
    <3>2. D[k] = C[k] /\ G[k] = H[k] /\ D[k + 1] = C[k + 1] /\ G[k + 1] = H[k + 1]
      BY <1>9, <3>1
    <3>3. plan'[k] = plan[k]
      BY <1>5, <2>1
    <3> QED
      BY <1>8, <3>1, <3>2, <3>3 DEF Chain
  <2>2. CASE k = n + 1
    <3>1. D[k] = C[n + 1] /\ G[k] = H[n + 1] /\ D[k + 1] = cells' /\ G[k + 1] = head'
      <4>1. k + 1 = n + 2 /\ n + 1 \in 1 .. n + 1
        BY <1>1, <2>2
      <4> QED
        BY <1>9, <2>2, <4>1
    <3>2. plan'[k] = slot /\ ubs[k] = u
      BY <1>5, <2>2 DEF u, n
    <3>3. Same(cells, C[n + 1]) /\ head = H[n + 1]
      BY <1>8 DEF At
    <3>4. FindSlot(C[n + 1], H[n + 1], Len(u)) = {slot}
      BY <1>7, <3>3, SameSlots
    <3>5. Same(cells', ApplyUbatch(C[n + 1], slot, u))
      BY <1>6, <3>3, SameApply
    <3> QED
      BY <1>6, <3>1, <3>2, <3>4, <3>5
  <2> QED
    BY <1>1, <2>1, <2>2
<1>11. Journalled(D, G)'
  <2>1. Same(before'.cells, D[1]) /\ before'.head = G[1]
    BY <1>1, <1>6, <1>8, <1>9 DEF Journalled
  <2>2. ASSUME NEW k \in 1 .. n + 1
        PROVE  /\ Same(journal'[k].cells, D[k])
               /\ journal'[k].head = G[k]
               /\ journal'[k].idxs = Touched(D[k], plan'[k])
    <3>1. D[k] = C[k] /\ G[k] = H[k]
      BY <1>9
    <3>2. CASE k \in 1 .. n
      BY <1>1, <1>4, <1>5, <1>8, <3>1, <3>2 DEF Journalled
    <3>3. CASE k = n + 1
      <4>1. Same(cells, C[k]) /\ head = H[k]
        BY <1>8, <3>3 DEF At
      <4>2. Touched(cells, slot) = Touched(C[k], slot)
        BY <4>1, SameTouched
      <4> QED
        BY <1>4, <1>5, <3>1, <3>3, <4>1, <4>2
    <3> QED
      BY <1>1, <3>2, <3>3
  <2> QED
    BY <1>1, <1>4, <1>5, <2>1, <2>2 DEF Journalled
<1>12. At(D, G, Len(journal) + 1)'
  <2>1. Len(journal') + 1 = n + 2
    BY <1>1, <1>4
  <2> QED
    BY <1>9, <2>1 DEF At, Same
<1>13. phase' = "plan" /\ Chain(D, G, ubs, plan)'
  <2>1. PICK us, ps : us = ubs /\ ps = plan'
    OBVIOUS
  <2> QED
    BY <1>6, <1>9a, <1>10, <2>1, ChainNext
<1> QED
  BY <1>11, <1>12, <1>13 DEF PlanInv

\* A trial placement is taken off: the cells are those before it.
LEMMA RestorePlan ==
  ASSUME IInv, PlanInv, PlanRestore
  PROVE  /\ PlanInv'
         /\ phase' \in {"commit", "idle"} =>
              Same(cells', before.cells) /\ head' = before.head
<1> DEFINE n == Len(journal)
<1>1. Planning /\ IInv'
  BY NextIInv DEF PlanRestore, Planning, Next
<1>2. journal # <<>> /\ journal \in Seq(Entry)
  <2>1. CASE phase = "plan" /\ Len(plan) = Len(ubs)
    <3>1. ubs # <<>> /\ ubs \in Seq(Ubatch)
      BY <2>1 DEF IInv, BatchInv
    <3>2. Len(ubs) # 0
      BY <3>1
    <3> QED
      BY <2>1, <3>2 DEF IInv, JournalInv
  <2>2. CASE phase \in {"undo", "fail"}
    BY <2>2 DEF IInv, JournalInv
  <2> QED
    BY <2>1, <2>2 DEF PlanRestore
<1>3. n \in Nat /\ n >= 1
  BY <1>2
<1>4. PICK C, H : Chain(C, H, ubs, plan) /\ Journalled(C, H) /\ At(C, H, n + 1)
  BY <1>1 DEF PlanInv
<1>4a. UNCHANGED kind
  BY DEF PlanRestore
<1>4b. PICK us, ps : us = ubs /\ ps = plan
  OBVIOUS
<1> DEFINE j == journal[n]
           u == ubs[n]
           slot == plan[n]
<1>5. n \in 1 .. n /\ n \in 1 .. Len(plan)
  BY <1>3, <1>4 DEF Journalled, IInv, BatchInv
<1>6. u \in Ubatch /\ slot \in [1 .. Len(u) -> Cells] /\ Good(j.cells) /\ Good(cells)
  BY <1>5, GoodIff DEF IInv, BatchInv, JournalInv
<1>7. cells' = Restored(cells, j.idxs, j.cells) /\ head' = j.head
  BY DEF PlanRestore
<1>8. Good(cells)'
  BY <1>1 DEF IInv, TypeOK, IndexesAgree, Good
<1>9. /\ Same(j.cells, C[n]) /\ j.head = H[n] /\ j.idxs = Touched(C[n], slot)
      /\ Same(cells, C[n + 1]) /\ Same(C[n + 1], ApplyUbatch(C[n], slot, u))
      /\ Same(before.cells, C[1]) /\ before.head = H[1]
  BY <1>4, <1>5 DEF Journalled, Chain, At
<1>10. /\ journal' = SubSeq(journal, 1, n - 1) =>
             Len(journal') = n - 1 /\ \A k \in 1 .. n - 1 : journal'[k] = journal[k]
  BY <1>2, JournalPop
<1> HIDE DEF n, j, u, slot
<1>11. j.idxs = Touched(j.cells, slot)
  BY <1>9, SameTouched
<1>12. Same(cells, ApplyUbatch(j.cells, slot, u))
  <2>1. Same(ApplyUbatch(j.cells, slot, u), ApplyUbatch(C[n], slot, u))
    BY <1>9, SameApply
  <2> QED
    BY <1>9, <2>1 DEF Same
<1>13. Same(cells', j.cells)
  BY <1>6, <1>7, <1>8, <1>11, <1>12, UndoSame
<1>14. Same(cells', C[n]) /\ head' = H[n]
  BY <1>7, <1>9, <1>13 DEF Same
<1>15. CASE n # 1
  <2>1. /\ journal' = SubSeq(journal, 1, n - 1) /\ Planning' /\ phase' \notin {"commit", "idle"}
        /\ UNCHANGED <<ubs, plan, before>>
    BY <1>15 DEF PlanRestore, Planning, n
  <2>2. Len(journal') = n - 1 /\ \A k \in 1 .. n - 1 : journal'[k] = journal[k]
    BY <1>10, <2>1
  <2>3. Journalled(C, H)'
    <3>1. Len(journal') <= Len(plan')
      BY <1>3, <1>5, <2>1, <2>2
    <3>2. ASSUME NEW k \in 1 .. n - 1
          PROVE  /\ Same(journal'[k].cells, C[k]) /\ journal'[k].head = H[k]
                 /\ journal'[k].idxs = Touched(C[k], plan'[k])
      <4>1. k \in 1 .. Len(journal) /\ journal'[k] = journal[k]
        BY <1>3, <2>2 DEF n
      <4> QED
        BY <1>4, <2>1, <4>1 DEF Journalled
    <3> QED
      BY <1>9, <2>1, <2>2, <3>1, <3>2 DEF Journalled
  <2>4. At(C, H, Len(journal) + 1)'
    <3>1. Len(journal') + 1 = n
      BY <1>3, <2>2
    <3> QED
      BY <1>14, <3>1 DEF At
  <2>5. Chain(C, H, ubs, plan)'
    BY <1>4, <1>4a, <2>1, <1>4b, ChainNext
  <2> QED
    BY <2>1, <2>3, <2>4, <2>5 DEF PlanInv, Planning
<1>16. CASE n = 1
  <2>1. Same(cells', C[1]) /\ head' = H[1]
    BY <1>14, <1>16
  <2>2. Same(cells', before.cells) /\ head' = before.head
    BY <1>9, <2>1 DEF Same
  <2>3. CASE phase = "fail"
    <3>1. phase' = "idle"
      BY <1>16, <2>3 DEF PlanRestore, EndDecode, n
    <3> QED
      BY <2>2, <3>1 DEF PlanInv, Planning
  <2>4. CASE phase # "fail"
    <3>1. phase' = "commit" /\ UNCHANGED <<ubs, plan>>
      BY <1>16, <2>4 DEF PlanRestore, n
    <3>2. Chain(C, H, ubs, plan)' /\ At(C, H, 1)'
      BY <1>4, <1>4a, <1>4b, <2>1, <3>1, ChainNext DEF At
    <3> QED
      BY <2>2, <3>1, <3>2 DEF PlanInv, Planning
  <2> QED
    BY <2>3, <2>4
<1> QED
  BY <1>15, <1>16

\* An ubatch is placed for good: the cells are those after its step.
LEMMA CommitPlan ==
  ASSUME IInv, PlanInv, Commit
  PROVE  PlanInv'
<1>1. PICK C, H : Chain(C, H, ubs, plan) /\ At(C, H, 1)
  BY DEF PlanInv, Commit
<1>2. /\ cells' = ApplyUbatch(cells, Head(plan), Head(ubs))
      /\ head' = Head(plan)[Len(Head(plan))] + 1
      /\ phase' = "compute" /\ UNCHANGED <<kind, ubs, plan>>
  BY DEF Commit
<1>3. /\ ubs \in Seq(Ubatch) /\ ubs # <<>> /\ plan \in Seq(Seq(Cells))
      /\ Len(plan) = Len(ubs)
  BY DEF Commit, IInv, BatchInv
<1>4. Len(ubs) \in Nat /\ Len(ubs) >= 1 /\ plan # <<>>
  BY <1>3
<1>5. Head(ubs) = ubs[1] /\ Head(plan) = plan[1] /\ 1 \in 1 .. Len(plan)
  BY <1>3, <1>4
<1>6. Same(C[2], ApplyUbatch(C[1], plan[1], ubs[1])) /\ H[2] = plan[1][Len(plan[1])] + 1
  BY <1>1, <1>5 DEF Chain
<1>7. Same(cells', ApplyUbatch(C[1], plan[1], ubs[1]))
  BY <1>1, <1>2, <1>5, SameApply DEF At
<1>8. At(C, H, 2)'
  BY <1>2, <1>5, <1>6, <1>7 DEF At, Same
<1>9. Chain(C, H, ubs, plan)'
  <2>1. PICK us, ps : us = ubs /\ ps = plan
    OBVIOUS
  <2> QED
    BY <1>1, <1>2, <2>1, ChainNext
<1> QED
  BY <1>2, <1>8, <1>9 DEF PlanInv, Planning

\* Its graph is computed: the rest of the plan is a chain from here.
LEMMA ComputedPlan ==
  ASSUME IInv, PlanInv, Computed
  PROVE  PlanInv'
<1>1. PICK C, H : Chain(C, H, ubs, plan) /\ At(C, H, 2)
  BY DEF PlanInv, Computed
<1>2. /\ ubs \in Seq(Ubatch) /\ ubs # <<>> /\ plan \in Seq(Seq(Cells))
      /\ Len(plan) = Len(ubs)
  BY DEF Computed, IInv, BatchInv
<1>3. Len(plan) \in Nat /\ Len(plan) >= 1 /\ plan # <<>>
  BY <1>2
<1>4. CASE Len(ubs) = 1
  BY <1>4 DEF Computed, EndDecode, PlanInv, Planning
<1>5. CASE Len(ubs) # 1
  <2>1. /\ phase' = "commit" /\ ubs' = Tail(ubs) /\ plan' = Tail(plan)
        /\ UNCHANGED <<cells, head, kind>>
    BY <1>5 DEF Computed
  <2>2. Len(plan') = Len(plan) - 1 /\ \A k \in 1 .. Len(plan) - 1 : plan'[k] = plan[k + 1]
    BY <1>2, <1>3, <2>1, HeadTailProperties
  <2>3. \A k \in 1 .. Len(plan) - 1 : ubs'[k] = ubs[k + 1]
    BY <1>2, <1>3, <2>1, HeadTailProperties
  <2>4. PICK D, G : D = [k \in Nat |-> C[k + 1]] /\ G = [k \in Nat |-> H[k + 1]]
    OBVIOUS
  <2>5. \A k \in Nat : D[k] = C[k + 1] /\ G[k] = H[k + 1]
    BY <2>4
  <2>6. PICK us, ps : us = ubs' /\ ps = plan'
    OBVIOUS
  <2>7. Chain(D, G, us, ps)
    <3> SUFFICES ASSUME NEW k \in 1 .. Len(plan) - 1
                 PROVE  /\ FindSlot(D[k], G[k], Len(us[k])) = {ps[k]}
                        /\ Same(D[k + 1], ApplyUbatch(D[k], ps[k], us[k]))
                        /\ G[k + 1] = ps[k][Len(ps[k])] + 1
      BY <2>2, <2>6 DEF Chain
    <3>1. k \in Nat /\ k + 1 \in Nat /\ k + 1 \in 1 .. Len(plan)
      BY <1>3
    <3>2. /\ D[k] = C[k + 1] /\ G[k] = H[k + 1]
          /\ D[k + 1] = C[k + 1 + 1] /\ G[k + 1] = H[k + 1 + 1]
      BY <2>5, <3>1
    <3>3. us[k] = ubs[k + 1] /\ ps[k] = plan[k + 1]
      BY <2>2, <2>3, <2>6
    <3> QED
      BY <1>1, <3>1, <3>2, <3>3 DEF Chain
  <2>8. Chain(D, G, ubs, plan)'
    BY <2>1, <2>6, <2>7, ChainNext
  <2>9. D[1] = C[2] /\ G[1] = H[2]
    <3>1. 1 \in Nat /\ 1 + 1 = 2
      OBVIOUS
    <3> QED
      BY <2>5, <3>1
  <2>10. At(D, G, 1)'
    BY <1>1, <2>1, <2>9 DEF At
  <2> QED
    BY <2>1, <2>8, <2>10 DEF PlanInv, Planning
<1> QED
  BY <1>4, <1>5

\* The search finds no slot: the plan is given up.
LEMMA NoSlotPlan ==
  ASSUME PlanInv, Planning,
         UNCHANGED <<cells, head, kind, ubs, plan, journal, before>>,
         phase' = "fail"
  PROVE  PlanInv'
<1>1. PICK C, H : /\ Chain(C, H, ubs, plan) /\ Journalled(C, H)
                  /\ At(C, H, Len(journal) + 1)
  BY DEF PlanInv
<1>2. PICK us, ps : us = ubs /\ ps = plan
  OBVIOUS
<1>3. Chain(C, H, ubs, plan)'
  BY <1>1, <1>2, ChainNext
<1>4. Journalled(C, H)'
  BY <1>1 DEF Journalled
<1>5. At(C, H, Len(journal) + 1)'
  BY <1>1 DEF At
<1> QED
  BY <1>3, <1>4, <1>5 DEF PlanInv

\* A stutter keeps the plan.
LEMMA SamePlan ==
  ASSUME PlanInv, UNCHANGED vars
  PROVE  PlanInv'
<1>1. UNCHANGED <<cells, head, kind, phase, ubs, plan, journal, before>>
  BY DEF vars
<1>2. PICK us, ps : us = ubs /\ ps = plan
  OBVIOUS
<1>3. \A C, H : Chain(C, H, ubs, plan) => Chain(C, H, ubs, plan)'
  BY <1>1, <1>2, ChainNext
<1>4. \A C, H : Journalled(C, H) => Journalled(C, H)'
  BY <1>1 DEF Journalled
<1>5. \A C, H : At(C, H, Len(journal) + 1) => At(C, H, Len(journal) + 1)'
  BY <1>1 DEF At
<1>6. \A C, H : (At(C, H, 1) => At(C, H, 1)') /\ (At(C, H, 2) => At(C, H, 2)')
  BY <1>1 DEF At
<1>7. CASE Planning
  <2>1. Planning' /\ phase' \notin {"commit", "compute"}
    BY <1>1, <1>7 DEF Planning
  <2> QED
    BY <1>3, <1>4, <1>5, <1>7, <2>1 DEF PlanInv
<1>8. CASE ~Planning
  BY <1>1, <1>3, <1>6, <1>8 DEF PlanInv, Planning
<1> QED
  BY <1>7, <1>8

\* Every step keeps the plan.
LEMMA NextPlan == IInv /\ PlanInv /\ [Next]_vars => PlanInv'
<1> SUFFICES ASSUME IInv, PlanInv, [Next]_vars PROVE PlanInv'
  OBVIOUS
<1>1. CASE phase' = "idle"
  BY <1>1 DEF PlanInv, Planning
<1>2. ASSUME \/ EditRm \/ EditRmAll \/ EditCp \/ EditKeep \/ EditClear
             \/ EditAdd \/ EditDiv \/ Abandon \/ ComputeFails
      PROVE  phase' = "idle"
  BY <1>2 DEF EditRm, EditRmAll, EditCp, EditKeep, EditClear, EditAdd,
              EditDiv, MayEdit, Abandon, ComputeFails, EndDecode
<1>3. CASE Decode
  BY <1>3, DecodePlan
<1>4. CASE PlanUbatch
  <2>1. CASE \E slot \in FindSlot(cells, head, Len(ubs[Len(plan) + 1])) :
               TryUbatch(ubs[Len(plan) + 1], slot)
    BY <1>4, <2>1, TryPlan DEF PlanUbatch
  <2>2. CASE EndDecode
    BY <1>1, <2>2 DEF EndDecode
  <2>3. CASE phase' = "fail" /\ UNCHANGED <<cells, head, ubs, plan, journal, before>>
    BY <1>4, <2>3, NoSlotPlan DEF PlanUbatch, Planning
  <2> QED
    BY <1>4, <2>1, <2>2, <2>3 DEF PlanUbatch, TryUbatch
<1>5. CASE PlanRestore
  BY <1>5, RestorePlan
<1>6. CASE Commit
  BY <1>6, CommitPlan
<1>7. CASE Computed
  BY <1>7, ComputedPlan
<1>8. CASE UNCHANGED vars
  BY <1>8, SamePlan
<1> QED
  BY <1>1, <1>2, <1>3, <1>4, <1>5, <1>6, <1>7, <1>8 DEF Next

\* However planning ends, the cells are those it began with.
LEMMA PlanEnds ==
  ASSUME IInv, PlanInv, PlanUbatch \/ PlanRestore, phase' \in {"commit", "idle"}
  PROVE  Same(before.cells, cells') /\ head' = before.head
<1>1. CASE PlanRestore
  BY <1>1, RestorePlan DEF Same
<1>2. CASE PlanUbatch
  <2>1. journal = <<>> /\ UNCHANGED <<cells, head>> /\ phase = "plan"
    BY <1>2 DEF PlanUbatch
  <2>2. PICK C, H : Journalled(C, H) /\ At(C, H, Len(journal) + 1)
    BY <2>1 DEF PlanInv, Planning
  <2>3. /\ Same(before.cells, C[1]) /\ Same(cells, C[1])
        /\ before.head = H[1] /\ head = H[1]
    BY <2>1, <2>2 DEF Journalled, At
  <2> QED
    BY <2>1, <2>3 DEF Same
<1> QED
  BY <1>1, <1>2

\* The next ubatch gets the slot that the plan has for it.
LEMMA PlanNext == IInv /\ PlanInv => PlanHolds
<1> SUFFICES ASSUME IInv, PlanInv, phase = "commit"
             PROVE  FindSlot(cells, head, Len(Head(ubs))) = {Head(plan)}
  BY DEF PlanHolds
<1>1. PICK C, H : Chain(C, H, ubs, plan) /\ At(C, H, 1)
  BY DEF PlanInv
<1>2. /\ ubs \in Seq(Ubatch) /\ ubs # <<>> /\ plan \in Seq(Seq(Cells))
      /\ Len(plan) = Len(ubs)
  BY DEF IInv, BatchInv
<1>3. Len(ubs) \in Nat /\ Len(ubs) >= 1 /\ plan # <<>>
  BY <1>2
<1>4. Head(ubs) = ubs[1] /\ Head(plan) = plan[1] /\ 1 \in 1 .. Len(plan)
  BY <1>2, <1>3
<1>5. FindSlot(C[1], H[1], Len(ubs[1])) = {plan[1]}
  BY <1>1, <1>4 DEF Chain
<1>6. Same(cells, C[1]) /\ head = H[1]
  BY <1>1 DEF At
<1>7. FindSlot(cells, head, Len(ubs[1])) = FindSlot(C[1], H[1], Len(ubs[1]))
  BY <1>6, SameSlots
<1> QED
  BY <1>4, <1>5, <1>7

\* There is no plan at first.
LEMMA InitPlan == Init => PlanInv
  BY DEF Init, PlanInv, Planning

\* The slots of plan_slots, found on trial placements that were taken off
\* again, are those that find_slot would return when each ubatch is placed for
\* good, after the graphs of the ubatches before it.
THEOREM PlanStillHolds == Spec => []PlanHolds
<1>1. IInv /\ PlanInv /\ [Next]_vars => PlanInv'
  BY NextPlan
<1>2. IInv /\ PlanInv => PlanHolds
  BY PlanNext
<1> QED
  BY <1>1, <1>2, InitIInv, InitPlan, NextIInv, PTL DEF Spec

\* What plan_slots puts back is what it found, in every kind of cache: the
\* positions, sequences, indexes and the head.  (Only the rotations that wait
\* are not journalled: PlanLeavesNoTrace.)
THEOREM PlanUndone ==
  Spec => [][(phase \in {"plan", "undo", "fail"}) /\ phase' \in {"commit", "idle"}
               => Same(cells', before.cells) /\ head' = before.head]_vars
<1>1. IInv /\ PlanInv /\ [Next]_vars => PlanInv'
  BY NextPlan
<1>2. ASSUME IInv, PlanInv, [Next]_vars,
             phase \in {"plan", "undo", "fail"}, phase' \in {"commit", "idle"}
      PROVE  Same(cells', before.cells) /\ head' = before.head
  <2>1. PlanUbatch \/ PlanRestore
    BY <1>2 DEF Next, vars, EditRm, EditRmAll, EditCp, EditKeep, EditClear, EditAdd,
                EditDiv, MayEdit, Decode, Abandon, Commit, Computed, ComputeFails
  <2> QED
    BY <1>2, <2>1, PlanEnds DEF Same
<1> QED
  BY <1>1, <1>2, InitIInv, InitPlan, NextIInv, PTL DEF Spec

-----------------------------------------------------------------------------
(* The positions of a sequence                                             *)

\* Among some of the cells one holds the largest value.
LEMMA TopCell ==
  ASSUME NEW f \in [Cells -> Int], NEW J \in SUBSET Cells, J # {}
  PROVE  \E j \in J : \A i \in J : f[i] <= f[j]
<1> DEFINE T == {n \in Nat : \A K \in SUBSET Cells :
                   K # {} /\ (\A i \in K : i < n) =>
                     \E j \in K : \A i \in K : f[i] <= f[j]}
<1>1. Cells \subseteq Nat
  BY CellsAssumption DEF Cells
<1>2. 0 \in T
  <2>1. ASSUME NEW K \in SUBSET Cells, K # {}, \A i \in K : i < 0
        PROVE  FALSE
    <3>1. PICK i \in K : i < 0
      BY <2>1
    <3> QED
      BY <1>1, <3>1
  <2> QED
    BY <2>1
<1>3. ASSUME NEW n \in Nat, n \in T PROVE n + 1 \in T
  <2> SUFFICES ASSUME NEW K \in SUBSET Cells, K # {}, \A i \in K : i < n + 1
               PROVE  \E j \in K : \A i \in K : f[i] <= f[j]
    OBVIOUS
  <2>1. \A i \in K \ {n} : i < n
    BY <1>1
  <2>2. CASE n \notin K
    <3>1. \A i \in K : i < n
      BY <2>1, <2>2
    <3> QED
      BY <1>3, <3>1
  <2>3. CASE K = {n}
    BY <2>3
  <2>4. CASE n \in K /\ K # {n}
    <3>1. PICK j \in K \ {n} : \A i \in K \ {n} : f[i] <= f[j]
      BY <1>3, <2>1, <2>4
    <3>2. f[n] \in Int /\ f[j] \in Int /\ \A i \in K : f[i] \in Int
      BY <2>4
    <3>3. CASE f[n] <= f[j]
      BY <3>1, <3>3
    <3>4. CASE f[j] <= f[n]
      <4>1. \A i \in K : f[i] <= f[n]
        BY <3>1, <3>2, <3>4
      <4> QED
        BY <2>4, <4>1
    <3> QED
      BY <3>2, <3>3, <3>4
  <2> QED
    BY <2>2, <2>3, <2>4
<1>4. Nat \subseteq T
  <2> HIDE DEF T
  <2> QED
    BY <1>2, <1>3, NatSetInduction
<1>5. n_cells \in T
  <2> HIDE DEF T
  <2> QED
    BY <1>4, CellsAssumption
<1>6. \A i \in J : i < n_cells
  BY CellsAssumption DEF Cells
<1> QED
  BY <1>5, <1>6

\* And one the smallest.
LEMMA BottomCell ==
  ASSUME NEW f \in [Cells -> Int], NEW J \in SUBSET Cells, J # {}
  PROVE  \E j \in J : \A i \in J : f[j] <= f[i]
<1> DEFINE g == [i \in Cells |-> -f[i]]
<1>1. g \in [Cells -> Int] /\ \A i \in Cells : g[i] = -f[i] /\ f[i] \in Int
  OBVIOUS
<1> HIDE DEF g
<1>2. PICK j \in J : \A i \in J : g[i] <= g[j]
  BY <1>1, TopCell
<1>3. \A i \in J : f[j] <= f[i]
  BY <1>1, <1>2
<1> QED
  BY <1>3

\* A largest member is the maximum.
LEMMA MaxIs ==
  ASSUME NEW S \in SUBSET Int, NEW x \in S, \A y \in S : y <= x
  PROVE  Max(S) = x
<1>1. x \in S /\ \A y \in S : x >= y
  OBVIOUS
<1>2. \A z \in S : (\A y \in S : z >= y) => z = x
  OBVIOUS
<1> QED
  BY <1>1, <1>2 DEF Max

\* A smallest member is the minimum.
LEMMA MinIs ==
  ASSUME NEW S \in SUBSET Int, NEW x \in S, \A y \in S : x <= y
  PROVE  Min(S) = x
<1>1. x \in S /\ \A y \in S : x =< y
  OBVIOUS
<1>2. \A z \in S : (\A y \in S : z =< y) => z = x
  OBVIOUS
<1> QED
  BY <1>1, <1>2 DEF Min

\* The positions that sequence s has.
Positions(c, s) == {c.pos[i] : i \in Members(c, s)}

\* The index of a sequence begins and ends with its first and last position.
LEMMA SeqBounds ==
  ASSUME NEW c, Good(c), NEW s \in Seqs
  PROVE  /\ {e[1] : e \in c.seq_pos[s]} = Positions(c, s)
         /\ c.seq_pos[s] = {} <=> Positions(c, s) = {}
         /\ Positions(c, s) \subseteq Nat
         /\ seq_pos_max(c, s) \in Int /\ seq_pos_min(c, s) \in Int
         /\ Positions(c, s) = {} => seq_pos_max(c, s) = -1 /\ seq_pos_min(c, s) = -1
         /\ Positions(c, s) # {} =>
              /\ seq_pos_max(c, s) \in Positions(c, s)
              /\ seq_pos_min(c, s) \in Positions(c, s)
         /\ \A p \in Positions(c, s) : seq_pos_min(c, s) <= p /\ p <= seq_pos_max(c, s)
<1> DEFINE M == Members(c, s)
           P == Positions(c, s)
<1>1. c.seq_pos[s] = {<<c.pos[i], i>> : i \in M}
  BY DEF Good, Agree, Entries
<1>2. M \subseteq Cells /\ c.pos \in [Cells -> Int]
  BY DEF Members, Good, CellsType
<1>3. \A i \in M : c.pos[i] \in Nat
  BY <1>2 DEF Members, Good, Agree
<1> HIDE DEF M
<1>4. P = {c.pos[i] : i \in M}
  BY DEF Positions, M
<1> HIDE DEF P
<1>5. {e[1] : e \in c.seq_pos[s]} = P
  <2>1. \A e \in c.seq_pos[s] : e[1] \in P
    BY <1>1, <1>4
  <2>2. ASSUME NEW p \in P PROVE \E e \in c.seq_pos[s] : e[1] = p
    <3>1. PICK i \in M : p = c.pos[i]
      BY <1>4
    <3>2. <<c.pos[i], i>> \in c.seq_pos[s] /\ <<c.pos[i], i>>[1] = p
      BY <1>1, <3>1
    <3> QED
      BY <3>2
  <2> QED
    BY <2>1, <2>2
<1>6. c.seq_pos[s] = {} <=> P = {}
  BY <1>1, <1>4
<1>7. P \subseteq Nat
  BY <1>3, <1>4
<1>8. CASE P = {}
  BY <1>5, <1>6, <1>7, <1>8 DEF seq_pos_max, seq_pos_min, P
<1>9. CASE P # {}
  <2>1. M # {}
    BY <1>4, <1>9
  <2>2. PICK j \in M : \A i \in M : c.pos[i] <= c.pos[j]
    BY <1>2, <2>1, TopCell
  <2>3. PICK k \in M : \A i \in M : c.pos[k] <= c.pos[i]
    BY <1>2, <2>1, BottomCell
  <2>4. c.pos[j] \in P /\ \A p \in P : p <= c.pos[j]
    BY <1>4, <2>2
  <2>5. c.pos[k] \in P /\ \A p \in P : c.pos[k] <= p
    BY <1>4, <2>3
  <2>6. P \in SUBSET Int
    BY <1>7
  <2>7. Max(P) = c.pos[j] /\ Min(P) = c.pos[k]
    BY <2>4, <2>5, <2>6, MaxIs, MinIs
  <2>8. seq_pos_max(c, s) = c.pos[j] /\ seq_pos_min(c, s) = c.pos[k]
    BY <1>5, <1>6, <1>9, <2>7 DEF seq_pos_max, seq_pos_min
  <2> QED
    BY <1>5, <1>6, <1>7, <1>9, <2>4, <2>5, <2>6, <2>8 DEF P
<1> QED
  BY <1>8, <1>9

\* The largest position of a sequence that a slot overwrites.
LEMMA LostBound ==
  ASSUME NEW c, Good(c), NEW slot, SlotCells(slot) \subseteq Cells, NEW s
  PROVE  /\ PosMaxRm(c, slot, s) \in Int /\ PosMaxRm(c, slot, s) >= -1
         /\ \A i \in SlotCells(slot) \cap Members(c, s) :
               c.pos[i] <= PosMaxRm(c, slot, s)
         /\ PosMaxRm(c, slot, s) # -1 =>
               \E i \in SlotCells(slot) \cap Members(c, s) :
                  PosMaxRm(c, slot, s) = c.pos[i]
<1> DEFINE J == SlotCells(slot) \cap Members(c, s)
           L == {c.pos[i] : i \in J}
<1>1. J \subseteq Cells /\ c.pos \in [Cells -> Int] /\ \A i \in J : c.pos[i] \in Nat
  BY DEF Members, Good, CellsType, Agree
<1>2. PosMaxRm(c, slot, s) = IF L = {} THEN -1 ELSE Max(L)
  BY DEF PosMaxRm
<1> HIDE DEF J
<1>3. CASE J = {}
  BY <1>2, <1>3 DEF J
<1>4. CASE J # {}
  <2>1. PICK j \in J : \A i \in J : c.pos[i] <= c.pos[j]
    BY <1>1, <1>4, TopCell
  <2>2. L # {} /\ L \in SUBSET Int /\ c.pos[j] \in L /\ \A p \in L : p <= c.pos[j]
    BY <1>1, <1>4, <2>1
  <2> HIDE DEF L
  <2>3. Max(L) = c.pos[j]
    BY <2>2, MaxIs
  <2>4. PosMaxRm(c, slot, s) = c.pos[j] /\ c.pos[j] \in Nat
    BY <1>1, <1>2, <2>2, <2>3
  <2> QED
    BY <2>1, <2>4 DEF J
<1> QED
  BY <1>3, <1>4

-----------------------------------------------------------------------------
(* What placing an ubatch takes and leaves                                 *)

\* The cells of a slot take the tokens in order.
LEMMA TokensPlaced ==
  ASSUME NEW c, Good(c), NEW u \in Ubatch, NEW slot \in [1 .. Len(u) -> Cells],
         \A j, k \in 1 .. Len(u) : slot[j] = slot[k] => j = k,
         NEW k \in 1 .. Len(u)
  PROVE  /\ Placed(c, slot, u).pos[slot[k]] = u[k].pos
         /\ Placed(c, slot, u).seq[slot[k]] = u[k].seqs
<1> DEFINE i == slot[k]
           I == SlotCells(slot)
           q == [j \in I |-> TokenOf(slot, u, j).seqs]
           r == Placed(c, slot, u)
<1>1. i \in I /\ i \in Cells
  BY DEF SlotCells
<1>2. TokenOf(slot, u, i) = u[k]
  <2>1. \A j \in DOMAIN slot : slot[j] = i <=> j = k
    OBVIOUS
  <2>2. (CHOOSE j \in DOMAIN slot : slot[j] = i) = k
    BY <2>1
  <2> QED
    BY <2>2 DEF TokenOf
<1>3. r.pos[i] = TokenOf(slot, u, i).pos
  BY <1>1, PlacedGood
<1>4. r.seq = [j \in Cells |-> IF j \in I THEN q[j]
                 ELSE Drop(c, [h \in Cells |-> IF h \in I THEN c.seq[h] ELSE {}]).seq[j]]
  BY DEF Placed, Put
<1>5. q[i] = TokenOf(slot, u, i).seqs
  BY <1>1
<1> HIDE DEF q, r, I, i
<1>6. r.seq[i] = q[i]
  BY <1>1, <1>4
<1> QED
  BY <1>2, <1>3, <1>5, <1>6 DEF r, i

\* apply_ubatch in one view: the other cells lose the sequences whose rows up
\* to there were overwritten.
LEMMA ApplyKeeps ==
  ASSUME NEW c, Good(c), NEW u \in Ubatch, NEW slot \in [1 .. Len(u) -> Cells],
         NEW i \in Cells \ SlotCells(slot), NEW s \in Seqs
  PROVE  LET r == ApplyUbatch(c, slot, u) IN
         /\ s \in r.seq[i] <=> s \in c.seq[i] /\ ~(c.pos[i] <= PosMaxRm(c, slot, s))
         /\ s \in r.seq[i] => r.pos[i] = c.pos[i]
<1> DEFINE t == Placed(c, slot, u)
           gone == Purged(c, slot, t)
           m == PosMaxRm(c, slot, s)
<1>1. /\ SlotCells(slot) \subseteq Cells
      /\ t.pos[i] = c.pos[i] /\ t.seq[i] = c.seq[i]
  BY PlacedGood
<1>2. ApplyUbatch(c, slot, u) = Drop(t, gone)
  BY DEF ApplyUbatch
<1>3. s \in gone[i] <=> s \in t.seq[i] /\ PosIn(t, i, 0, m + 1)
  BY DEF Purged
<1> HIDE DEF t, gone
<1>4. /\ Drop(t, gone).seq[i] = t.seq[i] \ gone[i]
      /\ Drop(t, gone).pos[i] = IF i \in Emptied(t, gone) THEN -1 ELSE t.pos[i]
  BY DEF Drop
<1>5. s \in t.seq[i] \ gone[i] => i \notin Emptied(t, gone)
  BY DEF Emptied
<1>6. m \in Int /\ c.pos[i] \in Int
  BY <1>1, LostBound DEF Good, CellsType
<1>7. s \in c.seq[i] => c.pos[i] >= 0
  BY <1>6 DEF Good, Agree
<1> HIDE DEF m
<1>8. s \in c.seq[i] => (PosIn(t, i, 0, m + 1) <=> c.pos[i] <= m)
  BY <1>1, <1>6, <1>7 DEF PosIn
<1> QED
  BY <1>1, <1>2, <1>3, <1>4, <1>5, <1>8 DEF m

\* And the cells of the slot have the tokens, those of a sequence that are
\* younger than what it lost.
LEMMA ApplyTakes ==
  ASSUME NEW c, Good(c), NEW u \in Ubatch, NEW slot \in [1 .. Len(u) -> Cells],
         \A j, k \in 1 .. Len(u) : slot[j] = slot[k] => j = k,
         NEW k \in 1 .. Len(u), NEW s \in Seqs
  PROVE  LET r == ApplyUbatch(c, slot, u) IN
         /\ s \in r.seq[slot[k]] <=> s \in u[k].seqs /\ ~(u[k].pos <= PosMaxRm(c, slot, s))
         /\ s \in r.seq[slot[k]] => r.pos[slot[k]] = u[k].pos
<1> DEFINE t == Placed(c, slot, u)
           gone == Purged(c, slot, t)
           m == PosMaxRm(c, slot, s)
           i == slot[k]
<1>1. i \in Cells /\ t.pos[i] = u[k].pos /\ t.seq[i] = u[k].seqs
  BY TokensPlaced
<1>2. ApplyUbatch(c, slot, u) = Drop(t, gone)
  BY DEF ApplyUbatch
<1>3. s \in gone[i] <=> s \in t.seq[i] /\ PosIn(t, i, 0, m + 1)
  BY <1>1 DEF Purged
<1>4. u[k].pos \in Nat
  <2>1. u \in Seq(Token)
    BY DEF Ubatch
  <2>2. u[k] \in Token
    BY <2>1
  <2> QED
    BY <2>2 DEF Token
<1>5. m \in Int
  <2>1. SlotCells(slot) \subseteq Cells
    BY DEF SlotCells
  <2> QED
    BY <2>1, LostBound
<1> HIDE DEF t, gone, i
<1>6. /\ Drop(t, gone).seq[i] = t.seq[i] \ gone[i]
      /\ Drop(t, gone).pos[i] = IF i \in Emptied(t, gone) THEN -1 ELSE t.pos[i]
  BY <1>1 DEF Drop
<1>7. s \in t.seq[i] \ gone[i] => i \notin Emptied(t, gone)
  BY DEF Emptied
<1> HIDE DEF m
<1>8. PosIn(t, i, 0, m + 1) <=> u[k].pos <= m
  BY <1>1, <1>4, <1>5 DEF PosIn
<1> QED
  BY <1>1, <1>2, <1>3, <1>6, <1>7, <1>8 DEF m, i

\* A slot of cells that can be reused takes no row that its sequence still
\* sees, and neither does the purge up to it.
LEMMA SlotSpares ==
  ASSUME NEW c, Good(c), NEW slot, SlotCells(slot) \subseteq Cells,
         \A i \in SlotCells(slot) : CanReuse(c, i), n_swa \in Nat,
         NEW s \in Seqs, NEW i \in Members(c, s),
         i \in SlotCells(slot) \/ c.pos[i] <= PosMaxRm(c, slot, s)
  PROVE  Masked(c.pos[i], seq_pos_max(c, s) + 1)
<1> DEFINE m == PosMaxRm(c, slot, s)
           x == seq_pos_max(c, s)
<1>1. c.pos \in [Cells -> Int] /\ \A j \in Members(c, s) : j \in Cells /\ c.pos[j] # -1
  BY DEF Members, Good, CellsType, Agree
<1>2. \A j \in SlotCells(slot) \cap Members(c, s) : Masked(c.pos[j], x + 1)
  BY <1>1 DEF CanReuse, Members
<1>3. CASE i \in SlotCells(slot)
  BY <1>2, <1>3
<1>4. CASE c.pos[i] <= m
  <2>1. m # -1
    BY <1>1, <1>4 DEF Good
  <2>2. PICK j \in SlotCells(slot) \cap Members(c, s) : m = c.pos[j]
    BY <2>1, LostBound
  <2>3. Masked(c.pos[j], x + 1)
    BY <1>2
  <2>4. x \in Int /\ c.pos[i] \in Int /\ c.pos[j] \in Int /\ n_swa \in Int
    <3>1. x \in Int
      BY SeqBounds
    <3>2. c.pos[i] \in Int /\ c.pos[j] \in Int
      BY <1>1
    <3> QED
      BY <3>1, <3>2
  <2> HIDE DEF m, x
  <2> QED
    BY <1>4, <2>2, <2>3, <2>4 DEF Masked, x
<1> QED
  BY <1>3, <1>4 DEF m

-----------------------------------------------------------------------------
(* A decode spares the window                                              *)

\* What is known of the ubatch that Commit places.
LEMMA CommitFacts ==
  ASSUME IInv, PlanHolds, phase = "commit"
  PROVE  /\ Head(ubs) \in Ubatch /\ Len(Head(ubs)) \in Nat /\ Len(Head(ubs)) >= 1
         /\ Head(plan) \in [1 .. Len(Head(ubs)) -> Cells]
         /\ SlotCells(Head(plan)) \subseteq Cells
         /\ \A i \in SlotCells(Head(plan)) : CanReuse(cells, i)
         /\ \A j, k \in 1 .. Len(Head(ubs)) :
               Head(plan)[j] = Head(plan)[k] => j = k
         /\ n_swa \in Nat
<1> DEFINE u == Head(ubs)
           slot == Head(plan)
           n == Len(u)
<1>1. /\ ubs \in Seq(Ubatch) /\ ubs # <<>> /\ plan \in Seq(Seq(Cells))
      /\ Len(plan) = Len(ubs)
  BY DEF IInv, BatchInv
<1>2. u \in Ubatch
  BY <1>1
<1>3. n \in Nat /\ n >= 1
  BY <1>2 DEF Ubatch
<1>4. slot \in FindSlot(cells, head, n)
  BY DEF PlanHolds
<1>5. slot \in [1 .. n -> Cells] /\ \A k \in 1 .. n : CanReuse(cells, slot[k])
  BY <1>4, SlotTyped
<1>6. SlotCells(slot) \subseteq Cells /\ \A i \in SlotCells(slot) : CanReuse(cells, i)
  BY <1>5 DEF SlotCells
<1>7. n_swa \in Nat
  BY CellsAssumption DEF IInv, TypeOK, n_swa
<1>8. \A j, k \in 1 .. n : slot[j] = slot[k] => j = k
  <2> DEFINE start == IF head > Cardinality(cells.used) + 2 * n THEN 0 ELSE head
             far(i) == (i - start) % n_cells
             f == [k \in 1 .. n |-> far(slot[k])]
  <2>1. \A k \in 1 .. n - 1 : far(slot[k]) < far(slot[k + 1])
    BY <1>4 DEF FindSlot
  <2>2. start \in Int /\ n_cells \in Nat /\ n_cells >= 1
    BY CellsAssumption DEF IInv, TypeOK
  <2> HIDE DEF start, n, slot
  <2>3. \A i \in Cells : far(i) \in Int
    BY <2>2 DEF Cells
  <2> HIDE DEF far
  <2>4. \A k \in 1 .. n : f[k] = far(slot[k]) /\ f[k] \in Int
    BY <1>5, <2>3
  <2>5. \A k \in 1 .. n - 1 : k \in 1 .. n /\ k + 1 \in 1 .. n
    BY <1>3
  <2> HIDE DEF f
  <2>6. \A k \in 1 .. n - 1 : f[k] < f[k + 1]
    BY <2>1, <2>4, <2>5
  <2>7. \A j, k \in 1 .. n : j < k => f[j] < f[k]
    BY <1>3, <2>4, <2>6, Ascends
  <2> TAKE j, k \in 1 .. n
  <2> HAVE slot[j] = slot[k]
  <2>8. f[j] = f[k] /\ f[j] \in Int
    BY <2>4
  <2>9. ~(j < k) /\ ~(k < j)
    BY <2>7, <2>8
  <2> QED
    BY <1>3, <2>9
<1> QED
  BY <1>2, <1>3, <1>5, <1>6, <1>7, <1>8

\* The entries that a Commit takes are of rows that nobody sees any more.
LEMMA CommitSpares ==
  ASSUME IInv, PlanHolds, Commit, NEW s \in Seqs,
         NEW e \in cells.seq_pos[s] \ cells'.seq_pos[s]
  PROVE  Masked(e[1], seq_pos_max(cells, s) + 1)
<1> DEFINE u == Head(ubs)
           slot == Head(plan)
           m == PosMaxRm(cells, slot, s)
<1>1. /\ u \in Ubatch /\ slot \in [1 .. Len(u) -> Cells]
      /\ SlotCells(slot) \subseteq Cells
      /\ \A i \in SlotCells(slot) : CanReuse(cells, i)
      /\ n_swa \in Nat
  BY CommitFacts DEF Commit
<1>2. Good(cells) /\ Good(cells)'
  <2>1. IInv'
    BY NextIInv DEF Next
  <2> QED
    BY <2>1, GoodIff DEF IInv, TypeOK, IndexesAgree, Good
<1>3. cells' = ApplyUbatch(cells, slot, u)
  BY DEF Commit
<1> HIDE DEF u, slot
<1>4. PICK i \in Members(cells, s) : e = <<cells.pos[i], i>>
  BY <1>2 DEF Good, Agree, Entries
<1>5. i \in Cells /\ s \in cells.seq[i]
  BY <1>4 DEF Members
<1>6. CASE i \in SlotCells(slot)
  <2>1. Masked(cells.pos[i], seq_pos_max(cells, s) + 1)
    BY <1>1, <1>2, <1>4, <1>6, SlotSpares
  <2> QED
    BY <1>4, <2>1
<1>7. CASE i \notin SlotCells(slot)
  <2>1. cells.pos[i] <= m
    <3> SUFFICES ASSUME ~(cells.pos[i] <= m) PROVE FALSE
      OBVIOUS
    <3>1. s \in cells'.seq[i] /\ cells'.pos[i] = cells.pos[i]
      BY <1>1, <1>2, <1>3, <1>5, <1>7, ApplyKeeps
    <3>2. e \in Entries(cells', Members(cells', s))
      BY <1>4, <1>5, <3>1 DEF Entries, Members
    <3>3. e \in cells'.seq_pos[s]
      BY <1>2, <3>2 DEF Good, Agree
    <3> QED
      BY <3>3
  <2>2. Masked(cells.pos[i], seq_pos_max(cells, s) + 1)
    BY <1>1, <1>2, <1>4, <2>1, SlotSpares
  <2> QED
    BY <1>4, <2>2
<1> QED
  BY <1>6, <1>7

\* Placing an ubatch takes from a sequence, by overwriting or by the purge,
\* only rows that the window hides from its next token.
THEOREM WindowSpared == Spec => DecodeSparesWindow
<1>1. IInv /\ PlanInv /\ [Next]_vars => PlanInv'
  BY NextPlan
<1>2. IInv /\ PlanInv =>
        (Commit => \A s \in Seqs : \A e \in cells.seq_pos[s] \ cells'.seq_pos[s] :
                      Masked(e[1], seq_pos_max(cells, s) + 1))
  BY PlanNext, CommitSpares
<1> QED
  BY <1>1, <1>2, InitIInv, InitPlan, NextIInv, PTL DEF Spec, DecodeSparesWindow

-----------------------------------------------------------------------------
(* The tokens of a sequence follow each other                              *)

\* The tokens of sequence s among the first k of a batch.
CountUp(b, s, k) == Cardinality({j \in 1 .. k : s \in b[j]})

\* The positions p of its tokens from a + 1 to e.
Taken(p, b, s, a, e) == {p[j] : j \in {i \in a + 1 .. e : s \in b[i]}}

\* They count up from base with the tokens of the sequence.
Counted(p, b, s, base, n) ==
    \A j \in 1 .. n : s \in b[j] => p[j] = base + CountUp(b, s, j - 1)

\* A count of tokens grows by one at each of its tokens.
LEMMA CountSteps ==
  ASSUME NEW b, NEW s, NEW k \in Nat
  PROVE  /\ CountUp(b, s, 0) = 0
         /\ CountUp(b, s, k) \in Nat
         /\ CountUp(b, s, k + 1) = CountUp(b, s, k) + (IF s \in b[k + 1] THEN 1 ELSE 0)
<1> DEFINE S(m) == {j \in 1 .. m : s \in b[j]}
<1>0. \A m : CountUp(b, s, m) = Cardinality(S(m))
  BY DEF CountUp
<1>1. S(0) = {}
  OBVIOUS
<1>2. IsFiniteSet(S(k)) /\ Cardinality(S(k)) \in Nat
  <2>1. IsFiniteSet(1 .. k)
    BY FS_Interval
  <2>2. S(k) \in SUBSET (1 .. k)
    OBVIOUS
  <2> HIDE DEF S
  <2>3. IsFiniteSet(S(k))
    BY <2>1, <2>2, FS_Subset
  <2> QED
    BY <2>3, FS_CardinalityType
<1>3. CASE s \in b[k + 1]
  <2>1. S(k + 1) = S(k) \cup {k + 1} /\ k + 1 \notin S(k)
    BY <1>3
  <2> HIDE DEF S
  <2>2. Cardinality(S(k + 1)) = Cardinality(S(k)) + 1
    BY <1>2, <2>1, FS_AddElement
  <2> QED
    BY <1>0, <1>1, <1>2, <1>3, <2>2, FS_EmptySet
<1>4. CASE s \notin b[k + 1]
  <2>1. S(k + 1) = S(k)
    BY <1>4
  <2> HIDE DEF S
  <2> QED
    BY <1>0, <1>1, <1>2, <1>4, <2>1, FS_EmptySet
<1> QED
  BY <1>3, <1>4

\* Tokens whose positions count the tokens of their sequence before them: from
\* one token to another they have the positions in between, each of them.
LEMMA RunOfTokens ==
  ASSUME NEW b, NEW s, NEW p, NEW base \in Nat, NEW n \in Nat,
         Counted(p, b, s, base, n), NEW a \in 0 .. n, NEW e \in a .. n
  PROVE  /\ CountUp(b, s, a) <= CountUp(b, s, e)
         /\ Taken(p, b, s, a, e)
              = base + CountUp(b, s, a) .. base + CountUp(b, s, e) - 1
<1> DEFINE N(k) == CountUp(b, s, k)
           Ps(k) == {p[j] : j \in {i \in a + 1 .. k : s \in b[i]}}
           T == {d \in Nat : a + d <= n =>
                   N(a) <= N(a + d) /\ Ps(a + d) = base + N(a) .. base + N(a + d) - 1}
<1>1. \A k \in Nat : N(k) \in Nat /\ N(k + 1) = N(k) + (IF s \in b[k + 1] THEN 1 ELSE 0)
  BY CountSteps
<1> HIDE DEF N
<1>2. 0 \in T
  <2>1. a + 0 = a /\ Ps(a) = {} /\ N(a) \in Nat
    BY <1>1
  <2>2. base + N(a) .. base + N(a) - 1 = {}
    BY <2>1
  <2> HIDE DEF Ps
  <2>3. N(a) <= N(a) /\ Ps(a) = base + N(a) .. base + N(a) - 1
    BY <2>1, <2>2
  <2>4. N(a) <= N(a + 0) /\ Ps(a + 0) = base + N(a) .. base + N(a + 0) - 1
    BY <2>1, <2>3
  <2> QED
    BY <2>4
<1>3. ASSUME NEW d \in Nat, d \in T PROVE d + 1 \in T
  <2> SUFFICES ASSUME a + (d + 1) <= n
               PROVE  /\ N(a) <= N(a + (d + 1))
                      /\ Ps(a + (d + 1)) = base + N(a) .. base + N(a + (d + 1)) - 1
    OBVIOUS
  <2> DEFINE k == a + d
  <2>1. k \in Nat /\ k + 1 = a + (d + 1) /\ k + 1 \in 1 .. n /\ k + 1 >= a + 1
    OBVIOUS
  <2>2. N(a) <= N(k) /\ Ps(k) = base + N(a) .. base + N(k) - 1
    BY <1>3, <2>1
  <2> HIDE DEF k, T
  <2>3. N(a) \in Nat /\ N(k) \in Nat
    BY <1>1, <2>1
  <2>4. CASE s \in b[k + 1]
    <3>1. N(k + 1) = N(k) + 1
      BY <1>1, <2>1, <2>4
    <3>2. p[k + 1] = base + N(k)
      <4>1. (k + 1) - 1 = k
        BY <2>1
      <4> QED
        BY <2>1, <2>4, <4>1 DEF N, Counted
    <3>3. Ps(k + 1) = Ps(k) \cup {p[k + 1]}
      <4>1. {i \in a + 1 .. k + 1 : s \in b[i]} = {i \in a + 1 .. k : s \in b[i]} \cup {k + 1}
        BY <2>1, <2>4
      <4> QED
        BY <4>1
    <3>4. (base + N(a) .. base + N(k) - 1) \cup {base + N(k)}
             = base + N(a) .. base + (N(k) + 1) - 1
      BY <2>2, <2>3
    <3> HIDE DEF Ps
    <3>5. Ps(k + 1) = (base + N(a) .. base + N(k) - 1) \cup {base + N(k)}
      BY <2>2, <3>2, <3>3
    <3>6. Ps(k + 1) = base + N(a) .. base + N(k + 1) - 1
      BY <3>1, <3>4, <3>5
    <3>7. N(a) <= N(k + 1)
      BY <2>2, <2>3, <3>1
    <3> QED
      BY <2>1, <3>6, <3>7
  <2>5. CASE s \notin b[k + 1]
    <3>1. N(k + 1) = N(k)
      BY <1>1, <2>1, <2>3, <2>5
    <3>2. Ps(k + 1) = Ps(k)
      <4>1. {i \in a + 1 .. k + 1 : s \in b[i]} = {i \in a + 1 .. k : s \in b[i]}
        BY <2>1, <2>5
      <4> QED
        BY <4>1
    <3> HIDE DEF Ps
    <3> QED
      BY <2>1, <2>2, <3>1, <3>2
  <2> QED
    BY <2>4, <2>5
<1>4. Nat \subseteq T
  <2> HIDE DEF T
  <2> QED
    BY <1>2, <1>3, NatSetInduction
<1>5. e - a \in Nat /\ a + (e - a) = e /\ e <= n
  OBVIOUS
<1>6. e - a \in T
  BY <1>4, <1>5
<1> HIDE DEF Ps
<1>7. N(a) <= N(e) /\ Ps(e) = base + N(a) .. base + N(e) - 1
  BY <1>5, <1>6
<1> QED
  BY <1>7 DEF N, Ps, Taken

\* The positions that an ubatch brings to sequence s.
TokenPositions(u, s) == {u[k].pos : k \in {j \in 1 .. Len(u) : s \in u[j].seqs}}

\* One ubatch after the other goes on where the last ended: F[k][s] is the next
\* position of sequence s before ubatch k.
Runs(F, us) ==
    \A k \in 1 .. Len(us) : \A s \in Seqs :
       /\ F[k][s] \in Nat /\ F[k + 1][s] \in Nat /\ F[k][s] <= F[k + 1][s]
       /\ TokenPositions(us[k], s) = F[k][s] .. F[k + 1][s] - 1

\* The part of a batch from one token to another.
LEMMA PartPositions ==
  ASSUME NEW tokens \in Ubatch, NEW a \in 0 .. Len(tokens),
         NEW e \in a .. Len(tokens), NEW s
  PROVE  TokenPositions(SubSeq(tokens, a + 1, e), s)
           = {tokens[j].pos : j \in {i \in a + 1 .. e : s \in tokens[i].seqs}}
<1> DEFINE r == SubSeq(tokens, a + 1, e)
<1>1. Len(tokens) \in Nat /\ tokens \in Seq(Token)
  BY DEF Ubatch
<1>2. \A i \in a + 1 .. e : tokens[i] \in Token
  BY <1>1
<1>3. Len(r) = e - a /\ \A j \in 1 .. e - a : r[j] = tokens[a + j]
  BY <1>1, <1>2, SubSeqProperties
<1> HIDE DEF r
<1>4. ASSUME NEW j \in 1 .. Len(r), s \in r[j].seqs
      PROVE  \E i \in a + 1 .. e : s \in tokens[i].seqs /\ tokens[i].pos = r[j].pos
  <2>1. a + j \in a + 1 .. e /\ r[j] = tokens[a + j]
    BY <1>1, <1>3
  <2> QED
    BY <1>4, <2>1
<1>5. ASSUME NEW i \in a + 1 .. e, s \in tokens[i].seqs
      PROVE  \E j \in 1 .. Len(r) : s \in r[j].seqs /\ tokens[i].pos = r[j].pos
  <2>1. i - a \in 1 .. Len(r) /\ i - a \in 1 .. e - a /\ a + (i - a) = i
    BY <1>1, <1>3
  <2>2. r[i - a] = tokens[i]
    BY <1>3, <2>1
  <2> QED
    BY <1>5, <2>1, <2>2
<1> DEFINE X == {tokens[j].pos : j \in {i \in a + 1 .. e : s \in tokens[i].seqs}}
<1>6. ASSUME NEW x \in TokenPositions(r, s) PROVE x \in X
  <2>1. PICK j \in 1 .. Len(r) : s \in r[j].seqs /\ x = r[j].pos
    BY DEF TokenPositions
  <2>2. PICK i \in a + 1 .. e : s \in tokens[i].seqs /\ tokens[i].pos = r[j].pos
    BY <1>4, <2>1
  <2> QED
    BY <2>1, <2>2
<1>7. ASSUME NEW x \in X PROVE x \in TokenPositions(r, s)
  <2>1. PICK i \in a + 1 .. e : s \in tokens[i].seqs /\ x = tokens[i].pos
    OBVIOUS
  <2>2. PICK j \in 1 .. Len(r) : s \in r[j].seqs /\ tokens[i].pos = r[j].pos
    BY <1>5, <2>1
  <2> QED
    BY <2>1, <2>2 DEF TokenPositions
<1> HIDE DEF X
<1>8. TokenPositions(r, s) = X
  BY <1>6, <1>7
<1> QED
  BY <1>8 DEF r, X

\* split_simple keeps the order of the tokens.
LEMMA SplitRuns ==
  ASSUME NEW tokens \in Ubatch, NEW b, NEW base \in [Seqs -> Nat],
         \A j \in 1 .. Len(tokens) : tokens[j].seqs = b[j],
         \A s \in Seqs : \A j \in 1 .. Len(tokens) :
            s \in b[j] => tokens[j].pos = base[s] + CountUp(b, s, j - 1)
  PROVE  \E F : Runs(F, Split(tokens)) /\ F[1] = base
<1> DEFINE n == Len(tokens)
           m == (n + n_ubatch - 1) \div n_ubatch
           cut(k) == IF (k - 1) * n_ubatch < n THEN (k - 1) * n_ubatch ELSE n
<1>1. n \in Nat /\ n >= 1 /\ n_ubatch \in Nat /\ n_ubatch >= 1
  BY CellsAssumption DEF Ubatch
<1>2. m \in Nat /\ m >= 1 /\ m * n_ubatch <= n + n_ubatch - 1
  <2> HIDE DEF n
  <2> QED
    BY <1>1, Z3
<1>3. Split(tokens) = [k \in 1 .. m |->
         SubSeq(tokens, (k - 1) * n_ubatch + 1,
                IF k * n_ubatch < n THEN k * n_ubatch ELSE n)]
  BY DEF Split
<1> HIDE DEF m
<1>4. ASSUME NEW k \in 1 .. m
      PROVE  /\ cut(k) \in 0 .. n /\ cut(k + 1) \in cut(k) .. n
             /\ (k - 1) * n_ubatch = cut(k)
             /\ (IF k * n_ubatch < n THEN k * n_ubatch ELSE n) = cut(k + 1)
  <2> HIDE DEF n
  <2>1. k * n_ubatch <= m * n_ubatch /\ (k - 1) * n_ubatch = k * n_ubatch - n_ubatch
    BY <1>1, <1>2
  <2>2. k * n_ubatch \in Int /\ (k - 1) * n_ubatch \in Nat
    BY <1>1, <1>2
  <2>3. (k - 1) * n_ubatch < n
    BY <1>1, <1>2, <2>1, <2>2
  <2>4. (k + 1) - 1 = k
    BY <1>2
  <2>5. cut(k) = (k - 1) * n_ubatch
    BY <2>3
  <2>6. cut(k + 1) = IF k * n_ubatch < n THEN k * n_ubatch ELSE n
    BY <2>4
  <2> HIDE DEF cut
  <2>7. cut(k) \in 0 .. n
    BY <1>1, <2>2, <2>3, <2>5
  <2>8. cut(k + 1) \in cut(k) .. n
    BY <1>1, <2>1, <2>2, <2>3, <2>5, <2>6
  <2> QED
    BY <2>5, <2>6, <2>7, <2>8
<1>5. cut(1) = 0
  <2> HIDE DEF n
  <2>1. (1 - 1) * n_ubatch = 0
    BY <1>1
  <2> QED
    BY <1>1, <2>1
<1> HIDE DEF cut
<1> DEFINE us == Split(tokens)
<1>6. /\ Len(us) = m
      /\ \A k \in 1 .. m : us[k] = SubSeq(tokens, cut(k) + 1, cut(k + 1))
  <2>1. Len(us) = m
    BY <1>2, <1>3
  <2> HIDE DEF n
  <2> QED
    BY <1>3, <1>4, <2>1
<1> HIDE DEF us
<1> DEFINE F == [k \in Nat |-> [s \in Seqs |-> base[s] + CountUp(b, s, cut(k))]]
<1>7. \A k \in Nat : \A s \in Seqs : F[k][s] = base[s] + CountUp(b, s, cut(k))
  OBVIOUS
<1>8. F[1] = base
  <2>1. \A s \in Seqs : CountUp(b, s, 0) = 0
    BY CountSteps, 0 \in Nat, Zenon
  <2>2. \A s \in Seqs : base[s] + CountUp(b, s, cut(1)) = base[s]
    BY <1>5, <2>1
  <2>3. 1 \in Nat
    OBVIOUS
  <2>4. F[1] = [s \in Seqs |-> base[s] + CountUp(b, s, cut(1))]
    BY <2>3
  <2> HIDE DEF F
  <2> QED
    BY <2>2, <2>4
<1> HIDE DEF F
<1>9. ASSUME NEW k \in 1 .. m, NEW s \in Seqs
      PROVE  /\ F[k][s] \in Nat /\ F[k + 1][s] \in Nat /\ F[k][s] <= F[k + 1][s]
             /\ TokenPositions(us[k], s) = F[k][s] .. F[k + 1][s] - 1
  <2> DEFINE a == cut(k)
             e == cut(k + 1)
             p == [j \in 1 .. n |-> tokens[j].pos]
  <2>1. a \in 0 .. n /\ e \in a .. n /\ a \in Nat /\ e \in Nat
    <3> HIDE DEF n
    <3> QED
      BY <1>1, <1>4
  <2>2. k \in Nat /\ k + 1 \in Nat
    BY <1>2
  <2>3. F[k][s] = base[s] + CountUp(b, s, a) /\ F[k + 1][s] = base[s] + CountUp(b, s, e)
    BY <1>7, <2>2
  <2>4. us[k] = SubSeq(tokens, a + 1, e)
    BY <1>6
  <2> HIDE DEF a, e
  <2>5. TokenPositions(us[k], s)
          = {tokens[j].pos : j \in {i \in a + 1 .. e : s \in tokens[i].seqs}}
    BY <2>1, <2>4, PartPositions
  <2>6. \A i \in a + 1 .. e : i \in 1 .. n /\ tokens[i].seqs = b[i] /\ p[i] = tokens[i].pos
    <3>1. \A i \in a + 1 .. e : i \in 1 .. n
      BY <1>1, <2>1
    <3> QED
      BY <3>1
  <2>7. \A j \in 1 .. n : s \in b[j] => p[j] = base[s] + CountUp(b, s, j - 1)
    OBVIOUS
  <2> HIDE DEF p, n
  <2>8. {tokens[j].pos : j \in {i \in a + 1 .. e : s \in tokens[i].seqs}}
          = Taken(p, b, s, a, e)
    BY <2>6 DEF Taken
  <2>9. PICK c \in Nat : c = base[s]
    OBVIOUS
  <2> DEFINE N(i) == CountUp(b, s, i)
             X == Taken(p, b, s, a, e)
  <2>10. N(a) <= N(e) /\ X = c + N(a) .. c + N(e) - 1
    <3>1. Counted(p, b, s, c, n)
      BY <2>7, <2>9 DEF Counted
    <3> QED
      BY <1>1, <2>1, <3>1, RunOfTokens
  <2>11. N(a) \in Nat /\ N(e) \in Nat
    BY <2>1, CountSteps
  <2> HIDE DEF N, X
  <2>12. F[k][s] = c + N(a) /\ F[k + 1][s] = c + N(e)
    BY <2>3, <2>9 DEF N
  <2>13. F[k][s] \in Nat /\ F[k + 1][s] \in Nat /\ F[k][s] <= F[k + 1][s]
    BY <2>10, <2>11, <2>12
  <2>14. TokenPositions(us[k], s) = X
    BY <2>5, <2>8 DEF X
  <2>15. TokenPositions(us[k], s) = F[k][s] .. F[k + 1][s] - 1
    BY <2>9, <2>10, <2>11, <2>12, <2>14
  <2> QED
    BY <2>13, <2>15
<1>10. Runs(F, us)
  BY <1>6, <1>9 DEF Runs
<1> QED
  BY <1>8, <1>10 DEF us

\* The sequences that have cells go on at the positions f.
Follows(f, c) ==
    \A s \in Seqs : Positions(c, s) = {} \/ f[s] = seq_pos_max(c, s) + 1

\* What is left of the batch goes on where the cells end: those that the
\* planning will put back, those there are, those with the ubatch placed.
OrderInv ==
    /\ Planning => \E F : Runs(F, ubs) /\ Follows(F[1], before.cells)
    /\ phase = "commit" => \E F : Runs(F, ubs) /\ Follows(F[1], cells)
    /\ phase = "compute" => \E F : Runs(F, ubs) /\ Follows(F[2], cells)

\* Only the cells and their positions count.
LEMMA SamePositions ==
  ASSUME NEW a, NEW b, Same(a, b), NEW f, Follows(f, a)
  PROVE  Follows(f, b)
<1>1. \A s : Members(a, s) = Members(b, s)
  BY DEF Members, Same
<1>2. ASSUME NEW s
      PROVE  Positions(a, s) = Positions(b, s)
  <2>1. a.pos = b.pos /\ Members(a, s) = Members(b, s)
    BY <1>1 DEF Same
  <2> QED
    BY <2>1, Zenon DEF Positions
<1>3. \A s : seq_pos_max(a, s) = seq_pos_max(b, s)
  BY DEF Same, seq_pos_max
<1> QED
  BY <1>2, <1>3 DEF Follows

\* llama_batch_allocr: the tokens of a sequence go on where its cells end.
LEMMA BatchCounted ==
  ASSUME NEW b \in Batches, NEW n \in Nat, DOMAIN b = 1 .. n,
         NEW s \in Seqs, NEW j \in 1 .. n, s \in b[j]
  PROVE  TokenPos(b, j) = seq_pos_max(cells, s) + 1 + CountUp(b, s, j - 1)
<1> DEFINE t == CHOOSE x \in b[j] : TRUE
<1>1. t \in b[j]
  OBVIOUS
<1>2. TokenPos(b, j) = seq_pos_max(cells, t) + 1 + Cardinality({i \in 1 .. j - 1 : t \in b[i]})
  BY DEF TokenPos
<1> HIDE DEF t
<1>3. /\ seq_pos_max(cells, s) = seq_pos_max(cells, t)
      /\ \A i \in 1 .. j - 1 : s \in b[i] <=> t \in b[i]
  BY <1>1 DEF Batches
<1>4. {i \in 1 .. j - 1 : t \in b[i]} = {i \in 1 .. j - 1 : s \in b[i]}
  BY <1>3
<1> QED
  BY <1>2, <1>3, <1>4 DEF CountUp

\* The ubatches of a batch follow the cells and each other.
LEMMA DecodeOrder == IInv /\ Decode => OrderInv'
<1> SUFFICES ASSUME IInv, Decode PROVE OrderInv'
  OBVIOUS
<1>1. Good(cells)
  BY GoodIff DEF IInv
<1>2. PICK b \in Batches :
         LET tokens == [k \in DOMAIN b |-> [pos |-> TokenPos(b, k), seqs |-> b[k]]]
         IN  /\ \A k \in DOMAIN tokens : tokens[k].pos \in 0 .. MaxPos
             /\ ubs' = Split(tokens)
  BY DEF Decode
<1>3. PICK n \in 1 .. MaxTokens : b \in [1 .. n -> (SUBSET Seqs) \ {{}}]
  BY DEF Batches
<1> DEFINE tokens == [k \in DOMAIN b |-> [pos |-> TokenPos(b, k), seqs |-> b[k]]]
<1>4. n \in Nat /\ n >= 1 /\ DOMAIN b = 1 .. n
  BY <1>3, CellsAssumption
<1>5. tokens \in Ubatch /\ Len(tokens) = n
  <2>1. \A k \in 1 .. n : TokenPos(b, k) \in Nat
    BY <1>2, <1>4
  <2>2. \A k \in 1 .. n : tokens[k] \in Token
    BY <1>3, <1>4, <2>1 DEF Token
  <2>3. tokens = [k \in 1 .. n |-> tokens[k]]
    BY <1>4
  <2> HIDE DEF tokens
  <2>4. tokens \in Seq(Token) /\ Len(tokens) = n
    BY <1>4, <2>2, <2>3
  <2> QED
    BY <1>4, <2>4 DEF Ubatch
<1>6. \A k \in 1 .. n : tokens[k].seqs = b[k] /\ tokens[k].pos = TokenPos(b, k)
  BY <1>4
<1>7. PICK ts : ts = tokens
  OBVIOUS
<1>8. ubs' = Split(ts)
  BY <1>2, <1>7
<1> HIDE DEF tokens
<1>9. PICK base : base = [s \in Seqs |-> seq_pos_max(cells, s) + 1]
  OBVIOUS
<1>10. base \in [Seqs -> Nat]
  <2>1. ASSUME NEW s \in Seqs PROVE seq_pos_max(cells, s) + 1 \in Nat
    <3>1. /\ Positions(cells, s) \subseteq Nat
          /\ Positions(cells, s) = {} => seq_pos_max(cells, s) = -1
          /\ Positions(cells, s) # {} => seq_pos_max(cells, s) \in Positions(cells, s)
      BY <1>1, SeqBounds
    <3> QED
      BY <3>1
  <2> QED
    BY <1>9, <2>1
<1>11. ts \in Ubatch /\ Len(ts) = n /\ \A j \in 1 .. Len(ts) : ts[j].seqs = b[j]
  BY <1>5, <1>6, <1>7
<1>12. \A s \in Seqs : \A j \in 1 .. Len(ts) :
          s \in b[j] => ts[j].pos = base[s] + CountUp(b, s, j - 1)
  <2> SUFFICES ASSUME NEW s \in Seqs, NEW j \in 1 .. n, s \in b[j]
               PROVE  ts[j].pos = base[s] + CountUp(b, s, j - 1)
    BY <1>11
  <2>1. TokenPos(b, j) = seq_pos_max(cells, s) + 1 + CountUp(b, s, j - 1)
    BY <1>4, BatchCounted
  <2>2. base[s] = seq_pos_max(cells, s) + 1
    BY <1>9
  <2> QED
    BY <1>6, <1>7, <2>1, <2>2
<1>13. PICK F : Runs(F, Split(ts)) /\ F[1] = base
  <2>1. PICK q : q = b
    OBVIOUS
  <2>2. \A j \in 1 .. Len(ts) : ts[j].seqs = q[j]
    BY <1>11, <2>1
  <2>3. \A s \in Seqs : \A j \in 1 .. Len(ts) :
          s \in q[j] => ts[j].pos = base[s] + CountUp(q, s, j - 1)
    BY <1>12, <2>1
  <2> QED
    BY <1>10, <1>11, <2>2, <2>3, SplitRuns
<1>14. Runs(F, ubs')
  BY <1>8, <1>13
<1>15. PICK c, d : c = cells /\ d = cells'
  OBVIOUS
<1>16. Follows(F[1], c)
  BY <1>9, <1>13, <1>15 DEF Follows
<1>17. Same(c, d)
  <2>1. CASE KShift
    BY <1>1, <1>15, <2>1 DEF KShift, Same, Good, CellsType
  <2>2. CASE KShiftFails
    BY <1>15, <2>2 DEF KShiftFails, Same
  <2> QED
    BY <2>1, <2>2 DEF Decode
<1>18. Follows(F[1], d)
  BY <1>16, <1>17, SamePositions
<1>19. before'.cells = cells' /\ phase' = "plan"
  BY <1>15 DEF Decode
<1>20. Follows(F[1], before'.cells)
  BY <1>15, <1>18, <1>19
<1> QED
  BY <1>14, <1>19, <1>20 DEF OrderInv, Planning

\* apply_ubatch leaves a sequence its positions above those it overwrites, and
\* adds those of its tokens.
LEMMA PlacedPositions ==
  ASSUME NEW c, Good(c), NEW u \in Ubatch, NEW slot \in [1 .. Len(u) -> Cells],
         \A j, k \in 1 .. Len(u) : slot[j] = slot[k] => j = k,
         NEW s \in Seqs, NEW lo \in Nat, NEW hi \in Nat,
         TokenPositions(u, s) = lo .. hi - 1,
         Positions(c, s) = {} \/ lo = seq_pos_max(c, s) + 1
  PROVE  Positions(ApplyUbatch(c, slot, u), s)
           = {p \in Positions(c, s) : ~(p <= PosMaxRm(c, slot, s))} \cup (lo .. hi - 1)
<1> DEFINE r == ApplyUbatch(c, slot, u)
           m == PosMaxRm(c, slot, s)
           old == {p \in Positions(c, s) : ~(p <= m)}
<1>1. /\ Positions(c, s) \subseteq Nat
      /\ seq_pos_max(c, s) \in Int
      /\ \A p \in Positions(c, s) : p <= seq_pos_max(c, s)
  BY SeqBounds
<1>2. SlotCells(slot) \subseteq Cells
  BY DEF SlotCells
<1>3. /\ m \in Int /\ m >= -1
      /\ \A i \in SlotCells(slot) \cap Members(c, s) : c.pos[i] <= m
      /\ m # -1 => \E i \in SlotCells(slot) \cap Members(c, s) : m = c.pos[i]
  BY <1>2, LostBound
<1>4. \A i \in Cells \ SlotCells(slot) :
         /\ s \in r.seq[i] <=> s \in c.seq[i] /\ ~(c.pos[i] <= m)
         /\ s \in r.seq[i] => r.pos[i] = c.pos[i]
  BY ApplyKeeps
<1>5. \A k \in 1 .. Len(u) :
         /\ s \in r.seq[slot[k]] <=> s \in u[k].seqs /\ ~(u[k].pos <= m)
         /\ s \in r.seq[slot[k]] => r.pos[slot[k]] = u[k].pos
  BY ApplyTakes
<1> HIDE DEF r, m
<1>6. ASSUME NEW p \in lo .. hi - 1 PROVE ~(p <= m)
  <2>1. CASE m = -1
    BY <2>1
  <2>2. CASE m # -1
    <3>1. m \in Positions(c, s)
      BY <1>3, <2>2 DEF Positions
    <3>2. m <= seq_pos_max(c, s) /\ lo = seq_pos_max(c, s) + 1
      BY <1>1, <3>1
    <3> QED
      BY <1>1, <1>3, <3>2
  <2> QED
    BY <2>1, <2>2
<1>7. ASSUME NEW p \in Positions(r, s) PROVE p \in old \cup (lo .. hi - 1)
  <2>1. PICK i \in Cells : s \in r.seq[i] /\ p = r.pos[i]
    BY DEF Positions, Members
  <2>2. CASE i \in SlotCells(slot)
    <3>1. PICK k \in 1 .. Len(u) : i = slot[k]
      BY <2>2 DEF SlotCells
    <3>2. s \in u[k].seqs /\ p = u[k].pos
      BY <1>5, <2>1, <3>1
    <3>3. p \in TokenPositions(u, s)
      BY <3>2 DEF TokenPositions
    <3> QED
      BY <3>3
  <2>3. CASE i \notin SlotCells(slot)
    <3>1. s \in c.seq[i] /\ p = c.pos[i] /\ ~(p <= m)
      BY <1>4, <2>1, <2>3
    <3>2. p \in Positions(c, s)
      BY <3>1 DEF Positions, Members
    <3> QED
      BY <3>1, <3>2
  <2> QED
    BY <2>2, <2>3
<1>8. ASSUME NEW p \in old PROVE p \in Positions(r, s)
  <2>1. PICK i \in Members(c, s) : p = c.pos[i]
    BY DEF Positions
  <2>2. i \in Cells /\ s \in c.seq[i] /\ ~(c.pos[i] <= m)
    BY <2>1 DEF Members
  <2>3. i \notin SlotCells(slot)
    BY <1>3, <2>1, <2>2
  <2>4. s \in r.seq[i] /\ r.pos[i] = p
    BY <1>4, <2>1, <2>2, <2>3
  <2> QED
    BY <2>2, <2>4 DEF Positions, Members
<1>9. ASSUME NEW p \in lo .. hi - 1 PROVE p \in Positions(r, s)
  <2>1. PICK k \in 1 .. Len(u) : s \in u[k].seqs /\ p = u[k].pos
    <3>1. p \in TokenPositions(u, s)
      OBVIOUS
    <3> QED
      BY <3>1 DEF TokenPositions
  <2>2. s \in r.seq[slot[k]] /\ r.pos[slot[k]] = p
    BY <1>5, <1>6, <2>1
  <2>3. slot[k] \in Cells
    OBVIOUS
  <2> QED
    BY <2>2, <2>3 DEF Positions, Members
<1> HIDE DEF old
<1>10. Positions(r, s) = old \cup (lo .. hi - 1)
  BY <1>7, <1>8, <1>9
<1> QED
  BY <1>10 DEF r, m, old

\* The next position of the sequence is the one after its tokens.
LEMMA PlacedFollows ==
  ASSUME NEW c, Good(c), NEW r, Good(r), NEW s \in Seqs,
         NEW lo \in Nat, NEW hi \in Nat, lo <= hi, NEW m \in Int,
         Positions(c, s) = {} \/ lo = seq_pos_max(c, s) + 1,
         Positions(r, s) = {p \in Positions(c, s) : ~(p <= m)} \cup (lo .. hi - 1)
  PROVE  Positions(r, s) = {} \/ hi = seq_pos_max(r, s) + 1
<1> DEFINE P == Positions(c, s)
           R == Positions(r, s)
           x == seq_pos_max(c, s)
           y == seq_pos_max(r, s)
<1>1. /\ P \subseteq Nat /\ x \in Int /\ \A p \in P : p <= x
      /\ P # {} => x \in P
  BY SeqBounds
<1>2. /\ R \subseteq Nat /\ y \in Int /\ \A p \in R : p <= y
      /\ R # {} => y \in R
  BY SeqBounds
<1>3. /\ R = {p \in P : ~(p <= m)} \cup (lo .. hi - 1)
      /\ P = {} \/ lo = x + 1
  OBVIOUS
<1> HIDE DEF P, R, x, y
<1>4. CASE lo < hi
  <2>1. hi - 1 \in R
    BY <1>3, <1>4
  <2>2. \A p \in R : p <= hi - 1
    BY <1>1, <1>3, <1>4
  <2>3. y <= hi - 1 /\ hi - 1 <= y
    BY <1>2, <2>1, <2>2
  <2> QED
    BY <1>2, <2>3 DEF y
<1>5. CASE lo = hi /\ R # {}
  <2>1. lo .. hi - 1 = {}
    BY <1>5
  <2>2. y \in P /\ ~(y <= m)
    BY <1>2, <1>3, <1>5, <2>1
  <2>3. x \in P /\ y <= x /\ y \in Int
    BY <1>1, <1>2, <2>2
  <2>4. x \in R
    BY <1>1, <1>3, <2>2, <2>3
  <2>5. x = y /\ lo = x + 1
    BY <1>1, <1>2, <1>3, <2>3, <2>4
  <2> QED
    BY <1>5, <2>5 DEF y
<1>6. CASE R = {}
  BY <1>6 DEF R
<1> QED
  BY <1>4, <1>5, <1>6

\* A sequence has no gap when it has what lies between two of its positions.
LEMMA GaplessIff ==
  ASSUME NEW c, Good(c), NEW s \in Seqs
  PROVE  Gapless(c, s) <=>
            \A x, z \in Positions(c, s) : \A y \in Int :
               x <= y /\ y <= z => y \in Positions(c, s)
<1> DEFINE P == Positions(c, s)
           lo == seq_pos_min(c, s)
           hi == seq_pos_max(c, s)
<1>1. /\ {e[1] : e \in c.seq_pos[s]} = P
      /\ c.seq_pos[s] = {} <=> P = {}
      /\ P \subseteq Nat /\ lo \in Int /\ hi \in Int
      /\ P # {} => hi \in P /\ lo \in P
      /\ \A p \in P : lo <= p /\ p <= hi
  BY SeqBounds
<1>2. Gapless(c, s) <=> P = IF P = {} THEN {} ELSE lo .. hi
  BY <1>1 DEF Gapless
<1> HIDE DEF P, lo, hi
<1>3. ASSUME P = IF P = {} THEN {} ELSE lo .. hi,
             NEW x \in P, NEW z \in P, NEW y \in Int, x <= y, y <= z
      PROVE  y \in P
  <2>1. P = lo .. hi
    BY <1>3
  <2>2. lo <= x /\ z <= hi /\ x \in Int /\ z \in Int
    BY <1>1
  <2>3. lo <= y /\ y <= hi
    BY <1>1, <1>3, <2>2
  <2> QED
    BY <1>1, <2>1, <2>3
<1>4. ASSUME \A x, z \in P : \A y \in Int : x <= y /\ y <= z => y \in P, P # {}
      PROVE  P = lo .. hi
  <2>1. ASSUME NEW p \in P PROVE p \in lo .. hi
    BY <1>1
  <2>2. ASSUME NEW p \in lo .. hi PROVE p \in P
    BY <1>1, <1>4
  <2> QED
    BY <2>1, <2>2
<1> QED
  BY <1>2, <1>3, <1>4 DEF P

\* Tokens that go on where a sequence ends leave no gap in what stays.
LEMMA PlacedGapless ==
  ASSUME NEW c, Good(c), NEW r, Good(r), NEW s \in Seqs,
         NEW lo \in Nat, NEW hi \in Nat, NEW m \in Int,
         Positions(c, s) = {} \/ lo = seq_pos_max(c, s) + 1,
         Positions(r, s) = {p \in Positions(c, s) : ~(p <= m)} \cup (lo .. hi - 1),
         Gapless(c, s)
  PROVE  Gapless(r, s)
<1> DEFINE P == Positions(c, s)
           R == Positions(r, s)
           top == seq_pos_max(c, s)
<1>1. /\ P \subseteq Nat /\ top \in Int /\ \A p \in P : p <= top
      /\ P # {} => top \in P
  BY SeqBounds
<1>2. \A x, z \in P : \A y \in Int : x <= y /\ y <= z => y \in P
  BY GaplessIff
<1>3. /\ R = {p \in P : ~(p <= m)} \cup (lo .. hi - 1)
      /\ P = {} \/ lo = top + 1
  OBVIOUS
<1> HIDE DEF P, R, top
<1>4. ASSUME NEW x \in R, NEW z \in R, NEW y \in Int, x <= y, y <= z
      PROVE  y \in R
  <2>1. x \in Int /\ z \in Int
    BY <1>1, <1>3
  <2>2. CASE x \in lo .. hi - 1 /\ z \in lo .. hi - 1
    <3>1. y \in lo .. hi - 1
      BY <1>4, <2>2
    <3> QED
      BY <1>3, <3>1
  <2>3. CASE x \in P /\ ~(x <= m) /\ z \in P
    <3>1. y \in P
      BY <1>2, <1>4, <2>3
    <3>2. ~(y <= m)
      BY <1>4, <2>1, <2>3
    <3> QED
      BY <1>3, <3>1, <3>2
  <2>4. CASE x \in P /\ ~(x <= m) /\ z \in lo .. hi - 1
    <3>1. top \in P /\ lo = top + 1 /\ x <= top
      BY <1>1, <1>3, <2>4
    <3>2. CASE y <= top
      <4>1. y \in P
        BY <1>2, <1>4, <2>4, <3>1, <3>2
      <4>2. ~(y <= m)
        BY <1>4, <2>1, <2>4
      <4> QED
        BY <1>3, <4>1, <4>2
    <3>3. CASE ~(y <= top)
      <4>1. y \in lo .. hi - 1
        BY <1>1, <1>4, <2>1, <2>4, <3>1, <3>3
      <4> QED
        BY <1>3, <4>1
    <3> QED
      BY <3>2, <3>3
  <2>5. CASE x \in lo .. hi - 1 /\ z \in P /\ ~(z <= m)
    <3>1. lo = top + 1 /\ z <= top
      BY <1>1, <1>3, <2>5
    <3>2. FALSE
      BY <1>1, <1>4, <2>1, <2>5, <3>1
    <3> QED
      BY <3>2
  <2> QED
    BY <1>3, <2>2, <2>3, <2>4, <2>5
<1>5. \A x, z \in R : \A y \in Int : x <= y /\ y <= z => y \in R
  BY <1>4
<1> QED
  BY <1>5, GaplessIff DEF R

\* A set of positions has a first one.
LEMMA FirstPosition ==
  ASSUME NEW S \in SUBSET Nat, S # {}
  PROVE  Min(S) \in S
<1>1. PICK x \in S : \A y \in S : ~ (<<y, x>> \in OpToRel(<, Nat))
  BY NatLessThanWellFounded, WFMin
<1> HIDE <1>1
<1>2. ASSUME NEW y \in S, ~(x =< y) PROVE FALSE
  <2>1. x \in Nat /\ y \in Nat /\ y < x
    BY <1>2
  <2>2. <<y, x>> \in Nat \X Nat /\ <<y, x>>[1] < <<y, x>>[2]
    BY <2>1
  <2>3. <<y, x>> \in OpToRel(<, Nat)
    BY <2>2, Zenon DEF OpToRel
  <2> QED
    BY <1>1, <2>3
<1> QED
  BY <1>2 DEF Min

\* A sequence that loses all cells from a position on, or none, has no new gap.
LEMMA CutGapless ==
  ASSUME NEW c, Good(c), NEW gone, Good(Drop(c, gone)), NEW s \in Seqs,
         NEW Q \in BOOLEAN, NEW m \in Nat,
         \A i \in Cells : s \in gone[i] <=> s \in c.seq[i] /\ Q /\ c.pos[i] >= m,
         Gapless(c, s)
  PROVE  Gapless(Drop(c, gone), s)
<1> DEFINE r == Drop(c, gone)
           P == Positions(c, s)
           R == Positions(r, s)
<1>1. P \subseteq Nat /\ \A p \in P : p \in Int
  <2>1. P \subseteq Nat
    BY SeqBounds
  <2> HIDE DEF P
  <2> QED
    BY <2>1
<1>2. \A x, z \in P : \A y \in Int : x <= y /\ y <= z => y \in P
  BY GaplessIff
<1>3. \A i \in Cells : /\ r.seq[i] = c.seq[i] \ gone[i]
                       /\ r.pos[i] = IF i \in Emptied(c, gone) THEN -1 ELSE c.pos[i]
  BY DEF Drop
<1>4. Good(r)
  OBVIOUS
<1> HIDE DEF r
<1>5. \A i \in Cells : s \in r.seq[i] => r.pos[i] = c.pos[i]
  BY <1>3 DEF Emptied
<1>6. \A i \in Cells : s \in r.seq[i] <=> s \in c.seq[i] /\ ~(Q /\ c.pos[i] >= m)
  BY <1>3
<1>7. \A p : p \in R <=> p \in P /\ ~(Q /\ p >= m)
  BY <1>5, <1>6 DEF Positions, Members
<1> HIDE DEF P, R
<1>8. ASSUME NEW x \in R, NEW z \in R, NEW y \in Int, x <= y, y <= z
      PROVE  y \in R
  <2>1. x \in P /\ z \in P /\ z \in Int
    <3>1. x \in P /\ z \in P
      BY <1>7, Zenon
    <3> QED
      BY <1>1, <3>1, Zenon
  <2>2. y \in P
    BY <1>2, <1>8, <2>1
  <2>3. ~(Q /\ y >= m)
    BY <1>7, <1>8, <2>1
  <2> QED
    BY <1>7, <2>2, <2>3
<1>9. \A x, z \in R : \A y \in Int : x <= y /\ y <= z => y \in R
  BY <1>8
<1> QED
  BY <1>4, <1>9, GaplessIff DEF R, r

\* The rest of the batch and the cells when an ubatch was placed for good.
LEMMA CommitOrder ==
  ASSUME IInv, PlanHolds, OrderInv, Commit
  PROVE  /\ OrderInv'
         /\ \A s \in Seqs : Gapless(cells, s) => Gapless(cells', s)
<1> DEFINE u == Head(ubs)
           slot == Head(plan)
<1>1. /\ u \in Ubatch /\ slot \in [1 .. Len(u) -> Cells]
      /\ SlotCells(slot) \subseteq Cells
      /\ \A j, k \in 1 .. Len(u) : slot[j] = slot[k] => j = k
  BY CommitFacts DEF Commit
<1>2. Good(cells) /\ Good(cells)'
  <2>1. IInv'
    BY NextIInv DEF Next
  <2> QED
    BY <2>1, GoodIff DEF IInv, TypeOK, IndexesAgree, Good
<1>3. cells' = ApplyUbatch(cells, slot, u) /\ phase' = "compute" /\ ubs' = ubs
  BY DEF Commit
<1>4. PICK F : Runs(F, ubs) /\ Follows(F[1], cells)
  BY DEF OrderInv, Commit
<1>5. u = ubs[1] /\ 1 \in 1 .. Len(ubs)
  <2>1. ubs \in Seq(Ubatch) /\ ubs # <<>>
    BY DEF Commit, IInv, BatchInv
  <2>2. Len(ubs) \in Nat /\ Len(ubs) >= 1
    BY <2>1
  <2> QED
    BY <2>1, <2>2
<1> HIDE DEF u, slot
<1>6. \A s \in Seqs :
         /\ F[1][s] \in Nat /\ F[2][s] \in Nat /\ F[1][s] <= F[2][s]
         /\ TokenPositions(u, s) = F[1][s] .. F[2][s] - 1
  BY <1>4, <1>5 DEF Runs
<1>7. ASSUME NEW s \in Seqs
      PROVE  /\ Positions(cells', s) = {} \/ F[2][s] = seq_pos_max(cells', s) + 1
             /\ Gapless(cells, s) => Gapless(cells', s)
  <2>1. PICK lo \in Nat, hi \in Nat : lo = F[1][s] /\ hi = F[2][s]
    BY <1>6
  <2>2. lo <= hi /\ TokenPositions(u, s) = lo .. hi - 1
    BY <1>6, <2>1
  <2>3. PICK m \in Int : m = PosMaxRm(cells, slot, s)
    BY <1>1, <1>2, LostBound
  <2>4. Positions(cells, s) = {} \/ lo = seq_pos_max(cells, s) + 1
    BY <1>4, <2>1 DEF Follows
  <2>5. Positions(cells', s) = {p \in Positions(cells, s) : ~(p <= m)} \cup (lo .. hi - 1)
    <3>1. Positions(ApplyUbatch(cells, slot, u), s)
            = {p \in Positions(cells, s) : ~(p <= PosMaxRm(cells, slot, s))} \cup (lo .. hi - 1)
      BY <1>1, <1>2, <2>2, <2>4, PlacedPositions
    <3> QED
      BY <1>3, <2>3, <3>1
  <2>6. PICK c, r : c = cells /\ r = cells'
    OBVIOUS
  <2>7. /\ Good(c) /\ Good(r)
        /\ Positions(c, s) = {} \/ lo = seq_pos_max(c, s) + 1
        /\ Positions(r, s) = {p \in Positions(c, s) : ~(p <= m)} \cup (lo .. hi - 1)
    BY <1>2, <2>4, <2>5, <2>6 DEF Good, Agree
  <2>8. Positions(r, s) = {} \/ hi = seq_pos_max(r, s) + 1
    BY <2>2, <2>7, PlacedFollows
  <2>9. Gapless(c, s) => Gapless(r, s)
    BY <2>7, PlacedGapless
  <2> QED
    BY <2>1, <2>6, <2>8, <2>9
<1>8. Follows(F[2], cells')
  BY <1>7 DEF Follows
<1>9. OrderInv'
  BY <1>3, <1>4, <1>8 DEF OrderInv, Planning
<1> QED
  BY <1>7, <1>9

\* A graph that fails takes the end of the sequences of its ubatch.
LEMMA FailGapless ==
  ASSUME IInv, ComputeFails, NEW s \in Seqs, Gapless(cells, s)
  PROVE  Gapless(cells', s)
<1> DEFINE u == Head(ubs)
           from(t) == {u[k].pos : k \in {j \in DOMAIN u : t = Min(u[j].seqs)}}
           gone == [i \in Cells |-> {t \in cells.seq[i] :
                                       from(t) # {} /\ cells.pos[i] >= Min(from(t))}]
<1>1. Good(cells) /\ Good(cells)'
  <2>1. IInv'
    BY NextIInv DEF Next
  <2> QED
    BY <2>1, GoodIff DEF IInv, TypeOK, IndexesAgree, Good
<1>2. cells' = Drop(cells, gone)
  BY DEF ComputeFails
<1>3. \A i \in Cells : s \in gone[i] <=>
         s \in cells.seq[i] /\ from(s) # {} /\ cells.pos[i] >= Min(from(s))
  OBVIOUS
<1>4. from(s) \subseteq Nat
  <2>1. u \in Seq(Token)
    <3>1. ubs \in Seq(Ubatch) /\ ubs # <<>>
      BY DEF ComputeFails, IInv, BatchInv
    <3>2. u \in Ubatch
      BY <3>1
    <3> QED
      BY <3>2 DEF Ubatch
  <2>2. \A k \in DOMAIN u : u[k] \in Token
    BY <2>1
  <2> HIDE DEF u
  <2> QED
    BY <2>2 DEF Token
<1> HIDE DEF gone
<1>5. PICK Q \in BOOLEAN : Q <=> from(s) # {}
  OBVIOUS
<1>6. PICK m \in Nat : Q => m = Min(from(s))
  <2>1. CASE from(s) = {}
    BY <1>5, <2>1
  <2>2. CASE from(s) # {}
    <3> HIDE DEF from
    <3>1. Min(from(s)) \in from(s)
      BY <1>4, <2>2, FirstPosition
    <3> QED
      BY <1>4, <3>1
  <2> QED
    BY <2>1, <2>2
<1> HIDE DEF from
<1>7. \A i \in Cells : s \in gone[i] <=> s \in cells.seq[i] /\ Q /\ cells.pos[i] >= m
  BY <1>3, <1>5, <1>6
<1>8. PICK c, g : c = cells /\ g = gone
  OBVIOUS
<1>9. /\ Good(c) /\ Good(Drop(c, g)) /\ Gapless(c, s)
      /\ \A i \in Cells : s \in g[i] <=> s \in c.seq[i] /\ Q /\ c.pos[i] >= m
  <2>1. cells' = Drop(c, g)
    BY <1>2, <1>8
  <2> QED
    BY <1>1, <1>7, <1>8, <2>1 DEF Good, Agree
<1>10. Gapless(Drop(c, g), s)
  BY <1>9, CutGapless
<1> QED
  BY <1>2, <1>8, <1>10

\* Its graph is computed: the next ubatch goes on.
LEMMA ComputedOrder ==
  ASSUME IInv, OrderInv, Computed
  PROVE  OrderInv'
<1>1. PICK F : Runs(F, ubs) /\ Follows(F[2], cells)
  BY DEF OrderInv, Computed
<1>2. ubs \in Seq(Ubatch) /\ ubs # <<>>
  BY DEF Computed, IInv, BatchInv
<1>3. Len(ubs) \in Nat /\ Len(ubs) >= 1
  BY <1>2
<1>4. CASE Len(ubs) = 1
  BY <1>4 DEF Computed, EndDecode, OrderInv, Planning
<1>5. CASE Len(ubs) # 1
  <2>1. phase' = "commit" /\ ubs' = Tail(ubs) /\ UNCHANGED cells
    BY <1>5 DEF Computed
  <2>2. Len(ubs') = Len(ubs) - 1 /\ \A k \in 1 .. Len(ubs) - 1 : ubs'[k] = ubs[k + 1]
    BY <1>2, <1>3, <2>1, HeadTailProperties
  <2>3. PICK G : G = [k \in Nat |-> F[k + 1]]
    OBVIOUS
  <2>4. \A k \in Nat : G[k] = F[k + 1]
    BY <2>3
  <2>5. Runs(G, ubs')
    <3> SUFFICES ASSUME NEW k \in 1 .. Len(ubs) - 1, NEW s \in Seqs
                 PROVE  /\ G[k][s] \in Nat /\ G[k + 1][s] \in Nat /\ G[k][s] <= G[k + 1][s]
                        /\ TokenPositions(ubs'[k], s) = G[k][s] .. G[k + 1][s] - 1
      BY <2>2 DEF Runs
    <3>1. k \in Nat /\ k + 1 \in Nat /\ k + 1 \in 1 .. Len(ubs)
      BY <1>3
    <3>2. G[k] = F[k + 1] /\ G[k + 1] = F[k + 1 + 1]
      BY <2>4, <3>1
    <3>3. ubs'[k] = ubs[k + 1]
      BY <2>2
    <3> QED
      BY <1>1, <3>1, <3>2, <3>3 DEF Runs
  <2>6. G[1] = F[2]
    <3>1. 1 \in Nat /\ 1 + 1 = 2
      OBVIOUS
    <3> QED
      BY <2>4, <3>1
  <2>7. Follows(G[1], cells')
    BY <1>1, <2>1, <2>6
  <2> QED
    BY <2>1, <2>5, <2>7 DEF OrderInv, Planning
<1> QED
  BY <1>4, <1>5

\* Every step keeps the order of the ubatches.
LEMMA NextOrder == IInv /\ PlanInv /\ OrderInv /\ [Next]_vars => OrderInv'
<1> SUFFICES ASSUME IInv, PlanInv, OrderInv, [Next]_vars PROVE OrderInv'
  OBVIOUS
<1>1. CASE phase' = "idle"
  BY <1>1 DEF OrderInv, Planning
<1>2. ASSUME \/ EditRm \/ EditRmAll \/ EditCp \/ EditKeep \/ EditClear
             \/ EditAdd \/ EditDiv \/ Abandon \/ ComputeFails
      PROVE  phase' = "idle"
  BY <1>2 DEF EditRm, EditRmAll, EditCp, EditKeep, EditClear, EditAdd,
              EditDiv, MayEdit, Abandon, ComputeFails, EndDecode
<1>3. CASE Decode
  BY <1>3, DecodeOrder
<1>4. CASE PlanUbatch
  <2>1. CASE EndDecode
    BY <1>1, <2>1 DEF EndDecode
  <2>2. CASE phase' \in {"plan", "fail"} /\ UNCHANGED <<ubs, before>>
    BY <1>4, <2>2 DEF PlanUbatch, OrderInv, Planning
  <2> QED
    BY <1>4, <2>1, <2>2 DEF PlanUbatch
<1>5. CASE PlanRestore
  <2>1. Planning
    BY <1>5 DEF PlanRestore, Planning
  <2>2. PICK F : Runs(F, ubs) /\ Follows(F[1], before.cells)
    BY <2>1 DEF OrderInv
  <2>3. CASE phase' = "commit" /\ UNCHANGED ubs
    <3>1. Same(cells', before.cells)
      BY <1>5, <2>3, RestorePlan
    <3>2. PICK a, b : a = before.cells /\ b = cells'
      OBVIOUS
    <3>3. Same(a, b) /\ Follows(F[1], a)
      BY <2>2, <3>1, <3>2 DEF Same
    <3>4. Follows(F[1], b)
      BY <3>3, SamePositions
    <3> QED
      BY <2>2, <2>3, <3>2, <3>4 DEF OrderInv, Planning
  <2>4. CASE phase' \in {"fail", "undo"} /\ UNCHANGED <<ubs, before>>
    BY <2>2, <2>4 DEF OrderInv, Planning
  <2> QED
    BY <1>1, <1>5, <2>3, <2>4 DEF PlanRestore, EndDecode
<1>6. CASE Commit
  BY <1>6, PlanNext, CommitOrder
<1>7. CASE Computed
  BY <1>7, ComputedOrder
<1>8. CASE UNCHANGED vars
  BY <1>8 DEF vars, OrderInv, Planning
<1> QED
  BY <1>1, <1>2, <1>3, <1>4, <1>5, <1>6, <1>7, <1>8 DEF Next

\* A step between the planning and the end of the decode leaves no gap.
LEMMA StepGapless ==
  ASSUME IInv, PlanInv, OrderInv, [Next]_vars, phase \in {"commit", "compute"},
         NEW s \in Seqs, Gapless(cells, s)
  PROVE  Gapless(cells', s)
<1>1. CASE Commit
  BY <1>1, PlanNext, CommitOrder
<1>2. CASE ComputeFails
  BY <1>2, FailGapless
<1>3. CASE cells' = cells
  BY <1>3
<1> QED
  BY <1>1, <1>2, <1>3 DEF Next, vars, EditRm, EditRmAll, EditCp, EditKeep,
     EditClear, EditAdd, EditDiv, MayEdit, Decode, PlanUbatch, PlanRestore,
     Abandon, Computed

\* No ubatch waits at first.
LEMMA InitOrder == Init => OrderInv
  BY DEF Init, OrderInv, Planning

\* Overwriting, the purge of what is older, the tokens of every ubatch, and the
\* removal after a failed graph keep the positions of a sequence together: what
\* had no gap has none.
THEOREM DecodeLeavesNoGap == Spec => NoGap
<1>1. IInv /\ PlanInv /\ [Next]_vars => PlanInv'
  BY NextPlan
<1>2. IInv /\ PlanInv /\ OrderInv /\ [Next]_vars => OrderInv'
  BY NextOrder
<1>3. IInv /\ PlanInv /\ OrderInv /\ [Next]_vars =>
        (phase \in {"commit", "compute"} => \A s \in Seqs :
            Gapless(cells, s) => Gapless(cells', s))
  BY StepGapless
<1> QED
  BY <1>1, <1>2, <1>3, InitIInv, InitPlan, InitOrder, NextIInv, PTL DEF Spec, NoGap

-----------------------------------------------------------------------------
(* The search finds a slot when there is one                               *)

\* The distance of a cell from where the search starts, all around.
LEMMA FarIs ==
  ASSUME NEW start \in 0 .. n_cells, NEW i \in Cells
  PROVE  (i - start) % n_cells = IF i >= start THEN i - start ELSE i - start + n_cells
<1>1. PICK N : N = n_cells
  OBVIOUS
<1>2. N \in Nat /\ N >= 1 /\ start \in 0 .. N /\ i \in 0 .. N - 1
  BY <1>1, CellsAssumption DEF Cells
<1>3. (i - start) % N = IF i >= start THEN i - start ELSE i - start + N
  BY <1>2, Z3
<1> QED
  BY <1>1, <1>3

\* Of the cells R, at different distances f, the n nearest in their order.
Nearest(f, R, n, s) ==
    /\ s \in [1 .. n -> R]
    /\ \A k \in 1 .. n - 1 : f[s[k]] < f[s[k + 1]]
    /\ \A k \in 1 .. n : \A i \in R : f[i] <= f[s[k]] => \E l \in 1 .. n : s[l] = i

\* There are such, by taking the nearest of the rest again and again.
LEMMA NearestExists ==
  ASSUME NEW f \in [Cells -> Int], NEW R \in SUBSET Cells,
         \A i, j \in R : f[i] = f[j] => i = j,
         NEW n \in Nat, n <= Cardinality(R)
  PROVE  \E s : Nearest(f, R, n, s)
<1>0. IsFiniteSet(R) /\ Cardinality(R) \in Nat
  <2>1. IsFiniteSet(Cells)
    BY CellsAssumption, FS_Interval DEF Cells
  <2>2. IsFiniteSet(R)
    BY <2>1, FS_Subset
  <2> QED
    BY <2>2, FS_CardinalityType
<1> DEFINE T == {m \in Nat : m <= Cardinality(R) => \E s : Nearest(f, R, m, s)}
<1>1. 0 \in T
  <2>1. PICK s : s \in [1 .. 0 -> R]
    <3>1. [k \in 1 .. 0 |-> 0] \in [1 .. 0 -> R]
      OBVIOUS
    <3> QED
      BY <3>1
  <2>2. Nearest(f, R, 0, s)
    BY <2>1 DEF Nearest
  <2> QED
    BY <2>2
<1>2. ASSUME NEW m \in Nat, m \in T PROVE m + 1 \in T
  <2> SUFFICES ASSUME m + 1 <= Cardinality(R)
               PROVE  \E t : Nearest(f, R, m + 1, t)
    OBVIOUS
  <2>1. PICK s : Nearest(f, R, m, s)
    BY <1>0, <1>2
  <2>2. s \in [1 .. m -> R]
    BY <2>1 DEF Nearest
  <2>3. PICK A \in SUBSET R : A = {s[k] : k \in 1 .. m}
    BY <2>2
  <2>4. A # R
    <3>1. s \in Surjection(1 .. m, A)
      BY <2>2, <2>3 DEF Surjection
    <3>2. IsFiniteSet(1 .. m) /\ Cardinality(1 .. m) = m
      BY FS_Interval
    <3>3. Cardinality(A) <= m
      BY <3>1, <3>2, FS_Surjection
    <3> QED
      BY <1>0, <3>3
  <2>5. PICK i \in R \ A : \A j \in R \ A : f[i] <= f[j]
    BY <2>3, <2>4, BottomCell
  <2>6. PICK t : t = [k \in 1 .. m + 1 |-> IF k = m + 1 THEN i ELSE s[k]]
    OBVIOUS
  <2>7. /\ t \in [1 .. m + 1 -> R] /\ t[m + 1] = i
        /\ \A k \in 1 .. m : k \in 1 .. m + 1 /\ t[k] = s[k]
    BY <2>2, <2>5, <2>6
  <2>8. \A k \in 1 .. m : s[k] \in A /\ s[k] \in R /\ f[s[k]] \in Int
    BY <2>2, <2>3
  <2>9. \A k \in 1 .. m : f[s[k]] < f[i]
    <3> SUFFICES ASSUME NEW k \in 1 .. m, ~(f[s[k]] < f[i]) PROVE FALSE
      OBVIOUS
    <3>1. f[i] <= f[s[k]]
      BY <2>8
    <3>2. PICK l \in 1 .. m : s[l] = i
      BY <2>1, <3>1 DEF Nearest
    <3> QED
      BY <2>3, <2>5, <3>2
  <2>10. ASSUME NEW k \in 1 .. m PROVE f[t[k]] < f[t[k + 1]]
    <3>1. CASE k = m
      BY <2>7, <2>9, <3>1
    <3>2. CASE k # m
      <4>1. k \in 1 .. m - 1 /\ k + 1 \in 1 .. m
        BY <3>2
      <4> QED
        BY <2>1, <2>7, <4>1 DEF Nearest
    <3> QED
      BY <3>1, <3>2
  <2>11. ASSUME NEW k \in 1 .. m + 1, NEW x \in R, f[x] <= f[t[k]]
         PROVE  \E l \in 1 .. m + 1 : t[l] = x
    <3>1. CASE x \in A
      <4>1. PICK l \in 1 .. m : s[l] = x
        BY <2>3, <3>1
      <4> QED
        BY <2>7, <4>1
    <3>2. CASE x \notin A
      <4>1. k = m + 1
        <5> SUFFICES ASSUME k \in 1 .. m PROVE FALSE
          OBVIOUS
        <5>1. f[x] <= f[s[k]]
          BY <2>7, <2>11
        <5>2. PICK l \in 1 .. m : s[l] = x
          BY <2>1, <5>1 DEF Nearest
        <5> QED
          BY <2>3, <3>2, <5>2
      <4>2. f[x] <= f[i] /\ f[i] <= f[x] /\ f[x] \in Int /\ f[i] \in Int
        BY <2>5, <2>7, <2>11, <3>2, <4>1
      <4>3. x = i
        BY <4>2
      <4> QED
        BY <2>7, <4>3
    <3> QED
      BY <3>1, <3>2
  <2>12. Nearest(f, R, m + 1, t)
    <3>1. m + 1 - 1 = m
      OBVIOUS
    <3> QED
      BY <2>7, <2>10, <2>11, <3>1 DEF Nearest
  <2> QED
    BY <2>12
<1>3. Nat \subseteq T
  <2> HIDE DEF T
  <2> QED
    BY <1>1, <1>2, NatSetInduction
<1> QED
  BY <1>3

\* The cells that find_slot may take.
Reusable(c) == {i \in Cells : CanReuse(c, i)}

\* find_slot finds a slot when there are enough cells that can be reused.
LEMMA SlotFound ==
  ASSUME NEW c, Good(c), NEW h \in 0 .. n_cells, NEW n \in Nat, n >= 1,
         n <= Cardinality(Reusable(c))
  PROVE  FindSlot(c, h, n) # {}
<1> DEFINE start == IF h > Cardinality(c.used) + 2 * n THEN 0 ELSE h
           f == [i \in Cells |-> (i - start) % n_cells]
<1>1. PICK R \in SUBSET Cells : R = Reusable(c)
  BY DEF Reusable
<1>2. start \in 0 .. n_cells
  BY CellsAssumption
<1> HIDE DEF start
<1>3. \A i \in Cells : f[i] = (i - start) % n_cells
  OBVIOUS
<1>4. \A i \in Cells : f[i] = IF i >= start THEN i - start ELSE i - start + n_cells
  BY <1>2, <1>3, FarIs
<1>5. f = [i \in Cells |-> f[i]]
  OBVIOUS
<1> HIDE DEF f
<1>6. \A i \in Cells : i \in 0 .. n_cells - 1 /\ f[i] \in Int
  BY <1>2, <1>4, CellsAssumption DEF Cells
<1>7. f \in [Cells -> Int]
  BY <1>5, <1>6
<1>8. \A i, j \in R : f[i] = f[j] => i = j
  BY <1>2, <1>4, <1>6, CellsAssumption
<1>9. PICK s : Nearest(f, R, n, s)
  BY <1>1, <1>7, <1>8, NearestExists
<1>10. s \in [1 .. n -> R] /\ \A k \in 1 .. n : s[k] \in R /\ s[k] \in Cells
  BY <1>9 DEF Nearest
<1>11. \A k \in 1 .. n - 1 : (s[k] - start) % n_cells < (s[k + 1] - start) % n_cells
  <2> TAKE k \in 1 .. n - 1
  <2>1. k \in 1 .. n /\ k + 1 \in 1 .. n /\ f[s[k]] < f[s[k + 1]]
    BY <1>9 DEF Nearest
  <2> QED
    BY <1>3, <1>10, <2>1
<1>12. \A i \in Cells : CanReuse(c, i) /\ (i - start) % n_cells <= (s[n] - start) % n_cells =>
                           \E k \in 1 .. n : s[k] = i
  <2> TAKE i \in Cells
  <2> HAVE CanReuse(c, i) /\ (i - start) % n_cells <= (s[n] - start) % n_cells
  <2>1. i \in R /\ n \in 1 .. n
    BY <1>1 DEF Reusable
  <2>2. f[i] <= f[s[n]]
    BY <1>3, <1>10, <2>1
  <2> QED
    BY <1>9, <2>1, <2>2 DEF Nearest
<1>13. s \in [1 .. n -> {i \in Cells : CanReuse(c, i)}]
  BY <1>1, <1>10 DEF Reusable
<1>14. s \in FindSlot(c, h, n)
  BY <1>11, <1>12, <1>13 DEF FindSlot, start
<1> QED
  BY <1>14

\* A plan is given up only when there are really too few cells: whenever the
\* ubatch fits into the cells that are empty or that the next token of every
\* owner no longer sees, find_slot finds it a slot, wherever the head is and
\* however the cells are scattered.
THEOREM GivesUpForWant ==
  Spec => [][PlanUbatch /\ phase' \in {"idle", "fail"} =>
               Cardinality(Reusable(cells)) < Len(ubs[Len(plan) + 1])]_vars
<1>1. ASSUME IInv, PlanUbatch, phase' \in {"idle", "fail"}
      PROVE  Cardinality(Reusable(cells)) < Len(ubs[Len(plan) + 1])
  <2>1. PICK n : n = Len(ubs[Len(plan) + 1])
    OBVIOUS
  <2>2. FindSlot(cells, head, n) = {}
    BY <1>1, <2>1 DEF PlanUbatch
  <2>3. n \in Nat /\ n >= 1
    <3>1. /\ ubs \in Seq(Ubatch) /\ plan \in Seq(Seq(Cells)) /\ Len(plan) < Len(ubs)
      BY <1>1 DEF PlanUbatch, IInv, BatchInv
    <3>2. ubs[Len(plan) + 1] \in Ubatch
      BY <3>1
    <3> QED
      BY <2>1, <3>2 DEF Ubatch
  <2>4. Good(cells) /\ head \in 0 .. n_cells
    BY <1>1, GoodIff DEF IInv, TypeOK
  <2>5. Cardinality(Reusable(cells)) \in Nat
    <3>1. IsFiniteSet(Cells)
      BY CellsAssumption, FS_Interval DEF Cells
    <3>2. Reusable(cells) \in SUBSET Cells
      BY DEF Reusable
    <3>3. IsFiniteSet(Reusable(cells))
      BY <3>1, <3>2, FS_Subset
    <3> QED
      BY <3>3, FS_CardinalityType
  <2>6. ~(n <= Cardinality(Reusable(cells)))
    BY <2>2, <2>3, <2>4, SlotFound
  <2> QED
    BY <2>1, <2>3, <2>5, <2>6
<1> QED
  BY <1>1, InitIInv, NextIInv, PTL DEF Spec

-----------------------------------------------------------------------------
(* The ownership index                                                     *)

ViewType == [in_use : BOOLEAN, unavailable : BOOLEAN, mask : SUBSET Cells,
             count : [0 .. n_positions - 1 -> Int]]

\* The cells of I at position k.
Ranked(I, q, k) == {i \in I : q[i] = k}

\* A view that says it is available is exact for the cells M at the positions
\* q, and one that is not in use belongs to a sequence without cells.
ExactFor(v, M, q) ==
    /\ v \in ViewType
    /\ ~v.in_use => v = NoView /\ M = {}
    /\ v.in_use /\ ~v.unavailable =>
         /\ v.mask = M
         /\ \A k \in 0 .. n_positions - 1 : v.count[k] = Cardinality(Ranked(M, q, k))

\* Sets of cells are finite.
LEMMA RankedCounts ==
  ASSUME NEW I \in SUBSET Cells, NEW q, NEW k
  PROVE  IsFiniteSet(Ranked(I, q, k)) /\ Cardinality(Ranked(I, q, k)) \in Nat
<1>1. IsFiniteSet(Cells)
  BY CellsAssumption, FS_Interval DEF Cells
<1>2. Ranked(I, q, k) \in SUBSET Cells
  BY DEF Ranked
<1>3. IsFiniteSet(Ranked(I, q, k))
  BY <1>1, <1>2, FS_Subset
<1> QED
  BY <1>3, FS_CardinalityType

\* The ranks of two disjoint sets add up.
LEMMA RankedMore ==
  ASSUME NEW M \in SUBSET Cells, NEW I \in SUBSET Cells, I \cap M = {},
         NEW q, NEW k
  PROVE  Cardinality(Ranked(M \cup I, q, k))
           = Cardinality(Ranked(M, q, k)) + Cardinality(Ranked(I, q, k))
<1>1. /\ Ranked(M \cup I, q, k) = Ranked(M, q, k) \cup Ranked(I, q, k)
      /\ Ranked(M, q, k) \cap Ranked(I, q, k) = {}
  BY DEF Ranked
<1>2. /\ IsFiniteSet(Ranked(M, q, k)) /\ Cardinality(Ranked(M, q, k)) \in Nat
      /\ IsFiniteSet(Ranked(I, q, k)) /\ Cardinality(Ranked(I, q, k)) \in Nat
  BY RankedCounts
<1>3. Cardinality(Ranked(M, q, k) \cup Ranked(I, q, k))
        = Cardinality(Ranked(M, q, k)) + Cardinality(Ranked(I, q, k))
          - Cardinality(Ranked(M, q, k) \cap Ranked(I, q, k))
  BY <1>2, FS_Union
<1>4. Cardinality(Ranked(M, q, k) \cap Ranked(I, q, k)) = 0
  BY <1>1, FS_EmptySet
<1>5. Cardinality(Ranked(M, q, k) \cup Ranked(I, q, k))
        = Cardinality(Ranked(M, q, k)) + Cardinality(Ranked(I, q, k))
  BY <1>2, <1>3, <1>4
<1> QED
  BY <1>1, <1>5

\* What is left and what has gone count for all.
LEMMA RankedLess ==
  ASSUME NEW M \in SUBSET Cells, NEW I \in SUBSET Cells,
         NEW A \in SUBSET Cells, A = M \ I, NEW B \in SUBSET Cells, B = I \cap M,
         NEW q, NEW k
  PROVE  Cardinality(Ranked(M, q, k))
           = Cardinality(Ranked(A, q, k)) + Cardinality(Ranked(B, q, k))
<1>1. M = A \cup B /\ B \cap A = {}
  OBVIOUS
<1>2. Cardinality(Ranked(A \cup B, q, k))
        = Cardinality(Ranked(A, q, k)) + Cardinality(Ranked(B, q, k))
  BY <1>1, RankedMore
<1> QED
  BY <1>1, <1>2

\* Only the positions of the cells in question count.
LEMMA ExactSame ==
  ASSUME NEW v, NEW M, NEW q, NEW r, ExactFor(v, M, q), \A i \in M : r[i] = q[i]
  PROVE  ExactFor(v, M, r)
<1>1. \A k : Ranked(M, q, k) = Ranked(M, r, k)
  BY DEF Ranked
<1> QED
  BY <1>1 DEF ExactFor

\* An absent view is exact for no cells.
LEMMA NoViewExact ==
  ASSUME NEW q
  PROVE  ExactFor(NoView, {}, q)
BY CellsAssumption DEF ExactFor, NoView, ViewType

\* Cells that join a view (add_cell).
LEMMA OwnedExact ==
  ASSUME NEW v, NEW M \in SUBSET Cells, NEW q, NEW I \in SUBSET Cells, I \cap M = {},
         ExactFor(v, M, q)
  PROVE  ExactFor(Owned(v, I, q), M \cup I, q)
<1> DEFINE new == {i \in I \ v.mask : InDomain(q[i])}
           w == Owned(v, I, q)
           D == 0 .. n_positions - 1
<1>1. CASE I = {}
  BY <1>1 DEF Owned
<1>2. CASE I # {}
  <2>1. v \in ViewType
    BY DEF ExactFor
  <2>2. /\ w.in_use = TRUE
        /\ w.unavailable = (v.unavailable \/ \E i \in I : ~InDomain(q[i]))
        /\ w.mask = v.mask \cup new
        /\ w.count = [k \in D |-> v.count[k] + Cardinality(Ranked(new, q, k))]
        /\ w = [in_use |-> w.in_use, unavailable |-> w.unavailable,
                mask |-> w.mask, count |-> w.count]
    BY <1>2, <2>1 DEF Owned, ViewType, Ranked
  <2>3. new \in SUBSET Cells
    OBVIOUS
  <2>4. \A k \in D : Cardinality(Ranked(new, q, k)) \in Nat
    <3> HIDE DEF new
    <3> QED
      BY <2>3, RankedCounts
  <2>5. w \in ViewType
    <3>1. w.in_use \in BOOLEAN /\ w.mask \in SUBSET Cells
      BY <2>1, <2>2, <2>3 DEF ViewType
    <3>2. w.unavailable \in BOOLEAN
      BY <2>1, <2>2 DEF ViewType
    <3>3. w.count \in [D -> Int]
      <4>1. v.count \in [D -> Int]
        BY <2>1 DEF ViewType
      <4> HIDE DEF w, new, D
      <4>2. \A k \in D : v.count[k] + Cardinality(Ranked(new, q, k)) \in Int
        BY <2>4, <4>1
      <4> QED
        BY <2>2, <4>2
    <3> HIDE DEF w
    <3> QED
      BY <2>2, <3>1, <3>2, <3>3 DEF ViewType
  <2>6. ASSUME ~w.unavailable
        PROVE  /\ w.mask = M \cup I
               /\ \A k \in D : w.count[k] = Cardinality(Ranked(M \cup I, q, k))
    <3>1. ~v.unavailable /\ \A i \in I : InDomain(q[i])
      BY <2>2, <2>6
    <3>2. v.mask = M /\ \A k \in D : v.count[k] = Cardinality(Ranked(M, q, k))
      <4>1. CASE v.in_use
        BY <3>1, <4>1 DEF ExactFor
      <4>2. CASE ~v.in_use
        <5>1. v = NoView /\ M = {}
          BY <4>2 DEF ExactFor
        <5>2. \A k \in D : Ranked(M, q, k) = {} /\ v.count[k] = 0
          BY <5>1 DEF Ranked, NoView
        <5> QED
          BY <5>1, <5>2, FS_EmptySet DEF NoView
      <4> QED
        BY <4>1, <4>2
    <3>3. new = I
      BY <3>1, <3>2
    <3>4. \A k \in D : w.count[k] = v.count[k] + Cardinality(Ranked(new, q, k))
      <4> HIDE DEF w, new, D
      <4> QED
        BY <2>2
    <3> HIDE DEF w, new, D
    <3>5. w.mask = M \cup I
      BY <2>2, <3>2, <3>3
    <3>6. ASSUME NEW k \in D
          PROVE  w.count[k] = Cardinality(Ranked(M \cup I, q, k))
      <4>1. Cardinality(Ranked(M \cup I, q, k))
              = Cardinality(Ranked(M, q, k)) + Cardinality(Ranked(I, q, k))
        BY RankedMore
      <4> QED
        BY <3>2, <3>3, <3>4, <4>1
    <3> QED
      BY <3>5, <3>6
  <2>7. w.in_use
    BY <2>2
  <2> HIDE DEF w
  <2>8. ExactFor(w, M \cup I, q)
    BY <2>5, <2>6, <2>7 DEF ExactFor
  <2> QED
    BY <2>8 DEF w
<1> QED
  BY <1>1, <1>2

\* Cells that leave one (remove_cell).
LEMMA DisownedExact ==
  ASSUME NEW v, NEW M \in SUBSET Cells, NEW q, NEW I \in SUBSET Cells,
         ExactFor(v, M, q)
  PROVE  ExactFor(Disowned(v, I, q), M \ I, q)
<1> DEFINE old == I \cap v.mask
           w == Disowned(v, I, q)
           D == 0 .. n_positions - 1
<1>1. CASE ~v.in_use
  <2>1. v = NoView /\ M = {} /\ M \ I = {}
    BY <1>1 DEF ExactFor
  <2>2. w = NoView
    BY <1>1, <2>1 DEF Disowned
  <2> HIDE DEF w
  <2>3. ExactFor(w, M \ I, q)
    BY <2>1, <2>2, NoViewExact
  <2> QED
    BY <2>3 DEF w
<1>2. CASE v.in_use
  <2>1. v \in ViewType
    BY DEF ExactFor
  <2>2. /\ w.in_use = v.in_use
        /\ w.unavailable = (v.unavailable \/ \E i \in old : ~InDomain(q[i]))
        /\ w.mask = v.mask \ old
        /\ w.count = [k \in D |-> v.count[k] - Cardinality(Ranked(old, q, k))]
        /\ w = [in_use |-> w.in_use, unavailable |-> w.unavailable,
                mask |-> w.mask, count |-> w.count]
    BY <1>2, <2>1 DEF Disowned, ViewType, Ranked
  <2>3. old \in SUBSET Cells
    OBVIOUS
  <2>4. \A k \in D : Cardinality(Ranked(old, q, k)) \in Nat
    <3> HIDE DEF old
    <3> QED
      BY <2>3, RankedCounts
  <2>5. w \in ViewType
    <3>1. w.in_use \in BOOLEAN /\ w.mask \in SUBSET Cells
      BY <2>1, <2>2, <2>3 DEF ViewType
    <3>2. w.unavailable \in BOOLEAN
      BY <2>1, <2>2 DEF ViewType
    <3>3. w.count \in [D -> Int]
      <4>1. v.count \in [D -> Int]
        BY <2>1 DEF ViewType
      <4> HIDE DEF w, old, D
      <4>2. \A k \in D : v.count[k] - Cardinality(Ranked(old, q, k)) \in Int
        BY <2>4, <4>1
      <4> QED
        BY <2>2, <4>2
    <3> HIDE DEF w
    <3> QED
      BY <2>2, <3>1, <3>2, <3>3 DEF ViewType
  <2>6. ASSUME ~w.unavailable
        PROVE  /\ w.mask = M \ I
               /\ \A k \in D : w.count[k] = Cardinality(Ranked(M \ I, q, k))
    <3>1. ~v.unavailable
      BY <2>2, <2>6
    <3>2. v.mask = M /\ \A k \in D : v.count[k] = Cardinality(Ranked(M, q, k))
      BY <1>2, <3>1 DEF ExactFor
    <3>3. old = I \cap M
      BY <3>2
    <3>4. \A k \in D : w.count[k] = v.count[k] - Cardinality(Ranked(old, q, k))
      <4> HIDE DEF w, old, D
      <4> QED
        BY <2>2
    <3> HIDE DEF w, old, D
    <3>5. w.mask = M \ I
      BY <2>2, <3>2, <3>3
    <3>6. ASSUME NEW k \in D
          PROVE  w.count[k] = Cardinality(Ranked(M \ I, q, k))
      <4>1. PICK A \in SUBSET Cells, B \in SUBSET Cells : A = M \ I /\ B = I \cap M
        OBVIOUS
      <4>2. Cardinality(Ranked(M, q, k))
              = Cardinality(Ranked(A, q, k)) + Cardinality(Ranked(B, q, k))
        BY <4>1, RankedLess
      <4>3. Cardinality(Ranked(A, q, k)) \in Nat /\ Cardinality(Ranked(B, q, k)) \in Nat
        BY RankedCounts
      <4>4. w.count[k] = Cardinality(Ranked(M, q, k)) - Cardinality(Ranked(B, q, k))
        BY <3>2, <3>3, <3>4, <4>1
      <4>5. w.count[k] = Cardinality(Ranked(A, q, k))
        BY <4>2, <4>3, <4>4
      <4> QED
        BY <4>1, <4>5
    <3> QED
      BY <3>5, <3>6
  <2>7. w.in_use
    BY <1>2, <2>2
  <2> HIDE DEF w
  <2>8. ExactFor(w, M \ I, q)
    BY <2>5, <2>6, <2>7 DEF ExactFor
  <2> QED
    BY <2>8 DEF w
<1> QED
  BY <1>1, <1>2

\* A view that is released when its sequence is gone.
LEMMA ReleasedExact ==
  ASSUME NEW c, Good(c), NEW s \in Seqs, NEW v, NEW q,
         ExactFor(v, Members(c, s), q)
  PROVE  ExactFor(Released(c, v, s), Members(c, s), q)
<1>1. CASE c.seq_pos[s] = {}
  <2>1. Members(c, s) = {}
    <3>1. Entries(c, Members(c, s)) = {}
      BY <1>1 DEF Good, Agree
    <3>2. \A i \in Members(c, s) : <<c.pos[i], i>> \in Entries(c, Members(c, s))
      BY DEF Entries
    <3> QED
      BY <3>1, <3>2
  <2>2. ExactFor(NoView, {}, q)
    BY NoViewExact
  <2> QED
    BY <1>1, <2>1, <2>2 DEF Released
<1>2. CASE c.seq_pos[s] # {}
  BY <1>2 DEF Released
<1> QED
  BY <1>1, <1>2

\* All views are exact for the cells c.
Viewed(o, c) ==
    /\ o = [s \in Seqs |-> o[s]]
    /\ \A s \in Seqs : ExactFor(o[s], Members(c, s), c.pos)

\* Shifts do not matter.
LEMMA ViewedSame ==
  ASSUME NEW o, NEW c, NEW d, Viewed(o, c), Same(c, d)
  PROVE  Viewed(o, d)
<1>1. \A s : Members(c, s) = Members(d, s)
  BY DEF Members, Same
<1> QED
  BY <1>1 DEF Viewed, Same

\* The cells that s leaves.
Leaves(gone, s) == {i \in Cells : s \in gone[i]}

\* The sequences gone[i] leave cell i, and the view of one of them follows.
LEMMA DropExact ==
  ASSUME NEW c, Good(c), NEW gone \in [Cells -> SUBSET Seqs],
         \A i \in Cells : gone[i] \subseteq c.seq[i],
         NEW s \in Seqs, NEW v, ExactFor(v, Members(c, s), c.pos),
         NEW d, d = Drop(c, gone),
         NEW w, w = Disowned(v, Leaves(gone, s), c.pos)
  PROVE  /\ ExactFor(w, Members(d, s), d.pos)
         /\ ExactFor(Released(d, w, s), Members(d, s), d.pos)
         /\ (\A i \in Cells : s \notin gone[i]) => ExactFor(v, Members(d, s), d.pos)
<1>1. PICK I \in SUBSET Cells : I = Leaves(gone, s) /\ I = {i \in Cells : s \in gone[i]}
  BY DEF Leaves
<1>2. PICK M \in SUBSET Cells : M = Members(c, s)
  BY DEF Members
<1>3. PICK N \in SUBSET Cells : N = Members(d, s)
  BY DEF Members
<1>4. \A i \in Cells : /\ d.seq[i] = c.seq[i] \ gone[i]
                       /\ d.pos[i] = IF i \in Emptied(c, gone) THEN -1 ELSE c.pos[i]
  BY DEF Drop
<1>5. N = M \ I
  BY <1>1, <1>2, <1>3, <1>4 DEF Members
<1>6. \A i \in N : d.pos[i] = c.pos[i]
  <2>1. \A i \in N : i \in Cells /\ s \in c.seq[i] \ gone[i]
    BY <1>3, <1>4 DEF Members
  <2>2. \A i \in N : i \notin Emptied(c, gone)
    BY <2>1 DEF Emptied
  <2> QED
    BY <1>4, <2>1, <2>2
<1>7. ExactFor(w, M \ I, c.pos)
  BY <1>1, <1>2, DisownedExact
<1>8. ExactFor(w, N, d.pos)
  BY <1>5, <1>6, <1>7, ExactSame
<1>9. Good(d)
  BY DropGood
<1>10. ExactFor(Released(d, w, s), Members(d, s), d.pos)
  BY <1>3, <1>8, <1>9, ReleasedExact
<1>11. ASSUME \A i \in Cells : s \notin gone[i]
       PROVE  ExactFor(v, Members(d, s), d.pos)
  <2>1. N = M
    BY <1>1, <1>5, <1>11
  <2> QED
    BY <1>2, <1>3, <1>6, <2>1, ExactSame
<1> QED
  BY <1>3, <1>8, <1>10, <1>11

\* The same for all views: each follows, and may be released.
LEMMA DropViewed ==
  ASSUME NEW c, Good(c), NEW gone \in [Cells -> SUBSET Seqs],
         \A i \in Cells : gone[i] \subseteq c.seq[i],
         NEW o, Viewed(o, c), NEW d, d = Drop(c, gone),
         NEW n, n = [s \in Seqs |-> n[s]],
         \A s \in Seqs :
            \/ n[s] = Disowned(o[s], Leaves(gone, s), c.pos)
            \/ n[s] = Released(d, Disowned(o[s], Leaves(gone, s), c.pos), s)
            \/ n[s] = o[s] /\ \A i \in Cells : s \notin gone[i]
  PROVE  Viewed(n, d)
<1> SUFFICES ASSUME NEW s \in Seqs
             PROVE  ExactFor(n[s], Members(d, s), d.pos)
  BY DEF Viewed
<1>1. PICK v : v = o[s]
  OBVIOUS
<1>2. PICK w : w = Disowned(v, Leaves(gone, s), c.pos)
  OBVIOUS
<1>3. ExactFor(v, Members(c, s), c.pos)
  BY <1>1 DEF Viewed
<1>4. /\ ExactFor(w, Members(d, s), d.pos)
      /\ ExactFor(Released(d, w, s), Members(d, s), d.pos)
      /\ (\A i \in Cells : s \notin gone[i]) => ExactFor(v, Members(d, s), d.pos)
  BY <1>2, <1>3, DropExact
<1>5. \/ n[s] = w \/ n[s] = Released(d, w, s)
      \/ n[s] = v /\ \A i \in Cells : s \notin gone[i]
  BY <1>1, <1>2
<1> QED
  BY <1>4, <1>5

\* A view, while a slot is overwritten.
LEMMA PlacedExact ==
  ASSUME NEW c, Good(c), NEW u \in Ubatch, NEW slot \in [1 .. Len(u) -> Cells],
         NEW s \in Seqs, NEW v, ExactFor(v, Members(c, s), c.pos),
         NEW t, t = Placed(c, slot, u),
         NEW lost, lost = Disowned(v, SlotCells(slot) \cap Members(c, s), c.pos)
  PROVE  ExactFor(Owned(lost, {i \in SlotCells(slot) : s \in t.seq[i]}, t.pos),
                  Members(t, s), t.pos)
<1>1. PICK I \in SUBSET Cells : I = SlotCells(slot)
  BY DEF SlotCells
<1>2. PICK M \in SUBSET Cells : M = Members(c, s)
  BY DEF Members
<1>3. PICK L \in SUBSET Cells : L = I \cap M
  OBVIOUS
<1>4. PICK K \in SUBSET Cells : K = M \ L
  OBVIOUS
<1>5. PICK J \in SUBSET Cells : J = {i \in I : s \in t.seq[i]}
  OBVIOUS
<1>6. \A i \in Cells \ I : t.pos[i] = c.pos[i] /\ t.seq[i] = c.seq[i]
  BY <1>1, PlacedGood
<1>7. ExactFor(lost, K, c.pos)
  BY <1>1, <1>2, <1>3, <1>4, DisownedExact
<1>8. ExactFor(lost, K, t.pos)
  <2>1. \A i \in K : t.pos[i] = c.pos[i]
    BY <1>3, <1>4, <1>6
  <2> QED
    BY <1>7, <2>1, ExactSame
<1>9. J \cap K = {}
  BY <1>3, <1>4, <1>5
<1>10. ExactFor(Owned(lost, J, t.pos), K \cup J, t.pos)
  BY <1>8, <1>9, OwnedExact
<1>11. K \cup J = Members(t, s)
  BY <1>2, <1>3, <1>4, <1>5, <1>6 DEF Members
<1> QED
  BY <1>1, <1>5, <1>10, <1>11

\* The views are exact for the cells as they are without trial placements.
ViewInv == armed => Viewed(owner, IF Planning THEN before.cells ELSE cells)

\* Sequences that leave cells: seq_rm, seq_keep and a failed graph.
LEMMA EditViews ==
  ASSUME IInv, armed, Viewed(owner, cells), EditRm \/ EditRmAll \/ EditKeep
  PROVE  Viewed(owner, cells)'
<1>1. Good(cells) /\ \A i \in Cells : cells.seq[i] \subseteq Seqs
  BY GoodIff DEF IInv, Good, CellsType
<1>2. \E gone \in [Cells -> SUBSET Seqs] :
         /\ \A i \in Cells : gone[i] \subseteq cells.seq[i]
         /\ cells' = Drop(cells, gone)
         /\ \/ owner' = Disown(cells, gone)
            \/ \E s \in Seqs :
                 owner' = [Disown(cells, gone) EXCEPT ![s] = Released(cells', @, s)]
  <2>1. CASE EditRm
    <3>1. PICK s \in Seqs, p0 \in 0 .. MaxPos, p1 \in 1 .. MaxPos + 1 : SeqRm(s, p0, p1)
      BY <2>1 DEF EditRm
    <3> DEFINE gone == [i \in Cells |-> IF PosIn(cells, i, p0, p1)
                                        THEN cells.seq[i] \cap {s} ELSE {}]
    <3>2. gone \in [Cells -> SUBSET Seqs] /\ \A i \in Cells : gone[i] \subseteq cells.seq[i]
      BY <1>1
    <3>3. /\ cells' = Drop(cells, gone)
          /\ owner' = [Disown(cells, gone) EXCEPT ![s] = Released(cells', @, s)]
      BY <3>1 DEF SeqRm
    <3> HIDE DEF gone
    <3> QED
      BY <3>2, <3>3
  <2>2. CASE EditRmAll
    <3>1. PICK p0 \in 0 .. MaxPos, p1 \in 1 .. MaxPos + 1 :
             LET gone == [i \in Cells |-> IF PosIn(cells, i, p0, p1)
                                          THEN cells.seq[i] ELSE {}]
             IN  cells' = Drop(cells, gone) /\ owner' = Disown(cells, gone)
      BY <2>2 DEF EditRmAll
    <3> DEFINE gone == [i \in Cells |-> IF PosIn(cells, i, p0, p1)
                                        THEN cells.seq[i] ELSE {}]
    <3>2. gone \in [Cells -> SUBSET Seqs] /\ \A i \in Cells : gone[i] \subseteq cells.seq[i]
      BY <1>1
    <3>3. cells' = Drop(cells, gone) /\ owner' = Disown(cells, gone)
      BY <3>1
    <3> HIDE DEF gone
    <3> QED
      BY <3>2, <3>3
  <2>3. CASE EditKeep
    <3>1. PICK s \in Seqs :
             LET gone == [i \in Cells |-> cells.seq[i] \ {s}]
             IN  cells' = Drop(cells, gone) /\ owner' = Disown(cells, gone)
      BY <2>3 DEF EditKeep
    <3> DEFINE gone == [i \in Cells |-> cells.seq[i] \ {s}]
    <3>2. gone \in [Cells -> SUBSET Seqs] /\ \A i \in Cells : gone[i] \subseteq cells.seq[i]
      BY <1>1
    <3>3. cells' = Drop(cells, gone) /\ owner' = Disown(cells, gone)
      BY <3>1
    <3> HIDE DEF gone
    <3> QED
      BY <3>2, <3>3
  <2> QED
    BY <2>1, <2>2, <2>3
<1>3. PICK gone \in [Cells -> SUBSET Seqs] :
         /\ \A i \in Cells : gone[i] \subseteq cells.seq[i]
         /\ cells' = Drop(cells, gone)
         /\ \/ owner' = Disown(cells, gone)
            \/ \E s \in Seqs :
                 owner' = [Disown(cells, gone) EXCEPT ![s] = Released(cells', @, s)]
  BY <1>2
<1>4. PICK o, n, c, d : o = owner /\ n = owner' /\ c = cells /\ d = cells'
  OBVIOUS
<1>5. PICK w : w = Disown(c, gone)
  OBVIOUS
<1>6. /\ w = [s \in Seqs |-> w[s]]
      /\ \A s \in Seqs : w[s] = Disowned(o[s], Leaves(gone, s), c.pos)
  BY <1>4, <1>5 DEF Disown, Leaves
<1>7. n = w \/ \E s \in Seqs : n = [w EXCEPT ![s] = Released(d, w[s], s)]
  BY <1>3, <1>4, <1>5
<1>8. n = [s \in Seqs |-> n[s]] /\ \A s \in Seqs : n[s] = w[s] \/ n[s] = Released(d, w[s], s)
  BY <1>6, <1>7
<1>9. Viewed(n, d)
  BY <1>1, <1>3, <1>4, <1>6, <1>8, DropViewed
<1> QED
  BY <1>4, <1>9 DEF Viewed, ExactFor, Members

\* The rows of a failed ubatch leave, and with them the views of sequences
\* that are gone.
LEMMA FailViews ==
  ASSUME IInv, armed, Viewed(owner, cells), ComputeFails
  PROVE  Viewed(owner, cells)'
<1> DEFINE u == Head(ubs)
           from(s) == {u[k].pos : k \in {j \in DOMAIN u : s = Min(u[j].seqs)}}
           gone == [i \in Cells |-> {s \in cells.seq[i] :
                                       from(s) # {} /\ cells.pos[i] >= Min(from(s))}]
<1>1. Good(cells) /\ \A i \in Cells : cells.seq[i] \subseteq Seqs
  BY GoodIff DEF IInv, Good, CellsType
<1>2. gone \in [Cells -> SUBSET Seqs] /\ \A i \in Cells : gone[i] \subseteq cells.seq[i]
  <2> HIDE DEF from
  <2> QED
    BY <1>1
<1>3. \A s \in Seqs : from(s) = {} => \A i \in Cells : s \notin gone[i]
  <2> HIDE DEF from
  <2> QED
    OBVIOUS
<1>4. /\ cells' = Drop(cells, gone)
      /\ owner' = [s \in Seqs |-> IF from(s) = {} THEN owner[s]
                                  ELSE Released(cells', Disown(cells, gone)[s], s)]
  BY DEF ComputeFails
<1> HIDE DEF from, gone
<1>5. \A s \in Seqs : Disown(cells, gone)[s]
                        = Disowned(owner[s], Leaves(gone, s), cells.pos)
  BY DEF Disown, Leaves
<1>6. PICK o, n, c, d, g : /\ o = owner /\ n = owner' /\ c = cells /\ d = cells'
                           /\ g = gone
  OBVIOUS
<1>7. /\ n = [s \in Seqs |-> n[s]]
      /\ \A s \in Seqs :
           \/ n[s] = Released(d, Disowned(o[s], Leaves(g, s), c.pos), s)
           \/ n[s] = o[s] /\ \A i \in Cells : s \notin g[i]
  BY <1>3, <1>4, <1>5, <1>6
<1>8. /\ Good(c) /\ g \in [Cells -> SUBSET Seqs]
      /\ \A i \in Cells : g[i] \subseteq c.seq[i]
      /\ Viewed(o, c) /\ d = Drop(c, g)
  BY <1>1, <1>2, <1>4, <1>6
<1>9. Viewed(n, d)
  BY <1>7, <1>8, DropViewed
<1> QED
  BY <1>6, <1>9 DEF Viewed, ExactFor, Members

\* seq_cp: the copies join the view of the target.
LEMMA CopyViews ==
  ASSUME IInv, armed, Viewed(owner, cells), EditCp
  PROVE  Viewed(owner, cells)'
<1>1. PICK s \in Seqs, t \in Seqs, p0 \in 0 .. MaxPos, p1 \in 1 .. MaxPos + 1 :
         LET I == {i \in Cells : /\ PosIn(cells, i, p0, p1)
                                 /\ s \in cells.seq[i] /\ t \notin cells.seq[i]}
         IN  /\ s # t /\ p0 < p1
             /\ cells' = Share(cells, I, t)
             /\ owner' = IF armed
                         THEN [owner EXCEPT ![t] = Owned(@, I, cells.pos)]
                         ELSE owner
  BY Zenon DEF EditCp
<1>2. PICK I \in SUBSET Cells :
         /\ \A i \in I : t \notin cells.seq[i]
         /\ cells' = Share(cells, I, t)
         /\ owner' = [owner EXCEPT ![t] = Owned(@, I, cells.pos)]
  <2> DEFINE I == {i \in Cells : /\ PosIn(cells, i, p0, p1)
                                 /\ s \in cells.seq[i] /\ t \notin cells.seq[i]}
  <2>1. I \in SUBSET Cells /\ \A i \in I : t \notin cells.seq[i]
    OBVIOUS
  <2>2. /\ cells' = Share(cells, I, t)
        /\ owner' = [owner EXCEPT ![t] = Owned(@, I, cells.pos)]
    BY <1>1
  <2> HIDE DEF I
  <2> QED
    BY <2>1, <2>2
<1>3. PICK o, n, c, d : o = owner /\ n = owner' /\ c = cells /\ d = cells'
  OBVIOUS
<1>4. /\ c \in CellsType /\ d = Share(c, I, t) /\ Viewed(o, c)
      /\ n = [o EXCEPT ![t] = Owned(@, I, c.pos)]
      /\ \A i \in I : t \notin c.seq[i]
  BY <1>2, <1>3 DEF IInv, TypeOK
<1>5. /\ d.pos = c.pos
      /\ \A i \in Cells : d.seq[i] = IF i \in I THEN c.seq[i] \cup {t} ELSE c.seq[i]
  BY <1>4 DEF Share, CellsType
<1>6. n = [q \in Seqs |-> n[q]] /\ n[t] = Owned(o[t], I, c.pos)
  BY <1>4 DEF Viewed
<1>7. ASSUME NEW q \in Seqs
      PROVE  ExactFor(n[q], Members(d, q), d.pos)
  <2>1. CASE q = t
    <3>1. PICK M \in SUBSET Cells : M = Members(c, t)
      BY DEF Members
    <3>2. I \cap M = {} /\ M \cup I = Members(d, t)
      BY <1>4, <1>5, <3>1 DEF Members
    <3>3. PICK v : v = o[t]
      OBVIOUS
    <3>4. ExactFor(v, M, c.pos)
      BY <1>4, <3>1, <3>3 DEF Viewed
    <3>5. ExactFor(Owned(v, I, c.pos), M \cup I, c.pos)
      BY <3>2, <3>4, OwnedExact
    <3> QED
      BY <1>5, <1>6, <2>1, <3>2, <3>3, <3>5
  <2>2. CASE q # t
    <3>1. n[q] = o[q]
      BY <1>4, <2>2 DEF Viewed
    <3>2. Members(d, q) = Members(c, q)
      BY <1>5, <2>2 DEF Members
    <3> QED
      BY <1>4, <1>5, <3>1, <3>2 DEF Viewed
  <2> QED
    BY <2>1, <2>2
<1>8. Viewed(n, d)
  BY <1>6, <1>7 DEF Viewed
<1> QED
  BY <1>3, <1>8 DEF Viewed, ExactFor, Members

\* An empty cache, as clear leaves it.
LEMMA EmptyViewed ==
  ASSUME NEW o, o = [s \in Seqs |-> NoView]
  PROVE  Viewed(o, EmptyCells)
<1>1. \A s \in Seqs : Members(EmptyCells, s) = {}
  BY DEF Members, EmptyCells
<1>2. o = [s \in Seqs |-> o[s]] /\ \A s \in Seqs : o[s] = NoView
  OBVIOUS
<1>3. ExactFor(NoView, {}, EmptyCells.pos)
  BY NoViewExact
<1> QED
  BY <1>1, <1>2, <1>3 DEF Viewed

\* An ubatch is placed for good: the views follow the overwriting, the tokens
\* and the purge.
LEMMA CommitViews ==
  ASSUME IInv, PlanHolds, armed, Viewed(owner, cells), Commit
  PROVE  Viewed(owner, cells)'
<1> DEFINE u0 == Head(ubs)
           slot0 == Head(plan)
           I0 == SlotCells(slot0)
           placed0 == Placed(cells, slot0, u0)
           purged0 == Purged(cells, slot0, placed0)
           lost0(s)  == Disowned(owner[s], I0 \cap Members(cells, s), cells.pos)
           added0(s) == Owned(lost0(s), {i \in I0 : s \in placed0.seq[i]}, placed0.pos)
           trimmed0(s) == Disowned(added0(s), Leaves(purged0, s), placed0.pos)
<1>1. /\ u0 \in Ubatch /\ slot0 \in [1 .. Len(u0) -> Cells]
  BY CommitFacts DEF Commit
<1>2. /\ cells' = Drop(placed0, purged0)
      /\ owner' = [s \in Seqs |-> IF PosMaxRm(cells, slot0, s) = -1 THEN added0(s)
                                  ELSE Released(cells', trimmed0(s), s)]
  BY DEF Commit, ApplyUbatch, Leaves
<1>3. PICK o, n, c, d, u, slot, t, gone :
         /\ o = owner /\ n = owner' /\ c = cells /\ d = cells'
         /\ u = u0 /\ slot = slot0 /\ t = placed0 /\ gone = purged0
  OBVIOUS
<1>4. Good(c) /\ Viewed(o, c)
  BY <1>3, GoodIff DEF IInv
<1>5. u \in Ubatch /\ slot \in [1 .. Len(u) -> Cells]
  BY <1>1, <1>3
<1>6. t = Placed(c, slot, u) /\ gone = Purged(c, slot, t) /\ d = Drop(t, gone)
  BY <1>2, <1>3
<1>7. PICK lost : lost = [s \in Seqs |-> Disowned(o[s], SlotCells(slot) \cap Members(c, s), c.pos)]
  OBVIOUS
<1>8. PICK added : added = [s \in Seqs |->
         Owned(lost[s], {i \in SlotCells(slot) : s \in t.seq[i]}, t.pos)]
  OBVIOUS
<1>9. /\ n = [s \in Seqs |-> n[s]]
      /\ \A s \in Seqs : n[s] = IF PosMaxRm(c, slot, s) = -1 THEN added[s]
                                ELSE Released(d, Disowned(added[s], Leaves(gone, s), t.pos), s)
  <2>1. \A s \in Seqs : lost[s] = lost0(s)
    BY <1>3, <1>7
  <2>2. \A s \in Seqs : added[s] = added0(s)
    BY <1>3, <1>8, <2>1
  <2>3. \A s \in Seqs : Disowned(added[s], Leaves(gone, s), t.pos) = trimmed0(s)
    BY <1>3, <2>2
  <2>4. \A s : PosMaxRm(c, slot, s) = PosMaxRm(cells, slot0, s)
    BY <1>3
  <2> HIDE DEF lost0, added0, trimmed0, slot0
  <2> QED
    BY <1>2, <1>3, <2>2, <2>3, <2>4
<1> HIDE DEF u0, slot0, I0, placed0, purged0, lost0, added0, trimmed0
<1>10. Good(t)
  BY <1>4, <1>5, <1>6, PlacedGood
<1>11. Viewed(added, t)
  <2>1. ASSUME NEW s \in Seqs PROVE ExactFor(added[s], Members(t, s), t.pos)
    <3>1. PICK v, w : v = o[s] /\ w = lost[s]
      OBVIOUS
    <3>2. ExactFor(v, Members(c, s), c.pos)
      BY <1>4, <3>1 DEF Viewed
    <3>3. w = Disowned(v, SlotCells(slot) \cap Members(c, s), c.pos)
      BY <1>7, <3>1
    <3>4. ExactFor(Owned(w, {i \in SlotCells(slot) : s \in t.seq[i]}, t.pos),
                   Members(t, s), t.pos)
      BY <1>4, <1>5, <1>6, <3>2, <3>3, PlacedExact
    <3> QED
      BY <1>8, <3>1, <3>4
  <2> QED
    BY <1>8, <2>1 DEF Viewed
<1>12. gone \in [Cells -> SUBSET Seqs] /\ \A i \in Cells : gone[i] \subseteq t.seq[i]
  BY <1>6, <1>10 DEF Purged, Good, CellsType
<1>13. \A s \in Seqs : PosMaxRm(c, slot, s) = -1 => \A i \in Cells : s \notin gone[i]
  <2> SUFFICES ASSUME NEW s \in Seqs, PosMaxRm(c, slot, s) = -1,
                      NEW i \in Cells, s \in gone[i]
               PROVE  FALSE
    OBVIOUS
  <2>1. PosIn(t, i, 0, -1 + 1)
    BY <1>6 DEF Purged
  <2>2. t.pos[i] \in Int
    BY <1>10 DEF Good, CellsType
  <2> QED
    BY <2>1, <2>2 DEF PosIn
<1>14. \A s \in Seqs :
         \/ n[s] = Released(d, Disowned(added[s], Leaves(gone, s), t.pos), s)
         \/ n[s] = added[s] /\ \A i \in Cells : s \notin gone[i]
  BY <1>9, <1>13
<1>15. n = [s \in Seqs |-> n[s]] /\ d = Drop(t, gone)
  BY <1>6, <1>9
<1>16. Viewed(n, d)
  BY <1>10, <1>11, <1>12, <1>14, <1>15, DropViewed
<1> QED
  BY <1>3, <1>16 DEF Viewed, ExactFor, Members

\* The views are exact after every step.
LEMMA NextViews ==
  ASSUME IInv, PlanInv, ViewInv, [Next]_vars
  PROVE  ViewInv'
<1>1. SUFFICES ASSUME armed, armed'
               PROVE  Viewed(owner, IF Planning THEN before.cells ELSE cells)'
  <2>1. kind' = kind
    BY DEF vars, Next, EditRm, EditRmAll, EditCp, EditKeep, EditClear, EditAdd,
           EditDiv, Decode, PlanUbatch, PlanRestore, Abandon, Commit, Computed,
           ComputeFails
  <2>2. armed' <=> armed
    BY <2>1 DEF armed
  <2> QED
    BY <2>2 DEF ViewInv
<1>2. Viewed(owner, IF Planning THEN before.cells ELSE cells)
  BY <1>1 DEF ViewInv
<1>3. ASSUME ~Planning', Viewed(owner, cells)'
      PROVE  Viewed(owner, IF Planning THEN before.cells ELSE cells)'
  BY <1>3
<1>4. CASE EditRm \/ EditRmAll \/ EditKeep \/ EditClear \/ EditCp \/ EditAdd \/ EditDiv
  <2>1. ~Planning /\ ~Planning'
    BY <1>4 DEF EditRm, EditRmAll, EditCp, EditKeep, EditClear, EditAdd, EditDiv,
                MayEdit, Planning
  <2>2. Viewed(owner, cells)
    BY <1>2, <2>1
  <2>3. ~EditAdd /\ ~EditDiv
    BY <1>1 DEF EditAdd, EditDiv
  <2>4. CASE EditClear
    <3>1. PICK o, d : o = owner' /\ d = cells'
      OBVIOUS
    <3>2. o = [s \in Seqs |-> NoView] /\ d = EmptyCells
      BY <2>4, <3>1 DEF EditClear
    <3>3. Viewed(o, d)
      BY <3>2, EmptyViewed
    <3> QED
      BY <2>1, <3>1, <3>3 DEF Viewed, ExactFor, Members
  <2> QED
    BY <1>1, <1>3, <1>4, <2>1, <2>2, <2>3, <2>4, EditViews, CopyViews
<1>5. CASE Decode
  <2>1. ~Planning /\ Planning' /\ before'.cells = cells' /\ owner' = owner
    BY <1>5 DEF Decode, Planning
  <2>2. Same(cells, cells')
    BY <1>5 DEF Decode, KShift, KShiftFails, Same, IInv, TypeOK, CellsType
  <2>3. PICK o, c, d : o = owner /\ c = cells /\ d = cells'
    OBVIOUS
  <2>4. Viewed(o, d)
    BY <1>2, <2>1, <2>2, <2>3, ViewedSame
  <2> QED
    BY <2>1, <2>3, <2>4 DEF Viewed, ExactFor, Members
<1>6. CASE PlanUbatch \/ PlanRestore
  <2>1. Planning /\ owner' = owner
    BY <1>6 DEF PlanUbatch, PlanRestore, Planning
  <2>2. CASE phase' \in {"commit", "idle"}
    <3>1. PICK o, c, d : o = owner /\ c = before.cells /\ d = cells'
      OBVIOUS
    <3>2. Same(c, d)
      BY <1>6, <2>2, <3>1, PlanEnds
    <3>3. Viewed(o, d)
      BY <1>2, <2>1, <3>1, <3>2, ViewedSame
    <3>4. ~Planning'
      BY <2>2 DEF Planning
    <3> QED
      BY <2>1, <3>1, <3>3, <3>4 DEF Viewed, ExactFor, Members
  <2>3. CASE phase' \notin {"commit", "idle"}
    <3>1. UNCHANGED before /\ Planning'
      BY <1>6, <2>1, <2>3 DEF PlanUbatch, PlanRestore, EndDecode, Planning
    <3>2. PICK o, c : o = owner /\ c = before.cells
      OBVIOUS
    <3>3. Viewed(o, c)
      BY <1>2, <2>1, <3>2
    <3> QED
      BY <2>1, <3>1, <3>2, <3>3 DEF Viewed, ExactFor, Members
  <2> QED
    BY <2>2, <2>3
<1>7. CASE Abandon \/ Computed \/ UNCHANGED vars
  <2>1. /\ owner' = owner /\ cells' = cells
        /\ \/ ~Planning /\ ~Planning'
           \/ (Planning' <=> Planning) /\ before' = before
    BY <1>7 DEF Abandon, Computed, EndDecode, Planning, vars
  <2>2. PICK o, c : o = owner /\ c = IF Planning THEN before.cells ELSE cells
    OBVIOUS
  <2>3. Viewed(o, c)
    BY <1>2, <2>2
  <2>4. o = owner' /\ c = IF Planning' THEN before'.cells ELSE cells'
    BY <2>1, <2>2
  <2> QED
    BY <2>3, <2>4 DEF Viewed, ExactFor, Members
<1>8. CASE Commit
  <2>1. ~Planning /\ ~Planning'
    BY <1>8 DEF Commit, Planning
  <2> QED
    BY <1>1, <1>2, <1>3, <1>8, <2>1, PlanNext, CommitViews
<1>9. CASE ComputeFails
  <2>1. ~Planning /\ ~Planning'
    BY <1>9 DEF ComputeFails, EndDecode, Planning
  <2> QED
    BY <1>1, <1>2, <1>3, <1>9, <2>1, FailViews
<1> QED
  BY <1>4, <1>5, <1>6, <1>7, <1>8, <1>9 DEF Next

\* Whatever edits, decodes, failed graphs and planning without a slot came
\* before: a view of the ownership index that says it is available enumerates
\* the cells of its sequence and counts their positions exactly.
THEOREM ViewsExact == Spec => []OwnershipExact
<1>1. Init => ViewInv
  <2> SUFFICES ASSUME Init PROVE Viewed(owner, cells) /\ ~Planning
    BY DEF ViewInv
  <2> QED
    BY EmptyViewed DEF Init, Planning
<1>2. IInv /\ PlanInv /\ [Next]_vars => PlanInv'
  BY NextPlan
<1>3. IInv /\ PlanInv /\ ViewInv /\ [Next]_vars => ViewInv'
  BY NextViews
<1>4. ViewInv => OwnershipExact
  <2> SUFFICES ASSUME ViewInv, armed, Settled, NEW s \in Seqs
               PROVE  LET v == owner[s] IN
                      /\ ~v.in_use => Members(cells, s) = {}
                      /\ v.in_use /\ ~v.unavailable =>
                           /\ v.mask = Members(cells, s)
                           /\ \A p \in DOMAIN v.count :
                                v.count[p] = Cardinality({i \in v.mask : cells.pos[i] = p})
    BY DEF OwnershipExact
  <2>1. ExactFor(owner[s], Members(cells, s), cells.pos)
    BY DEF ViewInv, Settled, Planning, Viewed
  <2>2. \A v \in ViewType : DOMAIN v.count = 0 .. n_positions - 1
    BY DEF ViewType
  <2> QED
    BY <2>1, <2>2 DEF ExactFor, Ranked
<1> QED
  BY <1>1, <1>2, <1>3, <1>4, InitIInv, InitPlan, NextIInv, PTL DEF Spec

=============================================================================
