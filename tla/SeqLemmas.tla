----------------------------- MODULE SeqLemmas -----------------------------
(***************************************************************************)
(* Facts about sequences that the proofs of several components need: what  *)
(* erasing an element of a queue leaves, what a loop that copies some of   *)
(* the elements of a container collects, and the elements of a set in some *)
(* order.  The loop is a recursive function; its table is reasoned about   *)
(* by induction over the set of the numbers up to which a fact holds.      *)
(***************************************************************************)
EXTENDS Integers, SequencesExt, SequenceTheorems, FiniteSetTheorems,
        WellFoundedInduction, TLAPS

\* Induction over the natural numbers, for the set T of the numbers that have
\* the property in question.
LEMMA NatSetInduction ==
  ASSUME NEW T, 0 \in T, \A n \in Nat : n \in T => n + 1 \in T
  PROVE  Nat \subseteq T
<1> SUFFICES ASSUME Nat \ T # {} PROVE FALSE
  OBVIOUS
<1>1. PICK x \in Nat \ T : \A y \in Nat \ T : ~ (<<y, x>> \in OpToRel(<, Nat))
  BY NatLessThanWellFounded, WFMin
<1> HIDE <1>1
<1>a. x \in Nat /\ x \notin T
  BY <1>1
<1>2. x # 0 /\ x - 1 \in Nat /\ x - 1 < x /\ (x - 1) + 1 = x
  BY <1>a
<1>3. x - 1 \notin T
  BY <1>1, <1>2
<1>4. <<x - 1, x>> \in Nat \X Nat /\ <<x - 1, x>>[1] < <<x - 1, x>>[2]
  BY <1>2
<1>5. <<x - 1, x>> \in OpToRel(<, Nat)
  BY <1>4, Zenon DEF OpToRel
<1> QED
  BY <1>1, <1>2, <1>3, <1>5

\* What is left of a queue when the element at i was erased.
LEMMA RemoveAtFacts ==
  ASSUME NEW S, NEW s \in Seq(S), NEW i \in 1..Len(s)
  PROVE  /\ RemoveAt(s, i) \in Seq(S)
         /\ Len(RemoveAt(s, i)) = Len(s) - 1
         /\ \A k \in 1..(Len(s) - 1) :
              RemoveAt(s, i)[k] = IF k < i THEN s[k] ELSE s[k + 1]
<1>1. Len(s) \in Nat /\ \A j \in 1..Len(s) : s[j] \in S
  BY ElementOfSeq, LenProperties
<1> DEFINE a == SubSeq(s, 1, i - 1)
           b == SubSeq(s, i + 1, Len(s))
<1>2. /\ a \in Seq(S) /\ Len(a) = i - 1
      /\ \A k \in 1..(i - 1) : a[k] = s[k]
  BY <1>1, SubSeqProperties
<1>3. /\ b \in Seq(S) /\ Len(b) = Len(s) - i
      /\ \A k \in 1..(Len(s) - i) : b[k] = s[i + k]
  BY <1>1, SubSeqProperties
<1>4. RemoveAt(s, i) = a \o b
  BY DEF RemoveAt
<1> HIDE DEF a, b
<1>5. /\ a \o b \in Seq(S) /\ Len(a \o b) = Len(s) - 1
      /\ \A k \in 1..(Len(a) + Len(b)) : (a \o b)[k] = IF k <= Len(a) THEN a[k] ELSE b[k - Len(a)]
  <2>1. /\ a \o b \in Seq(S) /\ Len(a \o b) = Len(a) + Len(b)
        /\ \A k \in 1..(Len(a) + Len(b)) : (a \o b)[k] = IF k <= Len(a) THEN a[k] ELSE b[k - Len(a)]
    BY <1>2, <1>3, ConcatProperties, Zenon
  <2> QED
    BY <1>1, <1>2, <1>3, <2>1
<1>6. ASSUME NEW k \in 1..(Len(s) - 1)
      PROVE  (a \o b)[k] = IF k < i THEN s[k] ELSE s[k + 1]
  <2>1. k \in 1..(Len(a) + Len(b))
    BY <1>1, <1>2, <1>3
  <2>2. (a \o b)[k] = IF k <= Len(a) THEN a[k] ELSE b[k - Len(a)]
    BY <1>5, <2>1
  <2>3. CASE k < i
    BY <1>1, <1>2, <2>2, <2>3
  <2>4. CASE ~(k < i)
    <3>1. k - Len(a) \in 1..(Len(s) - i) /\ i + (k - Len(a)) = k + 1 /\ ~(k <= Len(a))
      BY <1>1, <1>2, <2>4
    <3> QED
      BY <1>3, <2>2, <2>4, <3>1
  <2> QED
    BY <2>3, <2>4
<1> QED
  BY <1>4, <1>5, <1>6

-----------------------------------------------------------------------------
(* Copying the elements at some positions.                                 *)

\* f is the table of the loop that copies the elements of s at the positions
\* K: f[i] is what it has collected after the first i.
CopyTable(f, s, K, m) ==
  f = [i \in 0..m |-> IF i = 0 THEN <<>>
                      ELSE IF i \in K THEN Append(f[i - 1], s[i])
                      ELSE f[i - 1]]

\* The recursive definition of such a table has a solution.
LEMMA CopyTableExists ==
  ASSUME NEW s, NEW K, NEW m \in Nat
  PROVE  \E f : CopyTable(f, s, K, m)
<1> DEFINE T == {n \in Nat : \E f : CopyTable(f, s, K, n)}
<1>1. 0 \in T
  <2>1. CopyTable([i \in 0..0 |-> <<>>], s, K, 0)
    BY DEF CopyTable
  <2> QED
    BY <2>1
<1>2. ASSUME NEW n \in Nat, n \in T PROVE n + 1 \in T
  <2>1. PICK f : CopyTable(f, s, K, n)
    BY <1>2
  <2> DEFINE last == IF n + 1 \in K THEN Append(f[n], s[n + 1]) ELSE f[n]
             g == [i \in 0..(n + 1) |-> IF i = n + 1 THEN last ELSE f[i]]
  <2>2. \A i \in 0..(n + 1) : g[i] = IF i = 0 THEN <<>>
                                     ELSE IF i \in K THEN Append(g[i - 1], s[i])
                                     ELSE g[i - 1]
    <3> SUFFICES ASSUME NEW i \in 0..(n + 1)
                 PROVE  g[i] = IF i = 0 THEN <<>>
                               ELSE IF i \in K THEN Append(g[i - 1], s[i])
                               ELSE g[i - 1]
      OBVIOUS
    <3>1. CASE i = n + 1
      BY <3>1
    <3>2. CASE i # n + 1
      <4>1. i \in 0..n /\ g[i] = f[i] /\ (i # 0 => i - 1 \in 0..n /\ g[i - 1] = f[i - 1])
        BY <3>2
      <4>2. f[i] = IF i = 0 THEN <<>>
                   ELSE IF i \in K THEN Append(f[i - 1], s[i])
                   ELSE f[i - 1]
        BY <2>1, <4>1 DEF CopyTable
      <4> QED
        BY <4>1, <4>2
    <3> QED
      BY <3>1, <3>2
  <2>3. CopyTable(g, s, K, n + 1)
    BY <2>2 DEF CopyTable
  <2> QED
    BY <2>3
<1> HIDE DEF T
<1>3. Nat \subseteq T
  BY <1>1, <1>2, NatSetInduction
<1> QED
  BY <1>3 DEF T

\* u holds the elements of s at those of its first m positions that are in K,
\* in their order: g tells where each one was.
CopyOf(u, g, s, K, m, S) ==
  /\ u \in Seq(S)
  /\ g \in [1..Len(u) -> (1..m) \cap K]
  /\ \A k \in 1..Len(u) : u[k] = s[g[k]]
  /\ \A k, l \in 1..Len(u) : k < l => g[k] < g[l]
  /\ \A j \in (1..m) \cap K : \E k \in 1..Len(u) : g[k] = j

\* One more element: it is copied or not.
LEMMA CopyOneMore ==
  ASSUME NEW S, NEW s \in Seq(S), NEW K, NEW m \in Nat, m < Len(s),
         NEW u, NEW g, CopyOf(u, g, s, K, m, S)
  PROVE  IF m + 1 \in K THEN \E h : CopyOf(Append(u, s[m + 1]), h, s, K, m + 1, S)
         ELSE CopyOf(u, g, s, K, m + 1, S)
<1>1. m + 1 \in 1..Len(s) /\ s[m + 1] \in S
  BY ElementOfSeq
<1>2. CASE m + 1 \notin K
  <2>1. (1..(m + 1)) \cap K = (1..m) \cap K
    BY <1>2
  <2> QED
    BY <1>2, <2>1 DEF CopyOf
<1>3. CASE m + 1 \in K
  <2> DEFINE v == Append(u, s[m + 1])
             h == [k \in 1..Len(v) |-> IF k = Len(v) THEN m + 1 ELSE g[k]]
  <2>1. /\ u \in Seq(S) /\ Len(u) \in Nat /\ v \in Seq(S) /\ Len(v) = Len(u) + 1
        /\ \A k \in 1..Len(u) : v[k] = u[k]
        /\ v[Len(v)] = s[m + 1]
    BY <1>1, AppendProperties DEF CopyOf
  <2>2. \A k \in 1..Len(u) : g[k] \in (1..m) \cap K
    BY DEF CopyOf
  <2> HIDE DEF v
  <2>3. h \in [1..Len(v) -> (1..(m + 1)) \cap K]
    BY <1>3, <2>1, <2>2
  <2>4. \A k \in 1..Len(v) : v[k] = s[h[k]]
    BY <2>1 DEF CopyOf
  <2>5. \A k, l \in 1..Len(v) : k < l => h[k] < h[l]
    <3> SUFFICES ASSUME NEW k \in 1..Len(v), NEW l \in 1..Len(v), k < l
                 PROVE  h[k] < h[l]
      OBVIOUS
    <3>1. k \in 1..Len(u) /\ h[k] = g[k] /\ g[k] \in 1..m
      BY <2>1, <2>2
    <3>2. CASE l = Len(v)
      BY <3>1, <3>2
    <3>3. CASE l # Len(v)
      <4>1. l \in 1..Len(u) /\ h[l] = g[l]
        BY <2>1, <3>3
      <4>2. g[k] < g[l]
        BY <3>1, <4>1 DEF CopyOf
      <4> QED
        BY <3>1, <4>1, <4>2
    <3> QED
      BY <3>2, <3>3
  <2>6. \A j \in (1..(m + 1)) \cap K : \E k \in 1..Len(v) : h[k] = j
    <3> SUFFICES ASSUME NEW j \in (1..(m + 1)) \cap K
                 PROVE  \E k \in 1..Len(v) : h[k] = j
      OBVIOUS
    <3>1. CASE j = m + 1
      BY <2>1, <3>1
    <3>2. CASE j # m + 1
      <4>1. PICK k \in 1..Len(u) : g[k] = j
        BY <3>2 DEF CopyOf
      <4> QED
        BY <2>1, <4>1
    <3> QED
      BY <3>1, <3>2
  <2> HIDE DEF h
  <2>7. CopyOf(v, h, s, K, m + 1, S)
    BY <2>1, <2>3, <2>4, <2>5, <2>6 DEF CopyOf
  <2> QED
    BY <1>3, <2>7 DEF v
<1> QED
  BY <1>2, <1>3

\* What the loop has collected in the end are the elements at K.
LEMMA CopyTableCopies ==
  ASSUME NEW S, NEW s \in Seq(S), NEW K, NEW f, CopyTable(f, s, K, Len(s))
  PROVE  \E g : CopyOf(f[Len(s)], g, s, K, Len(s), S)
<1> DEFINE T == {n \in Nat : n <= Len(s) => \E g : CopyOf(f[n], g, s, K, n, S)}
<1>1. Len(s) \in Nat
  BY LenProperties
<1>2. \A i \in 0..Len(s) : f[i] = IF i = 0 THEN <<>>
                                  ELSE IF i \in K THEN Append(f[i - 1], s[i])
                                  ELSE f[i - 1]
  BY Zenon DEF CopyTable
<1>3. 0 \in T
  <2>1. CopyOf(<<>>, [k \in {} |-> 0], s, K, 0, S)
    BY DEF CopyOf
  <2>2. f[0] = <<>>
    BY <1>1, <1>2
  <2> QED
    BY <2>1, <2>2
<1>4. ASSUME NEW n \in Nat, n \in T PROVE n + 1 \in T
  <2> SUFFICES ASSUME n + 1 <= Len(s)
               PROVE  \E g : CopyOf(f[n + 1], g, s, K, n + 1, S)
    OBVIOUS
  <2>1. PICK g : CopyOf(f[n], g, s, K, n, S)
    BY <1>1, <1>4
  <2>2. f[n + 1] = IF n + 1 \in K THEN Append(f[n], s[n + 1]) ELSE f[n]
    BY <1>1, <1>2
  <2>3. n < Len(s)
    BY <1>1
  <2>4. IF n + 1 \in K THEN \E h : CopyOf(Append(f[n], s[n + 1]), h, s, K, n + 1, S)
        ELSE CopyOf(f[n], g, s, K, n + 1, S)
    BY <2>1, <2>3, CopyOneMore
  <2> QED
    BY <2>2, <2>4
<1> HIDE DEF T
<1>5. Len(s) \in T
  BY <1>1, <1>3, <1>4, NatSetInduction
<1> QED
  BY <1>5 DEF T

-----------------------------------------------------------------------------
(* The elements of a set in some order.                                    *)

\* Every element of a finite set is somewhere in the order chosen for it.
LEMMA SetToSeqFacts ==
  ASSUME NEW S, IsFiniteSet(S)
  PROVE  SetToSeq(S) \in Seq(S) /\ ToSet(SetToSeq(S)) = S
<1> DEFINE n == Cardinality(S)
           f == SetToSeq(S)
<1>1. n \in Nat
  BY FS_CardinalityType
<1>2. f \in [1..n -> S] /\ \A a, b \in 1..n : f[a] = f[b] => a = b
  <2>1. \E g : g \in Bijection(1..n, S)
    BY FS_CardinalityType DEF ExistsBijection
  <2>2. PICK g : g \in [1..n -> S] /\ \A a, b \in 1..n : g[a] = g[b] => a = b
    BY <2>1 DEF Bijection, Injection, IsInjective
  <2>3. g \in [1..n -> S] /\ IsInjective(g)
    BY <2>2 DEF IsInjective
  <2>4. f \in [1..n -> S] /\ IsInjective(f)
    BY <2>3 DEF SetToSeq
  <2> QED
    BY <2>4 DEF IsInjective
<1> HIDE DEF f
<1>3. f \in Seq(S)
  BY <1>1, <1>2
<1>4. \A x \in S : \E k \in 1..n : f[k] = x
  <2> DEFINE R == {f[k] : k \in 1..n}
  <2>1. f \in Bijection(1..n, R)
    BY <1>2 DEF Bijection, Injection, Surjection, IsInjective
  <2>2. IsFiniteSet(1..n) /\ Cardinality(1..n) = n
    BY <1>1, FS_Interval
  <2>3. ExistsBijection(1..n, R)
    BY <2>1, Zenon DEF ExistsBijection
  <2>4. IsFiniteSet(R) /\ Cardinality(R) = n
    BY <2>2, <2>3, FS_Bijection
  <2>5. R \subseteq S
    BY <1>2
  <2> HIDE DEF R
  <2>6. R = S
    BY <2>4, <2>5, FS_Subset
  <2> QED
    BY <2>6 DEF R
<1>5. ToSet(f) = S
  BY <1>2, <1>4 DEF ToSet
<1> QED
  BY <1>3, <1>5 DEF f

=============================================================================
