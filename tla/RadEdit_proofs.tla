--------------------------- MODULE RadEdit_proofs ---------------------------
(***************************************************************************)
(* Deleting what was added gives the description back.                     *)
(***************************************************************************)
EXTENDS RadDocuments, RadTools_proofs, OrderLemmas
-----------------------------------------------------------------------------
(* Positions.  A position and an ancestor of it, the element n levels down *)
(* the way; a position that moves to another sibling.                      *)

Pre(r, n)      == SubSeq(r, 1, n)
Shift(r, k, d) == [r EXCEPT ![k] = @ + d]

LEMMA PositionFacts ==
    ASSUME NEW r \in Positions
    PROVE  Len(r) \in Nat /\ \A i \in 1..Len(r) : r[i] \in Nat /\ r[i] > 0
BY DEF Positions

LEMMA SamePosition ==
    ASSUME NEW r \in Positions, NEW s \in Positions, Len(r) = Len(s),
           \A i \in 1..Len(r) : r[i] = s[i]
    PROVE  r = s
BY DEF Positions

LEMMA Root ==
    <<>> \in Positions /\ Len(<<>>) = 0
<1>1. <<>> \in Seq(Nat \ {0}) /\ Len(<<>>) = 0
  OBVIOUS
<1> QED BY <1>1 DEF Positions

LEMMA PreFacts ==
    ASSUME NEW r \in Positions, NEW n \in 0..Len(r)
    PROVE  /\ Pre(r, n) \in Positions /\ Len(Pre(r, n)) = n
           /\ \A i \in 1..n : Pre(r, n)[i] = r[i]
<1>1. Len(r) \in Nat
  BY PositionFacts
<1> QED BY <1>1 DEF Positions, Pre

LEMMA AppendFacts ==
    ASSUME NEW p \in Positions, NEW i \in Nat, i > 0
    PROVE  /\ Append(p, i) \in Positions /\ Len(Append(p, i)) = Len(p) + 1
           /\ \A k \in 1..Len(p) : Append(p, i)[k] = p[k]
           /\ Append(p, i)[Len(p) + 1] = i
BY DEF Positions

LEMMA AppendSame ==
    ASSUME NEW p \in Positions, NEW b \in Positions, NEW i \in Nat, i > 0,
           NEW j \in Nat, j > 0, Append(p, i) = Append(b, j)
    PROVE  p = b /\ i = j
<1>1. PICK r \in Positions : r = Append(p, i)
  BY AppendFacts
<1>2. Len(r) = Len(p) + 1 /\ r[Len(p) + 1] = i /\ \A k \in 1..Len(p) : r[k] = p[k]
  BY <1>1, AppendFacts
<1>3. Len(r) = Len(b) + 1 /\ r[Len(b) + 1] = j /\ \A k \in 1..Len(b) : r[k] = b[k]
  BY <1>1, AppendFacts
<1>4. Len(p) = Len(b)
  BY <1>2, <1>3, PositionFacts
<1>5. \A k \in 1..Len(p) : p[k] = b[k]
  BY <1>2, <1>3, <1>4
<1> QED BY <1>2, <1>3, <1>4, <1>5, SamePosition

LEMMA PreWhole ==
    ASSUME NEW r \in Positions
    PROVE  Pre(r, Len(r)) = r /\ Pre(r, 0) = <<>>
<1>1. Len(r) \in Nat
  BY PositionFacts
<1>2. Pre(r, Len(r)) = r
  BY <1>1, PreFacts, SamePosition
<1>3. <<>> \in Positions /\ Len(<<>>) = 0
  BY DEF Positions
<1>4. Pre(r, 0) = <<>>
  BY <1>1, <1>3, PreFacts, SamePosition
<1> QED BY <1>2, <1>4

LEMMA PrePre ==
    ASSUME NEW r \in Positions, NEW m \in 0..Len(r), NEW n \in 0..m
    PROVE  Pre(Pre(r, m), n) = Pre(r, n)
<1>1. Len(r) \in Nat /\ n \in 0..Len(r)
  BY PositionFacts
<1>2. PICK s \in Positions : s = Pre(r, m)
  BY PreFacts
<1>3. Len(s) = m /\ \A i \in 1..m : s[i] = r[i]
  BY <1>2, PreFacts
<1>4. PICK t \in Positions : t = Pre(s, n)
  BY <1>3, PreFacts
<1>5. PICK u \in Positions : u = Pre(r, n)
  BY <1>1, PreFacts
<1>6. Len(t) = n /\ Len(u) = n /\ \A i \in 1..n : t[i] = s[i] /\ u[i] = r[i]
  BY <1>1, <1>3, <1>4, <1>5, PreFacts
<1>7. t = u
  BY <1>1, <1>3, <1>6, SamePosition
<1> QED BY <1>2, <1>4, <1>5, <1>7

LEMMA PreNext ==
    ASSUME NEW r \in Positions, NEW n \in 1..Len(r)
    PROVE  Pre(r, n) = Append(Pre(r, n - 1), r[n])
<1>1. Len(r) \in Nat /\ n - 1 \in 0..Len(r) /\ n \in 0..Len(r) /\ r[n] \in Nat /\ r[n] > 0
  BY PositionFacts
<1>2. PICK s \in Positions : s = Pre(r, n - 1)
  BY <1>1, PreFacts
<1>3. Len(s) = n - 1 /\ \A i \in 1..(n - 1) : s[i] = r[i]
  BY <1>1, <1>2, PreFacts
<1>4. PICK t \in Positions : t = Append(s, r[n])
  BY <1>1, AppendFacts
<1>5. PICK u \in Positions : u = Pre(r, n)
  BY <1>1, PreFacts
<1>6. Len(u) = n /\ \A i \in 1..n : u[i] = r[i]
  BY <1>1, <1>5, PreFacts
<1>7. Len(t) = n /\ (\A i \in 1..(n - 1) : t[i] = s[i]) /\ t[n] = r[n]
  BY <1>1, <1>3, <1>4, AppendFacts
<1>8. t = u
  BY <1>1, <1>3, <1>6, <1>7, SamePosition
<1> QED BY <1>2, <1>4, <1>5, <1>8

\* An ancestor of a child is one of its parent, or the child.
LEMMA PreAppend ==
    ASSUME NEW p \in Positions, NEW i \in Nat, i > 0, NEW n \in 0..Len(p)
    PROVE  Pre(Append(p, i), n) = Pre(p, n)
<1>1. PICK r \in Positions : r = Append(p, i)
  BY AppendFacts
<1>2. Len(r) = Len(p) + 1 /\ (\A k \in 1..Len(p) : r[k] = p[k]) /\ Len(p) \in Nat
  BY <1>1, AppendFacts, PositionFacts
<1>3. n \in 0..Len(r)
  BY <1>2
<1>4. PICK s \in Positions : s = Pre(r, n)
  BY <1>3, PreFacts
<1>5. PICK t \in Positions : t = Pre(p, n)
  BY PreFacts
<1>6. Len(s) = n /\ Len(t) = n /\ \A k \in 1..n : s[k] = r[k] /\ t[k] = p[k]
  BY <1>3, <1>4, <1>5, PreFacts
<1>7. s = t
  BY <1>2, <1>6, SamePosition
<1> QED BY <1>1, <1>4, <1>5, <1>7

LEMMA ShiftFacts ==
    ASSUME NEW r \in Positions, NEW k \in 1..Len(r), NEW d \in Int, r[k] + d > 0
    PROVE  /\ Shift(r, k, d) \in Positions /\ Len(Shift(r, k, d)) = Len(r)
           /\ Shift(r, k, d)[k] = r[k] + d
           /\ \A i \in 1..Len(r) : i # k => Shift(r, k, d)[i] = r[i]
<1>1. Len(r) \in Nat /\ \A i \in 1..Len(r) : r[i] \in Nat /\ r[i] > 0
  BY PositionFacts
<1>2. r[k] + d \in Nat \ {0}
  BY <1>1
<1> QED BY <1>1, <1>2 DEF Positions, Shift

LEMMA ShiftPre ==
    ASSUME NEW r \in Positions, NEW k \in 1..Len(r), NEW d \in Int, r[k] + d > 0,
           NEW n \in 0..Len(r)
    PROVE  Pre(Shift(r, k, d), n) = IF n < k THEN Pre(r, n) ELSE Shift(Pre(r, n), k, d)
<1>1. Len(r) \in Nat
  BY PositionFacts
<1>2. PICK s \in Positions : s = Shift(r, k, d)
  BY ShiftFacts
<1>3. Len(s) = Len(r) /\ s[k] = r[k] + d /\ \A i \in 1..Len(r) : i # k => s[i] = r[i]
  BY <1>2, ShiftFacts
<1>4. PICK t \in Positions : t = Pre(s, n)
  BY <1>3, PreFacts
<1>5. PICK u \in Positions : u = Pre(r, n)
  BY PreFacts
<1>6. Len(t) = n /\ Len(u) = n /\ \A i \in 1..n : t[i] = s[i] /\ u[i] = r[i]
  BY <1>3, <1>4, <1>5, PreFacts
<1>7. CASE n < k
  <2>1. t = u
    BY <1>1, <1>3, <1>6, <1>7, SamePosition
  <2> QED BY <1>2, <1>4, <1>5, <1>7, <2>1
<1>8. CASE ~(n < k)
  <2>1. k \in 1..Len(u) /\ u[k] + d > 0
    BY <1>1, <1>6, <1>8
  <2>2. PICK v \in Positions : v = Shift(u, k, d)
    BY <2>1, ShiftFacts
  <2>3. Len(v) = n /\ v[k] = u[k] + d /\ \A i \in 1..n : i # k => v[i] = u[i]
    BY <1>6, <2>1, <2>2, ShiftFacts
  <2>4. t = v
    BY <1>1, <1>3, <1>6, <2>1, <2>3, SamePosition
  <2> QED BY <1>2, <1>4, <1>5, <1>8, <2>2, <2>4
<1> QED BY <1>7, <1>8

LEMMA ShiftShift ==
    ASSUME NEW r \in Positions, NEW k \in 1..Len(r), NEW d \in Int, r[k] + d > 0,
           NEW e \in Int, r[k] + d + e > 0
    PROVE  Shift(Shift(r, k, d), k, e) = Shift(r, k, d + e)
<1>1. Len(r) \in Nat /\ r[k] \in Nat
  BY PositionFacts
<1>2. PICK s \in Positions : s = Shift(r, k, d)
  BY ShiftFacts
<1>3. Len(s) = Len(r) /\ s[k] = r[k] + d /\ \A i \in 1..Len(r) : i # k => s[i] = r[i]
  BY <1>2, ShiftFacts
<1>4. PICK t \in Positions : t = Shift(s, k, e)
  BY <1>1, <1>3, ShiftFacts
<1>5. Len(t) = Len(s) /\ t[k] = s[k] + e /\ \A i \in 1..Len(s) : i # k => t[i] = s[i]
  BY <1>1, <1>3, <1>4, ShiftFacts
<1>6. d + e \in Int /\ r[k] + (d + e) > 0
  BY <1>1
<1>7. PICK u \in Positions : u = Shift(r, k, d + e)
  BY <1>6, ShiftFacts
<1>8. Len(u) = Len(r) /\ u[k] = r[k] + (d + e) /\ \A i \in 1..Len(r) : i # k => u[i] = r[i]
  BY <1>6, <1>7, ShiftFacts
<1>9. t = u
  BY <1>1, <1>3, <1>5, <1>8, SamePosition
<1> QED BY <1>2, <1>4, <1>7, <1>9

LEMMA ShiftZero ==
    ASSUME NEW r \in Positions, NEW k \in 1..Len(r)
    PROVE  Shift(r, k, 0) = r
<1>1. Len(r) \in Nat /\ r[k] \in Nat /\ r[k] > 0
  BY PositionFacts
<1>2. PICK s \in Positions : s = Shift(r, k, 0)
  BY <1>1, ShiftFacts
<1>3. Len(s) = Len(r) /\ s[k] = r[k] + 0 /\ \A i \in 1..Len(r) : i # k => s[i] = r[i]
  BY <1>1, <1>2, ShiftFacts
<1>4. s = r
  BY <1>1, <1>3, SamePosition
<1> QED BY <1>2, <1>4

\* A child that moves is another child.
LEMMA ShiftAppend ==
    ASSUME NEW p \in Positions, NEW i \in Nat, i > 0, NEW d \in Int, i + d > 0
    PROVE  Shift(Append(p, i), Len(p) + 1, d) = Append(p, i + d)
<1>1. Len(p) \in Nat
  BY PositionFacts
<1>2. PICK r \in Positions : r = Append(p, i)
  BY AppendFacts
<1>3. Len(r) = Len(p) + 1 /\ (\A k \in 1..Len(p) : r[k] = p[k]) /\ r[Len(p) + 1] = i
  BY <1>2, AppendFacts
<1>4. PICK s \in Positions : s = Shift(r, Len(p) + 1, d)
  BY <1>1, <1>3, ShiftFacts
<1>5. /\ Len(s) = Len(r) /\ s[Len(p) + 1] = i + d
      /\ \A k \in 1..Len(r) : k # Len(p) + 1 => s[k] = r[k]
  BY <1>1, <1>3, <1>4, ShiftFacts
<1>6. PICK t \in Positions : t = Append(p, i + d)
  <2>1. i + d \in Nat
    OBVIOUS
  <2> QED BY <2>1, AppendFacts
<1>7. Len(t) = Len(p) + 1 /\ (\A k \in 1..Len(p) : t[k] = p[k]) /\ t[Len(p) + 1] = i + d
  BY <1>6, AppendFacts
<1>8. s = t
  BY <1>1, <1>3, <1>5, <1>7, SamePosition
<1> QED BY <1>2, <1>4, <1>6, <1>8

\* Beneath an element that moves, a child moves with it.
LEMMA ShiftAbove ==
    ASSUME NEW p \in Positions, NEW i \in Nat, i > 0, NEW k \in 1..Len(p),
           NEW d \in Int, p[k] + d > 0
    PROVE  Shift(Append(p, i), k, d) = Append(Shift(p, k, d), i)
<1>1. Len(p) \in Nat
  BY PositionFacts
<1>2. PICK r \in Positions : r = Append(p, i)
  BY AppendFacts
<1>3. Len(r) = Len(p) + 1 /\ (\A j \in 1..Len(p) : r[j] = p[j]) /\ r[Len(p) + 1] = i
  BY <1>2, AppendFacts
<1>4. PICK s \in Positions : s = Shift(r, k, d)
  BY <1>1, <1>3, ShiftFacts
<1>5. Len(s) = Len(r) /\ s[k] = r[k] + d /\ \A j \in 1..Len(r) : j # k => s[j] = r[j]
  BY <1>1, <1>3, <1>4, ShiftFacts
<1>6. PICK q \in Positions : q = Shift(p, k, d)
  BY ShiftFacts
<1>7. Len(q) = Len(p) /\ q[k] = p[k] + d /\ \A j \in 1..Len(p) : j # k => q[j] = p[j]
  BY <1>6, ShiftFacts
<1>8. PICK t \in Positions : t = Append(q, i)
  BY AppendFacts
<1>9. Len(t) = Len(q) + 1 /\ (\A j \in 1..Len(q) : t[j] = q[j]) /\ t[Len(q) + 1] = i
  BY <1>8, AppendFacts
<1>10. \A j \in 1..Len(s) : s[j] = t[j]
  <2> TAKE j \in 1..Len(s)
  <2>1. CASE j = Len(p) + 1
    BY <1>1, <1>3, <1>5, <1>7, <1>9, <2>1
  <2>2. CASE j # Len(p) + 1
    <3>1. j \in 1..Len(p) /\ r[j] = p[j] /\ t[j] = q[j]
      BY <1>1, <1>3, <1>5, <1>7, <1>9, <2>2
    <3> QED BY <1>1, <1>3, <1>5, <1>7, <3>1
  <2> QED BY <2>1, <2>2
<1>11. s = t
  BY <1>3, <1>5, <1>7, <1>9, <1>10, SamePosition
<1> QED BY <1>2, <1>4, <1>6, <1>8, <1>11

-----------------------------------------------------------------------------
(* Trees: children and ancestors.                                          *)

Count(t, p) == Cardinality(Children(t, p))

\* The children of p are numbered from 1 to n.
HasChildren(t, p, n) ==
    n \in Nat /\ \A i \in Nat : i > 0 => (Append(p, i) \in DOMAIN t <=> i <= n)

LEMMA ChildrenAre ==
    ASSUME NEW t, DOMAIN t \subseteq Positions, NEW p \in Positions, NEW i
    PROVE  i \in Children(t, p) <=> i \in Nat /\ i > 0 /\ Append(p, i) \in DOMAIN t
<1>1. ASSUME i \in Children(t, p) PROVE i \in Nat /\ i > 0 /\ Append(p, i) \in DOMAIN t
  <2>1. PICK q \in DOMAIN t : Len(q) > Len(p) /\ i = q[Len(p) + 1]
    BY <1>1 DEF Children
  <2>2. q \in Positions /\ Len(q) \in Nat /\ Len(p) \in Nat
    BY PositionFacts
  <2>3. i \in Nat /\ i > 0
    BY <2>1, <2>2, PositionFacts
  <2> QED BY <1>1, <2>3 DEF Children
<1>2. ASSUME i \in Nat, i > 0, Append(p, i) \in DOMAIN t PROVE i \in Children(t, p)
  <2>1. PICK q \in DOMAIN t : q = Append(p, i)
    BY <1>2
  <2>2. Len(q) = Len(p) + 1 /\ q[Len(p) + 1] = i /\ Len(p) \in Nat
    BY <1>2, <2>1, AppendFacts, PositionFacts
  <2>3. i \in {q_1[Len(p) + 1] : q_1 \in {q_1 \in DOMAIN t : Len(q_1) > Len(p)}}
    BY <2>2
  <2> QED BY <1>2, <2>3 DEF Children
<1> QED BY <1>1, <1>2

LEMMA CountIs ==
    ASSUME NEW t, DOMAIN t \subseteq Positions, NEW p \in Positions, NEW n,
           HasChildren(t, p, n)
    PROVE  /\ IsFiniteSet(Children(t, p)) /\ Count(t, p) = n
           /\ Children(t, p) = 1..Cardinality(Children(t, p))
<1>0. n \in Nat
  BY DEF HasChildren
<1>1. \A i : i \in Children(t, p) <=> i \in 1..n
  <2> TAKE i
  <2>1. i \in Children(t, p) <=> i \in Nat /\ i > 0 /\ Append(p, i) \in DOMAIN t
    BY ChildrenAre
  <2> QED BY <1>0, <2>1 DEF HasChildren
<1>2. Children(t, p) = 1..n
  BY <1>1
<1>3. IsFiniteSet(1..n) /\ Cardinality(1..n) = n
  BY <1>0, FS_Interval
<1> QED BY <1>2, <1>3 DEF Count

LEMMA CountFacts ==
    ASSUME NEW t, IsForest(t), NEW p \in DOMAIN t \cup {<<>>}
    PROVE  HasChildren(t, p, Count(t, p)) /\ Children(t, p) = 1..Count(t, p)
<1>0. p \in Positions /\ DOMAIN t \subseteq Positions
  BY Root DEF IsForest
<1>1. IsFiniteSet(Children(t, p)) /\ Children(t, p) = 1..Count(t, p)
  BY DEF IsForest, Count
<1>2. Count(t, p) \in Nat
  BY <1>1, FS_CardinalityType DEF Count
<1>3. ASSUME NEW i \in Nat, i > 0 PROVE Append(p, i) \in DOMAIN t <=> i <= Count(t, p)
  <2>1. i \in Children(t, p) <=> i \in Nat /\ i > 0 /\ Append(p, i) \in DOMAIN t
    BY <1>0, ChildrenAre
  <2> QED BY <1>1, <1>2, <1>3, <2>1
<1> QED BY <1>1, <1>2, <1>3 DEF HasChildren

LEMMA SameCount ==
    ASSUME NEW t, NEW p, NEW m, NEW n, HasChildren(t, p, m), HasChildren(t, p, n)
    PROVE  m = n
<1>1. CASE m < n
  <2>1. n \in Nat /\ n > 0 /\ ~(n <= m)
    BY <1>1 DEF HasChildren
  <2> QED BY <2>1 DEF HasChildren
<1>2. CASE n < m
  <2>1. m \in Nat /\ m > 0 /\ ~(m <= n)
    BY <1>2 DEF HasChildren
  <2> QED BY <2>1 DEF HasChildren
<1> QED BY <1>1, <1>2 DEF HasChildren

LEMMA MakesForest ==
    ASSUME NEW t, DOMAIN t \subseteq Positions,
           t \in [DOMAIN t -> [kind : Kinds, name : Names]],
           \A p \in DOMAIN t : \A n \in 1..Len(p) : Pre(p, n) \in DOMAIN t,
           \A p \in DOMAIN t \cup {<<>>} : \E n : HasChildren(t, p, n)
    PROVE  IsForest(t)
<1>1. ASSUME NEW p \in DOMAIN t \cup {<<>>}
      PROVE  /\ IsFiniteSet(Children(t, p))
             /\ Children(t, p) = 1..Cardinality(Children(t, p))
  <2>1. p \in Positions
    BY Root
  <2>2. PICK n : HasChildren(t, p, n)
    OBVIOUS
  <2> QED BY <2>1, <2>2, CountIs
<1> QED BY <1>1 DEF IsForest, Pre

LEMMA Ancestors ==
    ASSUME NEW t, IsTree(t), NEW p \in DOMAIN t, NEW n \in 0..Len(p)
    PROVE  Pre(p, n) \in DOMAIN t
<1>1. p \in Positions /\ <<>> \in DOMAIN t
  BY DEF IsTree, IsForest
<1>2. CASE n = 0
  BY <1>1, <1>2, PreWhole
<1>3. CASE n # 0
  <2>1. n \in 1..Len(p)
    BY <1>1, <1>3, PositionFacts
  <2> QED BY <2>1 DEF IsTree, IsForest, Pre
<1> QED BY <1>2, <1>3

\* The way down goes from an element to one of its children.
LEMMA WayDown ==
    ASSUME NEW t, IsTree(t), NEW p \in DOMAIN t, NEW n \in 1..Len(p)
    PROVE  p[n] <= Count(t, Pre(p, n - 1))
<1>1. p \in Positions /\ Len(p) \in Nat /\ p[n] \in Nat /\ p[n] > 0
  BY PositionFacts DEF IsTree, IsForest
<1>2. Pre(p, n - 1) \in DOMAIN t /\ Pre(p, n) \in DOMAIN t
  <2>1. n - 1 \in 0..Len(p) /\ n \in 0..Len(p)
    BY <1>1
  <2> QED BY <2>1, Ancestors
<1>3. Append(Pre(p, n - 1), p[n]) \in DOMAIN t
  BY <1>1, <1>2, PreNext
<1>4. HasChildren(t, Pre(p, n - 1), Count(t, Pre(p, n - 1)))
  BY <1>2, CountFacts DEF IsTree
<1> QED BY <1>1, <1>3, <1>4 DEF HasChildren

-----------------------------------------------------------------------------
(* Unlink.                                                                 *)

Down(a, r) == IF Behind(a, 0, r) THEN Shift(r, Len(a), 1) ELSE r
Up(a, q)   == IF Behind(a, 1, q) THEN Shift(q, Len(a), -1) ELSE q

LEMMA BehindIs ==
    ASSUME NEW a, NEW q, NEW d
    PROVE  Behind(a, d, q) <=> /\ Len(q) >= Len(a)
                               /\ Pre(q, Len(a) - 1) = Pre(a, Len(a) - 1)
                               /\ q[Len(a)] >= a[Len(a)] + d
BY DEF Behind, Front, Last, Pre

LEMMA PrefixIs ==
    ASSUME NEW a \in Positions, a # <<>>, NEW q \in Positions
    PROVE  IsPrefix(a, q) <=> /\ Len(q) >= Len(a)
                              /\ Pre(q, Len(a) - 1) = Pre(a, Len(a) - 1)
                              /\ q[Len(a)] = a[Len(a)]
<1>1. Len(a) \in Nat /\ Len(q) \in Nat /\ Len(a) # 0
  BY PositionFacts DEF Positions
<1>2. Len(a) \in 1..Len(a) /\ Len(a) - 1 \in 0..Len(a)
  BY <1>1
<1>3. IsPrefix(a, q) <=> Len(q) >= Len(a) /\ Pre(q, Len(a)) = a
  BY <1>1, PreWhole DEF IsPrefix, Pre
<1>4. CASE Len(q) >= Len(a)
  <2>1. Len(a) \in 1..Len(q) /\ Len(a) - 1 \in 0..Len(q)
    BY <1>1, <1>4
  <2>2. Pre(q, Len(a)) = Append(Pre(q, Len(a) - 1), q[Len(a)])
    BY <2>1, PreNext
  <2>3. a = Append(Pre(a, Len(a) - 1), a[Len(a)])
    BY <1>2, PreNext, PreWhole
  <2>4. PICK p \in Positions : p = Pre(q, Len(a) - 1)
    BY <2>1, PreFacts
  <2>5. PICK b \in Positions : b = Pre(a, Len(a) - 1)
    BY <1>2, PreFacts
  <2>6. PICK i \in Nat, j \in Nat : i = q[Len(a)] /\ j = a[Len(a)] /\ i > 0 /\ j > 0
    BY <1>2, <2>1, PositionFacts
  <2>7. Append(p, i) = Append(b, j) <=> p = b /\ i = j
    BY <2>6, AppendSame
  <2> QED BY <1>3, <1>4, <2>2, <2>3, <2>4, <2>5, <2>6, <2>7
<1> QED BY <1>3, <1>4

\* Down finds what has moved up, and Up brings it back.
LEMMA DownUp ==
    ASSUME NEW a \in Positions, a # <<>>, NEW q \in Positions, ~IsPrefix(a, q)
    PROVE  Up(a, q) \in Positions /\ Down(a, Up(a, q)) = q
<1> DEFINE k == Len(a)
<1>1. Len(a) \in Nat /\ Len(q) \in Nat /\ Len(a) # 0 /\ k \in 1..Len(a)
  BY PositionFacts DEF Positions
<1>2. a[k] \in Nat /\ a[k] > 0
  BY <1>1, PositionFacts
<1>3. CASE Behind(a, 1, q)
  <2>1. k \in 1..Len(q) /\ q[k] \in Nat /\ q[k] >= a[k] + 1 /\ Pre(q, k - 1) = Pre(a, k - 1)
    BY <1>1, <1>3, BehindIs, PositionFacts
  <2>2. q[k] + (-1) > 0 /\ k - 1 \in 0..Len(q) /\ k - 1 < k
    BY <1>1, <1>2, <2>1
  <2>3. PICK r \in Positions : r = Shift(q, k, -1)
    BY <2>1, <2>2, ShiftFacts
  <2>4. Len(r) = Len(q) /\ r[k] = q[k] + (-1) /\ Pre(r, k - 1) = Pre(q, k - 1)
    BY <2>1, <2>2, <2>3, ShiftFacts, ShiftPre
  <2>5. Behind(a, 0, r)
    BY <1>1, <1>2, <2>1, <2>4, BehindIs
  <2>6. Shift(r, k, 1) = Shift(q, k, (-1) + 1)
    <3>1. q[k] + (-1) + 1 > 0
      BY <2>1, <2>2
    <3> QED BY <2>1, <2>2, <2>3, <3>1, ShiftShift
  <2>7. (-1) + 1 = 0
    OBVIOUS
  <2>8. Shift(r, k, 1) = q
    BY <2>1, <2>6, <2>7, ShiftZero
  <2> QED BY <1>3, <2>3, <2>5, <2>8 DEF Up, Down
<1>4. CASE ~Behind(a, 1, q)
  <2>1. ~Behind(a, 0, q)
    <3>1. SUFFICES ASSUME Behind(a, 0, q) PROVE FALSE
      OBVIOUS
    <3>2. Len(q) >= k /\ Pre(q, k - 1) = Pre(a, k - 1) /\ q[k] >= a[k] + 0
      BY <3>1, BehindIs
    <3>3. q[k] \in Nat
      BY <1>1, <3>2, PositionFacts
    <3>4. q[k] = a[k]
      BY <1>2, <1>4, <3>2, <3>3, BehindIs
    <3> QED BY <3>2, <3>4, PrefixIs
  <2> QED BY <1>4, <2>1 DEF Up, Down
<1> QED BY <1>3, <1>4

LEMMA UpDown ==
    ASSUME NEW a \in Positions, a # <<>>, NEW r \in Positions
    PROVE  /\ Down(a, r) \in Positions /\ Up(a, Down(a, r)) = r
           /\ ~IsPrefix(a, Down(a, r))
<1> DEFINE k == Len(a)
<1>1. Len(a) \in Nat /\ Len(r) \in Nat /\ Len(a) # 0 /\ k \in 1..Len(a)
  BY PositionFacts DEF Positions
<1>2. a[k] \in Nat /\ a[k] > 0
  BY <1>1, PositionFacts
<1>3. CASE Behind(a, 0, r)
  <2>1. k \in 1..Len(r) /\ r[k] \in Nat /\ r[k] >= a[k] /\ Pre(r, k - 1) = Pre(a, k - 1)
    BY <1>1, <1>2, <1>3, BehindIs, PositionFacts
  <2>2. r[k] + 1 > 0 /\ k - 1 \in 0..Len(r) /\ k - 1 < k
    BY <1>1, <2>1
  <2>3. PICK q \in Positions : q = Shift(r, k, 1)
    BY <2>1, <2>2, ShiftFacts
  <2>4. Len(q) = Len(r) /\ q[k] = r[k] + 1 /\ Pre(q, k - 1) = Pre(r, k - 1)
    BY <2>1, <2>2, <2>3, ShiftFacts, ShiftPre
  <2>5. Behind(a, 1, q) /\ ~IsPrefix(a, q)
    BY <1>1, <1>2, <2>1, <2>4, BehindIs, PrefixIs
  <2>6. Shift(q, k, -1) = Shift(r, k, 1 + (-1))
    <3>1. r[k] + 1 + (-1) > 0
      BY <1>2, <2>1, <2>2
    <3> QED BY <2>1, <2>2, <2>3, <3>1, ShiftShift
  <2>7. 1 + (-1) = 0
    OBVIOUS
  <2>8. Shift(q, k, -1) = r
    BY <2>1, <2>6, <2>7, ShiftZero
  <2> QED BY <1>3, <2>3, <2>5, <2>8 DEF Up, Down
<1>4. CASE ~Behind(a, 0, r)
  <2>1. ~Behind(a, 1, r)
    <3>1. SUFFICES ASSUME Behind(a, 1, r) PROVE FALSE
      OBVIOUS
    <3>2. Len(r) >= k /\ Pre(r, k - 1) = Pre(a, k - 1) /\ r[k] >= a[k] + 1
      BY <3>1, BehindIs
    <3>3. r[k] \in Nat
      BY <1>1, <3>2, PositionFacts
    <3>4. r[k] >= a[k] + 0
      BY <1>2, <3>2, <3>3
    <3> QED BY <1>4, <3>2, <3>4, BehindIs
  <2>2. ~IsPrefix(a, r)
    <3>1. a[k] >= a[k] + 0
      BY <1>2
    <3> QED BY <1>4, <3>1, BehindIs, PrefixIs
  <2> QED BY <1>4, <2>1, <2>2 DEF Up, Down
<1> QED BY <1>3, <1>4

\* u is t without a.
Lost(u, t, a) ==
    /\ DOMAIN u \subseteq Positions /\ u \in [DOMAIN u -> [kind : Kinds, name : Names]]
    /\ \A r \in Positions : r \in DOMAIN u <=> Down(a, r) \in DOMAIN t
    /\ \A r \in DOMAIN u : u[r] = t[Down(a, r)]

LEMMA UnlinkIs ==
    ASSUME NEW t, DOMAIN t \subseteq Positions,
           t \in [DOMAIN t -> [kind : Kinds, name : Names]],
           NEW a \in Positions, a # <<>>, NEW u, u = Unlink(t, a)
    PROVE  Lost(u, t, a)
<1> DEFINE kept == {q \in DOMAIN t : ~IsPrefix(a, q)}
           V == [kind : Kinds, name : Names]
<1>1. \A q \in kept : Up(a, q) = IF Behind(a, 1, q) THEN [q EXCEPT ![Len(a)] = @ - 1] ELSE q
  <2> TAKE q \in kept
  <2>1. CASE Behind(a, 1, q)
    <3>1. q \in Positions /\ Len(q) \in Nat /\ Len(a) \in Nat /\ Len(a) # 0
      BY PositionFacts DEF Positions
    <3>2. Len(a) \in 1..Len(q) /\ q[Len(a)] \in Nat
      BY <2>1, <3>1, BehindIs, PositionFacts
    <3>3. q[Len(a)] - 1 = q[Len(a)] + (-1)
      BY <3>2
    <3> QED BY <2>1, <3>3 DEF Up, Shift
  <2> QED BY <2>1 DEF Up
<1>2. u = [r \in {Up(a, q) : q \in kept} |-> t[Down(a, r)]]
  <2>1. {Up(a, q) : q \in kept} =
            {IF Behind(a, 1, q) THEN [q EXCEPT ![Len(a)] = @ - 1] ELSE q : q \in kept}
    BY <1>1
  <2> QED BY <2>1 DEF Unlink, Down, Shift
<1>3. DOMAIN u = {Up(a, q) : q \in kept} /\ \A r \in DOMAIN u : u[r] = t[Down(a, r)]
  BY <1>2
<1>4. \A q \in kept : Up(a, q) \in Positions /\ Down(a, Up(a, q)) = q
  BY DownUp
<1>5. DOMAIN u \subseteq Positions
  BY <1>3, <1>4
<1>6. ASSUME NEW r \in Positions PROVE r \in DOMAIN u <=> Down(a, r) \in DOMAIN t
  <2>1. ASSUME r \in DOMAIN u PROVE Down(a, r) \in DOMAIN t
    BY <1>3, <1>4, <2>1
  <2>2. ASSUME Down(a, r) \in DOMAIN t PROVE r \in DOMAIN u
    <3>1. Down(a, r) \in kept /\ Up(a, Down(a, r)) = r
      BY <2>2, UpDown
    <3> QED BY <1>3, <3>1
  <2> QED BY <2>1, <2>2
<1>7. \A r \in DOMAIN u : t[Down(a, r)] \in V
  BY <1>5, <1>6
<1>8. u \in [DOMAIN u -> V]
  BY <1>2, <1>3, <1>7
<1> QED BY <1>3, <1>5, <1>6, <1>8 DEF Lost

\* An ancestor comes down with what is below it.
LEMMA DownPre ==
    ASSUME NEW a \in Positions, a # <<>>, NEW r \in Positions, NEW n \in 0..Len(r)
    PROVE  /\ Len(Down(a, r)) = Len(r)
           /\ Down(a, Pre(r, n)) = Pre(Down(a, r), n)
<1> DEFINE k == Len(a)
<1>1. k \in Nat /\ Len(r) \in Nat /\ k # 0 /\ k - 1 \in Nat
  BY PositionFacts DEF Positions
<1>2. PICK q \in Positions : q = Pre(r, n)
  BY PreFacts
<1>3. Len(q) = n /\ \A i \in 1..n : q[i] = r[i]
  BY <1>2, PreFacts
<1>4. CASE Behind(a, 0, r) /\ n >= k
  <2>1. k \in 1..Len(r) /\ r[k] \in Nat /\ r[k] + 1 > 0
    BY <1>1, <1>4, BehindIs, PositionFacts
  <2>2. Pre(q, k - 1) = Pre(r, k - 1) /\ q[k] = r[k]
    <3>1. k - 1 \in 0..n /\ k \in 1..n
      BY <1>1, <1>4
    <3> QED BY <1>2, <1>3, <3>1, PrePre
  <2>3. Behind(a, 0, q)
    BY <1>3, <1>4, <2>2, BehindIs
  <2>4. Pre(Shift(r, k, 1), n) = Shift(q, k, 1)
    BY <1>1, <1>2, <1>4, <2>1, ShiftPre
  <2>5. Len(Shift(r, k, 1)) = Len(r)
    BY <2>1, ShiftFacts
  <2> QED BY <1>2, <1>4, <2>3, <2>4, <2>5 DEF Down
<1>5. CASE Behind(a, 0, r) /\ n < k
  <2>1. k \in 1..Len(r) /\ r[k] \in Nat /\ r[k] + 1 > 0
    BY <1>1, <1>5, BehindIs, PositionFacts
  <2>2. ~Behind(a, 0, q)
    BY <1>1, <1>3, <1>5, BehindIs
  <2>3. Pre(Shift(r, k, 1), n) = q
    BY <1>1, <1>2, <1>5, <2>1, ShiftPre
  <2>4. Len(Shift(r, k, 1)) = Len(r)
    BY <2>1, ShiftFacts
  <2> QED BY <1>2, <1>5, <2>2, <2>3, <2>4 DEF Down
<1>6. CASE ~Behind(a, 0, r)
  <2>1. SUFFICES ASSUME Behind(a, 0, q) PROVE FALSE
    BY <1>2, <1>6 DEF Down
  <2>2. n >= k /\ Pre(q, k - 1) = Pre(a, k - 1) /\ q[k] >= a[k] + 0
    BY <1>3, <2>1, BehindIs
  <2>3. k - 1 \in 0..n /\ k \in 1..n /\ Len(r) >= k
    BY <1>1, <2>2
  <2>4. Pre(q, k - 1) = Pre(r, k - 1) /\ q[k] = r[k]
    BY <1>2, <1>3, <2>3, PrePre
  <2> QED BY <1>6, <2>2, <2>3, <2>4, BehindIs
<1> QED BY <1>1, <1>4, <1>5, <1>6

\* Among the siblings of a the later ones come down, elsewhere a child stays
\* with its parent.
LEMMA BehindChild ==
    ASSUME NEW b \in Positions, NEW c \in Nat, c > 0, NEW q \in Positions
    PROVE  Behind(Append(b, c), 0, q) <=> /\ Len(q) > Len(b) /\ Pre(q, Len(b)) = b
                                          /\ q[Len(b) + 1] >= c
<1>1. PICK k \in Nat : k = Len(b)
  BY PositionFacts
<1>2. PICK a \in Positions : a = Append(b, c)
  BY AppendFacts
<1>3. Len(a) = k + 1 /\ a[k + 1] = c
  BY <1>1, <1>2, AppendFacts
<1>4. k \in 0..Len(b) /\ (k + 1) - 1 = k /\ c + 0 = c /\ Len(q) \in Nat
  BY <1>1, PositionFacts
<1>5. Pre(a, k) = b
  BY <1>1, <1>2, <1>4, PreAppend, PreWhole
<1>6. Behind(a, 0, q) <=> /\ Len(q) >= k + 1 /\ Pre(q, k) = b /\ q[k + 1] >= c
  BY <1>3, <1>4, <1>5, BehindIs, Zenon
<1>7. Len(q) >= k + 1 <=> Len(q) > k
  BY <1>4
<1> QED BY <1>1, <1>2, <1>6, <1>7, Zenon

LEMMA DownAppend ==
    ASSUME NEW b \in Positions, NEW c \in Nat, c > 0,
           NEW q \in Positions, NEW i \in Nat, i > 0
    PROVE  Down(Append(b, c), Append(q, i)) =
              IF q = b THEN Append(q, IF i >= c THEN i + 1 ELSE i)
              ELSE Append(Down(Append(b, c), q), i)
<1>1. PICK a \in Positions : a = Append(b, c) /\ Len(a) = Len(b) + 1
  BY AppendFacts
<1>2. PICK r \in Positions : r = Append(q, i)
  BY AppendFacts
<1>3. Len(r) = Len(q) + 1 /\ (\A j \in 1..Len(q) : r[j] = q[j]) /\ r[Len(q) + 1] = i
  BY <1>2, AppendFacts
<1>4. PICK m \in Nat, n \in Nat : m = Len(b) /\ n = Len(q)
  BY PositionFacts
<1>5. /\ Behind(a, 0, r) <=> n + 1 > m /\ Pre(r, m) = b /\ r[m + 1] >= c
      /\ Behind(a, 0, q) <=> n > m /\ Pre(q, m) = b /\ q[m + 1] >= c
  BY <1>1, <1>3, <1>4, BehindChild, Zenon
<1>6. CASE n < m
  <2>1. q # b /\ ~(n > m) /\ ~(n + 1 > m)
    BY <1>4, <1>6
  <2> QED BY <1>1, <1>2, <1>5, <2>1 DEF Down
<1>7. CASE n = m
  <2>1. Pre(r, m) = q
    <3>1. Len(q) \in 0..Len(q)
      BY <1>4
    <3>2. Pre(Append(q, i), Len(q)) = Pre(q, Len(q))
      BY <3>1, PreAppend
    <3>3. Pre(q, Len(q)) = q
      BY PreWhole
    <3> QED BY <1>2, <1>4, <1>7, <3>2, <3>3
  <2>2. (Behind(a, 0, r) <=> q = b /\ i >= c) /\ ~Behind(a, 0, q)
    BY <1>3, <1>4, <1>5, <1>7, <2>1
  <2>3. Shift(r, Len(a), 1) = Append(q, i + 1)
    <3>1. Shift(Append(q, i), Len(q) + 1, 1) = Append(q, i + 1)
      BY ShiftAppend
    <3> QED BY <1>1, <1>2, <1>4, <1>7, <3>1
  <2> QED BY <1>1, <1>2, <2>2, <2>3 DEF Down
<1>8. CASE n > m
  <2>1. m + 1 \in 1..Len(q) /\ m \in 0..Len(q) /\ q # b
    BY <1>4, <1>8
  <2>2. Pre(r, m) = Pre(q, m) /\ r[m + 1] = q[m + 1]
    BY <1>2, <1>3, <2>1, PreAppend
  <2>3. Behind(a, 0, r) <=> Behind(a, 0, q)
    BY <1>4, <1>5, <1>8, <2>2
  <2>4. q[m + 1] \in Nat /\ q[m + 1] + 1 > 0
    BY <2>1, PositionFacts
  <2>5. Shift(r, m + 1, 1) = Append(Shift(q, m + 1, 1), i)
    BY <1>2, <2>1, <2>4, ShiftAbove
  <2> QED BY <1>1, <1>2, <1>4, <2>1, <2>3, <2>5 DEF Down
<1> QED BY <1>4, <1>6, <1>7, <1>8

\* Taking an element out leaves a tree, as long as it is not the root.
LEMMA UnlinkKeepsTree ==
    ASSUME NEW t, IsTree(t), NEW a \in DOMAIN t, a # <<>>, NEW u, u = Unlink(t, a)
    PROVE  IsTree(u)
<1> DEFINE V == [kind : Kinds, name : Names]
<1>1. /\ DOMAIN t \subseteq Positions /\ t \in [DOMAIN t -> V] /\ a \in Positions
      /\ <<>> \in DOMAIN t /\ IsForest(t)
  BY DEF IsTree, IsForest
<1>2. /\ DOMAIN u \subseteq Positions /\ u \in [DOMAIN u -> V]
      /\ \A r \in Positions : r \in DOMAIN u <=> Down(a, r) \in DOMAIN t
  <2>1. Lost(u, t, a)
    BY <1>1, UnlinkIs
  <2> QED BY <2>1 DEF Lost
<1>3. PICK k \in Nat : k = Len(a) /\ k > 0 /\ k \in 1..Len(a) /\ k - 1 \in 0..Len(a)
  <2>1. Len(a) \in Nat /\ Len(a) # 0
    BY <1>1, PositionFacts DEF Positions
  <2> QED BY <2>1
<1>4. PICK b \in Positions : b = Pre(a, k - 1)
  BY <1>1, <1>3, PreFacts
<1>5. PICK c \in Nat : c > 0 /\ a = Append(b, c)
  <2>1. a[k] \in Nat /\ a[k] > 0
    BY <1>1, <1>3, PositionFacts
  <2>2. Pre(a, k) = Append(Pre(a, k - 1), a[k]) /\ Pre(a, k) = a
    BY <1>1, <1>3, PreNext, PreWhole
  <2> QED BY <1>4, <2>1, <2>2
<1>6. b \in DOMAIN t
  BY <1>3, <1>4, Ancestors
<1>7. <<>> \in DOMAIN u
  <2>1. ~Behind(a, 0, <<>>)
    BY <1>3, Root, BehindIs
  <2> QED BY <1>1, <1>2, <2>1, Root DEF Down
<1>8. ASSUME NEW r \in DOMAIN u, NEW n \in 1..Len(r) PROVE Pre(r, n) \in DOMAIN u
  <2>1. r \in Positions /\ n \in 0..Len(r)
    BY <1>2, PositionFacts
  <2>2. Pre(Down(a, r), n) \in DOMAIN t
    BY <1>1, <1>2, <2>1, DownPre, Ancestors
  <2>3. Down(a, Pre(r, n)) \in DOMAIN t /\ Pre(r, n) \in Positions
    BY <1>1, <2>1, <2>2, DownPre, PreFacts
  <2> QED BY <1>2, <2>3
<1>9. ASSUME NEW q \in DOMAIN u PROVE \E n : HasChildren(u, q, n)
  <2>1. q \in Positions /\ Down(a, q) \in DOMAIN t
    BY <1>2
  <2>2. ASSUME NEW i \in Nat, i > 0
        PROVE  Append(q, i) \in DOMAIN u <=> Down(a, Append(q, i)) \in DOMAIN t
    BY <1>2, <2>1, <2>2, AppendFacts
  <2>3. CASE q = b
    <3>1. HasChildren(t, b, Count(t, b))
      BY <1>1, <1>6, CountFacts
    <3>2. PICK n \in Nat : n = Count(t, b)
      BY <3>1 DEF HasChildren
    <3>3. c <= n /\ c > 0
      BY <1>5, <3>1, <3>2 DEF HasChildren
    <3>4. ASSUME NEW i \in Nat, i > 0
          PROVE  Append(q, i) \in DOMAIN u <=> i <= n - 1
      <4>1. Down(a, Append(q, i)) = Append(b, IF i >= c THEN i + 1 ELSE i)
        BY <1>5, <2>3, <3>4, DownAppend, Zenon
      <4>2. CASE i >= c
        <5>1. Down(a, Append(q, i)) \in DOMAIN t <=> i + 1 <= n
          BY <3>1, <3>2, <4>1, <4>2 DEF HasChildren
        <5> QED BY <2>2, <3>2, <3>4, <5>1
      <4>3. CASE i < c
        <5>1. Down(a, Append(q, i)) \in DOMAIN t <=> i <= n
          BY <3>1, <3>2, <3>4, <4>1, <4>3 DEF HasChildren
        <5> QED BY <2>2, <3>2, <3>3, <3>4, <4>3, <5>1
      <4> QED BY <4>2, <4>3
    <3>5. n - 1 \in Nat
      BY <3>3
    <3>6. HasChildren(u, q, n - 1)
      BY <3>4, <3>5 DEF HasChildren
    <3> QED BY <3>6
  <2>4. CASE q # b
    <3>1. HasChildren(t, Down(a, q), Count(t, Down(a, q)))
      BY <1>1, <2>1, CountFacts
    <3>2. ASSUME NEW i \in Nat, i > 0
          PROVE  Append(q, i) \in DOMAIN u <=> i <= Count(t, Down(a, q))
      <4>1. Down(a, Append(q, i)) = Append(Down(a, q), i)
        <5>1. Down(Append(b, c), Append(q, i))
                 = IF q = b THEN Append(q, IF i >= c THEN i + 1 ELSE i)
                   ELSE Append(Down(Append(b, c), q), i)
          BY <1>5, <2>1, <3>2, DownAppend, ZenonT(60)
        <5>2. Down(Append(b, c), Append(q, i)) = Append(Down(Append(b, c), q), i)
          BY <2>4, <5>1
        <5> QED BY <1>5, <5>2
      <4> QED BY <2>2, <3>1, <3>2, <4>1 DEF HasChildren
    <3>3. HasChildren(u, q, Count(t, Down(a, q)))
      BY <3>1, <3>2 DEF HasChildren
    <3> QED BY <3>3
  <2> QED BY <2>3, <2>4
<1>10. IsForest(u)
  BY <1>2, <1>7, <1>8, <1>9, MakesForest
<1> QED BY <1>7, <1>10 DEF IsTree

-----------------------------------------------------------------------------
(* AddChildList.  What is beyond the last child of p.                      *)

Beyond(t, p, r) == Len(r) > Len(p) /\ Pre(r, Len(p)) = p /\ r[Len(p) + 1] > Count(t, p)

LEMMA BelowFacts ==
    ASSUME NEW t, NEW p \in Positions, Count(t, p) \in Nat,
           NEW q \in Positions, q # <<>>
    PROVE  /\ Below(t, p, q) \in Positions /\ Len(Below(t, p, q)) = Len(p) + Len(q)
           /\ \A i \in 1..Len(p) : Below(t, p, q)[i] = p[i]
           /\ Below(t, p, q)[Len(p) + 1] = q[1] + Count(t, p)
           /\ \A i \in 2..Len(q) : Below(t, p, q)[Len(p) + i] = q[i]
<1>1. PICK c \in Nat : c = Count(t, p)
  OBVIOUS
<1>2. Len(p) \in Nat /\ Len(q) \in Nat /\ 1 \in 1..Len(q)
  BY DEF Positions
<1>3. q[1] \in Nat /\ q[1] > 0 /\ q[1] + c > 0
  BY <1>2, PositionFacts
<1>4. PICK s \in Positions : s = Shift(q, 1, c)
  BY <1>2, <1>3, ShiftFacts
<1>5. Len(s) = Len(q) /\ s[1] = q[1] + c /\ \A i \in 1..Len(q) : i # 1 => s[i] = q[i]
  BY <1>2, <1>3, <1>4, ShiftFacts
<1>6. Below(t, p, q) = p \o s
  BY <1>1, <1>4 DEF Below, Shift, Count
<1>7. /\ p \o s \in Positions /\ Len(p \o s) = Len(p) + Len(s)
      /\ \A i \in 1..Len(p) : (p \o s)[i] = p[i]
      /\ \A i \in 1..Len(s) : (p \o s)[Len(p) + i] = s[i]
  BY ConcatFacts DEF Positions
<1>8. \A i \in 2..Len(q) : (p \o s)[Len(p) + i] = q[i]
  BY <1>2, <1>5, <1>7
<1> QED BY <1>1, <1>2, <1>5, <1>6, <1>7, <1>8

LEMMA AboveFacts ==
    ASSUME NEW t, NEW p \in Positions, Count(t, p) \in Nat,
           NEW r \in Positions, Beyond(t, p, r)
    PROVE  /\ Above(t, p, r) \in Positions /\ Above(t, p, r) # <<>>
           /\ Len(Above(t, p, r)) = Len(r) - Len(p)
           /\ Above(t, p, r)[1] = r[Len(p) + 1] - Count(t, p)
           /\ \A i \in 2..(Len(r) - Len(p)) : Above(t, p, r)[i] = r[Len(p) + i]
           /\ \A i \in 1..Len(p) : r[i] = p[i]
<1>1. PICK c \in Nat, m \in Nat, n \in Nat : c = Count(t, p) /\ m = Len(p) /\ n = Len(r)
  BY PositionFacts
<1>2. n > m /\ r[m + 1] > c /\ r[m + 1] \in Nat /\ m \in 0..n
  <2>1. n > m /\ r[m + 1] > c
    BY <1>1 DEF Beyond
  <2>2. m + 1 \in 1..n /\ m \in 0..n
    BY <2>1
  <2> QED BY <1>1, <2>1, <2>2, PositionFacts
<1>3. PICK x : x = SubSeq(r, m + 1, n)
  OBVIOUS
<1>4. x \in Positions /\ Len(x) = n - m /\ \A i \in 1..(n - m) : x[i] = r[m + i]
  <2>1. \A i \in 1..n : r[i] \in Nat \ {0}
    BY <1>1 DEF Positions
  <2>2. x = [i \in 1..(n - m) |-> r[m + i]]
    <3>1. n - (m + 1) + 1 = n - m /\ \A i \in 1..(n - m) : (m + 1) + i - 1 = m + i
      OBVIOUS
    <3> QED BY <1>1, <1>2, <1>3, <3>1 DEF Positions
  <2>3. n - m \in Nat
    BY <1>2
  <2> QED BY <2>1, <2>2, <2>3 DEF Positions
<1>5. 1 \in 1..Len(x) /\ x[1] = r[m + 1]
  BY <1>2, <1>4
<1>6. x[1] + (-c) > 0 /\ -c \in Int /\ x[1] - c = x[1] + (-c)
  BY <1>2, <1>5
<1>7. PICK s \in Positions : s = Shift(x, 1, -c)
  BY <1>4, <1>5, <1>6, ShiftFacts
<1>8. Len(s) = Len(x) /\ s[1] = x[1] + (-c) /\ \A i \in 1..Len(x) : i # 1 => s[i] = x[i]
  BY <1>4, <1>5, <1>6, <1>7, ShiftFacts
<1>9. Above(t, p, r) = s
  BY <1>1, <1>3, <1>6, <1>7 DEF Above, Shift, Count
<1>10. s # <<>>
  BY <1>5, <1>8, Root
<1>11. \A i \in 2..(n - m) : s[i] = r[m + i]
  BY <1>4, <1>8
<1>12. \A i \in 1..m : r[i] = p[i]
  BY <1>1, <1>2, PreFacts DEF Beyond
<1> QED BY <1>1, <1>2, <1>4, <1>5, <1>6, <1>8, <1>9, <1>10, <1>11, <1>12

LEMMA AboveBelow ==
    ASSUME NEW t, NEW p \in Positions, Count(t, p) \in Nat,
           NEW q \in Positions, q # <<>>
    PROVE  Beyond(t, p, Below(t, p, q)) /\ Above(t, p, Below(t, p, q)) = q
<1>1. PICK c \in Nat, m \in Nat, n \in Nat : c = Count(t, p) /\ m = Len(p) /\ n = Len(q)
  BY PositionFacts
<1>2. n >= 1
  BY <1>1 DEF Positions
<1>3. PICK r \in Positions : r = Below(t, p, q)
  BY BelowFacts
<1>4. /\ Len(r) = m + n /\ (\A i \in 1..m : r[i] = p[i]) /\ r[m + 1] = q[1] + c
      /\ \A i \in 2..n : r[m + i] = q[i]
  <2>1. /\ Len(r) = Len(p) + Len(q) /\ (\A i \in 1..Len(p) : r[i] = p[i])
        /\ r[Len(p) + 1] = q[1] + Count(t, p)
        /\ \A i \in 2..Len(q) : r[Len(p) + i] = q[i]
    <3>1. /\ Len(Below(t, p, q)) = Len(p) + Len(q)
          /\ \A i \in 1..Len(p) : Below(t, p, q)[i] = p[i]
          /\ Below(t, p, q)[Len(p) + 1] = q[1] + Count(t, p)
      BY BelowFacts
    <3>2. \A i \in 2..Len(q) : Below(t, p, q)[Len(p) + i] = q[i]
      BY BelowFacts
    <3> QED BY <1>3, <3>1, <3>2, Zenon
  <2> QED BY <1>1, <2>1, Zenon
<1>5. 1 \in 1..n /\ m \in 0..Len(r) /\ q[1] \in Nat /\ q[1] > 0
  BY <1>1, <1>2, <1>4, PositionFacts
<1>6. Pre(r, m) = p
  <2>1. PICK s \in Positions : s = Pre(r, m)
    BY <1>5, PreFacts
  <2>2. Len(s) = m /\ \A i \in 1..m : s[i] = r[i]
    BY <1>5, <2>1, PreFacts
  <2> QED BY <1>1, <1>4, <2>1, <2>2, SamePosition
<1>7. Beyond(t, p, r)
  BY <1>1, <1>4, <1>5, <1>6 DEF Beyond
<1>8. PICK a \in Positions : a = Above(t, p, r)
  BY <1>1, <1>7, AboveFacts
<1>9. Len(a) = Len(r) - m /\ a[1] = r[m + 1] - c /\ \A i \in 2..(Len(r) - m) : a[i] = r[m + i]
  BY <1>1, <1>7, <1>8, AboveFacts
<1>10. Len(a) = n /\ a[1] = q[1] /\ \A i \in 2..n : a[i] = q[i]
  BY <1>4, <1>5, <1>9
<1>11. a = q
  BY <1>1, <1>10, SamePosition
<1> QED BY <1>3, <1>7, <1>8, <1>11

LEMMA BelowAbove ==
    ASSUME NEW t, NEW p \in Positions, Count(t, p) \in Nat,
           NEW r \in Positions, Beyond(t, p, r)
    PROVE  Below(t, p, Above(t, p, r)) = r
<1>1. PICK c \in Nat, m \in Nat, n \in Nat : c = Count(t, p) /\ m = Len(p) /\ n = Len(r)
  BY PositionFacts
<1>2. n > m /\ r[m + 1] \in Nat
  <2>1. n > m
    BY <1>1 DEF Beyond
  <2>2. m + 1 \in 1..n
    BY <2>1
  <2> QED BY <1>1, <2>1, <2>2, PositionFacts
<1>3. PICK a \in Positions : a = Above(t, p, r) /\ a # <<>>
  BY AboveFacts
<1>4. /\ Len(a) = n - m /\ a[1] = r[m + 1] - c /\ (\A i \in 2..(n - m) : a[i] = r[m + i])
      /\ \A i \in 1..m : r[i] = p[i]
  <2>1. /\ Len(a) = Len(r) - Len(p) /\ a[1] = r[Len(p) + 1] - Count(t, p)
        /\ (\A i \in 2..(Len(r) - Len(p)) : a[i] = r[Len(p) + i])
        /\ \A i \in 1..Len(p) : r[i] = p[i]
    BY <1>3, AboveFacts
  <2> QED BY <1>1, <2>1, Zenon
<1>5. PICK s \in Positions : s = Below(t, p, a)
  BY <1>3, BelowFacts
<1>6. /\ Len(s) = m + Len(a) /\ (\A i \in 1..m : s[i] = p[i]) /\ s[m + 1] = a[1] + c
      /\ \A i \in 2..Len(a) : s[m + i] = a[i]
  <2>1. /\ Len(s) = Len(p) + Len(a) /\ (\A i \in 1..Len(p) : s[i] = p[i])
        /\ s[Len(p) + 1] = a[1] + Count(t, p)
        /\ \A i \in 2..Len(a) : s[Len(p) + i] = a[i]
    <3>1. Len(Below(t, p, a)) = Len(p) + Len(a)
      BY <1>3, BelowFacts
    <3>2. \A i \in 1..Len(p) : Below(t, p, a)[i] = p[i]
      BY <1>3, BelowFacts
    <3>3. Below(t, p, a)[Len(p) + 1] = a[1] + Count(t, p)
      BY <1>3, BelowFacts
    <3>4. \A i \in 2..Len(a) : Below(t, p, a)[Len(p) + i] = a[i]
      BY <1>3, BelowFacts
    <3> QED BY <1>5, <3>1, <3>2, <3>3, <3>4
  <2> QED BY <1>1, <2>1, Zenon
<1>7. Len(s) = n /\ s[m + 1] = r[m + 1]
  BY <1>2, <1>4, <1>6
<1>8. ASSUME NEW i \in 1..n PROVE s[i] = r[i]
  <2>1. CASE i <= m
    BY <1>4, <1>6, <2>1
  <2>2. CASE i = m + 1
    BY <1>7, <2>2
  <2>3. CASE i > m + 1
    <3>1. PICK j \in 2..(n - m) : i = m + j
      <4>1. i - m \in 2..(n - m) /\ i = m + (i - m)
        BY <2>3
      <4> QED BY <4>1
    <3> QED BY <1>4, <1>6, <3>1
  <2> QED BY <2>1, <2>2, <2>3
<1>9. s = r
  BY <1>1, <1>7, <1>8, SamePosition
<1> QED BY <1>3, <1>5, <1>9

\* A child below is a child above, and an ancestor an ancestor.
LEMMA AboveAppend ==
    ASSUME NEW t, NEW p \in Positions, Count(t, p) \in Nat,
           NEW r \in Positions, Beyond(t, p, r), NEW i \in Nat, i > 0
    PROVE  /\ Beyond(t, p, Append(r, i))
           /\ Above(t, p, Append(r, i)) = Append(Above(t, p, r), i)
<1>1. PICK c \in Nat, m \in Nat, n \in Nat : c = Count(t, p) /\ m = Len(p) /\ n = Len(r)
  BY PositionFacts
<1>2. n > m /\ m \in 0..n /\ m + 1 \in 1..n
  BY <1>1 DEF Beyond
<1>3. PICK s \in Positions : s = Append(r, i)
  BY AppendFacts
<1>4. Len(s) = n + 1 /\ (\A k \in 1..n : s[k] = r[k]) /\ s[n + 1] = i
  BY <1>1, <1>3, AppendFacts
<1>5. Beyond(t, p, s)
  <2>1. Pre(s, m) = Pre(r, m)
    BY <1>1, <1>2, <1>3, PreAppend
  <2> QED BY <1>1, <1>2, <1>4, <2>1 DEF Beyond
<1>6. PICK a \in Positions : a = Above(t, p, r)
  BY AboveFacts
<1>7. Len(a) = n - m /\ a[1] = r[m + 1] - c /\ \A k \in 2..(n - m) : a[k] = r[m + k]
  BY <1>1, <1>6, AboveFacts
<1>8. PICK b \in Positions : b = Above(t, p, s)
  BY <1>5, AboveFacts
<1>9. Len(b) = Len(s) - m /\ b[1] = s[m + 1] - c /\ \A k \in 2..(Len(s) - m) : b[k] = s[m + k]
  BY <1>1, <1>5, <1>8, AboveFacts
<1>10. PICK d \in Positions : d = Append(a, i)
  BY AppendFacts
<1>11. Len(d) = Len(a) + 1 /\ (\A k \in 1..Len(a) : d[k] = a[k]) /\ d[Len(a) + 1] = i
  BY <1>10, AppendFacts
<1>12. Len(b) = Len(d)
  BY <1>2, <1>4, <1>7, <1>9, <1>11
<1>13. ASSUME NEW k \in 1..Len(b) PROVE b[k] = d[k]
  <2>0. Len(b) = (n - m) + 1 /\ n - m \in Nat /\ n - m >= 1 /\ Len(s) - m = (n - m) + 1
    BY <1>2, <1>4, <1>9
  <2>1. CASE k = 1
    BY <1>2, <1>4, <1>7, <1>9, <1>11, <2>0, <2>1
  <2>2. CASE k > 1 /\ k <= n - m
    <3>1. m + k \in 1..n /\ k \in 2..(n - m) /\ k \in 1..(n - m) /\ k \in 2..((n - m) + 1)
      BY <2>0, <2>2
    <3> QED BY <1>4, <1>7, <1>9, <1>11, <2>0, <3>1
  <2>3. CASE k = (n - m) + 1
    <3>1. m + k = n + 1 /\ k \in 2..((n - m) + 1)
      BY <2>0, <2>3
    <3> QED BY <1>4, <1>7, <1>9, <1>11, <2>0, <2>3, <3>1
  <2> QED BY <2>0, <2>1, <2>2, <2>3
<1>14. b = d
  BY <1>12, <1>13, SamePosition
<1> QED BY <1>3, <1>5, <1>6, <1>8, <1>10, <1>14

LEMMA AbovePre ==
    ASSUME NEW t, NEW p \in Positions, Count(t, p) \in Nat,
           NEW r \in Positions, Beyond(t, p, r), NEW n \in 0..Len(r), n > Len(p)
    PROVE  /\ Beyond(t, p, Pre(r, n))
           /\ Above(t, p, Pre(r, n)) = Pre(Above(t, p, r), n - Len(p))
<1>1. PICK c \in Nat, m \in Nat : c = Count(t, p) /\ m = Len(p)
  BY PositionFacts
<1>2. m \in 0..n /\ m + 1 \in 1..n /\ Len(r) \in Nat /\ n > m
  BY <1>1, PositionFacts
<1>3. PICK s \in Positions : s = Pre(r, n)
  BY PreFacts
<1>4. Len(s) = n /\ \A k \in 1..n : s[k] = r[k]
  BY <1>3, PreFacts
<1>5. Beyond(t, p, s)
  <2>1. Pre(s, m) = Pre(r, m)
    BY <1>2, <1>3, PrePre
  <2> QED BY <1>1, <1>2, <1>4, <2>1 DEF Beyond
<1>6. PICK a \in Positions : a = Above(t, p, r)
  BY AboveFacts
<1>7. /\ Len(a) = Len(r) - m /\ a[1] = r[m + 1] - c
      /\ \A k \in 2..(Len(r) - m) : a[k] = r[m + k]
  BY <1>1, <1>6, AboveFacts
<1>8. PICK b \in Positions : b = Above(t, p, s)
  BY <1>5, AboveFacts
<1>9. Len(b) = n - m /\ b[1] = s[m + 1] - c /\ \A k \in 2..(n - m) : b[k] = s[m + k]
  BY <1>1, <1>4, <1>5, <1>8, AboveFacts
<1>10. n - m \in 0..Len(a)
  BY <1>2, <1>7
<1>11. PICK d \in Positions : d = Pre(a, n - m)
  BY <1>10, PreFacts
<1>12. Len(d) = n - m /\ \A k \in 1..(n - m) : d[k] = a[k]
  BY <1>10, <1>11, PreFacts
<1>13. ASSUME NEW k \in 1..(n - m) PROVE b[k] = d[k]
  <2>1. CASE k = 1
    BY <1>2, <1>4, <1>7, <1>9, <1>12, <2>1
  <2>2. CASE k # 1
    <3>1. k \in 2..(n - m) /\ k \in 2..(Len(r) - m) /\ m + k \in 1..n
      BY <1>2, <2>2
    <3> QED BY <1>4, <1>7, <1>9, <1>12, <3>1
  <2> QED BY <2>1, <2>2
<1>14. b = d
  BY <1>9, <1>12, <1>13, SamePosition
<1> QED BY <1>1, <1>3, <1>5, <1>6, <1>8, <1>11, <1>14

LEMMA NotBeyond ==
    ASSUME NEW t, IsTree(t), NEW p \in Positions, NEW r \in DOMAIN t
    PROVE  ~Beyond(t, p, r)
<1>1. SUFFICES ASSUME Beyond(t, p, r) PROVE FALSE
  OBVIOUS
<1>2. r \in Positions /\ Len(r) \in Nat /\ Len(p) \in Nat
  BY PositionFacts DEF IsTree, IsForest
<1>3. Len(p) + 1 \in 1..Len(r) /\ (Len(p) + 1) - 1 = Len(p)
  BY <1>1, <1>2 DEF Beyond
<1>4. r[Len(p) + 1] <= Count(t, p)
  <2>1. r[Len(p) + 1] <= Count(t, Pre(r, (Len(p) + 1) - 1))
    BY <1>3, WayDown
  <2> QED BY <1>1, <1>3, <2>1 DEF Beyond
<1>5. r[Len(p) + 1] \in Nat /\ Count(t, p) \in Nat
  <2>1. p \in DOMAIN t
    <3>1. Len(p) \in 0..Len(r)
      BY <1>2, <1>3
    <3> QED BY <1>1, <3>1, Ancestors DEF Beyond
  <2> QED BY <1>2, <1>3, <2>1, PositionFacts, CountFacts DEF IsTree, HasChildren
<1> QED BY <1>1, <1>4, <1>5 DEF Beyond

LEMMA AddIs ==
    ASSUME NEW t, IsTree(t), NEW p \in DOMAIN t,
           NEW f, IsForest(f), <<>> \notin DOMAIN f, NEW g, g = AddChildList(t, p, f)
    PROVE  /\ DOMAIN g \subseteq Positions
           /\ \A r \in Positions :
                 r \in DOMAIN g <=> \/ r \in DOMAIN t
                                    \/ Beyond(t, p, r) /\ Above(t, p, r) \in DOMAIN f
           /\ \A r \in DOMAIN t : g[r] = t[r]
           /\ \A r \in Positions :
                 Beyond(t, p, r) /\ Above(t, p, r) \in DOMAIN f => g[r] = f[Above(t, p, r)]
           /\ g \in [DOMAIN g -> [kind : Kinds, name : Names]]
<1>1. /\ DOMAIN t \subseteq Positions /\ DOMAIN f \subseteq Positions /\ p \in Positions
      /\ t \in [DOMAIN t -> [kind : Kinds, name : Names]]
      /\ f \in [DOMAIN f -> [kind : Kinds, name : Names]]
  BY DEF IsTree, IsForest
<1>2. Count(t, p) \in Nat
  BY CountFacts DEF IsTree, HasChildren
<1>3. \A q \in DOMAIN f : /\ Below(t, p, q) \in Positions /\ Beyond(t, p, Below(t, p, q))
                          /\ Above(t, p, Below(t, p, q)) = q
  <2> TAKE q \in DOMAIN f
  <2>1. q \in Positions /\ q # <<>>
    BY <1>1
  <2> QED BY <1>1, <1>2, <2>1, BelowFacts, AboveBelow
<1>4. DOMAIN g = DOMAIN t \cup {Below(t, p, q) : q \in DOMAIN f}
  BY DEF AddChildList
<1>5. \A r \in DOMAIN g : g[r] = IF r \in DOMAIN t THEN t[r] ELSE f[Above(t, p, r)]
  BY DEF AddChildList
<1>6. ASSUME NEW r \in Positions
      PROVE  r \in DOMAIN g <=> \/ r \in DOMAIN t
                                \/ Beyond(t, p, r) /\ Above(t, p, r) \in DOMAIN f
  <2>1. ASSUME Beyond(t, p, r), Above(t, p, r) \in DOMAIN f PROVE r \in DOMAIN g
    <3>1. Below(t, p, Above(t, p, r)) = r
      BY <1>1, <1>2, <2>1, BelowAbove
    <3> QED BY <1>4, <2>1, <3>1
  <2>2. ASSUME r \in DOMAIN g, r \notin DOMAIN t
        PROVE  Beyond(t, p, r) /\ Above(t, p, r) \in DOMAIN f
    BY <1>3, <1>4, <2>2
  <2> QED BY <1>4, <2>1, <2>2
<1>7. ASSUME NEW r \in Positions, Beyond(t, p, r), Above(t, p, r) \in DOMAIN f
      PROVE  g[r] = f[Above(t, p, r)]
  <2>1. r \notin DOMAIN t
    BY <1>1, <1>7, NotBeyond
  <2> QED BY <1>5, <1>6, <1>7, <2>1
<1>8. \A r \in DOMAIN t : g[r] = t[r]
  BY <1>4, <1>5
<1>9. DOMAIN g \subseteq Positions
  BY <1>1, <1>3, <1>4
<1>10. \A r \in DOMAIN g : g[r] \in [kind : Kinds, name : Names]
  <2> TAKE r \in DOMAIN g
  <2>1. CASE r \in DOMAIN t
    BY <1>1, <1>8, <2>1
  <2>2. CASE r \notin DOMAIN t
    BY <1>1, <1>6, <1>7, <1>9, <2>2
  <2> QED BY <2>1, <2>2
<1>11. g = [r \in DOMAIN g |-> g[r]]
  BY DEF AddChildList
<1>12. g \in [DOMAIN g -> [kind : Kinds, name : Names]]
  BY <1>10, <1>11
<1> QED BY <1>6, <1>7, <1>8, <1>9, <1>12

\* The new children come last; what was there stays where it was.
LEMMA AddFacts ==
    ASSUME NEW t, IsTree(t), NEW p \in DOMAIN t,
           NEW f, IsForest(f), <<>> \notin DOMAIN f, NEW g, g = AddChildList(t, p, f)
    PROVE  /\ IsTree(g)
           /\ \A q \in DOMAIN t : q \in DOMAIN g /\ g[q] = t[q]
           /\ Count(g, p) = Count(t, p) + Count(f, <<>>)
           /\ \A q \in DOMAIN t : q # p => Count(g, q) = Count(t, q)
           /\ \A j \in 1..Count(f, <<>>) : g[Append(p, Count(t, p) + j)] = f[<<j>>]
<1>1. /\ DOMAIN t \subseteq Positions /\ DOMAIN f \subseteq Positions /\ p \in Positions
      /\ IsForest(t) /\ <<>> \in DOMAIN t
  BY DEF IsTree, IsForest
<1>2. PICK c \in Nat : c = Count(t, p) /\ HasChildren(t, p, c)
  BY <1>1, CountFacts DEF HasChildren
<1>3. PICK d \in Nat : d = Count(f, <<>>) /\ HasChildren(f, <<>>, d)
  BY CountFacts DEF HasChildren
<1>4. /\ DOMAIN g \subseteq Positions /\ g \in [DOMAIN g -> [kind : Kinds, name : Names]]
      /\ \A r \in Positions :
            r \in DOMAIN g <=> \/ r \in DOMAIN t
                               \/ Beyond(t, p, r) /\ Above(t, p, r) \in DOMAIN f
      /\ \A r \in DOMAIN t : g[r] = t[r]
      /\ \A r \in Positions :
            Beyond(t, p, r) /\ Above(t, p, r) \in DOMAIN f => g[r] = f[Above(t, p, r)]
  BY AddIs
\* A child of p that is new.
<1>5. ASSUME NEW j \in Nat, j > 0
      PROVE  /\ Append(p, c + j) \in Positions /\ Beyond(t, p, Append(p, c + j))
             /\ Above(t, p, Append(p, c + j)) = <<j>>
  <2>1. c + j \in Nat /\ c + j > 0 /\ Len(p) \in Nat /\ Len(p) \in 0..Len(p)
    BY <1>1, <1>5, PositionFacts
  <2>2. PICK r \in Positions : r = Append(p, c + j)
    BY <1>1, <2>1, AppendFacts
  <2>3. Len(r) = Len(p) + 1 /\ r[Len(p) + 1] = c + j
    BY <1>1, <2>1, <2>2, AppendFacts
  <2>4. Pre(r, Len(p)) = p
    <3>1. Pre(Append(p, c + j), Len(p)) = Pre(p, Len(p)) /\ Pre(p, Len(p)) = p
      BY <1>1, <2>1, PreAppend, PreWhole
    <3> QED BY <2>2, <3>1
  <2>5. Beyond(t, p, r)
    BY <1>2, <1>5, <2>1, <2>3, <2>4 DEF Beyond
  <2>6. PICK a \in Positions : a = Above(t, p, r)
    BY <1>1, <1>2, <2>5, AboveFacts
  <2>7. Len(a) = Len(r) - Len(p) /\ a[1] = r[Len(p) + 1] - Count(t, p)
    BY <1>1, <1>2, <2>5, <2>6, AboveFacts
  <2>8. Len(a) = 1 /\ a[1] = j
    BY <1>2, <2>1, <2>3, <2>7
  <2>9. <<j>> \in Positions /\ Len(<<j>>) = 1 /\ <<j>>[1] = j
    BY <1>5 DEF Positions
  <2>10. a = <<j>>
    BY <2>8, <2>9, SamePosition
  <2> QED BY <2>2, <2>5, <2>6, <2>10
<1>6. ASSUME NEW j \in Nat, j > 0 PROVE <<j>> \in DOMAIN f <=> j <= d
  <2>1. Append(<<>>, j) = <<j>>
    OBVIOUS
  <2> QED BY <1>3, <1>6, <2>1 DEF HasChildren
<1>7. HasChildren(g, p, c + d)
  <2>1. ASSUME NEW i \in Nat, i > 0 PROVE Append(p, i) \in DOMAIN g <=> i <= c + d
    <3>1. Append(p, i) \in DOMAIN t <=> i <= c
      BY <1>2, <2>1 DEF HasChildren
    <3>2. Append(p, i) \in Positions
      BY <1>1, <2>1, AppendFacts
    <3>3. CASE i <= c
      BY <1>4, <3>1, <3>2, <3>3
    <3>4. CASE i > c
      <4>1. PICK j \in Nat : j > 0 /\ i = c + j
        <5>1. i - c \in Nat /\ i - c > 0 /\ i = c + (i - c)
          BY <3>4
        <5> QED BY <5>1
      <4>2. Append(p, i) \in DOMAIN g <=> <<j>> \in DOMAIN f
        BY <1>4, <1>5, <3>1, <3>2, <3>4, <4>1
      <4> QED BY <1>6, <4>1, <4>2
    <3> QED BY <3>3, <3>4
  <2> QED BY <2>1 DEF HasChildren
<1>8. ASSUME NEW q \in DOMAIN t, q # p PROVE HasChildren(g, q, Count(t, q))
  <2>1. HasChildren(t, q, Count(t, q)) /\ q \in Positions
    BY <1>1, CountFacts
  <2>2. ASSUME NEW i \in Nat, i > 0 PROVE ~Beyond(t, p, Append(q, i))
    <3>1. SUFFICES ASSUME Beyond(t, p, Append(q, i)) PROVE FALSE
      OBVIOUS
    <3>2. PICK r \in Positions : r = Append(q, i)
      BY <2>1, <2>2, AppendFacts
    <3>3. Len(r) = Len(q) + 1 /\ \A k \in 1..Len(q) : r[k] = q[k]
      BY <2>1, <2>2, <3>2, AppendFacts
    <3>4. Len(q) \in Nat /\ Len(p) \in Nat /\ Len(p) \in 0..Len(q)
      BY <1>1, <2>1, <3>1, <3>2, <3>3, PositionFacts DEF Beyond
    <3>5. Pre(q, Len(p)) = p
      BY <2>1, <2>2, <3>1, <3>4, PreAppend DEF Beyond
    <3>6. CASE Len(q) = Len(p)
      BY <1>8, <2>1, <3>5, <3>6, PreWhole
    <3>7. CASE Len(q) > Len(p)
      <4>1. r[Len(p) + 1] = q[Len(p) + 1]
        BY <3>3, <3>4, <3>7
      <4>2. Beyond(t, p, q)
        BY <3>1, <3>2, <3>5, <3>7, <4>1 DEF Beyond
      <4> QED BY <1>1, <4>2, NotBeyond
    <3> QED BY <3>4, <3>6, <3>7
  <2>3. ASSUME NEW i \in Nat, i > 0
        PROVE  Append(q, i) \in DOMAIN g <=> i <= Count(t, q)
    <3>1. Append(q, i) \in Positions
      BY <2>1, <2>3, AppendFacts
    <3> QED BY <1>4, <2>1, <2>2, <2>3, <3>1 DEF HasChildren
  <2> QED BY <2>1, <2>3 DEF HasChildren
<1>9. ASSUME NEW q \in DOMAIN g, q \notin DOMAIN t PROVE \E n : HasChildren(g, q, n)
  <2>1. q \in Positions /\ Beyond(t, p, q) /\ Above(t, p, q) \in DOMAIN f
    BY <1>4, <1>9
  <2>2. PICK a \in DOMAIN f : a = Above(t, p, q)
    BY <2>1
  <2>3. HasChildren(f, a, Count(f, a))
    BY CountFacts
  <2>4. ASSUME NEW i \in Nat, i > 0
        PROVE  Append(q, i) \in DOMAIN g <=> i <= Count(f, a)
    <3>1. Append(q, i) \in Positions
      BY <2>1, <2>4, AppendFacts
    <3>2. Beyond(t, p, Append(q, i)) /\ Above(t, p, Append(q, i)) = Append(a, i)
      BY <1>1, <1>2, <2>1, <2>2, <2>4, AboveAppend
    <3>3. Append(q, i) \notin DOMAIN t
      BY <1>1, <3>2, NotBeyond
    <3> QED BY <1>4, <2>3, <2>4, <3>1, <3>2, <3>3 DEF HasChildren
  <2> QED BY <2>3, <2>4 DEF HasChildren
<1>10. ASSUME NEW q \in DOMAIN g, NEW n \in 1..Len(q) PROVE Pre(q, n) \in DOMAIN g
  <2>0. q \in Positions /\ n \in 0..Len(q) /\ Len(q) \in Nat /\ Pre(q, n) \in Positions
    <3>1. q \in Positions
      BY <1>4
    <3>2. Len(q) \in Nat /\ n \in 0..Len(q)
      BY <3>1, PositionFacts
    <3> QED BY <3>1, <3>2, PreFacts
  <2>1. CASE q \in DOMAIN t
    BY <1>4, <2>0, <2>1, Ancestors
  <2>2. CASE q \notin DOMAIN t
    <3>1. Beyond(t, p, q) /\ Above(t, p, q) \in DOMAIN f
      BY <1>4, <2>0, <2>2
    <3>2. CASE n <= Len(p)
      <4>1. Len(p) \in Nat /\ Len(p) \in 0..Len(q) /\ n \in 0..Len(p) /\ Pre(q, Len(p)) = p
        BY <1>1, <2>0, <3>1, <3>2, PositionFacts DEF Beyond
      <4>2. Pre(q, n) = Pre(p, n)
        BY <2>0, <4>1, PrePre
      <4> QED BY <1>4, <2>0, <4>1, <4>2, Ancestors
    <3>3. CASE n > Len(p)
      <4>1. /\ Beyond(t, p, Pre(q, n))
            /\ Above(t, p, Pre(q, n)) = Pre(Above(t, p, q), n - Len(p))
        BY <1>1, <1>2, <2>0, <3>1, <3>3, AbovePre
      <4>2. Len(Above(t, p, q)) = Len(q) - Len(p) /\ Len(p) \in Nat
        BY <1>1, <1>2, <2>0, <3>1, AboveFacts, PositionFacts
      <4>3. n - Len(p) \in 1..Len(Above(t, p, q))
        BY <2>0, <3>3, <4>2
      <4>4. Pre(Above(t, p, q), n - Len(p)) \in DOMAIN f
        BY <3>1, <4>3 DEF IsForest, Pre
      <4> QED BY <1>4, <2>0, <4>1, <4>4
    <3> QED BY <1>1, <2>0, <3>2, <3>3, PositionFacts
  <2> QED BY <2>1, <2>2
<1>11. \A q \in DOMAIN g \cup {<<>>} : \E n : HasChildren(g, q, n)
  BY <1>1, <1>7, <1>8, <1>9
<1>12. IsForest(g)
  BY <1>4, <1>10, <1>11, MakesForest
<1>13. IsTree(g) /\ \A q \in DOMAIN t : q \in DOMAIN g /\ g[q] = t[q]
  BY <1>1, <1>4, <1>12 DEF IsTree
<1>14. Count(g, p) = c + d
  BY <1>1, <1>4, <1>7, CountIs
<1>15. ASSUME NEW q \in DOMAIN t, q # p PROVE Count(g, q) = Count(t, q)
  BY <1>1, <1>4, <1>8, <1>15, CountIs
<1>16. ASSUME NEW j \in 1..d PROVE g[Append(p, c + j)] = f[<<j>>]
  <2>1. j \in Nat /\ j > 0 /\ j <= d
    OBVIOUS
  <2> QED BY <1>4, <1>5, <1>6, <2>1
<1> QED BY <1>2, <1>3, <1>13, <1>14, <1>15, <1>16

-----------------------------------------------------------------------------
(* rad_find_path.  i is the first child of p that can be found by name.    *)

First(t, p, name, i) == i \in Named(t, p, name) /\ \A k \in Named(t, p, name) : i <= k

LEMMA NamedIs ==
    ASSUME NEW t, DOMAIN t \subseteq Positions, NEW p \in Positions, NEW name, NEW i
    PROVE  i \in Named(t, p, name) <=>
              /\ i \in Nat /\ i > 0 /\ Append(p, i) \in DOMAIN t
              /\ Findable(t[Append(p, i)]) /\ t[Append(p, i)].name = name
<1>1. i \in Children(t, p) <=> i \in Nat /\ i > 0 /\ Append(p, i) \in DOMAIN t
  BY ChildrenAre
<1> QED BY <1>1 DEF Named

LEMMA LeadsIs ==
    ASSUME NEW t, NEW p, NEW names
    PROVE  Leads(t, p, names) <=>
              /\ Len(p) = Len(names)
              /\ \A n \in 1..Len(names) : First(t, Pre(p, n - 1), names[n], p[n])
BY DEF Leads, First, Pre

LEMMA LeadsUnique ==
    ASSUME NEW t, NEW p \in Positions, NEW q \in Positions, NEW names,
           DOMAIN t \subseteq Positions, Leads(t, p, names), Leads(t, q, names)
    PROVE  p = q
<1>1. PICK m \in Nat : m = Len(p) /\ m = Len(q) /\ m = Len(names)
  BY PositionFacts, LeadsIs
<1> DEFINE D == {i \in 1..m : p[i] # q[i]}
<1>2. SUFFICES ASSUME D # {} PROVE FALSE
  BY <1>1, SamePosition
<1>3. PICK l \in D : \A i \in D : l <= i
  <2>1. D \in SUBSET Nat /\ \A i \in D : i <= m
    OBVIOUS
  <2> HIDE DEF D
  <2> QED BY <1>2, <2>1, LowestExists
<1>4. l \in 1..m /\ l - 1 \in 0..m
  BY <1>3
<1>5. Pre(p, l - 1) = Pre(q, l - 1)
  <2>1. PICK r \in Positions : r = Pre(p, l - 1)
    BY <1>1, <1>4, PreFacts
  <2>2. PICK s \in Positions : s = Pre(q, l - 1)
    BY <1>1, <1>4, PreFacts
  <2>3. Len(r) = l - 1 /\ \A i \in 1..(l - 1) : r[i] = p[i]
    BY <1>1, <1>4, <2>1, PreFacts
  <2>4. Len(s) = l - 1 /\ \A i \in 1..(l - 1) : s[i] = q[i]
    BY <1>1, <1>4, <2>2, PreFacts
  <2>5. \A i \in 1..(l - 1) : p[i] = q[i]
    <3> TAKE i \in 1..(l - 1)
    <3>1. i \in 1..m /\ i < l
      BY <1>4
    <3> QED BY <1>3, <1>4, <3>1
  <2>6. r = s
    BY <2>3, <2>4, <2>5, SamePosition
  <2> QED BY <2>1, <2>2, <2>6
<1>6. First(t, Pre(p, l - 1), names[l], p[l]) /\ First(t, Pre(p, l - 1), names[l], q[l])
  BY <1>1, <1>4, <1>5, LeadsIs
<1>7. p[l] \in Nat /\ q[l] \in Nat
  BY <1>1, <1>4, PositionFacts
<1>8. p[l] = q[l]
  BY <1>6, <1>7 DEF First
<1> QED BY <1>3, <1>8

LEMMA DescendIs ==
    ASSUME NEW t, DOMAIN t \subseteq Positions, NEW names
    PROVE  /\ \A p \in DOMAIN t : Leads(t, p, names) => Descend(t, names) = p
           /\ Descend(t, names) # Missing =>
                 Descend(t, names) \in DOMAIN t /\ Leads(t, Descend(t, names), names)
           /\ Missing \notin DOMAIN t
<1>1. Missing \notin Positions
  <2>1. \A p \in Seq(Nat \ {0}) : p \in Seq(Nat)
    OBVIOUS
  <2> QED BY <2>1, MissingAssumption DEF Positions
<1>2. ASSUME NEW p \in DOMAIN t, Leads(t, p, names) PROVE Descend(t, names) = p
  <2>1. PICK q \in DOMAIN t : q = Descend(t, names) /\ Leads(t, q, names)
    BY <1>2 DEF Descend
  <2>2. p \in Positions /\ q \in Positions
    OBVIOUS
  <2> QED BY <1>2, <2>1, <2>2, LeadsUnique
<1>3. ASSUME Descend(t, names) # Missing
      PROVE  Descend(t, names) \in DOMAIN t /\ Leads(t, Descend(t, names), names)
  BY <1>3 DEF Descend
<1> QED BY <1>1, <1>2, <1>3

\* One name more is one level more.
LEMMA LeadsAppend ==
    ASSUME NEW t, NEW p \in Positions, NEW i \in Nat, i > 0,
           NEW S, NEW names \in Seq(S), NEW name \in S
    PROVE  Leads(t, Append(p, i), Append(names, name)) <=>
              Leads(t, p, names) /\ First(t, p, name, i)
<1>1. PICK m \in Nat, n \in Nat : m = Len(p) /\ n = Len(names)
  BY PositionFacts
<1>2. PICK r \in Positions : r = Append(p, i)
  BY AppendFacts
<1>3. Len(r) = m + 1 /\ (\A k \in 1..m : r[k] = p[k]) /\ r[m + 1] = i
  BY <1>1, <1>2, AppendFacts
<1>4. PICK all \in Seq(S) : all = Append(names, name)
  <2>1. Append(names, name) \in Seq(S)
    OBVIOUS
  <2> QED BY <2>1
<1>5. Len(all) = n + 1 /\ (\A k \in 1..n : all[k] = names[k]) /\ all[n + 1] = name
  BY <1>1, <1>4
<1>6. \A k \in 0..m : Pre(r, k) = Pre(p, k)
  BY <1>1, <1>2, PreAppend
<1>7. Pre(p, m) = p
  BY <1>1, PreWhole
<1>8. CASE m # n
  <2>1. Len(r) # Len(all) /\ Len(p) # Len(names)
    BY <1>1, <1>3, <1>5, <1>8
  <2>2. ~Leads(t, r, all) /\ ~Leads(t, p, names)
    BY <2>1, LeadsIs
  <2> QED BY <1>2, <1>4, <2>2
<1>9. CASE m = n
  <2>1. Leads(t, r, all) <=> \A k \in 1..(n + 1) : First(t, Pre(r, k - 1), all[k], r[k])
    BY <1>3, <1>5, <1>9, LeadsIs
  <2>2. Leads(t, p, names) <=> \A k \in 1..n : First(t, Pre(p, k - 1), names[k], p[k])
    BY <1>1, <1>9, LeadsIs
  <2>3. \A k \in 1..n : /\ k \in 1..(n + 1) /\ k - 1 \in 0..m
                        /\ Pre(r, k - 1) = Pre(p, k - 1) /\ all[k] = names[k] /\ r[k] = p[k]
    BY <1>3, <1>5, <1>6, <1>9
  <2>4. /\ n + 1 \in 1..(n + 1) /\ (n + 1) - 1 = n /\ Pre(r, n) = p
        /\ all[n + 1] = name /\ r[n + 1] = i
    BY <1>3, <1>5, <1>6, <1>7, <1>9
  <2>5. \A k \in 1..(n + 1) : k \in 1..n \/ k = n + 1
    OBVIOUS
  <2>6. ASSUME Leads(t, r, all) PROVE Leads(t, p, names) /\ First(t, p, name, i)
    <3>1. \A k \in 1..n : First(t, Pre(p, k - 1), names[k], p[k])
      BY <2>1, <2>3, <2>6
    <3>2. First(t, Pre(r, (n + 1) - 1), all[n + 1], r[n + 1])
      BY <2>1, <2>4, <2>6
    <3> QED BY <2>2, <2>4, <3>1, <3>2
  <2>7. ASSUME Leads(t, p, names), First(t, p, name, i) PROVE Leads(t, r, all)
    <3>1. ASSUME NEW k \in 1..(n + 1) PROVE First(t, Pre(r, k - 1), all[k], r[k])
      <4>1. CASE k \in 1..n
        BY <2>2, <2>3, <2>7, <4>1
      <4>2. CASE k = n + 1
        BY <2>4, <2>7, <4>2
      <4> QED BY <2>5, <4>1, <4>2
    <3> QED BY <2>1, <3>1
  <2> QED BY <1>2, <1>4, <2>6, <2>7
<1> QED BY <1>8, <1>9

LEMMA LeadsPre ==
    ASSUME NEW t, NEW p \in Positions, NEW S, NEW names \in Seq(S),
           Leads(t, p, names), NEW n \in 0..Len(names)
    PROVE  Leads(t, Pre(p, n), SubSeq(names, 1, n))
<1>1. PICK m \in Nat : m = Len(p) /\ m = Len(names)
  BY PositionFacts, LeadsIs
<1>2. PICK q \in Positions : q = Pre(p, n)
  BY <1>1, PreFacts
<1>3. Len(q) = n /\ \A k \in 1..n : q[k] = p[k]
  BY <1>1, <1>2, PreFacts
<1>4. PICK some \in Seq(S) : some = SubSeq(names, 1, n)
  <2>1. SubSeq(names, 1, n) \in Seq(S)
    BY <1>1
  <2> QED BY <2>1
<1>5. Len(some) = n /\ \A k \in 1..n : some[k] = names[k]
  BY <1>1, <1>4
<1>6. ASSUME NEW k \in 1..n PROVE First(t, Pre(q, k - 1), some[k], q[k])
  <2>1. k \in 1..m /\ k - 1 \in 0..n /\ n \in 0..Len(p)
    BY <1>1
  <2>2. Pre(q, k - 1) = Pre(p, k - 1)
    BY <1>2, <2>1, PrePre
  <2>3. First(t, Pre(p, k - 1), names[k], p[k])
    BY <1>1, <2>1, LeadsIs
  <2> QED BY <1>3, <1>5, <2>2, <2>3
<1>7. Leads(t, q, some)
  BY <1>3, <1>5, <1>6, LeadsIs
<1> QED BY <1>2, <1>4, <1>7

\* Where some child has the name, the search for it ends.
LEMMA Hit ==
    ASSUME NEW t, IsTree(t), NEW p \in DOMAIN t, NEW S, NEW names \in Seq(S),
           Leads(t, p, names), NEW name \in S, Named(t, p, name) # {}
    PROVE  Descend(t, Append(names, name)) # Missing
<1>1. p \in Positions /\ DOMAIN t \subseteq Positions /\ IsForest(t)
  BY DEF IsTree, IsForest
<1>2. PICK c \in Nat : HasChildren(t, p, c)
  BY <1>1, CountFacts DEF HasChildren
<1>3. Named(t, p, name) \in SUBSET Nat /\ \A i \in Named(t, p, name) : i <= c
  BY <1>1, <1>2, NamedIs DEF HasChildren
<1>4. PICK i \in Named(t, p, name) : \A k \in Named(t, p, name) : i <= k
  BY <1>3, LowestExists
<1>5. i \in Nat /\ i > 0 /\ Append(p, i) \in DOMAIN t
  BY <1>1, <1>4, NamedIs
<1>6. Leads(t, Append(p, i), Append(names, name))
  BY <1>1, <1>4, <1>5, LeadsAppend DEF First
<1> QED BY <1>1, <1>5, <1>6, DescendIs

-----------------------------------------------------------------------------
(* A description that has grown, or has lost what it had grown.            *)

Includes(t, b) ==
    DOMAIN t \subseteq Positions /\ \A r \in DOMAIN b : r \in DOMAIN t /\ t[r] = b[r]

LEMMA NamedIncludes ==
    ASSUME NEW b, IsTree(b), NEW t, Includes(t, b), NEW p \in DOMAIN b, NEW name, NEW i
    PROVE  /\ i \in Named(b, p, name) => i \in Named(t, p, name) /\ i <= Count(b, p)
           /\ i \in Named(t, p, name) /\ i <= Count(b, p) => i \in Named(b, p, name)
<1>1. p \in Positions /\ DOMAIN b \subseteq Positions /\ IsForest(b)
  BY DEF IsTree, IsForest
<1>2. HasChildren(b, p, Count(b, p))
  BY <1>1, CountFacts
<1>3. DOMAIN t \subseteq Positions /\ \A r \in DOMAIN b : r \in DOMAIN t /\ t[r] = b[r]
  BY DEF Includes
<1>4. i \in Named(b, p, name) <=>
         /\ i \in Nat /\ i > 0 /\ Append(p, i) \in DOMAIN b
         /\ Findable(b[Append(p, i)]) /\ b[Append(p, i)].name = name
  BY <1>1, NamedIs
<1>5. i \in Named(t, p, name) <=>
         /\ i \in Nat /\ i > 0 /\ Append(p, i) \in DOMAIN t
         /\ Findable(t[Append(p, i)]) /\ t[Append(p, i)].name = name
  BY <1>1, <1>3, NamedIs
<1> QED BY <1>2, <1>3, <1>4, <1>5 DEF HasChildren

\* A child that was there before is the first one now if it was so then.
LEMMA FirstIncludes ==
    ASSUME NEW b, IsTree(b), NEW t, Includes(t, b), NEW p \in DOMAIN b, NEW name,
           NEW i \in Nat, i <= Count(b, p)
    PROVE  First(t, p, name, i) <=> First(b, p, name, i)
<1>1. Count(b, p) \in Nat /\ p \in Positions /\ DOMAIN t \subseteq Positions
  BY CountFacts DEF IsTree, IsForest, HasChildren, Includes
<1>2. ASSUME NEW k \in Named(t, p, name) PROVE k \in Nat
  BY <1>1, NamedIs
<1>3. ASSUME First(t, p, name, i) PROVE First(b, p, name, i)
  BY <1>3, NamedIncludes DEF First
<1>4. ASSUME First(b, p, name, i) PROVE First(t, p, name, i)
  <2>1. i \in Named(t, p, name)
    BY <1>4, NamedIncludes DEF First
  <2>2. ASSUME NEW k \in Named(t, p, name) PROVE i <= k
    <3>1. CASE k <= Count(b, p)
      BY <1>4, <3>1, NamedIncludes DEF First
    <3>2. CASE ~(k <= Count(b, p))
      BY <1>1, <1>2, <3>2
    <3> QED BY <3>1, <3>2
  <2> QED BY <2>1, <2>2 DEF First
<1> QED BY <1>3, <1>4

LEMMA LeadsIncludes ==
    ASSUME NEW b, IsTree(b), NEW t, Includes(t, b), NEW p \in DOMAIN b, NEW names
    PROVE  Leads(t, p, names) <=> Leads(b, p, names)
<1>1. ASSUME Len(p) = Len(names), NEW n \in 1..Len(names)
      PROVE  First(t, Pre(p, n - 1), names[n], p[n]) <=> First(b, Pre(p, n - 1), names[n], p[n])
  <2>1. p \in Positions /\ Len(p) \in Nat
    BY PositionFacts DEF IsTree, IsForest
  <2>2. n - 1 \in 0..Len(p) /\ n \in 1..Len(p)
    BY <1>1, <2>1
  <2>3. Pre(p, n - 1) \in DOMAIN b /\ p[n] <= Count(b, Pre(p, n - 1)) /\ p[n] \in Nat
    BY <2>1, <2>2, Ancestors, WayDown, PositionFacts
  <2> QED BY <2>3, FirstIncludes
<1> QED BY <1>1, LeadsIs

-----------------------------------------------------------------------------
(* What is left while the additions to b are taken back: of the children   *)
(* that p has in the grown tree t, the first Count(b, p) are there and     *)
(* those that come after the first low[p].                                 *)

\* r leaves b at level l.
Exit(b, r, l) == /\ l \in 0..(Len(r) - 1) /\ Pre(r, l) \in DOMAIN b
                 /\ r[l + 1] > Count(b, Pre(r, l))

Source(b, low, r, l) == Shift(r, l + 1, low[Pre(r, l)] - Count(b, Pre(r, l)))

Peeled(s, b, t, low) ==
    /\ Includes(s, b) /\ s \in [DOMAIN s -> [kind : Kinds, name : Names]]
    /\ \A r \in Positions : \A l \in 0..Len(r) :
          Exit(b, r, l) => /\ r \in DOMAIN s <=> Source(b, low, r, l) \in DOMAIN t
                           /\ r \in DOMAIN s => s[r] = t[Source(b, low, r, l)]

IsLow(b, low) == \A p \in DOMAIN b : low[p] \in Nat /\ low[p] >= Count(b, p)

LEMMA ExitFacts ==
    ASSUME NEW b, IsTree(b), NEW r \in Positions, NEW l, Exit(b, r, l)
    PROVE  /\ l \in Nat /\ l + 1 \in 1..Len(r) /\ l \in 0..Len(r)
           /\ Pre(r, l) \in Positions /\ Len(Pre(r, l)) = l
           /\ Count(b, Pre(r, l)) \in Nat /\ r[l + 1] \in Nat
<1>1. Len(r) \in Nat /\ l \in 0..(Len(r) - 1)
  BY PositionFacts DEF Exit
<1>2. l \in Nat /\ l + 1 \in 1..Len(r) /\ l \in 0..Len(r)
  BY <1>1
<1>3. Count(b, Pre(r, l)) \in Nat
  BY CountFacts DEF IsTree, HasChildren, Exit
<1> QED BY <1>2, <1>3, PreFacts, PositionFacts

LEMMA ExitExists ==
    ASSUME NEW b, IsTree(b), NEW r \in Positions, r \notin DOMAIN b
    PROVE  \E l \in 0..Len(r) : Exit(b, r, l)
<1>1. PICK m \in Nat : m = Len(r)
  BY PositionFacts
<1> DEFINE D == {n \in 0..m : Pre(r, n) \notin DOMAIN b}
<1>2. m \in D
  BY <1>1, PreWhole
<1>3. PICK n \in D : \A k \in D : n <= k
  <2>1. D \in SUBSET Nat /\ \A k \in D : k <= m
    OBVIOUS
  <2> HIDE DEF D
  <2> QED BY <1>2, <2>1, LowestExists
<1>4. n # 0
  BY <1>3, PreWhole DEF IsTree
<1>5. n \in 1..m /\ n - 1 \in 0..m /\ n - 1 \in 0..(m - 1) /\ (n - 1) + 1 = n /\ ~(n <= n - 1)
  BY <1>3, <1>4
<1>6. Pre(r, n - 1) \in DOMAIN b
  BY <1>3, <1>5
<1>7. Append(Pre(r, n - 1), r[n]) \notin DOMAIN b
  BY <1>1, <1>3, <1>5, PreNext
<1>8. HasChildren(b, Pre(r, n - 1), Count(b, Pre(r, n - 1)))
  BY <1>6, CountFacts DEF IsTree
<1>9. r[n] \in Nat /\ r[n] > 0
  BY <1>1, <1>5, PositionFacts
<1>10. r[n] > Count(b, Pre(r, n - 1))
  BY <1>7, <1>8, <1>9 DEF HasChildren
<1>11. Exit(b, r, n - 1)
  BY <1>1, <1>5, <1>6, <1>10 DEF Exit
<1> QED BY <1>1, <1>5, <1>11

\* Beyond the exit nothing belongs to b.
LEMMA ExitLast ==
    ASSUME NEW b, IsTree(b), NEW r \in Positions, NEW l, Exit(b, r, l),
           NEW m \in 0..Len(r), m > l
    PROVE  Pre(r, m) \notin DOMAIN b
<1>1. SUFFICES ASSUME Pre(r, m) \in DOMAIN b PROVE FALSE
  OBVIOUS
<1>2. /\ l \in Nat /\ l + 1 \in 1..Len(r) /\ l \in 0..Len(r)
      /\ Count(b, Pre(r, l)) \in Nat /\ r[l + 1] \in Nat
  BY ExitFacts
<1>3. PICK q \in Positions : q = Pre(r, m)
  BY PreFacts
<1>4. Len(q) = m /\ \A k \in 1..m : q[k] = r[k]
  BY <1>3, PreFacts
<1>5. l + 1 \in 1..Len(q) /\ (l + 1) - 1 = l /\ l \in 0..m /\ l + 1 \in 1..m
  BY <1>2, <1>4
<1>6. q[l + 1] <= Count(b, Pre(q, (l + 1) - 1))
  BY <1>1, <1>3, <1>5, WayDown
<1>7. Pre(q, l) = Pre(r, l)
  BY <1>3, <1>5, PrePre
<1>8. r[l + 1] <= Count(b, Pre(r, l))
  BY <1>4, <1>5, <1>6, <1>7
<1> QED BY <1>2, <1>8 DEF Exit

LEMMA ExitUnique ==
    ASSUME NEW b, IsTree(b), NEW r \in Positions, NEW l, NEW m, Exit(b, r, l), Exit(b, r, m)
    PROVE  l = m
<1>1. l \in Nat /\ m \in Nat /\ l \in 0..Len(r) /\ m \in 0..Len(r)
  BY ExitFacts
<1>2. ~(m > l) /\ ~(l > m)
  BY <1>1, ExitLast DEF Exit
<1> QED BY <1>1, <1>2

LEMMA ExitOut ==
    ASSUME NEW b, IsTree(b), NEW r \in Positions, NEW l, Exit(b, r, l)
    PROVE  r \notin DOMAIN b
<1>1. PICK m \in Nat : m = Len(r) /\ m \in 0..Len(r) /\ m > l
  BY ExitFacts
<1> QED BY <1>1, ExitLast, PreWhole

\* An element moves among the children that b does not have.
LEMMA ExitShift ==
    ASSUME NEW b, IsTree(b), NEW r \in Positions, NEW l, Exit(b, r, l), NEW d \in Nat
    PROVE  /\ Shift(r, l + 1, d) \in Positions /\ Len(Shift(r, l + 1, d)) = Len(r)
           /\ Pre(Shift(r, l + 1, d), l) = Pre(r, l)
           /\ Shift(r, l + 1, d)[l + 1] = r[l + 1] + d
           /\ Exit(b, Shift(r, l + 1, d), l)
<1>1. /\ l \in Nat /\ l + 1 \in 1..Len(r) /\ l \in 0..Len(r)
      /\ Count(b, Pre(r, l)) \in Nat /\ r[l + 1] \in Nat
  BY ExitFacts
<1>2. r[l + 1] > Count(b, Pre(r, l))
  BY DEF Exit
<1>3. d \in Int /\ r[l + 1] + d > 0 /\ r[l + 1] + d > Count(b, Pre(r, l)) /\ l < l + 1
  BY <1>1, <1>2
<1>4. PICK s \in Positions : s = Shift(r, l + 1, d)
  BY <1>1, <1>3, ShiftFacts
<1>5. Len(s) = Len(r) /\ s[l + 1] = r[l + 1] + d
  BY <1>1, <1>3, <1>4, ShiftFacts
<1>6. Pre(s, l) = Pre(r, l)
  BY <1>1, <1>3, <1>4, ShiftPre
<1>7. Exit(b, s, l)
  BY <1>3, <1>5, <1>6 DEF Exit
<1> QED BY <1>4, <1>5, <1>6, <1>7

\* At first nothing is gone ...
LEMMA PeeledFirst ==
    ASSUME NEW b, IsTree(b), NEW t, Includes(t, b),
           t \in [DOMAIN t -> [kind : Kinds, name : Names]],
           NEW low, \A p \in DOMAIN b : low[p] = Count(b, p)
    PROVE  Peeled(t, b, t, low)
<1>1. ASSUME NEW r \in Positions, NEW l, Exit(b, r, l) PROVE Source(b, low, r, l) = r
  <2>1. l + 1 \in 1..Len(r) /\ Count(b, Pre(r, l)) \in Nat
    BY <1>1, ExitFacts
  <2>2. low[Pre(r, l)] = Count(b, Pre(r, l))
    BY <1>1 DEF Exit
  <2>3. low[Pre(r, l)] - Count(b, Pre(r, l)) = 0
    BY <2>1, <2>2
  <2> QED BY <2>1, <2>3, ShiftZero DEF Source
<1> QED BY <1>1 DEF Peeled

\* ... each removal takes one child more ...
LEMMA PeeledNext ==
    ASSUME NEW b, IsTree(b), NEW t, NEW low, IsLow(b, low), NEW s, Peeled(s, b, t, low),
           NEW p \in DOMAIN b, NEW u, u = Unlink(s, Append(p, Count(b, p) + 1)),
           NEW low2, low2[p] = low[p] + 1, \A q \in DOMAIN b : q # p => low2[q] = low[q]
    PROVE  Peeled(u, b, t, low2)
<1> DEFINE V == [kind : Kinds, name : Names]
<1>1. p \in Positions /\ IsForest(b) /\ DOMAIN b \subseteq Positions
  BY DEF IsTree, IsForest
<1>2. PICK c \in Nat : c = Count(b, p) + 1 /\ c > 0 /\ Count(b, p) \in Nat
  <2>1. Count(b, p) \in Nat
    BY <1>1, CountFacts DEF HasChildren
  <2> QED BY <2>1
<1>3. PICK a \in Positions : a = Append(p, c) /\ Len(a) = Len(p) + 1 /\ a # <<>>
  <2>1. Append(p, c) \in Positions /\ Len(Append(p, c)) = Len(p) + 1 /\ Len(p) \in Nat
    BY <1>1, <1>2, AppendFacts, PositionFacts
  <2>2. Append(p, c) # <<>>
    BY <2>1, Root
  <2> QED BY <2>1, <2>2
<1>4. /\ DOMAIN s \subseteq Positions /\ s \in [DOMAIN s -> V]
      /\ \A r \in DOMAIN b : r \in DOMAIN s /\ s[r] = b[r]
  BY DEF Peeled, Includes
<1>5. /\ DOMAIN u \subseteq Positions /\ u \in [DOMAIN u -> V]
      /\ \A r \in Positions : r \in DOMAIN u <=> Down(a, r) \in DOMAIN s
      /\ \A r \in DOMAIN u : u[r] = s[Down(a, r)]
  <2>1. u = Unlink(s, a)
    BY <1>2, <1>3
  <2>2. Lost(u, s, a)
    BY <1>3, <1>4, <2>1, UnlinkIs
  <2> QED BY <2>2 DEF Lost
<1>6. \A r \in Positions : Behind(a, 0, r) <=> Exit(b, r, Len(p)) /\ Pre(r, Len(p)) = p
  <2> TAKE r \in Positions
  <2>1. Behind(a, 0, r) <=> Len(r) > Len(p) /\ Pre(r, Len(p)) = p /\ r[Len(p) + 1] >= c
    BY <1>1, <1>2, <1>3, BehindChild
  <2>2. Len(r) \in Nat /\ Len(p) \in Nat
    BY <1>1, PositionFacts
  <2>3. ASSUME Behind(a, 0, r) PROVE Exit(b, r, Len(p)) /\ Pre(r, Len(p)) = p
    <3>1. Len(p) + 1 \in 1..Len(r) /\ Len(p) \in 0..(Len(r) - 1)
      BY <2>1, <2>2, <2>3
    <3>2. r[Len(p) + 1] \in Nat
      BY <3>1, PositionFacts
    <3> QED BY <1>2, <2>1, <2>3, <3>1, <3>2 DEF Exit
  <2>4. ASSUME Exit(b, r, Len(p)), Pre(r, Len(p)) = p PROVE Behind(a, 0, r)
    <3>1. Len(p) \in 0..(Len(r) - 1) /\ r[Len(p) + 1] > Count(b, p)
      BY <2>4 DEF Exit
    <3>2. Len(p) + 1 \in 1..Len(r)
      BY <2>2, <3>1
    <3>3. r[Len(p) + 1] \in Nat
      BY <3>2, PositionFacts
    <3> QED BY <1>2, <2>1, <2>2, <2>4, <3>1, <3>3
  <2> QED BY <2>3, <2>4
<1>7. ASSUME NEW r \in DOMAIN b PROVE r \in DOMAIN u /\ u[r] = b[r]
  <2>1. Down(a, r) = r
    BY <1>1, <1>6, ExitOut DEF Down
  <2> QED BY <1>1, <1>4, <1>5, <2>1
<1>8. ASSUME NEW r \in Positions, NEW l \in 0..Len(r), Exit(b, r, l)
      PROVE  /\ r \in DOMAIN u <=> Source(b, low2, r, l) \in DOMAIN t
             /\ r \in DOMAIN u => u[r] = t[Source(b, low2, r, l)]
  <2>1. /\ l \in Nat /\ l + 1 \in 1..Len(r) /\ Len(Pre(r, l)) = l
        /\ Count(b, Pre(r, l)) \in Nat /\ r[l + 1] \in Nat /\ Pre(r, l) \in DOMAIN b
    BY <1>8, ExitFacts DEF Exit
  <2>2. CASE Pre(r, l) = p
    <3>1. l = Len(p)
      BY <2>1, <2>2
    <3>2. Down(a, r) = Shift(r, l + 1, 1)
      BY <1>3, <1>6, <1>8, <2>2, <3>1 DEF Down
    <3>3. PICK q \in Positions : q = Shift(r, l + 1, 1)
      BY <1>8, ExitShift
    <3>4. /\ Len(q) = Len(r) /\ Pre(q, l) = p /\ q[l + 1] = r[l + 1] + 1
          /\ Exit(b, q, l) /\ l \in 0..Len(q)
      BY <1>8, <2>2, <3>3, ExitShift
    <3>5. /\ q \in DOMAIN s <=> Source(b, low, q, l) \in DOMAIN t
          /\ q \in DOMAIN s => s[q] = t[Source(b, low, q, l)]
      BY <3>4 DEF Peeled
    <3>6. Source(b, low, q, l) = Source(b, low2, r, l)
      <4>1. PICK d \in Nat : d = low[p] - Count(b, p)
        BY <2>1, <2>2 DEF IsLow
      <4>2. low2[p] - Count(b, p) = 1 + d
        BY <2>1, <2>2, <4>1 DEF IsLow
      <4>3. 1 \in Int /\ d \in Int /\ r[l + 1] + 1 > 0 /\ r[l + 1] + 1 + d > 0
        BY <2>1
      <4>4. Shift(q, l + 1, d) = Shift(r, l + 1, 1 + d)
        BY <2>1, <3>3, <4>3, ShiftShift
      <4> QED BY <2>2, <3>4, <4>1, <4>2, <4>4 DEF Source
    <3> QED BY <1>5, <3>2, <3>3, <3>5, <3>6
  <2>3. CASE Pre(r, l) # p
    <3>1. ~Behind(a, 0, r)
      BY <1>6, <1>8, <2>3, ExitUnique
    <3>2. Down(a, r) = r
      BY <1>6, <3>1 DEF Down
    <3>3. Source(b, low2, r, l) = Source(b, low, r, l)
      BY <2>1, <2>3 DEF Source
    <3> QED BY <1>5, <1>8, <3>2, <3>3 DEF Peeled
  <2> QED BY <2>2, <2>3
<1> QED BY <1>5, <1>7, <1>8 DEF Peeled, Includes

\* ... and when all are gone b is left.
LEMMA PeeledLast ==
    ASSUME NEW b, IsTree(b), NEW t, IsTree(t), Includes(t, b),
           NEW low, IsLow(b, low), \A p \in DOMAIN b : low[p] = Count(t, p),
           NEW s, Peeled(s, b, t, low)
    PROVE  s = b
<1>1. /\ DOMAIN s \subseteq Positions /\ s \in [DOMAIN s -> [kind : Kinds, name : Names]]
      /\ \A r \in DOMAIN b : r \in DOMAIN s /\ s[r] = b[r]
  BY DEF Peeled, Includes
<1>2. ASSUME NEW r \in DOMAIN s, r \notin DOMAIN b PROVE FALSE
  <2>0. r \in Positions
    BY <1>1
  <2>1. PICK l \in 0..Len(r) : Exit(b, r, l)
    BY <1>2, <2>0, ExitExists
  <2>2. /\ l \in Nat /\ l + 1 \in 1..Len(r) /\ Pre(r, l) \in DOMAIN b
        /\ Count(b, Pre(r, l)) \in Nat /\ r[l + 1] \in Nat /\ r[l + 1] > Count(b, Pre(r, l))
    BY <2>0, <2>1, ExitFacts DEF Exit
  <2>3. PICK d \in Nat : d = low[Pre(r, l)] - Count(b, Pre(r, l))
    BY <2>2 DEF IsLow
  <2>4. PICK q \in Positions : q = Shift(r, l + 1, d)
    BY <2>0, <2>1, ExitShift
  <2>5. Len(q) = Len(r) /\ Pre(q, l) = Pre(r, l) /\ q[l + 1] = r[l + 1] + d
    BY <2>0, <2>1, <2>4, ExitShift
  <2>6. q \in DOMAIN t
    BY <2>0, <2>1, <2>3, <2>4 DEF Peeled, Source
  <2>7. q[l + 1] <= Count(t, Pre(r, l))
    <3>1. l + 1 \in 1..Len(q) /\ (l + 1) - 1 = l
      BY <2>2, <2>5
    <3>2. q[l + 1] <= Count(t, Pre(q, (l + 1) - 1))
      BY <2>6, <3>1, WayDown
    <3> QED BY <2>5, <3>1, <3>2
  <2>8. low[Pre(r, l)] = Count(t, Pre(r, l)) /\ low[Pre(r, l)] \in Nat
    BY <2>2 DEF IsLow
  <2> QED BY <2>2, <2>3, <2>5, <2>7, <2>8
<1>3. DOMAIN s = DOMAIN b
  BY <1>1, <1>2
<1>4. b \in [DOMAIN b -> [kind : Kinds, name : Names]]
  BY DEF IsTree, IsForest
<1> QED BY <1>1, <1>3, <1>4

\* The first child of p that is left is the next one of the grown tree.
LEMMA PeeledChild ==
    ASSUME NEW b, IsTree(b), NEW t, NEW low, IsLow(b, low), NEW s, Peeled(s, b, t, low),
           NEW p \in DOMAIN b, NEW i \in Nat, i > Count(b, p)
    PROVE  LET q == Append(p, i + (low[p] - Count(b, p)))
           IN  /\ Append(p, i) \in DOMAIN s <=> q \in DOMAIN t
               /\ Append(p, i) \in DOMAIN s => s[Append(p, i)] = t[q]
<1>1. p \in Positions /\ Len(p) \in Nat /\ Len(p) \in 0..Len(p)
  <2>1. p \in Positions
    BY DEF IsTree, IsForest
  <2> QED BY <2>1, PositionFacts
<1>2. Count(b, p) \in Nat /\ i > 0
  <2>1. Count(b, p) \in Nat
    BY CountFacts DEF IsTree, HasChildren
  <2> QED BY <2>1
<1>3. PICK r \in Positions : r = Append(p, i)
  BY <1>1, <1>2, AppendFacts
<1>4. Len(r) = Len(p) + 1 /\ r[Len(p) + 1] = i /\ Pre(r, Len(p)) = p
  <2>1. Pre(Append(p, i), Len(p)) = Pre(p, Len(p)) /\ Pre(p, Len(p)) = p
    BY <1>1, <1>2, PreAppend, PreWhole
  <2> QED BY <1>1, <1>2, <1>3, <2>1, AppendFacts
<1>5. Len(p) \in 0..Len(r) /\ Exit(b, r, Len(p))
  <2>1. Len(p) \in 0..Len(r) /\ Len(p) \in 0..(Len(r) - 1)
    BY <1>1, <1>4
  <2> QED BY <1>4, <2>1 DEF Exit
<1>6. PICK d \in Nat : d = low[p] - Count(b, p)
  BY <1>2 DEF IsLow
<1>7. Source(b, low, r, Len(p)) = Append(p, i + d)
  <2>1. d \in Int /\ i + d > 0
    BY <1>2
  <2>2. Shift(Append(p, i), Len(p) + 1, d) = Append(p, i + d)
    BY <1>1, <1>2, <2>1, ShiftAppend
  <2> QED BY <1>3, <1>4, <1>6, <2>2 DEF Source
<1>8. /\ r \in DOMAIN s <=> Source(b, low, r, Len(p)) \in DOMAIN t
      /\ r \in DOMAIN s => s[r] = t[Source(b, low, r, Len(p))]
  BY <1>5 DEF Peeled
<1> QED BY <1>3, <1>6, <1>7, <1>8

LEMMA NamesFacts ==
    ASSUME NEW S, NEW names \in Seq(S), NEW name \in S
    PROVE  /\ Len(names) \in Nat /\ \A n \in 1..Len(names) : names[n] \in S
           /\ Append(names, name) \in Seq(S) /\ Len(Append(names, name)) = Len(names) + 1
           /\ \A n \in 1..Len(names) : Append(names, name)[n] = names[n]
OBVIOUS

\* The search for the next child to remove finds it, if the description that
\* it was added to, t1, had no child of that name ...
LEMMA PeeledFound ==
    ASSUME NEW b, IsTree(b), NEW t1, IsTree(t1), Includes(t1, b),
           NEW t, NEW low, IsLow(b, low), NEW s, Peeled(s, b, t, low),
           NEW p \in DOMAIN b, NEW S, NEW names \in Seq(S), Leads(t1, p, names),
           NEW name \in S, Descend(t1, Append(names, name)) = Missing,
           Append(p, low[p] + 1) \in DOMAIN t, Findable(t[Append(p, low[p] + 1)]),
           t[Append(p, low[p] + 1)].name = name
    PROVE  Descend(s, Append(names, name)) = Append(p, Count(b, p) + 1)
<1>1. p \in Positions /\ p \in DOMAIN t1
  BY DEF IsTree, IsForest, Includes
<1>2. Includes(s, b) /\ DOMAIN s \subseteq Positions
  BY DEF Peeled, Includes
<1>3. Leads(s, p, names)
  BY <1>2, LeadsIncludes
<1>4. PICK c \in Nat, w \in Nat : c = Count(b, p) /\ w = low[p] /\ w >= c
  <2>1. Count(b, p) \in Nat
    BY CountFacts DEF IsTree, HasChildren
  <2> QED BY <2>1 DEF IsLow
<1>5. c + 1 > c /\ (c + 1) + (w - c) = w + 1 /\ c + 1 \in Nat /\ c + 1 > 0
  BY <1>4
<1>6. Append(p, c + 1) \in DOMAIN s /\ s[Append(p, c + 1)] = t[Append(p, w + 1)]
  <2>1. LET q == Append(p, (c + 1) + (w - c))
        IN  /\ Append(p, c + 1) \in DOMAIN s <=> q \in DOMAIN t
            /\ Append(p, c + 1) \in DOMAIN s => s[Append(p, c + 1)] = t[q]
    BY <1>4, <1>5, PeeledChild
  <2> QED BY <1>4, <1>5, <2>1
<1>7. c + 1 \in Named(s, p, name)
  BY <1>1, <1>2, <1>4, <1>5, <1>6, NamedIs
<1>8. ASSUME NEW k \in Named(s, p, name) PROVE c + 1 <= k
  <2>1. k \in Nat
    BY <1>1, <1>2, NamedIs
  <2>2. CASE k <= c
    <3>1. k \in Named(t1, p, name)
      BY <1>2, <1>4, <1>8, <2>2, NamedIncludes
    <3> QED BY <1>1, <3>1, Hit
  <2> QED BY <1>4, <2>1, <2>2
<1>9. Leads(s, Append(p, c + 1), Append(names, name))
  BY <1>1, <1>3, <1>5, <1>7, <1>8, LeadsAppend DEF First
<1> QED BY <1>2, <1>4, <1>6, <1>9, DescendIs

\* ... and if the addition was to something that is gone, it finds nothing but
\* what was added later, beside that, under a name that was there.
LEMMA PeeledMissed ==
    ASSUME NEW b, IsTree(b), NEW t1, IsTree(t1), Includes(t1, b),
           NEW t, NEW low, IsLow(b, low), NEW s, Peeled(s, b, t, low),
           NEW x \in DOMAIN t1, x \notin DOMAIN b,
           NEW S, NEW names \in Seq(S), Leads(t1, x, names),
           NEW name \in S, Descend(s, Append(names, name)) # Missing
    PROVE  \E p \in DOMAIN b, k \in Nat :
              /\ k > low[p] /\ Append(p, k) \in DOMAIN t /\ Findable(t[Append(p, k)])
              /\ Named(t1, p, t[Append(p, k)].name) # {} /\ t[Append(p, k)].name \in S
<1>1. x \in Positions
  BY DEF IsTree, IsForest
<1>2. Includes(s, b) /\ DOMAIN s \subseteq Positions
  BY DEF Peeled, Includes
<1>3. PICK m \in Nat : m = Len(names) /\ m = Len(x)
  BY <1>1, PositionFacts, LeadsIs
<1>4. PICK all \in Seq(S) : all = Append(names, name) /\ Len(all) = m + 1
                            /\ \A n \in 1..m : all[n] = names[n]
  <2>1. /\ Append(names, name) \in Seq(S) /\ Len(Append(names, name)) = Len(names) + 1
        /\ \A n \in 1..Len(names) : Append(names, name)[n] = names[n]
    BY NamesFacts
  <2> QED BY <1>3, <2>1, Zenon
<1>5. PICK y \in DOMAIN s : y \in Positions /\ Leads(s, y, all)
  BY <1>2, <1>4, DescendIs
<1>6. Len(y) = m + 1
  BY <1>4, <1>5, LeadsIs
<1>7. PICK l \in 0..Len(x) : Exit(b, x, l)
  BY <1>1, ExitExists
<1>8. PICK p \in DOMAIN b : p = Pre(x, l)
  BY <1>7 DEF Exit
<1>9. /\ l \in Nat /\ l + 1 \in 1..m /\ l \in 0..m /\ l \in 0..(m + 1) /\ l + 1 \in 1..(m + 1)
      /\ (l + 1) - 1 = l
  <2>1. l \in Nat /\ l + 1 \in 1..Len(x) /\ l \in 0..Len(x)
    BY <1>1, <1>7, ExitFacts
  <2> QED BY <1>3, <2>1
<1>10. p \in Positions /\ x[l + 1] \in Nat /\ Count(b, p) \in Nat /\ x[l + 1] > Count(b, p)
  BY <1>1, <1>7, <1>8, ExitFacts DEF Exit
<1>11. PICK some \in Seq(S) : some = SubSeq(names, 1, l) /\ some = SubSeq(all, 1, l)
  <2>1. SubSeq(names, 1, l) \in Seq(S) /\ SubSeq(all, 1, l) \in Seq(S)
    BY <1>3, <1>4, <1>9
  <2>2. PICK u \in Seq(S), v \in Seq(S) : u = SubSeq(names, 1, l) /\ v = SubSeq(all, 1, l)
    BY <2>1
  <2>3. Len(u) = l /\ Len(v) = l /\ \A n \in 1..l : u[n] = names[n] /\ v[n] = all[n]
    BY <1>3, <1>4, <1>9, <2>2
  <2>4. \A n \in 1..l : u[n] = v[n]
    BY <1>4, <1>9, <2>3
  <2>5. u = v
    BY <2>3, <2>4, SameSequence
  <2> QED BY <2>2, <2>5
<1>12. Leads(s, p, some)
  <2>1. Leads(t1, p, some)
    BY <1>1, <1>3, <1>8, <1>9, <1>11, LeadsPre
  <2> QED BY <1>2, <2>1, LeadsIncludes
<1>13. Pre(y, l) = p
  <2>1. Leads(s, Pre(y, l), some)
    BY <1>4, <1>5, <1>9, <1>11, LeadsPre
  <2>2. Pre(y, l) \in Positions
    BY <1>5, <1>6, <1>9, PreFacts
  <2> QED BY <1>2, <1>10, <1>12, <2>1, <2>2, LeadsUnique
<1>14. names[l + 1] \in S
  <2>1. \A n \in 1..Len(names) : names[n] \in S
    BY NamesFacts
  <2> QED BY <1>3, <1>9, <2>1, Zenon
<1>15. First(t1, p, names[l + 1], x[l + 1])
  <2>1. First(t1, Pre(x, (l + 1) - 1), names[l + 1], x[l + 1])
    BY <1>3, <1>9, LeadsIs
  <2> QED BY <1>8, <1>9, <2>1
<1>16. First(s, p, names[l + 1], y[l + 1])
  <2>1. First(s, Pre(y, (l + 1) - 1), all[l + 1], y[l + 1])
    BY <1>4, <1>5, <1>9, LeadsIs
  <2> QED BY <1>4, <1>9, <1>13, <2>1
<1>17. /\ y[l + 1] \in Nat /\ y[l + 1] > 0 /\ Append(p, y[l + 1]) \in DOMAIN s
       /\ Findable(s[Append(p, y[l + 1])]) /\ s[Append(p, y[l + 1])].name = names[l + 1]
  BY <1>2, <1>10, <1>16, NamedIs DEF First
<1>18. y[l + 1] > Count(b, p)
  <2>1. SUFFICES ASSUME y[l + 1] <= Count(b, p) PROVE FALSE
    BY <1>10, <1>17
  <2>2. First(t1, p, names[l + 1], y[l + 1])
    BY <1>2, <1>16, <1>17, <2>1, FirstIncludes
  <2>3. x[l + 1] <= y[l + 1]
    BY <1>15, <2>2 DEF First
  <2> QED BY <1>10, <1>17, <2>1, <2>3
<1>19. PICK k \in Nat : k = y[l + 1] + (low[p] - Count(b, p)) /\ k > low[p]
  <2>1. PICK g \in Nat, y1 \in Nat, c \in Nat :
           g = low[p] /\ y1 = y[l + 1] /\ c = Count(b, p)
    BY <1>10, <1>17 DEF IsLow
  <2>2. g >= c /\ y1 > c
    BY <1>18, <2>1 DEF IsLow
  <2>3. y1 + (g - c) \in Nat /\ y1 + (g - c) > g
    BY <2>2
  <2> QED BY <2>1, <2>3
<1>20. Append(p, k) \in DOMAIN t /\ s[Append(p, y[l + 1])] = t[Append(p, k)]
  <2>1. LET q == Append(p, y[l + 1] + (low[p] - Count(b, p)))
        IN  /\ Append(p, y[l + 1]) \in DOMAIN s <=> q \in DOMAIN t
            /\ Append(p, y[l + 1]) \in DOMAIN s => s[Append(p, y[l + 1])] = t[q]
    BY <1>17, <1>18, PeeledChild
  <2> QED BY <1>17, <1>19, <2>1
<1>21. Named(t1, p, names[l + 1]) # {}
  BY <1>15 DEF First
<1> QED BY <1>14, <1>17, <1>19, <1>20, <1>21

-----------------------------------------------------------------------------
(* rastaadd, one PATHINSERT after the other.                               *)

\* The trees that documents have, as a set.
Trees == {t \in UNION {[D -> [kind : Kinds, name : Names]] : D \in SUBSET Positions} : IsTree(t)}

LEMMA TreesAre == \A t : t \in Trees <=> IsTree(t)
<1> TAKE t
<1>1. ASSUME IsTree(t) PROVE t \in Trees
  <2>1. DOMAIN t \in SUBSET Positions /\ t \in [DOMAIN t -> [kind : Kinds, name : Names]]
    BY <1>1 DEF IsTree, IsForest
  <2> QED BY <1>1, <2>1 DEF Trees
<1> QED BY <1>1 DEF Trees

AddResults == {Error} \cup {Edited(Document(s, t)) : s \in Seq(Names), t \in Trees}

LEMMA ResultIs ==
    ASSUME NEW s, NEW t
    PROVE  /\ Edited(Document(s, t)).kind = "edited" /\ Error.kind = "error"
           /\ Crash.kind = "crash" /\ Edited(Document(s, t)).doc.screens = s
           /\ Edited(Document(s, t)).doc.path = t
BY DEF Edited, Document, Error, Crash

LEMMA FindPathIs ==
    ASSUME NEW t, IsTree(t), NEW path, FindPath(t, path) # Missing
    PROVE  /\ path.absolute = TRUE \/ path.absolute
           /\ FindPath(t, path) = Descend(t, path.names)
           /\ FindPath(t, path) \in DOMAIN t /\ Leads(t, FindPath(t, path), path.names)
<1>1. DOMAIN t \subseteq Positions
  BY DEF IsTree, IsForest
<1>2. path.absolute /\ FindPath(t, path) = Descend(t, path.names)
  BY DEF FindPath
<1> QED BY <1>1, <1>2, DescendIs

LEMMA AddPathIs ==
    ASSUME NEW s \in Seq(Names), NEW t \in Trees, NEW insert, IsInsert(insert),
           NEW o, o = AddPath(Edited(Document(s, t)), insert)
    PROVE  /\ o \in AddResults
           /\ o.kind = "edited" =>
                 LET x == Descend(t, insert.path.names)
                 IN  /\ x \in DOMAIN t /\ Leads(t, x, insert.path.names)
                     /\ o = Edited(Document(s, AddChildList(t, x, insert.trees)))
<1>1. IsTree(t)
  BY TreesAre
<1>2. PICK x : x = FindPath(t, insert.path)
  OBVIOUS
<1>3. o = IF x = Missing \/ DOMAIN insert.trees = {} THEN Error
          ELSE Edited(Document(s, AddChildList(t, x, insert.trees)))
  BY <1>2, ResultIs DEF AddPath
<1>4. CASE x = Missing \/ DOMAIN insert.trees = {}
  BY <1>3, <1>4, ResultIs DEF AddResults
<1>5. CASE ~(x = Missing \/ DOMAIN insert.trees = {})
  <2>1. x \in DOMAIN t /\ Leads(t, x, insert.path.names) /\ x = Descend(t, insert.path.names)
    BY <1>1, <1>2, <1>5, FindPathIs
  <2>2. IsTree(AddChildList(t, x, insert.trees))
    BY <1>1, <2>1, AddFacts DEF IsInsert
  <2>3. AddChildList(t, x, insert.trees) \in Trees
    BY <2>2, TreesAre
  <2>4. o = Edited(Document(s, AddChildList(t, x, insert.trees)))
    BY <1>3, <1>5
  <2> QED BY <2>1, <2>3, <2>4 DEF AddResults
<1> QED BY <1>4, <1>5

IsAddition(a) ==
    /\ IsDelta(a) /\ a.tool = "rastaadd" /\ a.screens \in Seq(Names)

LEMMA AdditionIs ==
    ASSUME NEW a, IsAddition(a)
    PROVE  /\ Len(a.paths) \in Nat /\ \A i \in 1..Len(a.paths) : IsInsert(a.paths[i])
BY DEF IsAddition, IsDelta

LEMMA AddedIs ==
    ASSUME NEW a, IsAddition(a), NEW d, IsDocument(d)
    PROVE  /\ Added(a, d)[0] = Edited(Document(d.screens \o a.screens, d.path))
           /\ \A i \in 1..Len(a.paths) :
                 Added(a, d)[i] = AddPath(Added(a, d)[i - 1], a.paths[i])
           /\ \A i \in 0..Len(a.paths) : Added(a, d)[i] \in AddResults
<1>1. PICK n \in Nat : n = Len(a.paths)
  BY AdditionIs
<1>2. PICK x \in AddResults : x = Edited(Document(d.screens \o a.screens, d.path))
  <2>1. d.screens \o a.screens \in Seq(Names)
    BY ConcatFacts DEF IsDocument, IsAddition
  <2>2. d.path \in Trees
    BY TreesAre DEF IsDocument
  <2>3. PICK s \in Seq(Names), t \in Trees : s = d.screens \o a.screens /\ t = d.path
    BY <2>1, <2>2
  <2>4. Edited(Document(s, t)) \in AddResults
    BY DEF AddResults
  <2> QED BY <2>3, <2>4
<1> DEFINE step == [z \in AddResults \X (1..n) |-> AddPath(z[1], a.paths[z[2]])]
<1>3. ASSUME NEW o \in AddResults, NEW i \in 1..n PROVE AddPath(o, a.paths[i]) \in AddResults
  <2>1. IsInsert(a.paths[i])
    BY <1>1, AdditionIs
  <2>2. CASE o = Error
    BY <2>2, ResultIs DEF AddPath, AddResults
  <2>3. CASE o # Error
    <3>1. PICK s \in Seq(Names), t \in Trees : o = Edited(Document(s, t))
      BY <2>3 DEF AddResults
    <3> QED BY <2>1, <3>1, AddPathIs
  <2> QED BY <2>2, <2>3
<1>4. step \in [AddResults \X (1..n) -> AddResults]
  BY <1>3
<1>5. \A o \in AddResults, i \in 1..n : step[o, i] = AddPath(o, a.paths[i])
  OBVIOUS
<1> HIDE DEF step
<1>6. PICK f \in [0..n -> AddResults] : Iterates(f, x, step, n)
  BY <1>4, IteratesExist
<1> DEFINE body(h, i) == IF i = 0 THEN Edited(Document(d.screens \o a.screens, d.path))
                         ELSE AddPath(h[i - 1], a.paths[i])
           g == CHOOSE h : h = [i \in 0..Len(a.paths) |-> body(h, i)]
<1>7. Added(a, d) = g
  BY DEF Added
<1>8. f = [i \in 0..Len(a.paths) |-> body(f, i)]
  <2>1. ASSUME NEW i \in 0..n PROVE f[i] = body(f, i)
    <3>1. CASE i = 0
      BY <1>2, <1>6, <3>1 DEF Iterates
    <3>2. CASE i # 0
      <4>1. i \in 1..n /\ i - 1 \in 0..n
        BY <3>2
      <4>2. f[i - 1] \in AddResults /\ f[i] = step[f[i - 1], i]
        BY <1>6, <4>1 DEF Iterates
      <4> QED BY <1>5, <3>2, <4>1, <4>2
    <3> QED BY <3>1, <3>2
  <2> HIDE DEF body
  <2> QED BY <1>1, <2>1
<1>9. g = [i \in 0..Len(a.paths) |-> body(g, i)]
  BY <1>8
<1> HIDE DEF g
<1>10. g[0] = x /\ \A i \in 1..n : g[i] = AddPath(g[i - 1], a.paths[i])
  <2>1. \A i \in 0..n : g[i] = body(g, i)
    BY <1>1, <1>9
  <2>2. 0 \in 0..n /\ \A i \in 1..n : i \in 0..n /\ i # 0
    OBVIOUS
  <2> QED BY <1>2, <2>1, <2>2
<1>11. \A i \in 0..n : g[i] = f[i]
  <2>1. \A i \in 1..n : g[i - 1] \in AddResults => g[i] = step[g[i - 1], i]
    BY <1>5, <1>10
  <2>2. g[0] = x
    BY <1>10
  <2>3. Follows(g, AddResults, x, step, n)
    BY <2>1, <2>2 DEF Follows
  <2>4. Agrees(f, g, n)
    BY <1>1, <1>4, <1>6, <2>3, IteratesUnique, Zenon
  <2> QED BY <2>4 DEF Agrees
<1>12. \A i \in 0..n : g[i] \in AddResults
  BY <1>11
<1> QED BY <1>1, <1>2, <1>7, <1>10, <1>12

-----------------------------------------------------------------------------
(* The trees G[0], G[1], ... that the PATHINSERTs in P make, at X[1], ...   *)

Grows(G, X, P, n) ==
    /\ n \in Nat
    /\ \A i \in 0..n : IsTree(G[i])
    /\ \A i \in 1..n : /\ IsInsert(P[i]) /\ X[i] \in DOMAIN G[i - 1]
                       /\ Leads(G[i - 1], X[i], P[i].path.names)
                       /\ G[i] = AddChildList(G[i - 1], X[i], P[i].trees)

\* g is t with the trees f as the last children of x.
Grew(g, t, x, f) ==
    /\ IsTree(t) /\ IsTree(g) /\ x \in DOMAIN t /\ Includes(g, t)
    /\ Count(t, x) \in Nat /\ Count(f, <<>>) \in Nat
    /\ Count(g, x) = Count(t, x) + Count(f, <<>>)
    /\ \A q \in DOMAIN t : q # x => Count(g, q) = Count(t, q)
    /\ \A j \in 1..Count(f, <<>>) : g[Append(x, Count(t, x) + j)] = f[<<j>>]

LEMMA GrewIs ==
    ASSUME NEW t, IsTree(t), NEW x \in DOMAIN t, NEW f, IsForest(f), <<>> \notin DOMAIN f,
           NEW g, g = AddChildList(t, x, f)
    PROVE  Grew(g, t, x, f)
<1>1. /\ IsTree(g)
      /\ \A q \in DOMAIN t : q \in DOMAIN g /\ g[q] = t[q]
      /\ Count(g, x) = Count(t, x) + Count(f, <<>>)
      /\ \A q \in DOMAIN t : q # x => Count(g, q) = Count(t, q)
      /\ \A j \in 1..Count(f, <<>>) : g[Append(x, Count(t, x) + j)] = f[<<j>>]
  BY AddFacts
<1>2. Includes(g, t)
  BY <1>1 DEF Includes, IsTree, IsForest
<1>3. Count(t, x) \in Nat /\ Count(f, <<>>) \in Nat
  BY CountFacts DEF HasChildren, IsTree
<1> QED BY <1>1, <1>2, <1>3 DEF Grew

LEMMA GrowStep ==
    ASSUME NEW G, NEW X, NEW P, NEW n, Grows(G, X, P, n), NEW i \in 1..n
    PROVE  /\ Grew(G[i], G[i - 1], X[i], P[i].trees)
           /\ Leads(G[i - 1], X[i], P[i].path.names) /\ P[i].path.names \in Seq(Names)
<1>1. /\ IsInsert(P[i]) /\ X[i] \in DOMAIN G[i - 1]
      /\ Leads(G[i - 1], X[i], P[i].path.names)
      /\ G[i] = AddChildList(G[i - 1], X[i], P[i].trees)
  BY DEF Grows
<1>2. i - 1 \in 0..n
  BY DEF Grows
<1>3. PICK t, x, f, g : t = G[i - 1] /\ x = X[i] /\ f = P[i].trees /\ g = G[i]
  OBVIOUS
<1>4. IsTree(t) /\ x \in DOMAIN t /\ IsForest(f) /\ <<>> \notin DOMAIN f /\ g = AddChildList(t, x, f)
  BY <1>1, <1>2, <1>3 DEF Grows, IsInsert
<1>5. Grew(g, t, x, f)
  BY <1>4, GrewIs
<1> QED BY <1>1, <1>3, <1>5 DEF IsInsert

LEMMA IncludesFacts ==
    ASSUME NEW b, NEW t, NEW u, Includes(t, b), Includes(u, t)
    PROVE  Includes(u, b) /\ Includes(u, u)
BY DEF Includes

LEMMA GrowIncludes ==
    ASSUME NEW G, NEW X, NEW P, NEW n, Grows(G, X, P, n),
           NEW i \in 0..n, NEW m \in 0..n, i <= m
    PROVE  Includes(G[m], G[i])
<1>0. n \in Nat /\ \A k \in 0..n : IsTree(G[k])
  BY DEF Grows
<1> DEFINE D == {k \in 0..n : i <= k /\ ~Includes(G[k], G[i])}
<1>1. SUFFICES ASSUME D # {} PROVE FALSE
  OBVIOUS
<1>2. PICK l \in D : l = 0 \/ (l \in 1..n /\ l - 1 \in 0..n /\ l - 1 \notin D)
  BY <1>0, <1>1, LeastExists
<1>3. Includes(G[i], G[i])
  BY <1>0 DEF Includes, IsTree, IsForest
<1>4. l # i /\ l >= i /\ l \in 0..n /\ ~Includes(G[l], G[i])
  BY <1>3
<1>5. l \in 1..n /\ l - 1 \in 0..n /\ i <= l - 1
  BY <1>2, <1>4
<1>6. Includes(G[l - 1], G[i])
  BY <1>2, <1>4, <1>5
<1>7. Includes(G[l], G[l - 1])
  BY <1>5, GrowStep DEF Grew
<1> QED BY <1>4, <1>6, <1>7, IncludesFacts

\* What p has in the end and did not have before the i-th PATHINSERT came with
\* that one or a later one.
LEMMA LaterInsert ==
    ASSUME NEW G, NEW X, NEW P, NEW n, Grows(G, X, P, n), NEW i \in 1..n,
           NEW p \in DOMAIN G[i - 1], NEW k \in Nat, k > Count(G[i - 1], p),
           Append(p, k) \in DOMAIN G[n]
    PROVE  \E m \in i..n : /\ p = X[m]
                           /\ \E j \in 1..Count(P[m].trees, <<>>) :
                                 G[n][Append(p, k)] = P[m].trees[<<j>>]
<1>0. n \in Nat /\ \A m \in 0..n : IsTree(G[m])
  BY DEF Grows
<1> DEFINE Has(m) == Append(p, k) \in DOMAIN G[m]
           D == {m \in 0..n : i - 1 <= m /\ Has(m)}
<1>1. PICK l \in D : \A m \in D : l <= m
  <2>1. n \in D /\ D \in SUBSET Nat /\ \A m \in D : m <= n
    BY <1>0
  <2> HIDE DEF D
  <2> QED BY <1>0, <2>1, LowestExists
<1>2. l \in 0..n /\ i - 1 <= l /\ Has(l)
  OBVIOUS
<1>3. ASSUME NEW m \in 0..n, i - 1 <= m
      PROVE  p \in DOMAIN G[m] /\ HasChildren(G[m], p, Count(G[m], p))
  <2>1. Includes(G[m], G[i - 1]) /\ IsTree(G[m])
    BY <1>0, <1>3, GrowIncludes
  <2>2. p \in DOMAIN G[m] /\ IsForest(G[m])
    BY <2>1 DEF Includes, IsTree
  <2> QED BY <2>2, CountFacts
<1>4. ASSUME NEW m \in 0..n, i - 1 <= m PROVE Has(m) <=> k <= Count(G[m], p)
  <2>1. k > 0
    BY <1>0, <1>3 DEF HasChildren
  <2> QED BY <1>3, <1>4, <2>1 DEF HasChildren
<1>5. l # i - 1
  <2>1. SUFFICES ASSUME l = i - 1 PROVE FALSE
    OBVIOUS
  <2>2. Count(G[i - 1], p) \in Nat
    BY <1>0, <1>3 DEF HasChildren
  <2> HIDE DEF Has
  <2>3. k <= Count(G[i - 1], p)
    BY <1>2, <1>4, <2>1
  <2> QED BY <2>2, <2>3
<1>6. l \in i..n /\ l \in 1..n /\ l - 1 \in 0..n /\ i - 1 <= l - 1 /\ ~(l <= l - 1)
  BY <1>0, <1>2, <1>5
<1>7. ~Has(l - 1)
  BY <1>1, <1>6
<1> HIDE DEF Has, D
<1>8. PICK c \in Nat : c = Count(G[l - 1], p) /\ k > c
  <2>1. Count(G[l - 1], p) \in Nat /\ ~(k <= Count(G[l - 1], p))
    BY <1>3, <1>4, <1>6, <1>7 DEF HasChildren
  <2> QED BY <2>1
<1>9. k <= Count(G[l], p) /\ p \in DOMAIN G[l - 1]
  BY <1>2, <1>3, <1>4, <1>6
<1>10. Grew(G[l], G[l - 1], X[l], P[l].trees)
  BY <1>6, GrowStep
<1>11. p = X[l]
  BY <1>8, <1>9, <1>10 DEF Grew
<1>12. PICK e \in Nat : e = Count(P[l].trees, <<>>) /\ Count(G[l], p) = c + e
  BY <1>8, <1>10, <1>11 DEF Grew
<1>13. PICK j \in 1..e : c + j = k
  <2>1. k - c \in 1..e /\ c + (k - c) = k
    BY <1>8, <1>9, <1>12
  <2> QED BY <2>1
<1>14. G[l][Append(p, k)] = P[l].trees[<<j>>]
  <2>1. \A h \in 1..e : G[l][Append(p, c + h)] = P[l].trees[<<h>>]
    BY <1>8, <1>10, <1>11, <1>12 DEF Grew
  <2> QED BY <1>13, <2>1
<1>15. G[n][Append(p, k)] = G[l][Append(p, k)]
  <2>1. Includes(G[n], G[l])
    BY <1>0, <1>6, GrowIncludes
  <2> QED BY <1>2, <2>1 DEF Includes, Has
<1> QED BY <1>6, <1>11, <1>12, <1>14, <1>15

\* The children that are gone from p after the removal of everything that the
\* first i - 1 PATHINSERTs brought, and of j trees of the i-th.
Low(G, X, i, j) ==
    [p \in DOMAIN G[0] |-> Count(G[i - 1], p) + IF p = X[i] THEN j ELSE 0]

LEMMA LowFacts ==
    ASSUME NEW G, NEW X, NEW P, NEW n, Grows(G, X, P, n), NEW i \in 1..n, NEW j \in Nat
    PROVE  /\ IsLow(G[0], Low(G, X, i, j))
           /\ \A p \in DOMAIN G[0] : /\ p \in DOMAIN G[i - 1] /\ Count(G[i - 1], p) \in Nat
                                     /\ Count(G[i - 1], p) >= Count(G[0], p)
<1>1. n \in Nat /\ 0 \in 0..n /\ i - 1 \in 0..n /\ 0 <= i - 1 /\ \A m \in 0..n : IsTree(G[m])
  BY DEF Grows
<1>2. PICK b, t : b = G[0] /\ t = G[i - 1]
  OBVIOUS
<1>3. IsTree(b) /\ IsTree(t) /\ Includes(t, b)
  BY <1>1, <1>2, GrowIncludes
<1>4. ASSUME NEW p \in DOMAIN b
      PROVE  p \in DOMAIN t /\ Count(t, p) \in Nat /\ Count(b, p) \in Nat
             /\ Count(t, p) >= Count(b, p)
  <2>1. p \in DOMAIN t
    BY <1>3 DEF Includes
  <2>2. HasChildren(t, p, Count(t, p)) /\ HasChildren(b, p, Count(b, p))
    BY <1>3, <2>1, CountFacts DEF IsTree
  <2>3. PICK c \in Nat, e \in Nat : c = Count(b, p) /\ e = Count(t, p)
    BY <2>2 DEF HasChildren
  <2>4. CASE c = 0
    BY <2>1, <2>3, <2>4
  <2>5. CASE c > 0
    <3>1. Append(p, c) \in DOMAIN b
      BY <2>2, <2>3, <2>5 DEF HasChildren
    <3>2. Append(p, c) \in DOMAIN t
      BY <1>3, <3>1 DEF Includes
    <3>3. c <= e
      BY <2>2, <2>3, <2>5, <3>2 DEF HasChildren
    <3> QED BY <2>1, <2>3, <3>3
  <2> QED BY <2>3, <2>4, <2>5
<1>5. \A p \in DOMAIN b : Low(G, X, i, j)[p] = Count(t, p) + IF p = X[i] THEN j ELSE 0
  BY <1>2 DEF Low
<1>6. IsLow(b, Low(G, X, i, j))
  BY <1>4, <1>5 DEF IsLow
<1> QED BY <1>2, <1>4, <1>6

\* Every tree of a PATHINSERT can be found again by its path, which led
\* nowhere before.
Recovers(G, P, n) ==
    \A i \in 1..n : \A j \in 1..Count(P[i].trees, <<>>) :
        /\ Findable(P[i].trees[<<j>>]) /\ P[i].trees[<<j>>].name \in Names
        /\ Descend(G[i - 1], Append(P[i].path.names, P[i].trees[<<j>>].name)) = Missing

\* The search for the j-th tree of the i-th PATHINSERT misses, if the tree
\* that it was added to came with the addition, and is gone.
LEMMA StageMisses ==
    ASSUME NEW G, NEW X, NEW P, NEW n, Grows(G, X, P, n), Recovers(G, P, n),
           NEW i \in 1..n, NEW j \in 1..Count(P[i].trees, <<>>), NEW low, IsLow(G[0], low),
           \A p \in DOMAIN G[0] : low[p] >= Count(G[i - 1], p),
           NEW s, Peeled(s, G[0], G[n], low), X[i] \notin DOMAIN G[0]
    PROVE  Descend(s, Append(P[i].path.names, P[i].trees[<<j>>].name)) = Missing
<1>1. SUFFICES ASSUME Descend(s, Append(P[i].path.names, P[i].trees[<<j>>].name)) # Missing
               PROVE  FALSE
  OBVIOUS
<1>2. n \in Nat /\ 0 \in 0..n /\ i - 1 \in 0..n /\ 0 <= i - 1 /\ \A m \in 0..n : IsTree(G[m])
  BY DEF Grows
<1>3. PICK b, t1, t, x, names, name : /\ b = G[0] /\ t1 = G[i - 1] /\ t = G[n] /\ x = X[i]
                                      /\ names = P[i].path.names /\ name = P[i].trees[<<j>>].name
  OBVIOUS
<1>4. IsTree(b) /\ IsTree(t1) /\ Includes(t1, b)
  BY <1>2, <1>3, GrowIncludes
<1>5. x \in DOMAIN t1 /\ x \notin DOMAIN b /\ names \in Seq(Names) /\ Leads(t1, x, names)
  BY <1>3, GrowStep DEF Grew
<1>6. name \in Names /\ Descend(s, Append(names, name)) # Missing
  BY <1>1, <1>3 DEF Recovers
<1>7. IsLow(b, low) /\ Peeled(s, b, t, low)
  BY <1>3
<1>8. PICK p \in DOMAIN b : \E k \in Nat :
         /\ k > low[p] /\ Append(p, k) \in DOMAIN t /\ Findable(t[Append(p, k)])
         /\ Named(t1, p, t[Append(p, k)].name) # {} /\ t[Append(p, k)].name \in Names
  BY <1>4, <1>5, <1>6, <1>7, PeeledMissed
<1>9. PICK k \in Nat :
         /\ k > low[p] /\ Append(p, k) \in DOMAIN t /\ Findable(t[Append(p, k)])
         /\ Named(t1, p, t[Append(p, k)].name) # {} /\ t[Append(p, k)].name \in Names
  BY <1>8
<1>10. p \in DOMAIN t1 /\ Count(t1, p) \in Nat /\ low[p] \in Nat /\ low[p] >= Count(t1, p)
  BY <1>3, <1>4, <1>7, CountFacts DEF Includes, IsLow, IsTree, HasChildren
<1>11. PICK m \in i..n : /\ p = X[m]
                         /\ \E h \in 1..Count(P[m].trees, <<>>) :
                               G[n][Append(p, k)] = P[m].trees[<<h>>]
  <2>1. k > Count(G[i - 1], p) /\ Append(p, k) \in DOMAIN G[n] /\ p \in DOMAIN G[i - 1]
    BY <1>3, <1>9, <1>10
  <2> QED BY <2>1, LaterInsert
<1>12. PICK h \in 1..Count(P[m].trees, <<>>) : t[Append(p, k)] = P[m].trees[<<h>>]
  BY <1>3, <1>11
<1>13. m \in 1..n /\ m - 1 \in 0..n /\ i - 1 <= m - 1
  BY <1>2
<1>14. PICK t2, names2, name2 : /\ t2 = G[m - 1] /\ names2 = P[m].path.names
                                /\ name2 = P[m].trees[<<h>>].name
  OBVIOUS
<1>15. name2 \in Names /\ Descend(t2, Append(names2, name2)) = Missing
  BY <1>13, <1>14 DEF Recovers
<1>16. IsTree(t2) /\ Includes(t2, t1)
  BY <1>2, <1>3, <1>13, <1>14, GrowIncludes
<1>17. p \in DOMAIN t2 /\ names2 \in Seq(Names) /\ Leads(t2, p, names2)
  BY <1>11, <1>13, <1>14, GrowStep DEF Grew
<1>18. PICK e \in Named(t1, p, name2) : TRUE
  BY <1>9, <1>12, <1>14
<1>19. e \in Named(t2, p, name2)
  BY <1>4, <1>10, <1>16, NamedIncludes
<1> QED BY <1>15, <1>16, <1>17, <1>19, Hit

\* If not, it finds the first child that is left of those that were added there.
FindsNext(G, X, P, i, j, s) ==
    Descend(s, Append(P[i].path.names, P[i].trees[<<j>>].name))
       = Append(X[i], Count(G[0], X[i]) + 1)

LEMMA StageFinds ==
    ASSUME NEW G, NEW X, NEW P, NEW n, Grows(G, X, P, n), Recovers(G, P, n),
           NEW i \in 1..n, NEW j \in 1..Count(P[i].trees, <<>>),
           NEW s, Peeled(s, G[0], G[n], Low(G, X, i, j - 1)), X[i] \in DOMAIN G[0]
    PROVE  FindsNext(G, X, P, i, j, s)
<1>1. PICK b, t1, t, p, names, name : /\ b = G[0] /\ t1 = G[i - 1] /\ t = G[n] /\ p = X[i]
                                      /\ names = P[i].path.names /\ name = P[i].trees[<<j>>].name
  OBVIOUS
<1>2. n \in Nat /\ 0 \in 0..n /\ i \in 0..n /\ n \in 0..n /\ i <= n
      /\ i - 1 \in 0..n /\ 0 <= i - 1 /\ \A m \in 0..n : IsTree(G[m])
  BY DEF Grows
<1>3. IsTree(b) /\ IsTree(t1) /\ Includes(t1, b)
  BY <1>1, <1>2, GrowIncludes
<1>4. Grew(G[i], t1, p, P[i].trees) /\ Leads(t1, p, names) /\ names \in Seq(Names)
  BY <1>1, GrowStep
<1>5. PICK c \in Nat : c = Count(t1, p)
  BY <1>4 DEF Grew
<1>6. PICK e \in Nat : e = Count(P[i].trees, <<>>) /\ Count(G[i], p) = c + e
  BY <1>4, <1>5 DEF Grew
<1>7. j \in Nat /\ j - 1 \in Nat /\ j <= e /\ c + j <= c + e /\ c + j \in Nat /\ c + j > 0
  BY <1>6
<1>8. PICK low : low = Low(G, X, i, j - 1)
  OBVIOUS
<1>9. IsLow(b, low) /\ low[p] + 1 = c + j
  <2>1. IsLow(b, low)
    BY <1>1, <1>7, <1>8, LowFacts
  <2>2. low[p] = c + (j - 1)
    BY <1>1, <1>5, <1>8 DEF Low
  <2> QED BY <1>7, <2>1, <2>2
<1>10. Append(p, c + j) \in DOMAIN G[i] /\ G[i][Append(p, c + j)] = P[i].trees[<<j>>]
  <2>1. p \in DOMAIN G[i]
    BY <1>4 DEF Grew, Includes
  <2>2. HasChildren(G[i], p, c + e)
    BY <1>2, <1>6, <2>1, CountFacts DEF IsTree
  <2>3. Append(p, c + j) \in DOMAIN G[i]
    BY <1>7, <2>2 DEF HasChildren
  <2>4. \A h \in 1..Count(P[i].trees, <<>>) : G[i][Append(p, Count(t1, p) + h)] = P[i].trees[<<h>>]
    BY <1>4 DEF Grew
  <2> QED BY <1>5, <2>3, <2>4
<1>11. Append(p, c + j) \in DOMAIN t /\ t[Append(p, c + j)] = P[i].trees[<<j>>]
  <2>1. Includes(G[n], G[i])
    BY <1>2, GrowIncludes
  <2> QED BY <1>1, <1>10, <2>1 DEF Includes
<1>12. /\ name \in Names /\ Descend(t1, Append(names, name)) = Missing
       /\ Findable(t[Append(p, low[p] + 1)]) /\ t[Append(p, low[p] + 1)].name = name
       /\ Append(p, low[p] + 1) \in DOMAIN t
  BY <1>1, <1>9, <1>11 DEF Recovers
<1>13. Peeled(s, b, t, low) /\ p \in DOMAIN b
  BY <1>1, <1>8
<1>14. Descend(s, Append(names, name)) = Append(p, Count(b, p) + 1)
  BY <1>3, <1>4, <1>9, <1>12, <1>13, PeeledFound
<1> QED BY <1>1, <1>14 DEF FindsNext

LEMMA StageStep ==
    ASSUME NEW G, NEW X, NEW P, NEW n, Grows(G, X, P, n), Recovers(G, P, n),
           NEW i \in 1..n, NEW j \in 1..Count(P[i].trees, <<>>),
           NEW s, Peeled(s, G[0], G[n], Low(G, X, i, j - 1)),
           NEW a, a = Descend(s, Append(P[i].path.names, P[i].trees[<<j>>].name))
    PROVE  \/ a = Missing /\ Peeled(s, G[0], G[n], Low(G, X, i, j))
           \/ a # Missing /\ Peeled(Unlink(s, a), G[0], G[n], Low(G, X, i, j))
<1>1. PICK b, t, p, low, low2 : /\ b = G[0] /\ t = G[n] /\ p = X[i] /\ low = Low(G, X, i, j - 1)
                                /\ low2 = Low(G, X, i, j)
  OBVIOUS
<1>2. j \in Nat /\ j - 1 \in Nat
  OBVIOUS
<1>3. /\ IsLow(b, low) /\ Peeled(s, b, t, low) /\ IsTree(b)
      /\ \A q \in DOMAIN b : Count(G[i - 1], q) \in Nat
  <2>1. /\ IsLow(G[0], Low(G, X, i, j - 1))
        /\ \A q \in DOMAIN G[0] : Count(G[i - 1], q) \in Nat
    BY <1>2, LowFacts
  <2>2. IsTree(G[0])
    BY DEF Grows
  <2> QED BY <1>1, <2>1, <2>2
<1>4. CASE p \in DOMAIN b
  <2>1. a = Append(p, Count(b, p) + 1)
    <3>1. X[i] \in DOMAIN G[0]
      BY <1>1, <1>4
    <3>2. FindsNext(G, X, P, i, j, s)
      BY <3>1, StageFinds
    <3> QED BY <1>1, <3>2 DEF FindsNext
  <2>2. a # Missing
    <3>1. a \in Positions
      <4>1. p \in Positions /\ Count(b, p) \in Nat
        BY <1>3, <1>4, CountFacts DEF IsTree, IsForest, HasChildren
      <4>2. Count(b, p) + 1 \in Nat /\ Count(b, p) + 1 > 0
        BY <4>1
      <4> QED BY <2>1, <4>1, <4>2, AppendFacts
    <3>2. \A r \in Seq(Nat \ {0}) : r \in Seq(Nat)
      OBVIOUS
    <3> QED BY <3>1, <3>2, MissingAssumption DEF Positions
  <2>3. /\ low2[p] = low[p] + 1
        /\ \A q \in DOMAIN b : q # p => low2[q] = low[q]
    <3>1. low[p] = Count(G[i - 1], p) + (j - 1) /\ low2[p] = Count(G[i - 1], p) + j
      BY <1>1, <1>4 DEF Low
    <3>2. \A q \in DOMAIN b : q # p => low2[q] = Count(G[i - 1], q) + 0
                                       /\ low[q] = Count(G[i - 1], q) + 0
      BY <1>1 DEF Low
    <3> QED BY <1>2, <1>3, <1>4, <3>1, <3>2
  <2>4. Peeled(Unlink(s, a), b, t, low2)
    BY <1>3, <1>4, <2>1, <2>3, PeeledNext
  <2> QED BY <1>1, <2>2, <2>4
<1>5. CASE p \notin DOMAIN b
  <2>1. \A q \in DOMAIN b : q # X[i] /\ low[q] = Count(G[i - 1], q) + 0
                            /\ low2[q] = Count(G[i - 1], q) + 0
    BY <1>1, <1>5 DEF Low
  <2>2. low2 = low
    BY <1>1, <2>1 DEF Low
  <2>3. \A q \in DOMAIN b : low[q] >= Count(G[i - 1], q)
    BY <1>3, <2>1
  <2>4. a = Missing
    BY <1>1, <1>3, <1>5, <2>3, StageMisses
  <2> QED BY <1>1, <1>3, <2>2, <2>4
<1> QED BY <1>4, <1>5

-----------------------------------------------------------------------------
(* An addition that went through.                                          *)

LEMMA AddedSteps ==
    ASSUME NEW a, IsAddition(a), NEW d, IsDocument(d), NEW n, n = Len(a.paths),
           Added(a, d)[n].kind = "edited"
    PROVE  \A i \in 0..n : \E t \in Trees :
              Added(a, d)[i] = Edited(Document(d.screens \o a.screens, t))
<1>0. n \in Nat /\ n \in 0..n /\ \A i \in 1..n : IsInsert(a.paths[i])
  BY AdditionIs
<1>1. PICK A, sc : A = Added(a, d) /\ sc = d.screens \o a.screens
  OBVIOUS
<1>2. sc \in Seq(Names) /\ d.path \in Trees
  <2>1. d.screens \o a.screens \in Seq(Names)
    BY ConcatFacts DEF IsDocument, IsAddition
  <2> QED BY <1>1, <2>1, TreesAre DEF IsDocument
<1>3. A[0] = Edited(Document(sc, d.path)) /\ \A i \in 1..n : A[i] = AddPath(A[i - 1], a.paths[i])
  BY <1>1, AddedIs
<1>4. \A i \in 0..n : A[i].kind = "edited"
  <2> DEFINE D == {i \in 0..n : A[i].kind # "edited"}
  <2>1. SUFFICES ASSUME D # {} PROVE FALSE
    OBVIOUS
  <2>2. PICK l \in D : \A i \in D : i <= l
    <3>1. D \in SUBSET Nat /\ \A i \in D : i <= n
      BY <1>0
    <3> HIDE DEF D
    <3> QED BY <1>0, <2>1, <3>1, HighestExists
  <2>3. l \in 0..n /\ A[l].kind # "edited" /\ l # n
    BY <1>1
  <2>4. l + 1 \in 1..n /\ l + 1 \in 0..n /\ (l + 1) - 1 = l /\ ~(l + 1 <= l)
    BY <1>0, <2>3
  <2>5. A[l + 1] = A[l]
    BY <1>3, <2>3, <2>4 DEF AddPath
  <2> QED BY <2>2, <2>3, <2>4, <2>5
<1> DEFINE D == {i \in 0..n : ~\E t \in Trees : A[i] = Edited(Document(sc, t))}
<1>5. SUFFICES ASSUME D # {} PROVE FALSE
  BY <1>1
<1>6. PICK l \in D : l = 0 \/ (l \in 1..n /\ l - 1 \in 0..n /\ l - 1 \notin D)
  BY <1>0, <1>5, LeastExists
<1>7. l # 0
  BY <1>2, <1>3
<1>8. PICK t \in Trees : A[l - 1] = Edited(Document(sc, t))
  BY <1>6, <1>7
<1>9. PICK o : o = A[l] /\ o = AddPath(Edited(Document(sc, t)), a.paths[l])
  BY <1>3, <1>6, <1>7, <1>8
<1>10. o.kind = "edited" /\ IsInsert(a.paths[l])
  BY <1>0, <1>4, <1>6, <1>7, <1>9
<1>11. PICK x \in DOMAIN t : o = Edited(Document(sc, AddChildList(t, x, a.paths[l].trees)))
  BY <1>2, <1>9, <1>10, AddPathIs
<1>12. AddChildList(t, x, a.paths[l].trees) \in Trees
  <2>1. IsTree(t)
    BY TreesAre
  <2>2. IsTree(AddChildList(t, x, a.paths[l].trees))
    BY <1>10, <2>1, AddFacts DEF IsInsert
  <2> QED BY <2>2, TreesAre
<1> QED BY <1>6, <1>9, <1>11, <1>12

LEMMA AddedGrows ==
    ASSUME NEW a, IsAddition(a), NEW d, IsDocument(d), NEW n, n = Len(a.paths),
           Added(a, d)[n].kind = "edited"
    PROVE  \E G, X : /\ Grows(G, X, a.paths, n) /\ G[0] = d.path
                     /\ \A i \in 0..n : Added(a, d)[i] = Edited(Document(d.screens \o a.screens, G[i]))
<1>0. n \in Nat /\ \A i \in 1..n : IsInsert(a.paths[i])
  BY AdditionIs
<1>1. PICK A, sc, P : A = Added(a, d) /\ sc = d.screens \o a.screens /\ P = a.paths
  OBVIOUS
<1>2. sc \in Seq(Names)
  <2>1. d.screens \o a.screens \in Seq(Names)
    BY ConcatFacts DEF IsDocument, IsAddition
  <2> QED BY <1>1, <2>1
<1>3. A[0] = Edited(Document(sc, d.path)) /\ \A i \in 1..n : A[i] = AddPath(A[i - 1], P[i])
  BY <1>1, AddedIs
<1>4. \A i \in 0..n : \E t \in Trees : A[i] = Edited(Document(sc, t))
  BY <1>1, AddedSteps
<1> DEFINE G == [i \in 0..n |-> A[i].doc.path]
           X == [i \in 1..n |-> Descend(G[i - 1], P[i].path.names)]
<1>5. ASSUME NEW i \in 0..n PROVE G[i] \in Trees /\ A[i] = Edited(Document(sc, G[i]))
  <2>1. PICK t \in Trees : A[i] = Edited(Document(sc, t))
    BY <1>4
  <2>2. G[i] = t
    BY <2>1, ResultIs
  <2> QED BY <2>1, <2>2
<1>6. G[0] = d.path
  BY <1>0, <1>3, ResultIs
<1>7. \A i \in 1..n : X[i] = Descend(G[i - 1], P[i].path.names)
  OBVIOUS
<1> HIDE DEF G, X
<1>8. ASSUME NEW i \in 1..n
      PROVE  /\ X[i] \in DOMAIN G[i - 1] /\ Leads(G[i - 1], X[i], P[i].path.names)
             /\ G[i] = AddChildList(G[i - 1], X[i], P[i].trees)
  <2>1. i \in 0..n /\ i - 1 \in 0..n
    BY <1>0
  <2>2. PICK t, o : t \in Trees /\ t = G[i - 1] /\ o = A[i]
    BY <1>5, <2>1
  <2>3. o = AddPath(Edited(Document(sc, t)), P[i]) /\ o = Edited(Document(sc, G[i]))
    BY <1>3, <1>5, <2>1, <2>2
  <2>4. o.kind = "edited" /\ IsInsert(P[i])
    BY <1>0, <1>1, <2>3, ResultIs
  <2>5. LET x == Descend(t, P[i].path.names)
        IN  /\ x \in DOMAIN t /\ Leads(t, x, P[i].path.names)
            /\ o = Edited(Document(sc, AddChildList(t, x, P[i].trees)))
    BY <1>2, <2>2, <2>3, <2>4, AddPathIs
  <2>6. PICK x : x = Descend(t, P[i].path.names)
    OBVIOUS
  <2>7. /\ x \in DOMAIN t /\ Leads(t, x, P[i].path.names)
        /\ o = Edited(Document(sc, AddChildList(t, x, P[i].trees)))
    BY <2>5, <2>6
  <2>8. X[i] = x
    BY <1>7, <2>2, <2>6
  <2>9. G[i] = AddChildList(t, x, P[i].trees)
    <3>1. PICK u, v : u = G[i] /\ v = AddChildList(t, x, P[i].trees)
      OBVIOUS
    <3>2. o = Edited(Document(sc, u)) /\ o = Edited(Document(sc, v))
      BY <2>3, <2>7, <3>1
    <3>3. u = v
      BY <3>2 DEF Edited, Document
    <3> QED BY <3>1, <3>3
  <2> QED BY <2>2, <2>7, <2>8, <2>9
<1>9. Grows(G, X, P, n)
  BY <1>0, <1>1, <1>5, <1>8, TreesAre DEF Grows
<1> QED BY <1>1, <1>5, <1>6, <1>9

LEMMA RecoverableIs ==
    ASSUME NEW a, IsAddition(a), NEW d, Recoverable(d, a), NEW n, n = Len(a.paths),
           NEW G, NEW sc, \A i \in 0..n : Added(a, d)[i] = Edited(Document(sc, G[i]))
    PROVE  Recovers(G, a.paths, n)
<1>0. n \in Nat /\ \A i \in 1..n : IsInsert(a.paths[i])
  BY AdditionIs
<1> SUFFICES ASSUME NEW i \in 1..n, NEW j \in 1..Count(a.paths[i].trees, <<>>)
             PROVE  /\ Findable(a.paths[i].trees[<<j>>]) /\ a.paths[i].trees[<<j>>].name \in Names
                    /\ Descend(G[i - 1], Append(a.paths[i].path.names, a.paths[i].trees[<<j>>].name))
                          = Missing
  BY DEF Recovers
<1>1. PICK f : f = a.paths[i].trees /\ IsForest(f)
  BY <1>0 DEF IsInsert
<1>2. Children(f, <<>>) = 1..Count(f, <<>>) /\ HasChildren(f, <<>>, Count(f, <<>>))
  BY <1>1, CountFacts
<1>3. j \in Children(f, <<>>)
  BY <1>1, <1>2
<1>4. i - 1 \in 0..n /\ Added(a, d)[i - 1].doc.path = G[i - 1]
  <2>1. i - 1 \in 0..n
    BY <1>0
  <2> QED BY <2>1, ResultIs
<1>5. /\ Findable(f[<<j>>])
      /\ Descend(Added(a, d)[i - 1].doc.path, PathOf(a.paths[i], j).names) = Missing
  BY <1>1, <1>3 DEF Recoverable
<1>6. PathOf(a.paths[i], j).names = Append(a.paths[i].path.names, a.paths[i].trees[<<j>>].name)
  BY DEF PathOf, Path
<1>7. f[<<j>>].name \in Names
  <2>1. j \in Nat /\ j > 0 /\ j <= Count(f, <<>>)
    BY <1>1, <1>2 DEF HasChildren
  <2>2. Append(<<>>, j) \in DOMAIN f
    BY <1>2, <2>1 DEF HasChildren
  <2>3. <<j>> \in DOMAIN f
    BY <2>2
  <2> QED BY <1>1, <2>3 DEF IsForest
<1> QED BY <1>1, <1>4, <1>5, <1>6, <1>7

-----------------------------------------------------------------------------
(* rastadel, one deletion after the other.                                 *)

Pruned == {Crash} \cup {Edited(Document(s, t)) : s \in Seq(Names), t \in Trees \cup {<<>>}}

LEMMA UnlinkRoot ==
    ASSUME NEW t, DOMAIN t \subseteq Positions
    PROVE  Unlink(t, <<>>) = <<>>
<1>1. ASSUME NEW q \in DOMAIN t PROVE IsPrefix(<<>>, q)
  <2>1. <<>> \in Positions /\ q \in Positions /\ Len(q) \in Nat
    BY Root, PositionFacts
  <2> QED BY <2>1 DEF IsPrefix, Positions
<1>2. {q \in DOMAIN t : ~IsPrefix(<<>>, q)} = {}
  BY <1>1
<1> QED BY <1>2 DEF Unlink

\* What a PATHDELETE makes of one description.
Without(o, path) ==
    IF o.kind = "crash" THEN {o}
    ELSE IF o.doc.path = <<>>
    THEN IF path.absolute THEN {o, Crash} ELSE {o}
    ELSE LET target == FindPath(o.doc.path, path)
         IN  IF target = Missing THEN {o}
             ELSE {Edited(Document(o.doc.screens, Unlink(o.doc.path, target)))}

LEMMA DeletePathIs ==
    ASSUME NEW S, NEW path
    PROVE  DeletePath(S, path) = UNION {Without(o, path) : o \in S}
BY DEF DeletePath, Without

LEMMA TreeNotGone == ASSUME NEW t \in Trees PROVE t # <<>> /\ DOMAIN t \subseteq Positions
<1>1. <<>> \in DOMAIN t /\ DOMAIN t \subseteq Positions
  BY TreesAre DEF IsTree, IsForest
<1>2. DOMAIN <<>> = {}
  OBVIOUS
<1> QED BY <1>1, <1>2

LEMMA WithoutIs ==
    ASSUME NEW s, NEW t, t # <<>>, NEW path, NEW x, x = FindPath(t, path)
    PROVE  Without(Edited(Document(s, t)), path) =
              {IF x = Missing THEN Edited(Document(s, t)) ELSE Edited(Document(s, Unlink(t, x)))}
<1>1. PICK o : o = Edited(Document(s, t))
  OBVIOUS
<1>2. o.kind = "edited" /\ o.doc.path = t /\ o.doc.screens = s
  BY <1>1, ResultIs
<1>3. Without(o, path) = IF x = Missing THEN {o} ELSE {Edited(Document(s, Unlink(t, x)))}
  BY <1>2 DEF Without
<1> QED BY <1>1, <1>3

LEMMA WithoutPruned ==
    ASSUME NEW o \in Pruned, NEW path PROVE Without(o, path) \subseteq Pruned
<1>1. CASE o = Crash
  BY <1>1, ResultIs DEF Without
<1>2. CASE o # Crash
  <2>1. PICK s \in Seq(Names), t \in Trees \cup {<<>>} : o = Edited(Document(s, t))
    BY <1>2 DEF Pruned
  <2>2. o.kind = "edited" /\ o.doc.path = t
    BY <2>1, ResultIs
  <2>3. CASE t = <<>>
    <3>1. Without(o, path) \subseteq {o, Crash}
      BY <2>2, <2>3 DEF Without
    <3> QED BY <3>1 DEF Pruned
  <2>4. CASE t # <<>>
    <3>1. t \in Trees /\ IsTree(t)
      BY <2>4, TreesAre
    <3>2. PICK x : x = FindPath(t, path)
      OBVIOUS
    <3>3. Without(o, path) =
             {IF x = Missing THEN Edited(Document(s, t)) ELSE Edited(Document(s, Unlink(t, x)))}
      BY <2>1, <2>4, <3>2, WithoutIs
    <3>4. CASE x = Missing
      BY <2>1, <3>3, <3>4
    <3>5. CASE x # Missing
      <4>1. x \in DOMAIN t
        BY <3>1, <3>2, <3>5, FindPathIs
      <4>2. PICK u : u = Unlink(t, x)
        OBVIOUS
      <4>3. u \in Trees \cup {<<>>}
        <5>1. CASE x = <<>>
          BY <3>1, <4>2, <5>1, UnlinkRoot, TreeNotGone
        <5>2. CASE x # <<>>
          BY <3>1, <4>1, <4>2, <5>2, UnlinkKeepsTree, TreesAre
        <5> QED BY <5>1, <5>2
      <4>4. Edited(Document(s, u)) \in Pruned
        BY <4>3 DEF Pruned
      <4> QED BY <3>3, <3>5, <4>2, <4>4
    <3> QED BY <3>4, <3>5
  <2> QED BY <2>3, <2>4
<1> QED BY <1>1, <1>2

\* The first screen of that ID goes.
LEMMA DeleteScreenFirst ==
    ASSUME NEW s \in Seq(Names), NEW id, NEW m \in Nat, m = Len(s),
           NEW l \in 1..m, s[l] = id, \A i \in 1..m : s[i] = id => l <= i
    PROVE  DeleteScreen(s, id) = SubSeq(s, 1, l - 1) \o SubSeq(s, l + 1, m)
<1> DEFINE U == {i \in DOMAIN s : s[i] = id}
<1>1. DOMAIN s = 1..m
  OBVIOUS
<1>2. DeleteScreen(s, id) = IF U = {} THEN s ELSE RemoveAt(s, Min(U))
  BY DEF DeleteScreen
<1>3. l \in U /\ (\A i \in U : l <= i) /\ U \subseteq Nat
  BY <1>1
<1> HIDE DEF U
<1>4. Min(U) = l
  <2>1. \E i \in U : \A j \in U : i <= j
    BY <1>3
  <2>2. Min(U) \in U /\ \A j \in U : Min(U) <= j
    BY <2>1 DEF Min
  <2>3. Min(U) <= l /\ l <= Min(U) /\ Min(U) \in Nat
    BY <1>3, <2>2
  <2> QED BY <2>3
<1> QED BY <1>2, <1>3, <1>4 DEF RemoveAt

LEMMA DeleteScreenNone ==
    ASSUME NEW s \in Seq(Names), NEW id, \A i \in 1..Len(s) : s[i] # id
    PROVE  DeleteScreen(s, id) = s
<1>1. {i \in DOMAIN s : s[i] = id} = {}
  OBVIOUS
<1> QED BY <1>1 DEF DeleteScreen

LEMMA DeleteScreenType ==
    ASSUME NEW s \in Seq(Names), NEW id PROVE DeleteScreen(s, id) \in Seq(Names)
<1>1. PICK m \in Nat : m = Len(s)
  OBVIOUS
<1>2. CASE \A i \in 1..m : s[i] # id
  BY <1>1, <1>2, DeleteScreenNone
<1>3. CASE ~\A i \in 1..m : s[i] # id
  <2> DEFINE U == {i \in 1..m : s[i] = id}
  <2>1. U \in SUBSET Nat /\ U # {} /\ \A i \in U : i <= m
    BY <1>3
  <2>2. PICK l \in U : \A i \in U : l <= i
    <3> HIDE DEF U
    <3> QED BY <2>1, LowestExists
  <2>3. l \in 1..m /\ s[l] = id /\ \A i \in 1..m : s[i] = id => l <= i
    BY <2>2
  <2>4. PICK u \in Seq(Names), v \in Seq(Names) : u = SubSeq(s, 1, l - 1) /\ v = SubSeq(s, l + 1, m)
    <3>1. SubSeq(s, 1, l - 1) \in Seq(Names) /\ SubSeq(s, l + 1, m) \in Seq(Names)
      BY <1>1, <2>3
    <3> QED BY <3>1
  <2>5. DeleteScreen(s, id) = SubSeq(s, 1, l - 1) \o SubSeq(s, l + 1, m)
    BY <1>1, <2>3, DeleteScreenFirst
  <2>6. u \o v \in Seq(Names)
    BY ConcatFacts
  <2> QED BY <2>4, <2>5, <2>6
<1> QED BY <1>2, <1>3

IsDeletion(e) == IsDelta(e) /\ e.tool = "rastadel"

LEMMA ToolsDiffer == "rastaadd" # "rastadel"
OBVIOUS

LEMMA DeletionIs ==
    ASSUME NEW e, IsDeletion(e)
    PROVE  Len(e.paths) \in Nat /\ e.screens \in Seq(Names) /\ Len(e.screens) \in Nat
<1>1. Len(e.paths) \in Nat /\ e.screens \in Seq(Names)
  BY ToolsDiffer DEF IsDeletion, IsDelta
<1>2. Len(e.screens) \in Nat
  BY <1>1
<1> QED BY <1>1, <1>2

LEMMA ScreensLeftIs ==
    ASSUME NEW e, IsDeletion(e), NEW d, d.screens \in Seq(Names)
    PROVE  /\ ScreensLeft(e, d)[0] = d.screens
           /\ \A i \in 1..Len(e.screens) :
                 ScreensLeft(e, d)[i] = DeleteScreen(ScreensLeft(e, d)[i - 1], e.screens[i])
           /\ \A i \in 0..Len(e.screens) : ScreensLeft(e, d)[i] \in Seq(Names)
<1>1. PICK n \in Nat : n = Len(e.screens)
  BY DeletionIs
<1>2. PICK x \in Seq(Names) : x = d.screens
  OBVIOUS
<1> DEFINE step == [z \in Seq(Names) \X (1..n) |-> DeleteScreen(z[1], e.screens[z[2]])]
<1>3. ASSUME NEW s \in Seq(Names), NEW i \in 1..n PROVE DeleteScreen(s, e.screens[i]) \in Seq(Names)
  BY DeleteScreenType
<1>4. step \in [Seq(Names) \X (1..n) -> Seq(Names)]
  BY <1>3
<1>5. \A s \in Seq(Names), i \in 1..n : step[s, i] = DeleteScreen(s, e.screens[i])
  OBVIOUS
<1> HIDE DEF step
<1>6. PICK f \in [0..n -> Seq(Names)] : Iterates(f, x, step, n)
  BY <1>4, IteratesExist
<1> DEFINE body(h, i) == IF i = 0 THEN d.screens ELSE DeleteScreen(h[i - 1], e.screens[i])
           g == CHOOSE h : h = [i \in 0..Len(e.screens) |-> body(h, i)]
<1>7. ScreensLeft(e, d) = g
  BY DEF ScreensLeft
<1>8. f = [i \in 0..Len(e.screens) |-> body(f, i)]
  <2>1. ASSUME NEW i \in 0..n PROVE f[i] = body(f, i)
    <3>1. CASE i = 0
      BY <1>2, <1>6, <3>1 DEF Iterates
    <3>2. CASE i # 0
      <4>1. i \in 1..n /\ i - 1 \in 0..n
        BY <3>2
      <4>2. f[i - 1] \in Seq(Names) /\ f[i] = step[f[i - 1], i]
        BY <1>6, <4>1 DEF Iterates
      <4> QED BY <1>5, <3>2, <4>1, <4>2
    <3> QED BY <3>1, <3>2
  <2> HIDE DEF body
  <2> QED BY <1>1, <2>1
<1>9. g = [i \in 0..Len(e.screens) |-> body(g, i)]
  BY <1>8
<1> HIDE DEF g
<1>10. g[0] = x /\ \A i \in 1..n : g[i] = DeleteScreen(g[i - 1], e.screens[i])
  <2>1. \A i \in 0..n : g[i] = body(g, i)
    BY <1>1, <1>9
  <2>2. 0 \in 0..n /\ \A i \in 1..n : i \in 0..n /\ i # 0
    OBVIOUS
  <2> QED BY <1>2, <2>1, <2>2
<1>11. \A i \in 0..n : g[i] = f[i]
  <2>1. \A i \in 1..n : g[i - 1] \in Seq(Names) => g[i] = step[g[i - 1], i]
    BY <1>5, <1>10
  <2>2. Follows(g, Seq(Names), x, step, n)
    BY <1>10, <2>1 DEF Follows
  <2>3. Agrees(f, g, n)
    BY <1>1, <1>4, <1>6, <2>2, IteratesUnique, Zenon
  <2> QED BY <2>3 DEF Agrees
<1>12. \A i \in 0..n : g[i] \in Seq(Names)
  BY <1>11
<1> QED BY <1>1, <1>2, <1>7, <1>10, <1>12

LEMMA DeletedIs ==
    ASSUME NEW e, IsDeletion(e), NEW d, d.screens \in Seq(Names), d.path \in Trees
    PROVE  /\ Deleted(e, d)[0] =
                 {Edited(Document(ScreensLeft(e, d)[Len(e.screens)], d.path))}
           /\ \A i \in 1..Len(e.paths) :
                 Deleted(e, d)[i] = DeletePath(Deleted(e, d)[i - 1], e.paths[i])
           /\ \A i \in 0..Len(e.paths) : Deleted(e, d)[i] \subseteq Pruned
<1>1. PICK n \in Nat : n = Len(e.paths)
  BY DeletionIs
<1> DEFINE X == SUBSET Pruned
<1>2. PICK x \in X : x = {Edited(Document(ScreensLeft(e, d)[Len(e.screens)], d.path))}
  <2>1. PICK k \in Nat : k = Len(e.screens)
    BY DeletionIs
  <2>2. ScreensLeft(e, d)[k] \in Seq(Names)
    BY <2>1, ScreensLeftIs
  <2>3. PICK s \in Seq(Names), t \in Trees : s = ScreensLeft(e, d)[Len(e.screens)] /\ t = d.path
    BY <2>1, <2>2
  <2>4. Edited(Document(s, t)) \in Pruned
    BY DEF Pruned
  <2> QED BY <2>3, <2>4
<1> DEFINE step == [z \in X \X (1..n) |-> DeletePath(z[1], e.paths[z[2]])]
<1>3. ASSUME NEW S \in X, NEW i \in 1..n PROVE DeletePath(S, e.paths[i]) \in X
  <2>1. \A o \in S : Without(o, e.paths[i]) \subseteq Pruned
    BY WithoutPruned
  <2> QED BY <2>1, DeletePathIs
<1> HIDE DEF X
<1>4. step \in [X \X (1..n) -> X]
  BY <1>3
<1>5. \A S \in X, i \in 1..n : step[S, i] = DeletePath(S, e.paths[i])
  OBVIOUS
<1> HIDE DEF step
<1>6. PICK f \in [0..n -> X] : Iterates(f, x, step, n)
  BY <1>4, IteratesExist
<1> DEFINE body(h, i) == IF i = 0
                         THEN {Edited(Document(ScreensLeft(e, d)[Len(e.screens)], d.path))}
                         ELSE DeletePath(h[i - 1], e.paths[i])
           g == CHOOSE h : h = [i \in 0..Len(e.paths) |-> body(h, i)]
<1>7. Deleted(e, d) = g
  BY DEF Deleted
<1>8. f = [i \in 0..Len(e.paths) |-> body(f, i)]
  <2>1. ASSUME NEW i \in 0..n PROVE f[i] = body(f, i)
    <3>1. CASE i = 0
      BY <1>2, <1>6, <3>1 DEF Iterates
    <3>2. CASE i # 0
      <4>1. i \in 1..n /\ i - 1 \in 0..n
        BY <3>2
      <4>2. f[i - 1] \in X /\ f[i] = step[f[i - 1], i]
        BY <1>6, <4>1 DEF Iterates
      <4> QED BY <1>5, <3>2, <4>1, <4>2
    <3> QED BY <3>1, <3>2
  <2> HIDE DEF body
  <2> QED BY <1>1, <2>1
<1>9. g = [i \in 0..Len(e.paths) |-> body(g, i)]
  BY <1>8
<1> HIDE DEF g
<1>10. g[0] = x /\ \A i \in 1..n : g[i] = DeletePath(g[i - 1], e.paths[i])
  <2>1. \A i \in 0..n : g[i] = body(g, i)
    BY <1>1, <1>9
  <2>2. 0 \in 0..n /\ \A i \in 1..n : i \in 0..n /\ i # 0
    OBVIOUS
  <2> QED BY <1>2, <2>1, <2>2
<1>11. \A i \in 0..n : g[i] = f[i]
  <2>1. \A i \in 1..n : g[i - 1] \in X => g[i] = step[g[i - 1], i]
    BY <1>5, <1>10
  <2>2. Follows(g, X, x, step, n)
    BY <1>10, <2>1 DEF Follows
  <2>3. Agrees(f, g, n)
    BY <1>1, <1>4, <1>6, <2>2, IteratesUnique, Zenon
  <2> QED BY <2>3 DEF Agrees
<1>12. \A i \in 0..n : g[i] \in X
  BY <1>11
<1> QED BY <1>1, <1>2, <1>7, <1>10, <1>12 DEF X

-----------------------------------------------------------------------------
(* FlattenSeq: F[i] is the first i sequences of Q in one.                   *)

Chains(F, Q, n, S) ==
    /\ n \in Nat /\ F[0] = <<>>
    /\ \A i \in 0..n : F[i] \in Seq(S)
    /\ \A i \in 1..n : Q[i] \in Seq(S) /\ F[i] = F[i - 1] \o Q[i]

LEMMA FlattenIs ==
    ASSUME NEW S, NEW n \in Nat, NEW Q \in [1..n -> Seq(S)]
    PROVE  \E F : Chains(F, Q, n, S) /\ FlattenSeq(Q) = F[n]
<1>1. PICK x \in Seq(S) : x = <<>>
  <2>1. <<>> \in Seq(S)
    OBVIOUS
  <2> QED BY <2>1
<1> DEFINE step == [z \in Seq(S) \X (1..n) |-> z[1] \o Q[z[2]]]
<1>2. step \in [Seq(S) \X (1..n) -> Seq(S)]
  <2>1. \A s \in Seq(S), i \in 1..n : s \o Q[i] \in Seq(S)
    BY ConcatFacts
  <2> QED BY <2>1
<1>3. \A s \in Seq(S), i \in 1..n : step[s, i] = s \o Q[i]
  OBVIOUS
<1> HIDE DEF step
<1>4. PICK F \in [0..n -> Seq(S)] : Iterates(F, x, step, n)
  BY <1>2, IteratesExist
<1>5. Chains(F, Q, n, S)
  <2>1. ASSUME NEW i \in 1..n PROVE F[i] = F[i - 1] \o Q[i]
    <3>1. i - 1 \in 0..n
      OBVIOUS
    <3>2. F[i - 1] \in Seq(S) /\ F[i] = step[F[i - 1], i]
      BY <1>4, <3>1 DEF Iterates
    <3> QED BY <1>3, <3>2
  <2>2. F[0] = <<>>
    BY <1>1, <1>4 DEF Iterates
  <2> QED BY <2>1, <2>2 DEF Chains
<1>6. Len(Q) = n
  OBVIOUS
<1>7. CASE n = 0
  <2>1. Q = <<>>
    BY <1>7
  <2>2. FlattenSeq(Q) = Q
    BY <1>6, <1>7 DEF FlattenSeq
  <2> QED BY <1>5, <1>7, <2>1, <2>2 DEF Chains
<1>8. CASE n # 0
  <2> DEFINE body(h, i) == IF i = 1 THEN Q[i] ELSE h[i - 1] \o Q[i]
             g == CHOOSE h : h = [i \in 1..Len(Q) |-> body(h, i)]
  <2>1. FlattenSeq(Q) = g[n]
    <3>1. Len(Q) # 0
      BY <1>6, <1>8
    <3> QED BY <1>6, <3>1 DEF FlattenSeq
  <2>2. PICK f : f = [i \in 1..n |-> F[i]]
    OBVIOUS
  <2>3. f = [i \in 1..Len(Q) |-> body(f, i)]
    <3>1. ASSUME NEW i \in 1..n PROVE f[i] = body(f, i)
      <4>1. CASE i = 1
        <5>1. F[i] = <<>> \o Q[i]
          <6>1. F[i] = F[i - 1] \o Q[i] /\ F[0] = <<>>
            BY <1>5 DEF Chains
          <6>2. i - 1 = 0
            BY <4>1
          <6> QED BY <6>1, <6>2, Zenon
        <5>2. Q[i] \in Seq(S) /\ <<>> \o Q[i] = Q[i]
          OBVIOUS
        <5> QED BY <2>2, <4>1, <5>1, <5>2
      <4>2. CASE i # 1
        <5>1. i - 1 \in 1..n
          BY <4>2
        <5>2. F[i] = F[i - 1] \o Q[i]
          BY <1>5 DEF Chains
        <5> QED BY <2>2, <4>2, <5>1, <5>2
      <4> QED BY <4>1, <4>2
    <3> HIDE DEF body
    <3> QED BY <1>6, <2>2, <3>1
  <2>4. g = [i \in 1..Len(Q) |-> body(g, i)]
    BY <2>3
  <2> HIDE DEF g
  <2>5. \A i \in 1..n : g[i] = body(g, i)
    BY <1>6, <2>4
  <2>6. PICK h : h = [i \in 0..n |-> IF i = 0 THEN x ELSE g[i]]
    OBVIOUS
  <2>7. Follows(h, Seq(S), x, step, n)
    <3>1. h[0] = x
      BY <2>6
    <3>2. ASSUME NEW i \in 1..n, h[i - 1] \in Seq(S) PROVE h[i] = step[h[i - 1], i]
      <4>1. h[i] = g[i] /\ step[h[i - 1], i] = h[i - 1] \o Q[i]
        <5>1. i \in 0..n /\ i # 0
          OBVIOUS
        <5>2. h[i] = g[i]
          BY <2>6, <5>1
        <5> QED BY <1>3, <3>2, <5>2
      <4>2. CASE i = 1
        <5>1. h[i - 1] = <<>> /\ g[i] = Q[i]
          BY <1>1, <2>5, <3>1, <4>2
        <5>2. Q[i] \in Seq(S) /\ <<>> \o Q[i] = Q[i]
          OBVIOUS
        <5> QED BY <4>1, <5>1, <5>2
      <4>3. CASE i # 1
        <5>1. i - 1 \in 0..n /\ i - 1 # 0
          BY <4>3
        <5>2. h[i - 1] = g[i - 1]
          BY <2>6, <5>1
        <5> QED BY <2>5, <4>1, <4>3, <5>2
      <4> QED BY <4>2, <4>3
    <3> QED BY <3>1, <3>2 DEF Follows
  <2>8. Agrees(F, h, n)
    BY <1>2, <1>4, <2>7, IteratesUnique, Zenon
  <2>9. n \in 0..n /\ h[n] = g[n] /\ h[n] = F[n]
    BY <1>8, <2>6, <2>8 DEF Agrees
  <2> QED BY <1>5, <2>1, <2>9
<1> QED BY <1>7, <1>8

\* w is u and v in one.
IsConcat(w, u, v) ==
    /\ Len(u) \in Nat /\ Len(v) \in Nat /\ Len(w) = Len(u) + Len(v)
    /\ \A r \in 1..Len(u) : w[r] = u[r]
    /\ \A j \in 1..Len(v) : w[Len(u) + j] = v[j]

LEMMA ChainStep ==
    ASSUME NEW F, NEW Q, NEW n, NEW S, Chains(F, Q, n, S), NEW i \in 1..n
    PROVE  IsConcat(F[i], F[i - 1], Q[i])
<1>1. i - 1 \in 0..n
  BY DEF Chains
<1>2. PICK u \in Seq(S), v \in Seq(S) : u = F[i - 1] /\ v = Q[i]
  BY <1>1 DEF Chains
<1>3. F[i] = u \o v
  BY <1>2 DEF Chains
<1>4. IsConcat(u \o v, u, v)
  BY ConcatFacts DEF IsConcat
<1> QED BY <1>2, <1>3, <1>4

\* What is in F[i] stays there.
LEMMA ChainKeeps ==
    ASSUME NEW F, NEW Q, NEW n, NEW S, Chains(F, Q, n, S), NEW i \in 0..n,
           NEW r \in 1..Len(F[i])
    PROVE  r \in 1..Len(F[n]) /\ F[n][r] = F[i][r]
<1>0. n \in Nat /\ n \in 0..n /\ i <= n
  BY DEF Chains
<1> DEFINE Kept(m) == r \in 1..Len(F[m]) /\ F[m][r] = F[i][r]
           D == {m \in 0..n : i <= m /\ ~Kept(m)}
<1>1. SUFFICES ASSUME D # {} PROVE FALSE
  BY <1>0
<1>2. PICK l \in D : l = 0 \/ (l \in 1..n /\ l - 1 \in 0..n /\ l - 1 \notin D)
  BY <1>0, <1>1, LeastExists
<1>3. l # i /\ i <= l /\ l \in 0..n /\ ~Kept(l)
  OBVIOUS
<1>4. l \in 1..n /\ l - 1 \in 0..n /\ i <= l - 1
  BY <1>2, <1>3
<1>5. Kept(l - 1)
  BY <1>2, <1>4
<1> HIDE DEF D
<1>6. PICK u, v, q : u = F[l - 1] /\ v = F[l] /\ q = Q[l]
  OBVIOUS
<1>7. /\ Len(u) \in Nat /\ Len(q) \in Nat /\ Len(v) = Len(u) + Len(q)
      /\ \A k \in 1..Len(u) : v[k] = u[k]
  <2>1. IsConcat(F[l], F[l - 1], Q[l])
    BY <1>4, ChainStep
  <2> QED BY <1>6, <2>1 DEF IsConcat
<1>8. r \in 1..Len(u) /\ u[r] = F[i][r]
  BY <1>5, <1>6
<1>9. r \in 1..Len(v) /\ v[r] = F[i][r]
  BY <1>7, <1>8
<1> QED BY <1>3, <1>6, <1>9

-----------------------------------------------------------------------------
(* The deletion that takes back an addition: its screens ...               *)

Remaining(l, u, v, k) ==
    /\ l \in Seq(Names) /\ Len(l) = Len(u) + (Len(v) - k)
    /\ \A i \in 1..Len(u) : l[i] = u[i]
    /\ \A i \in 1..(Len(v) - k) : l[Len(u) + i] = v[k + i]

LEMMA TailFacts ==
    ASSUME NEW S, NEW s \in Seq(S), NEW e \in Nat, e = Len(s), NEW b \in 1..(e + 1)
    PROVE  /\ SubSeq(s, b, e) \in Seq(S) /\ Len(SubSeq(s, b, e)) = (e - b) + 1
           /\ \A i \in 1..((e - b) + 1) : SubSeq(s, b, e)[i] = s[b + (i - 1)]
OBVIOUS

LEMMA RemainingNext ==
    ASSUME NEW u \in Seq(Names), NEW v \in Seq(Names), IsInjective(u \o v),
           NEW k \in Nat, k < Len(v), NEW l, Remaining(l, u, v, k)
    PROVE  Remaining(DeleteScreen(l, v[k + 1]), u, v, k + 1)
<1>1. PICK m \in Nat, n \in Nat, w \in Seq(Names) : m = Len(u) /\ n = Len(v) /\ w = u \o v
  <2>1. u \o v \in Seq(Names) /\ Len(u) \in Nat /\ Len(v) \in Nat
    BY ConcatFacts
  <2> QED BY <2>1
<1>2. /\ Len(w) = m + n /\ \A i \in 1..m : w[i] = u[i]
      /\ \A i \in 1..n : w[m + i] = v[i]
  <2>1. /\ Len(u \o v) = Len(u) + Len(v) /\ \A i \in 1..Len(u) : (u \o v)[i] = u[i]
        /\ \A i \in 1..Len(v) : (u \o v)[Len(u) + i] = v[i]
    BY ConcatFacts
  <2> QED BY <1>1, <2>1
<1>3. \A i \in 1..(m + n), j \in 1..(m + n) : w[i] = w[j] => i = j
  <2>1. DOMAIN w = 1..(m + n)
    BY <1>2
  <2> QED BY <1>1, <2>1 DEF IsInjective
<1>4. PICK e \in Nat : /\ l \in Seq(Names) /\ Len(l) = e /\ e = m + (n - k)
                       /\ \A i \in 1..m : l[i] = u[i]
                       /\ \A i \in 1..(n - k) : l[m + i] = v[k + i]
  <2>1. l \in Seq(Names)
    BY DEF Remaining
  <2>2. PICK e \in Nat : e = Len(l)
    BY <2>1
  <2>3. e = m + (n - k)
    BY <1>1, <2>2 DEF Remaining
  <2>4. /\ \A i \in 1..m : l[i] = u[i]
        /\ \A i \in 1..(n - k) : l[m + i] = v[k + i]
    BY <1>1 DEF Remaining
  <2> QED BY <2>1, <2>2, <2>3, <2>4
<1>5. m + 1 \in 1..e /\ l[m + 1] = v[k + 1] /\ k + 1 \in 1..n
  <2>1. k < n /\ e = m + (n - k)
    BY <1>1, <1>4
  <2>2. m + 1 \in 1..e /\ k + 1 \in 1..n /\ 1 \in 1..(n - k)
    BY <2>1
  <2> QED BY <1>4, <2>2
<1>6. ASSUME NEW i \in 1..e, l[i] = v[k + 1] PROVE m + 1 <= i
  <2>1. SUFFICES ASSUME i <= m PROVE FALSE
    OBVIOUS
  <2>2. i \in 1..m /\ i \in 1..(m + n) /\ m + (k + 1) \in 1..(m + n) /\ i # m + (k + 1)
    BY <1>5, <2>1
  <2>3. w[i] = l[i] /\ w[m + (k + 1)] = v[k + 1]
    BY <1>2, <1>4, <1>5, <2>2
  <2> QED BY <1>3, <1>6, <2>2, <2>3
<1>7. DeleteScreen(l, v[k + 1]) = SubSeq(l, 1, (m + 1) - 1) \o SubSeq(l, (m + 1) + 1, e)
  BY <1>4, <1>5, <1>6, DeleteScreenFirst
<1>8. PICK s \in Seq(Names), t \in Seq(Names) :
         s = SubSeq(l, 1, (m + 1) - 1) /\ t = SubSeq(l, (m + 1) + 1, e)
  <2>1. SubSeq(l, 1, (m + 1) - 1) \in Seq(Names) /\ SubSeq(l, (m + 1) + 1, e) \in Seq(Names)
    BY <1>4, <1>5
  <2> QED BY <2>1
<1>9. Len(s) = m /\ \A i \in 1..m : s[i] = l[i]
  BY <1>4, <1>5, <1>8
<1>10. Len(t) = n - (k + 1) /\ \A i \in 1..(n - (k + 1)) : t[i] = l[m + (1 + i)]
  <2>1. PICK b \in 1..(e + 1) : b = (m + 1) + 1
    BY <1>5
  <2>2. Len(t) = (e - b) + 1 /\ \A i \in 1..((e - b) + 1) : t[i] = l[b + (i - 1)]
    BY <1>4, <1>8, <2>1, TailFacts
  <2>3. (e - b) + 1 = n - (k + 1) /\ \A i \in 1..(n - (k + 1)) : b + (i - 1) = m + (1 + i)
    BY <1>1, <1>4, <1>5, <2>1
  <2> QED BY <2>2, <2>3
<1>11. PICK r \in Seq(Names) : r = s \o t /\ r = DeleteScreen(l, v[k + 1])
  BY <1>7, <1>8, ConcatFacts
<1>12. /\ Len(r) = m + (n - (k + 1)) /\ \A i \in 1..m : r[i] = s[i]
       /\ \A i \in 1..(n - (k + 1)) : r[m + i] = t[i]
  <2>1. /\ Len(s \o t) = Len(s) + Len(t) /\ \A i \in 1..Len(s) : (s \o t)[i] = s[i]
        /\ \A i \in 1..Len(t) : (s \o t)[Len(s) + i] = t[i]
    BY ConcatFacts
  <2> QED BY <1>9, <1>10, <1>11, <2>1
<1>13. \A i \in 1..(n - (k + 1)) : r[m + i] = v[(k + 1) + i]
  <2> TAKE i \in 1..(n - (k + 1))
  <2>1. 1 + i \in 1..(n - k) /\ k + (1 + i) = (k + 1) + i
    BY <1>1, <1>5
  <2>2. t[i] = l[m + (1 + i)] /\ l[m + (1 + i)] = v[k + (1 + i)]
    BY <1>4, <1>10, <2>1
  <2> QED BY <1>12, <2>1, <2>2
<1>14. \A i \in 1..m : r[i] = u[i]
  BY <1>4, <1>9, <1>12
<1> QED BY <1>1, <1>11, <1>12, <1>13, <1>14 DEF Remaining

LEMMA ScreensUndone ==
    ASSUME NEW e, IsDeletion(e), NEW d, NEW u \in Seq(Names),
           d.screens = u \o e.screens, IsInjective(d.screens)
    PROVE  ScreensLeft(e, d)[Len(e.screens)] = u
<1>1. PICK v, n, L : /\ v \in Seq(Names) /\ n \in Nat /\ v = e.screens
                     /\ n = Len(v) /\ L = ScreensLeft(e, d)
  BY DeletionIs
<1>2. u \o v \in Seq(Names) /\ d.screens = u \o v
  BY <1>1, ConcatFacts
<1>3. /\ L[0] = u \o v
      /\ \A i \in 1..n : L[i] = DeleteScreen(L[i - 1], v[i])
      /\ \A i \in 0..n : L[i] \in Seq(Names)
  BY <1>1, <1>2, ScreensLeftIs
<1> DEFINE D == {k \in 0..n : ~Remaining(L[k], u, v, k)}
<1>4. D = {}
  <2>1. SUFFICES ASSUME D # {} PROVE FALSE
    OBVIOUS
  <2>2. PICK k \in D : k = 0 \/ (k \in 1..n /\ k - 1 \in 0..n /\ k - 1 \notin D)
    BY <1>1, <2>1, LeastExists
  <2>3. Remaining(u \o v, u, v, 0)
    <3>1. PICK w \in Seq(Names) : w = u \o v
      BY <1>2
    <3>2. /\ Len(u \o v) = Len(u) + Len(v) /\ \A i \in 1..Len(u) : (u \o v)[i] = u[i]
          /\ \A i \in 1..Len(v) : (u \o v)[Len(u) + i] = v[i]
      BY ConcatFacts
    <3>3. Len(v) - 0 = Len(v) /\ \A i \in 1..Len(v) : 0 + i = i
      OBVIOUS
    <3> QED BY <3>1, <3>2, <3>3 DEF Remaining
  <2>4. k # 0
    BY <1>3, <2>3
  <2>5. k \in 1..n /\ k - 1 \in Nat /\ k - 1 < n /\ (k - 1) + 1 = k
        /\ Remaining(L[k - 1], u, v, k - 1) /\ ~Remaining(L[k], u, v, k)
    BY <1>1, <2>2, <2>4
  <2> HIDE DEF D
  <2>6. Remaining(DeleteScreen(L[k - 1], v[(k - 1) + 1]), u, v, (k - 1) + 1)
    BY <1>1, <1>2, <2>5, RemainingNext
  <2> QED BY <1>3, <2>5, <2>6
<1>5. Remaining(L[n], u, v, n)
  <2>1. n \in 0..n
    BY <1>1
  <2> QED BY <1>4, <2>1
<1>6. L[n] \in Seq(Names) /\ Len(L[n]) = Len(u) /\ \A i \in 1..Len(u) : L[n][i] = u[i]
  BY <1>1, <1>5 DEF Remaining
<1>7. PICK l \in Seq(Names) : l = L[n]
  BY <1>6
<1>8. l = u
  BY <1>6, <1>7, SameSequence
<1> QED BY <1>1, <1>7, <1>8

-----------------------------------------------------------------------------
(* ... and its paths, PATHINSERT after PATHINSERT.                          *)

Paths == {Path(TRUE, names) : names \in Seq(Names)}

LEMMA PathOfIs ==
    ASSUME NEW insert, IsInsert(insert), NEW j \in 1..Count(insert.trees, <<>>)
    PROVE  /\ PathOf(insert, j) \in Paths /\ PathOf(insert, j).absolute = TRUE
           /\ PathOf(insert, j).names = Append(insert.path.names, insert.trees[<<j>>].name)
<1>0. PICK names \in Seq(Names) : names = insert.path.names
  BY DEF IsInsert
<1>1. PICK f : f = insert.trees /\ IsForest(f)
  BY DEF IsInsert
<1>2. HasChildren(f, <<>>, Count(f, <<>>))
  BY <1>1, CountFacts
<1>3. <<j>> \in DOMAIN f
  <2>1. j \in Nat /\ j > 0 /\ j <= Count(f, <<>>)
    BY <1>1, <1>2 DEF HasChildren
  <2>2. Append(<<>>, j) \in DOMAIN f
    BY <1>2, <2>1 DEF HasChildren
  <2> QED BY <2>2
<1>4. PICK name \in Names : name = f[<<j>>].name
  BY <1>1, <1>3 DEF IsForest
<1>5. PICK all \in Seq(Names) : all = Append(names, name)
  <2>1. Append(names, name) \in Seq(Names)
    OBVIOUS
  <2> QED BY <2>1
<1>6. PathOf(insert, j) = Path(TRUE, all)
  BY <1>0, <1>1, <1>4, <1>5 DEF PathOf
<1>7. /\ Path(TRUE, all) \in Paths /\ Path(TRUE, all).absolute = TRUE
      /\ Path(TRUE, all).names = all
  BY DEF Paths, Path
<1> QED BY <1>0, <1>1, <1>4, <1>5, <1>6, <1>7, Zenon

LEMMA UndoIs ==
    ASSUME NEW a, IsAddition(a), NEW n, n = Len(a.paths)
    PROVE  /\ IsDeletion(UndoOf(a)) /\ UndoOf(a).screens = a.screens
           /\ UndoOf(a).paths \in Seq(Paths)
           /\ \E F, Q : /\ Chains(F, Q, n, Paths) /\ UndoOf(a).paths = F[n]
                        /\ \A i \in 1..n : /\ Len(Q[i]) = Count(a.paths[i].trees, <<>>)
                                           /\ \A j \in 1..Len(Q[i]) : Q[i][j] = PathOf(a.paths[i], j)
<1>0. n \in Nat /\ \A i \in 1..n : IsInsert(a.paths[i])
  BY AdditionIs
<1> DEFINE q(i) == [j \in 1..Count(a.paths[i].trees, <<>>) |-> PathOf(a.paths[i], j)]
<1>1. PICK Q : Q = [i \in 1..n |-> q(i)]
  OBVIOUS
<1>2. ASSUME NEW i \in 1..n
      PROVE  /\ Q[i] \in Seq(Paths) /\ Len(Q[i]) = Count(a.paths[i].trees, <<>>)
             /\ \A j \in 1..Len(Q[i]) : Q[i][j] = PathOf(a.paths[i], j)
  <2>1. PICK c \in Nat : c = Count(a.paths[i].trees, <<>>)
    <3>1. PICK f : f = a.paths[i].trees /\ IsForest(f)
      BY <1>0 DEF IsInsert
    <3>2. Count(f, <<>>) \in Nat
      BY <3>1, CountFacts DEF HasChildren
    <3> QED BY <3>1, <3>2
  <2>2. PICK s : s = [j \in 1..c |-> PathOf(a.paths[i], j)]
    OBVIOUS
  <2>3. \A j \in 1..c : PathOf(a.paths[i], j) \in Paths
    BY <1>0, <2>1, PathOfIs
  <2>4. s \in Seq(Paths) /\ Len(s) = c /\ \A j \in 1..c : s[j] = PathOf(a.paths[i], j)
    BY <2>2, <2>3
  <2>5. Q[i] = s
    BY <1>1, <2>1, <2>2
  <2> QED BY <2>1, <2>4, <2>5
<1>3. Q \in [1..n -> Seq(Paths)]
  BY <1>1, <1>2
<1>4. PICK F : Chains(F, Q, n, Paths) /\ FlattenSeq(Q) = F[n]
  BY <1>0, <1>3, FlattenIs
<1>5. UndoOf(a).paths = FlattenSeq(Q) /\ UndoOf(a).screens = a.screens /\ UndoOf(a).tool = "rastadel"
  BY <1>1 DEF UndoOf, Deletion, Count
<1>6. PICK P \in Seq(Paths) : P = UndoOf(a).paths
  <2>1. n \in 0..n
    BY <1>0
  <2> QED BY <1>4, <1>5, <2>1 DEF Chains
<1>7. IsDeletion(UndoOf(a))
  <2>1. Len(P) \in Nat /\ DOMAIN P = 1..Len(P) /\ \A i \in DOMAIN P : P[i] \in Paths
    OBVIOUS
  <2>2. ASSUME NEW i \in DOMAIN P PROVE P[i].absolute \in BOOLEAN /\ P[i].names \in Seq(Names)
    <3>1. PICK names \in Seq(Names) : P[i] = Path(TRUE, names)
      BY <2>1 DEF Paths
    <3> QED BY <3>1 DEF Path
  <2>3. a.screens \in Seq(Names)
    BY DEF IsAddition
  <2> QED BY <1>5, <1>6, <2>1, <2>2, <2>3 DEF IsDeletion, IsDelta
<1> QED BY <1>2, <1>4, <1>5, <1>6, <1>7

-----------------------------------------------------------------------------
(* Taking back what was added.                                             *)

\* One description is left, and it has lost what low says.
Left(S, u, b, t, low) == \E s : S = {Edited(Document(u, s))} /\ Peeled(s, b, t, low)

\* path leads to the j-th tree of the i-th PATHINSERT, when it is the only one
\* of its name.
LeadsTo(path, insert, j) ==
    path.absolute = TRUE /\ path.names = Append(insert.path.names, insert.trees[<<j>>].name)

LEMMA UndoStep ==
    ASSUME NEW G, NEW X, NEW P, NEW n, Grows(G, X, P, n), Recovers(G, P, n),
           NEW i \in 1..n, NEW j \in 1..Count(P[i].trees, <<>>), NEW path, LeadsTo(path, P[i], j),
           NEW u, NEW S, Left(S, u, G[0], G[n], Low(G, X, i, j - 1))
    PROVE  Left(DeletePath(S, path), u, G[0], G[n], Low(G, X, i, j))
<1>1. PICK s : S = {Edited(Document(u, s))} /\ Peeled(s, G[0], G[n], Low(G, X, i, j - 1))
  BY DEF Left
<1>2. s # <<>>
  <2>1. IsTree(G[0])
    BY DEF Grows
  <2>2. <<>> \in DOMAIN s
    BY <1>1, <2>1 DEF Peeled, Includes, IsTree
  <2>3. DOMAIN <<>> = {}
    OBVIOUS
  <2> QED BY <2>2, <2>3
<1>3. PICK x : x = FindPath(s, path)
  OBVIOUS
<1>4. x = Descend(s, Append(P[i].path.names, P[i].trees[<<j>>].name))
  BY <1>3 DEF FindPath, LeadsTo
<1>5. \/ x = Missing /\ Peeled(s, G[0], G[n], Low(G, X, i, j))
      \/ x # Missing /\ Peeled(Unlink(s, x), G[0], G[n], Low(G, X, i, j))
  BY <1>1, <1>4, StageStep
<1>6. Without(Edited(Document(u, s)), path) =
         {IF x = Missing THEN Edited(Document(u, s)) ELSE Edited(Document(u, Unlink(s, x)))}
  BY <1>2, <1>3, WithoutIs
<1>7. DeletePath(S, path) = Without(Edited(Document(u, s)), path)
  <2>1. PICK o : o = Edited(Document(u, s))
    OBVIOUS
  <2>2. DeletePath({o}, path) = UNION {Without(z, path) : z \in {o}}
    BY DeletePathIs
  <2>3. DeletePath({o}, path) = Without(o, path)
    BY <2>2
  <2> QED BY <1>1, <2>1, <2>3
<1> QED BY <1>5, <1>6, <1>7 DEF Left

\* W follows the deletions in E.
Deletes(W, E) == \A r \in 1..Len(E) : W[r] = DeletePath(W[r - 1], E[r])

LEMMA UndoStage ==
    ASSUME NEW G, NEW X, NEW P, NEW n, Grows(G, X, P, n), Recovers(G, P, n),
           NEW i \in 1..n, NEW c \in Nat, c = Count(P[i].trees, <<>>),
           NEW W, NEW E, Deletes(W, E), NEW k \in Nat,
           \A j \in 1..c : k + j \in 1..Len(E) /\ LeadsTo(E[k + j], P[i], j),
           NEW u, Left(W[k], u, G[0], G[n], Low(G, X, i, 0))
    PROVE  Left(W[k + c], u, G[0], G[n], Low(G, X, i, c))
<1> DEFINE Ok(j) == Left(W[k + j], u, G[0], G[n], Low(G, X, i, j))
           D == {j \in 0..c : ~Ok(j)}
<1>1. SUFFICES ASSUME D # {} PROVE FALSE
  <2>1. c \in 0..c
    OBVIOUS
  <2> HIDE DEF Ok
  <2>2. Ok(c)
    BY <1>1, <2>1
  <2> QED BY <2>2 DEF Ok
<1>2. PICK j \in D : j = 0 \/ (j \in 1..c /\ j - 1 \in 0..c /\ j - 1 \notin D)
  BY <1>1, LeastExists
<1>3. Ok(0)
  <2>1. k + 0 = k
    OBVIOUS
  <2> QED BY <2>1
<1> HIDE DEF Ok
<1>4. j # 0 /\ ~Ok(j)
  BY <1>3
<1>5. j \in 1..c /\ Ok(j - 1)
  BY <1>2, <1>4
<1> HIDE DEF D
<1>6. k + j \in 1..Len(E) /\ LeadsTo(E[k + j], P[i], j) /\ (k + j) - 1 = k + (j - 1)
  BY <1>5
<1>7. W[k + j] = DeletePath(W[k + (j - 1)], E[k + j])
  BY <1>6 DEF Deletes
<1>8. Left(W[k + (j - 1)], u, G[0], G[n], Low(G, X, i, j - 1))
  BY <1>5 DEF Ok
<1>9. Left(DeletePath(W[k + (j - 1)], E[k + j]), u, G[0], G[n], Low(G, X, i, j))
  BY <1>5, <1>6, <1>8, UndoStep
<1> QED BY <1>4, <1>7, <1>9 DEF Ok

\* What is gone after the stages of the first i PATHINSERTs.
LowAfter(G, i) == [p \in DOMAIN G[0] |-> Count(G[i], p)]

LEMMA LowStages ==
    ASSUME NEW G, NEW X, NEW P, NEW n, Grows(G, X, P, n), NEW i \in 1..n
    PROVE  /\ Low(G, X, i, 0) = LowAfter(G, i - 1)
           /\ Low(G, X, i, Count(P[i].trees, <<>>)) = LowAfter(G, i)
<1>1. \A p \in DOMAIN G[0] : p \in DOMAIN G[i - 1] /\ Count(G[i - 1], p) \in Nat
  <2>1. 0 \in Nat
    OBVIOUS
  <2> QED BY <2>1, LowFacts
<1>2. PICK t, g, x, c : t = G[i - 1] /\ g = G[i] /\ x = X[i] /\ c = Count(P[i].trees, <<>>)
  OBVIOUS
<1>3. /\ c \in Nat /\ Count(g, x) = Count(t, x) + c
      /\ \A q \in DOMAIN t : q # x => Count(g, q) = Count(t, q)
  BY <1>2, GrowStep DEF Grew
<1>4. ASSUME NEW p \in DOMAIN G[0]
      PROVE  /\ Count(t, p) + (IF p = x THEN 0 ELSE 0) = Count(t, p)
             /\ Count(t, p) + (IF p = x THEN c ELSE 0) = Count(g, p)
  <2>1. p \in DOMAIN t /\ Count(t, p) \in Nat
    BY <1>1, <1>2
  <2>2. CASE p = x
    BY <1>3, <2>1, <2>2
  <2>3. CASE p # x
    BY <1>3, <2>1, <2>3
  <2> QED BY <2>2, <2>3
<1> QED BY <1>2, <1>4 DEF Low, LowAfter

\* Q has the paths to the trees of each PATHINSERT.
Spells(Q, P, n) ==
    \A i \in 1..n : /\ Len(Q[i]) = Count(P[i].trees, <<>>)
                    /\ \A j \in 1..Len(Q[i]) : LeadsTo(Q[i][j], P[i], j)

\* After r deletions the description with these screens and tree is left.
Reaches(W, r, u, t) == W[r] = {Edited(Document(u, t))}

LEMMA AllUndone ==
    ASSUME NEW G, NEW X, NEW P, NEW n, Grows(G, X, P, n), Recovers(G, P, n),
           NEW S, NEW F, NEW Q, Chains(F, Q, n, S), Spells(Q, P, n),
           NEW W, Deletes(W, F[n]), NEW u, Reaches(W, 0, u, G[n])
    PROVE  Reaches(W, Len(F[n]), u, G[0])
<1>0. n \in Nat /\ 0 \in 0..n /\ n \in 0..n /\ 0 <= n /\ \A i \in 0..n : IsTree(G[i])
  BY DEF Grows
<1>1. PICK b, t : b = G[0] /\ t = G[n]
  OBVIOUS
<1>2. IsTree(b) /\ IsTree(t) /\ Includes(t, b)
  BY <1>0, <1>1, GrowIncludes
<1> DEFINE Ok(i) == Left(W[Len(F[i])], u, G[0], G[n], LowAfter(G, i))
           D == {i \in 0..n : ~Ok(i)}
<1>3. Ok(0)
  <2>1. \A p \in DOMAIN b : LowAfter(G, 0)[p] = Count(b, p)
    BY <1>1 DEF LowAfter
  <2>2. Peeled(t, b, t, LowAfter(G, 0))
    BY <1>2, <2>1, PeeledFirst DEF IsTree, IsForest
  <2>3. F[0] = <<>> /\ Len(<<>>) = 0
    BY DEF Chains
  <2> QED BY <1>1, <2>2, <2>3 DEF Left, Reaches
<1> HIDE DEF Ok
<1>4. D = {}
  <2>1. SUFFICES ASSUME D # {} PROVE FALSE
    OBVIOUS
  <2>2. PICK i \in D : i = 0 \/ (i \in 1..n /\ i - 1 \in 0..n /\ i - 1 \notin D)
    BY <1>0, <2>1, LeastExists
  <2>3. i \in 1..n /\ Ok(i - 1) /\ ~Ok(i)
    BY <1>3, <2>2
  <2> HIDE DEF D
  <2>4. IsConcat(F[i], F[i - 1], Q[i])
    BY <2>3, ChainStep
  <2>5. PICK k \in Nat, c \in Nat : /\ k = Len(F[i - 1]) /\ c = Len(Q[i])
                                    /\ c = Count(P[i].trees, <<>>) /\ Len(F[i]) = k + c
    BY <2>3, <2>4 DEF IsConcat, Spells
  <2>6. ASSUME NEW j \in 1..c PROVE k + j \in 1..Len(F[n]) /\ LeadsTo(F[n][k + j], P[i], j)
    <3>1. i \in 0..n /\ k + j \in 1..Len(F[i])
      BY <2>3, <2>5
    <3>2. k + j \in 1..Len(F[n]) /\ F[n][k + j] = F[i][k + j]
      BY <3>1, ChainKeeps
    <3>3. F[i][k + j] = Q[i][j]
      BY <2>4, <2>5 DEF IsConcat
    <3> QED BY <2>3, <2>5, <3>2, <3>3 DEF Spells
  <2>7. Low(G, X, i, 0) = LowAfter(G, i - 1) /\ Low(G, X, i, c) = LowAfter(G, i)
    BY <2>3, <2>5, LowStages
  <2>8. Left(W[k], u, G[0], G[n], Low(G, X, i, 0))
    BY <2>3, <2>5, <2>7 DEF Ok
  <2>9. Left(W[k + c], u, G[0], G[n], Low(G, X, i, c))
    <3>1. PICK E : E = F[n]
      OBVIOUS
    <3>2. Deletes(W, E) /\ \A j \in 1..c : k + j \in 1..Len(E) /\ LeadsTo(E[k + j], P[i], j)
      BY <2>6, <3>1
    <3> QED BY <2>3, <2>5, <2>8, <3>2, UndoStage
  <2> QED BY <2>3, <2>5, <2>7, <2>9 DEF Ok
<1>5. Ok(n)
  BY <1>0, <1>4
<1>6. PICK s : /\ W[Len(F[n])] = {Edited(Document(u, s))}
               /\ Peeled(s, b, t, LowAfter(G, n))
  BY <1>1, <1>5 DEF Ok, Left
<1>7. IsLow(b, LowAfter(G, n)) /\ \A p \in DOMAIN b : LowAfter(G, n)[p] = Count(t, p)
  <2>1. \A p \in DOMAIN b : LowAfter(G, n)[p] = Count(t, p)
    BY <1>1 DEF LowAfter
  <2>2. CASE n = 0
    <3>1. \A p \in DOMAIN b : Count(b, p) \in Nat
      BY <1>2, CountFacts DEF IsTree, HasChildren
    <3> QED BY <1>1, <2>1, <2>2, <3>1 DEF IsLow
  <2>3. CASE n # 0
    <3>1. PICK c \in Nat : c = Count(P[n].trees, <<>>) /\ n \in 1..n
      <4>1. n \in 1..n
        BY <1>0, <2>3
      <4> QED BY <4>1, GrowStep DEF Grew
    <3>2. IsLow(G[0], Low(G, X, n, c)) /\ Low(G, X, n, c) = LowAfter(G, n)
      BY <3>1, LowFacts, LowStages
    <3> QED BY <1>1, <2>1, <3>2
  <2> QED BY <2>2, <2>3
<1>8. s = b
  BY <1>2, <1>6, <1>7, PeeledLast
<1> QED BY <1>1, <1>6, <1>8 DEF Reaches

LEMMA NotBare ==
    ASSUME NEW d, NEW delta, NEW o \in EditOutcomes(delta, d), o.kind = "edited"
    PROVE  ~Bare(delta)
<1>1. Error.kind = "error" /\ "error" # "edited"
  BY DEF Error
<1> QED BY <1>1 DEF EditOutcomes

LEMMA AdditionFacts ==
    ASSUME NEW d, IsDocument(d), NEW a, IsDelta(a), a.tool = "rastaadd", a.screens # Missing,
           NEW o \in EditOutcomes(a, d), o.kind = "edited"
    PROVE  /\ IsAddition(a) /\ o = Added(a, d)[Len(a.paths)]
           /\ Added(a, d)[Len(a.paths)].kind = "edited"
           /\ a.screens # <<>>
<1>1. IsAddition(a)
  BY ToolsDiffer DEF IsDelta, IsAddition
<1>2. o = AddOutcome(a, d)
  BY NotBare DEF EditOutcomes
<1>3. o = IF a.screens = <<>> THEN Error ELSE Added(a, d)[Len(a.paths)]
  BY <1>2 DEF AddOutcome
<1>4. Error.kind = "error" /\ "error" # "edited"
  BY DEF Error
<1> QED BY <1>1, <1>3, <1>4

\* The deletion of what an addition brought gives the description back, and
\* nothing else: rastadel finds every element that rastaadd inserted, and only
\* those, in whatever order the PATHINSERTs built on each other.
THEOREM AdditionUndone ==
    ASSUME NEW d, IsDocument(d), NEW a, IsDelta(a), a.tool = "rastaadd", a.screens # Missing,
           NEW o \in EditOutcomes(a, d), o.kind = "edited", Accepted(o.doc), Recoverable(d, a)
    PROVE  EditOutcomes(UndoOf(a), o.doc) = {Edited(d)}
<1>1. PICK n, e, sc : n = Len(a.paths) /\ e = UndoOf(a) /\ sc = d.screens \o a.screens
  OBVIOUS
<1>2. /\ IsAddition(a) /\ o = Added(a, d)[n] /\ Added(a, d)[n].kind = "edited"
  BY <1>1, AdditionFacts
<1>3. PICK G, X : /\ Grows(G, X, a.paths, n) /\ G[0] = d.path
                  /\ \A i \in 0..n : Added(a, d)[i] = Edited(Document(sc, G[i]))
  BY <1>1, <1>2, AddedGrows
<1>4. Recovers(G, a.paths, n)
  BY <1>1, <1>2, <1>3, RecoverableIs
<1>5. n \in 0..n /\ IsTree(G[n])
  BY <1>3 DEF Grows
<1>6. o.doc.screens = sc /\ o.doc.path = G[n]
  BY <1>2, <1>3, <1>5, ResultIs
<1>7. d.screens \in Seq(Names) /\ sc \in Seq(Names)
  <2>1. d.screens \in Seq(Names) /\ a.screens \in Seq(Names)
    BY <1>2 DEF IsDocument, IsAddition
  <2>2. d.screens \o a.screens \in Seq(Names)
    BY <2>1, ConcatFacts
  <2> QED BY <1>1, <2>1, <2>2
<1>8. IsDeletion(e) /\ e.screens = a.screens
  BY <1>1, <1>2, UndoIs
<1>9. PICK F, Q : /\ Chains(F, Q, n, Paths) /\ e.paths = F[n]
                  /\ \A i \in 1..n : /\ Len(Q[i]) = Count(a.paths[i].trees, <<>>)
                                     /\ \A j \in 1..Len(Q[i]) : Q[i][j] = PathOf(a.paths[i], j)
  BY <1>1, <1>2, UndoIs
<1>10. ASSUME NEW i \in 1..n, NEW j \in 1..Len(Q[i]) PROVE LeadsTo(Q[i][j], a.paths[i], j)
  <2>1. Q[i][j] = PathOf(a.paths[i], j) /\ j \in 1..Count(a.paths[i].trees, <<>>)
    BY <1>9
  <2>2. IsInsert(a.paths[i])
    BY <1>1, <1>2, AdditionIs
  <2>3. LeadsTo(PathOf(a.paths[i], j), a.paths[i], j)
    BY <2>1, <2>2, PathOfIs DEF LeadsTo
  <2> QED BY <2>1, <2>3
<1>11. PICK W : W = Deleted(e, o.doc)
  OBVIOUS
<1>12. /\ W[0] = {Edited(Document(ScreensLeft(e, o.doc)[Len(e.screens)], G[n]))}
       /\ Deletes(W, F[n])
  <2>1. o.doc.screens \in Seq(Names) /\ o.doc.path \in Trees
    BY <1>5, <1>6, <1>7, TreesAre
  <2>2. /\ Deleted(e, o.doc)[0] =
              {Edited(Document(ScreensLeft(e, o.doc)[Len(e.screens)], o.doc.path))}
        /\ \A i \in 1..Len(e.paths) :
              Deleted(e, o.doc)[i] = DeletePath(Deleted(e, o.doc)[i - 1], e.paths[i])
    BY <1>8, <2>1, DeletedIs
  <2> QED BY <1>6, <1>9, <1>11, <2>2 DEF Deletes
<1>13. ScreensLeft(e, o.doc)[Len(e.screens)] = d.screens
  <2>1. IsInjective(o.doc.screens)
    BY DEF Accepted
  <2>2. o.doc.screens = d.screens \o e.screens
    BY <1>1, <1>6, <1>8
  <2> QED BY <1>7, <1>8, <2>1, <2>2, ScreensUndone
<1>14. W[0] = {Edited(Document(d.screens, G[n]))}
  BY <1>12, <1>13
<1>15. W[Len(F[n])] = {Edited(Document(d.screens, G[0]))}
  <2>1. Spells(Q, a.paths, n)
    BY <1>9, <1>10 DEF Spells
  <2>2. Reaches(W, 0, d.screens, G[n])
    BY <1>14 DEF Reaches
  <2>3. Reaches(W, Len(F[n]), d.screens, G[0])
    BY <1>3, <1>4, <1>9, <1>12, <2>1, <2>2, AllUndone
  <2> QED BY <2>3 DEF Reaches
<1>16. EditOutcomes(e, o.doc) = W[Len(e.paths)]
  <2>1. e.tool = "rastadel"
    BY <1>8 DEF IsDeletion
  <2>2. a.screens # <<>>
    BY AdditionFacts
  <2>3. ~Bare(e)
    BY <1>8, <2>2 DEF Bare
  <2> QED BY <1>11, <2>1, <2>3, ToolsDiffer DEF EditOutcomes, DeleteOutcomes
<1>17. Document(d.screens, G[0]) = d
  BY <1>3 DEF IsDocument
<1> QED BY <1>1, <1>9, <1>15, <1>16, <1>17

-----------------------------------------------------------------------------
(* Editors keep documents what the parser makes.                           *)

LEMMA AdditionKeepsDocument ==
    ASSUME NEW d, IsDocument(d), NEW a, IsDelta(a), a.tool = "rastaadd",
           NEW o \in EditOutcomes(a, d), o.kind = "edited"
    PROVE  IsDocument(o.doc)
<1>1. a.screens # Missing
  <2>1. o = AddOutcome(a, d)
    BY NotBare DEF EditOutcomes
  <2>2. Crash.kind = "crash" /\ "crash" # "edited"
    BY DEF Crash
  <2> QED BY <2>1, <2>2 DEF AddOutcome
<1>2. PICK n : n = Len(a.paths) /\ o = Added(a, d)[n] /\ IsAddition(a)
  BY <1>1, AdditionFacts
<1>3. o \in AddResults
  <2>1. n \in 0..n
    BY <1>2, AdditionIs
  <2> QED BY <1>2, <2>1, AddedIs
<1>4. Error.kind = "error" /\ "error" # "edited"
  BY DEF Error
<1>5. PICK s \in Seq(Names), t \in Trees : o = Edited(Document(s, t))
  BY <1>3, <1>4 DEF AddResults
<1>6. IsTree(t) /\ o.doc = Document(s, t)
  BY <1>5, TreesAre DEF Edited
<1> QED BY <1>6 DEF IsDocument, Document

LEMMA DeletionKeepsDocument ==
    ASSUME NEW d, IsDocument(d), NEW e, IsDeletion(e),
           NEW o \in EditOutcomes(e, d), o.kind = "edited", <<>> \in DOMAIN o.doc.path
    PROVE  IsDocument(o.doc)
<1>1. PICK n \in Nat : n = Len(e.paths)
  BY DeletionIs
<1>2. o \in Deleted(e, d)[n]
  BY <1>1, ToolsDiffer, NotBare DEF IsDeletion, EditOutcomes, DeleteOutcomes
<1>3. o \in Pruned
  <2>1. d.screens \in Seq(Names) /\ d.path \in Trees
    BY TreesAre DEF IsDocument
  <2> QED BY <1>1, <1>2, <2>1, DeletedIs
<1>4. Crash.kind = "crash" /\ "crash" # "edited"
  BY DEF Crash
<1>5. PICK s \in Seq(Names), t \in Trees \cup {<<>>} : o = Edited(Document(s, t))
  BY <1>3, <1>4 DEF Pruned
<1>6. o.doc = Document(s, t) /\ o.doc.path = t
  BY <1>5 DEF Edited, Document
<1>7. t # <<>>
  <2>1. DOMAIN <<>> = {}
    OBVIOUS
  <2> QED BY <1>6, <2>1
<1>8. IsTree(t)
  BY <1>7, TreesAre
<1> QED BY <1>6, <1>8 DEF IsDocument, Document

\* A run that ends well saves a description that has the shape of one.
THEOREM EditKeepsDocument ==
    ASSUME NEW d, IsDocument(d), NEW delta, IsDelta(delta),
           NEW o \in EditOutcomes(delta, d), o.kind = "edited", Accepted(o.doc)
    PROVE  IsDocument(o.doc)
<1>1. CASE delta.tool = "rastaadd"
  BY <1>1, AdditionKeepsDocument
<1>2. CASE delta.tool # "rastaadd"
  <2>1. IsDeletion(delta)
    BY <1>2 DEF IsDelta, IsDeletion
  <2>2. <<>> \in DOMAIN o.doc.path
    BY DEF Accepted
  <2> QED BY <2>1, <2>2, DeletionKeepsDocument
<1> QED BY <1>1, <1>2

-----------------------------------------------------------------------------
(* The runs of the editors.                                                *)

\* Files and runs hold descriptions of the right shape.
DocumentsInv ==
    /\ \A f \in Files : disk[f] = Unreadable \/ IsDocument(disk[f])
    /\ \A r \in Runs : pc[r] \in {"read", "save", "writing"} => IsDocument(doc[r])

LEMMA DocumentsInit == Init => DocumentsInv
<1> SUFFICES ASSUME Init PROVE DocumentsInv
  OBVIOUS
<1>1. \A f \in Files : IsDocument(disk[f])
  BY DocumentsAssumption DEF Init
<1>2. \A r \in Runs : pc[r] = "new"
  BY DEF Init
<1> QED BY <1>1, <1>2 DEF DocumentsInv

LEMMA DocumentsStep ==
    ASSUME EditsAreRadEdit, TypeOK, DocumentsInv, NEW r \in Runs, Step(r) \/ Kill(r)
    PROVE  DocumentsInv'
<1>0. /\ FileFor(r) \in Files /\ job[r].delta \in Deltas
      /\ DOMAIN pc = Runs /\ DOMAIN disk = Files /\ DOMAIN doc = Runs
  BY Naming DEF TypeOK
<1>1. CASE Read(r)
  BY <1>0, <1>1 DEF Read, Goto, DocumentsInv
<1>2. CASE Modify(r)
  <2>1. PICK o \in Outcomes(job[r].delta, doc[r]) :
           o.kind = "edited" /\ Valid(o.doc) /\ doc' = [doc EXCEPT ![r] = o.doc]
    BY <1>2 DEF Modify
  <2>2. pc[r] = "read" /\ disk' = disk /\ pc' = [pc EXCEPT ![r] = "save"]
    BY <1>2 DEF Modify, Goto
  <2>3. IsDocument(doc[r])
    BY <2>2 DEF DocumentsInv
  <2>4. IsDelta(job[r].delta)
    BY <1>0, DeltasAssumption
  <2>5. o \in EditOutcomes(job[r].delta, doc[r]) /\ Accepted(o.doc)
    BY <2>1 DEF EditsAreRadEdit
  <2>6. IsDocument(o.doc)
    BY <2>1, <2>3, <2>4, <2>5, EditKeepsDocument
  <2> QED BY <1>0, <2>1, <2>2, <2>6 DEF DocumentsInv
<1>3. CASE Open(r)
  BY <1>0, <1>3 DEF Open, Goto, DocumentsInv
<1>4. CASE Write(r)
  BY <1>0, <1>4 DEF Write, Goto, DocumentsInv
<1>5. CASE \/ Kill(r) \/ CreateLock(r) \/ LockRefused(r) \/ TakeLock(r)
           \/ TakeLockFails(r) \/ ReadFails(r) \/ ModifyFails(r)
           \/ ModifyCrashes(r) \/ OpenFails(r) \/ WriteFails(r)
           \/ ReleaseLock(r) \/ RemoveLock(r)
  <2>1. /\ disk' = disk /\ doc' = doc
        /\ \E l \in {"created", "refused", "locked", "done", "drop", "dead", "remove"} :
              pc' = [pc EXCEPT ![r] = l]
    BY <1>5 DEF Kill, Die, CreateLock, LockRefused, TakeLock, TakeLockFails,
                ReadFails, ModifyFails, ModifyCrashes, OpenFails, WriteFails,
                ReleaseLock, RemoveLock, Fail, Goto
  <2> QED BY <1>0, <2>1 DEF DocumentsInv
<1> QED BY <1>1, <1>2, <1>3, <1>4, <1>5 DEF Step

LEMMA DocumentsNext ==
    ASSUME EditsAreRadEdit
    PROVE  TypeOK /\ DocumentsInv /\ [Next]_vars => DocumentsInv'
<1> SUFFICES ASSUME TypeOK, DocumentsInv, [Next]_vars PROVE DocumentsInv'
  OBVIOUS
<1>1. CASE Next
  BY <1>1, DocumentsStep DEF Next
<1>2. CASE UNCHANGED vars
  BY <1>2 DEF vars, DocumentsInv
<1> QED BY <1>1, <1>2

LEMMA DocumentsUndo ==
    ASSUME EditsAreRadEdit, DocumentsInv
    PROVE  DeletionUndoesAddition
<1> SUFFICES ASSUME NEW f \in Files, disk[f] # Unreadable,
                    NEW a \in Deltas, a.tool = "rastaadd", a.screens # Missing,
                    NEW o \in Outcomes(a, disk[f]),
                    o.kind = "edited", Valid(o.doc), Recoverable(disk[f], a)
             PROVE  Outcomes(UndoOf(a), o.doc) = {Edited(disk[f])}
  BY DEF DeletionUndoesAddition
<1>1. IsDocument(disk[f]) /\ IsDelta(a)
  BY DeltasAssumption DEF DocumentsInv
<1>2. o \in EditOutcomes(a, disk[f]) /\ Accepted(o.doc)
  BY DEF EditsAreRadEdit
<1>3. EditOutcomes(UndoOf(a), o.doc) = {Edited(disk[f])}
  BY <1>1, <1>2, AdditionUndone
<1> QED BY <1>3 DEF EditsAreRadEdit

\* Whatever the runs of the editors have made of the files, however they were
\* interleaved and whichever were killed, a deletion takes back an addition.
THEOREM DeletionUndoes ==
    ASSUME EditsAreRadEdit
    PROVE  Spec => []DeletionUndoesAddition
<1>1. Init => DocumentsInv
  BY DocumentsInit
<1>2. TypeOK /\ DocumentsInv /\ [Next]_vars => DocumentsInv'
  BY DocumentsNext
<1>3. DocumentsInv => DeletionUndoesAddition
  BY DocumentsUndo
<1>4. Spec => []TypeOK
  BY TypeCorrect
<1> QED BY <1>1, <1>2, <1>3, <1>4, PTL DEF Spec

=============================================================================
