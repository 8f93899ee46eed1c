---------------------------- MODULE OrderLemmas ----------------------------
(***************************************************************************)
(* Facts about sets of numbers, and about Sift, that other proofs need.    *)
(* They rest on the well-foundedness of strict inclusion between finite    *)
(* sets, which the library states of sets and not of operators: where      *)
(* induction would be used, the least counterexample is looked at.         *)
(***************************************************************************)
EXTENDS Integers, SequenceSift, FiniteSetTheorems, TLAPS

\* A set of numbers with a bound has a highest one.
LEMMA HighestExists ==
    ASSUME NEW S \in SUBSET Nat, S # {}, NEW b \in Nat, \A i \in S : i <= b
    PROVE  \E i \in S : \A j \in S : j <= i
<1> DEFINE Above(i) == {j \in S : i <= j}
           T == {Above(i) : i \in S}
<1>1. IsFiniteSet(S)
  BY FS_BoundedSetOfNaturals
<1>2. IsWellFoundedOn(StrictSubsetOrdering(S), SUBSET S)
  BY <1>1, FS_StrictSubsetOrderingWellFounded, FS_FiniteSubsetsOfFinite
<1>3. T \subseteq SUBSET S /\ T # {}
  OBVIOUS
<1>4. PICK m \in T : \A y \in T : ~(<<y, m>> \in StrictSubsetOrdering(S))
  <2> HIDE DEF T
  <2> QED BY <1>2, <1>3, WFMin
<1>5. PICK i \in S : m = Above(i)
  OBVIOUS
<1>6. ASSUME NEW j \in S, i < j PROVE FALSE
  <2>1. \A k \in S : j <= k => i <= k
    BY <1>6
  <2>2. Above(j) \subseteq Above(i)
    BY <2>1
  <2>3. i \in Above(i) /\ i \notin Above(j)
    BY <1>6
  <2>4. <<Above(j), Above(i)>> \in StrictSubsetOrdering(S)
    BY <2>2, <2>3 DEF StrictSubsetOrdering
  <2> QED BY <1>4, <1>5, <2>4
<1> QED BY <1>6

\* ... and any set of numbers a lowest one.
LEMMA LowestExists ==
    ASSUME NEW S \in SUBSET Nat, S # {}, NEW b \in Nat, \A i \in S : i <= b
    PROVE  \E i \in S : \A j \in S : i <= j
<1> DEFINE Mirror == {b - i : i \in S}
<1>1. Mirror \in SUBSET Nat /\ Mirror # {} /\ \A k \in Mirror : k <= b
  <2>1. \A i \in S : b - i \in Nat /\ b - i <= b
    OBVIOUS
  <2>2. Mirror \in SUBSET Nat /\ \A k \in Mirror : k <= b
    BY <2>1
  <2> QED BY <2>2
<1>2. PICK k \in Mirror : \A l \in Mirror : l <= k
  <2> HIDE DEF Mirror
  <2> QED BY <1>1, HighestExists
<1>3. PICK i \in S : k = b - i
  OBVIOUS
<1>4. \A j \in S : i <= j
  <2> TAKE j \in S
  <2>1. b - j \in Mirror
    OBVIOUS
  <2>2. b - j <= b - i
    BY <1>2, <1>3, <2>1
  <2> HIDE DEF Mirror
  <2> QED BY <2>2
<1> QED BY <1>4

\* The least counterexample: nothing below it is one.
LEMMA LeastExists ==
    ASSUME NEW n \in Nat, NEW S, S \subseteq 0..n, S # {}
    PROVE  \E l \in S : l = 0 \/ (l \in 1..n /\ l - 1 \in 0..n /\ l - 1 \notin S)
<1>1. S \in SUBSET Nat /\ \A i \in S : i <= n
  OBVIOUS
<1>2. PICK l \in S : \A i \in S : l <= i
  BY <1>1, LowestExists
<1>3. l \in 0..n
  OBVIOUS
<1>4. ASSUME l # 0 PROVE l \in 1..n /\ l - 1 \in 0..n /\ ~(l <= l - 1)
  BY <1>3, <1>4
<1> QED BY <1>2, <1>4

\* What CHOOSE picks from an interval's subset.
LEMMA HighestOf ==
    ASSUME NEW n \in Nat, NEW S, S \subseteq 0..n, S # {}
    PROVE  LET h == CHOOSE i \in S : \A j \in S : j <= i
           IN  h \in S /\ \A j \in S : j <= h
<1>1. S \in SUBSET Nat /\ \A i \in S : i <= n
  OBVIOUS
<1>2. \E i \in S : \A j \in S : j <= i
  BY <1>1, HighestExists
<1> QED BY <1>2

LEMMA LowestOf ==
    ASSUME NEW n \in Nat, NEW S, S \subseteq 0..n, S # {}
    PROVE  LET l == CHOOSE i \in S : \A j \in S : i <= j
           IN  l \in S /\ \A j \in S : l <= j
<1>1. S \in SUBSET Nat /\ \A i \in S : i <= n
  OBVIOUS
<1>2. \E i \in S : \A j \in S : i <= j
  BY <1>1, LowestExists
<1> QED BY <1>2

-----------------------------------------------------------------------------
(* Sift is what its equations say.                                         *)

SiftsTo(f, seq, P, n) ==
    /\ f[0] = <<>>
    /\ \A i \in 1..n : f[i] = IF i \in P THEN Append(f[i - 1], seq[i]) ELSE f[i - 1]

\* Two solutions agree as far as the sequences and the positions do.
LEMMA SiftUnique ==
    ASSUME NEW n \in Nat, NEW s, NEW t, NEW P, NEW Q, NEW f, NEW g,
           SiftsTo(f, s, P, n), SiftsTo(g, t, Q, n),
           \A i \in 1..n : s[i] = t[i] /\ (i \in P <=> i \in Q)
    PROVE  \A i \in 0..n : f[i] = g[i]
<1> DEFINE D == {i \in 0..n : f[i] # g[i]}
<1>1. SUFFICES ASSUME D # {} PROVE FALSE
  OBVIOUS
<1>2. PICK l \in D : \A j \in D : l <= j
  <2>1. D \in SUBSET Nat /\ \A i \in D : i <= n
    OBVIOUS
  <2> HIDE DEF D
  <2> QED BY <1>1, <2>1, LowestExists
<1>3. l # 0
  BY DEF SiftsTo
<1>4. l \in 1..n /\ l - 1 \in 0..n /\ l - 1 \notin D
  BY <1>2, <1>3
<1>5. f[l - 1] = g[l - 1]
  BY <1>4
<1>6. f[l] = g[l]
  BY <1>4, <1>5 DEF SiftsTo
<1> QED BY <1>2, <1>6

\* There is a solution, ...
LEMMA SiftExists ==
    ASSUME NEW S, NEW s \in Seq(S), NEW P, NEW n \in 0..Len(s)
    PROVE  \E f \in [0..n -> Seq(S)] : SiftsTo(f, s, P, n)
<1> DEFINE Solved(m) == \E f \in [0..m -> Seq(S)] : SiftsTo(f, s, P, m)
           D == {m \in 0..n : ~Solved(m)}
<1>0. Len(s) \in Nat /\ n \in Nat /\ \A i \in 1..n : s[i] \in S
  OBVIOUS
<1>1. SUFFICES ASSUME D # {} PROVE FALSE
  <2>1. D = {} => Solved(n)
    BY <1>0
  <2> QED BY <2>1
<1>2. PICK l \in D : \A j \in D : l <= j
  <2>1. D \in SUBSET Nat /\ \A i \in D : i <= n
    BY <1>0
  <2> HIDE DEF D
  <2> QED BY <1>0, <1>1, <2>1, LowestExists
<1>3. Solved(0)
  <2>1. [i \in 0..0 |-> <<>>] \in [0..0 -> Seq(S)]
    OBVIOUS
  <2>2. SiftsTo([i \in 0..0 |-> <<>>], s, P, 0)
    BY DEF SiftsTo
  <2> QED BY <2>1, <2>2
<1>4. l \in 1..n /\ l - 1 \in 0..n /\ l - 1 \notin D
  <2> HIDE DEF Solved
  <2> QED BY <1>0, <1>2, <1>3
<1>5. PICK f \in [0..(l - 1) -> Seq(S)] : SiftsTo(f, s, P, l - 1)
  BY <1>4
<1> DEFINE g == [i \in 0..l |-> IF i # l THEN f[i]
                               ELSE IF l \in P THEN Append(f[l - 1], s[l]) ELSE f[l - 1]]
<1>6. l - 1 \in 0..(l - 1) /\ f[l - 1] \in Seq(S) /\ s[l] \in S
  BY <1>0, <1>4
<1>7. g \in [0..l -> Seq(S)]
  <2>1. \A i \in 0..l : i # l => i \in 0..(l - 1)
    BY <1>4
  <2>2. Append(f[l - 1], s[l]) \in Seq(S)
    BY <1>6
  <2> QED BY <1>6, <2>1, <2>2
<1>8. SiftsTo(g, s, P, l)
  <2>1. g[0] = <<>>
    BY <1>4, <1>5 DEF SiftsTo
  <2>2. ASSUME NEW i \in 1..l
        PROVE  g[i] = IF i \in P THEN Append(g[i - 1], s[i]) ELSE g[i - 1]
    <3>1. i \in 0..l /\ i - 1 \in 0..l /\ i - 1 # l /\ g[i - 1] = f[i - 1]
      BY <1>4
    <3>2. CASE i = l
      BY <3>1, <3>2
    <3>3. CASE i # l
      <4>1. i \in 1..(l - 1) /\ g[i] = f[i]
        BY <1>4, <3>3
      <4> QED BY <1>5, <3>1, <4>1 DEF SiftsTo
    <3> QED BY <3>2, <3>3
  <2> HIDE DEF g
  <2> QED BY <2>1, <2>2 DEF SiftsTo
<1> HIDE DEF g
<1>9. Solved(l)
  BY <1>7, <1>8
<1> QED BY <1>2, <1>9

\* ... and Sift is its last value.
LEMMA SiftFacts ==
    ASSUME NEW S, NEW s \in Seq(S), NEW P
    PROVE  \E f \in [0..Len(s) -> Seq(S)] :
              SiftsTo(f, s, P, Len(s)) /\ Sift(s, P) = f[Len(s)]
<1>0. Len(s) \in Nat
  OBVIOUS
<1>1. PICK f \in [0..Len(s) -> Seq(S)] : SiftsTo(f, s, P, Len(s))
  <2>1. Len(s) \in 0..Len(s)
    BY <1>0
  <2> QED BY <2>1, SiftExists
<1> DEFINE body(h, n) == IF n = 0 THEN <<>>
                         ELSE IF n \in P THEN Append(h[n - 1], s[n]) ELSE h[n - 1]
           g == CHOOSE h : h = [n \in 0..Len(s) |-> body(h, n)]
<1>2. f = [n \in 0..Len(s) |-> body(f, n)]
  <2>1. ASSUME NEW n \in 0..Len(s) PROVE f[n] = body(f, n)
    <3>1. n = 0 \/ n \in 1..Len(s)
      BY <1>0
    <3> QED BY <1>1, <3>1 DEF SiftsTo
  <2> HIDE DEF body
  <2> QED BY <1>1, <2>1
<1>3. g = [n \in 0..Len(s) |-> body(g, n)]
  BY <1>2
<1>4. SiftsTo(g, s, P, Len(s))
  <2>1. \A n \in 0..Len(s) : g[n] = body(g, n)
    BY <1>3
  <2> HIDE DEF g
  <2>2. g[0] = <<>>
    BY <1>0, <2>1
  <2>3. ASSUME NEW i \in 1..Len(s)
        PROVE  g[i] = IF i \in P THEN Append(g[i - 1], s[i]) ELSE g[i - 1]
    BY <1>0, <2>1
  <2> QED BY <2>2, <2>3 DEF SiftsTo
<1>5. Sift(s, P) = g[Len(s)]
  BY DEF Sift
<1> HIDE DEF g
<1>6. g[Len(s)] = f[Len(s)]
  BY <1>0, <1>1, <1>4, SiftUnique
<1> QED BY <1>1, <1>5, <1>6

LEMMA SiftEmpty == \A P : Sift(<<>>, P) = <<>>
<1> TAKE P
<1>1. <<>> \in Seq({})
  OBVIOUS
<1>2. PICK f \in [0..Len(<<>>) -> Seq({})] :
         SiftsTo(f, <<>>, P, Len(<<>>)) /\ Sift(<<>>, P) = f[Len(<<>>)]
  BY <1>1, SiftFacts
<1> QED BY <1>2 DEF SiftsTo

\* Only the positions that the sequence has count.
LEMMA SiftSame ==
    ASSUME NEW S, NEW s \in Seq(S), NEW P, NEW Q,
           \A i \in 1..Len(s) : i \in P <=> i \in Q
    PROVE  Sift(s, P) = Sift(s, Q) /\ Sift(s, P) \in Seq(S)
<1>0. Len(s) \in Nat /\ Len(s) \in 0..Len(s)
  OBVIOUS
<1>1. PICK f \in [0..Len(s) -> Seq(S)] :
         SiftsTo(f, s, P, Len(s)) /\ Sift(s, P) = f[Len(s)]
  BY SiftFacts
<1>2. PICK g \in [0..Len(s) -> Seq(S)] :
         SiftsTo(g, s, Q, Len(s)) /\ Sift(s, Q) = g[Len(s)]
  BY SiftFacts
<1>3. f[Len(s)] = g[Len(s)]
  BY <1>0, <1>1, <1>2, SiftUnique
<1> QED BY <1>0, <1>1, <1>2, <1>3

\* One more element is one more or nothing.
LEMMA SiftAppend ==
    ASSUME NEW S, NEW s \in Seq(S), NEW e \in S, NEW P, NEW Q,
           \A i \in 1..Len(s) : i \in P <=> i \in Q
    PROVE  Sift(Append(s, e), Q) = IF Len(s) + 1 \in Q THEN Append(Sift(s, P), e)
                                   ELSE Sift(s, P)
<1>1. PICK n \in Nat : n = Len(s)
  OBVIOUS
<1>2. PICK t \in Seq(S) : t = Append(s, e)
  <2>1. Append(s, e) \in Seq(S)
    OBVIOUS
  <2> QED BY <2>1
<1>3. Len(t) = n + 1 /\ t[n + 1] = e /\ \A i \in 1..n : t[i] = s[i]
  BY <1>1, <1>2
<1>4. PICK f : SiftsTo(f, s, P, n) /\ Sift(s, P) = f[n]
  BY <1>1, SiftFacts
<1>5. PICK g : SiftsTo(g, t, Q, n + 1) /\ Sift(t, Q) = g[n + 1]
  BY <1>3, SiftFacts
<1>6. SiftsTo(g, t, Q, n)
  BY <1>5 DEF SiftsTo
<1>7. g[n] = f[n]
  <2>1. \A i \in 1..n : s[i] = t[i] /\ (i \in P <=> i \in Q)
    BY <1>1, <1>3
  <2>2. \A i \in 0..n : f[i] = g[i]
    BY <1>4, <1>6, <2>1, SiftUnique
  <2> QED BY <2>2
<1>8. g[n + 1] = IF n + 1 \in Q THEN Append(g[n], t[n + 1]) ELSE g[n]
  <2>1. n + 1 \in 1..(n + 1) /\ (n + 1) - 1 = n
    OBVIOUS
  <2> QED BY <1>5, <2>1 DEF SiftsTo
<1> QED BY <1>1, <1>2, <1>3, <1>4, <1>5, <1>7, <1>8

\* Putting sequences together one by one and all at once.
LEMMA SameSequence ==
    ASSUME NEW S, NEW u \in Seq(S), NEW v \in Seq(S), Len(u) = Len(v),
           \A i \in 1..Len(u) : u[i] = v[i]
    PROVE  u = v
OBVIOUS

LEMMA ConcatFacts ==
    ASSUME NEW S, NEW a \in Seq(S), NEW b \in Seq(S)
    PROVE  /\ a \o b \in Seq(S) /\ Len(a \o b) = Len(a) + Len(b)
           /\ \A i \in 1..Len(a) : (a \o b)[i] = a[i]
           /\ \A i \in 1..Len(b) : (a \o b)[Len(a) + i] = b[i]
OBVIOUS

LEMMA ConcatAssociates ==
    ASSUME NEW S, NEW a \in Seq(S), NEW b \in Seq(S), NEW c \in Seq(S),
           NEW d, d = a \o b, NEW e, e = b \o c
    PROVE  d \o c = a \o e
<1>1. d \in Seq(S) /\ d = a \o b
  BY ConcatFacts
<1>2. e \in Seq(S) /\ e = b \o c
  BY ConcatFacts
<1>3. PICK u \in Seq(S) : u = d \o c
  BY ConcatFacts
<1>4. PICK v \in Seq(S) : v = a \o e
  BY ConcatFacts
<1>5. PICK l \in Nat, m \in Nat, n \in Nat : l = Len(a) /\ m = Len(b) /\ n = Len(c)
  OBVIOUS
<1>6. /\ Len(d) = l + m /\ \A i \in 1..l : d[i] = a[i]
      /\ \A i \in 1..m : d[l + i] = b[i]
  BY <1>1, <1>5, ConcatFacts
<1>7. /\ Len(e) = m + n /\ \A i \in 1..m : e[i] = b[i]
      /\ \A i \in 1..n : e[m + i] = c[i]
  BY <1>2, <1>5, ConcatFacts
<1>8. /\ Len(u) = (l + m) + n /\ \A i \in 1..(l + m) : u[i] = d[i]
      /\ \A i \in 1..n : u[(l + m) + i] = c[i]
  <2>1. /\ Len(u) = Len(d) + Len(c) /\ \A i \in 1..Len(d) : u[i] = d[i]
        /\ \A i \in 1..Len(c) : u[Len(d) + i] = c[i]
    BY <1>3, ConcatFacts
  <2> QED BY <1>5, <1>6, <2>1, Zenon
<1>9. /\ Len(v) = l + (m + n) /\ \A i \in 1..l : v[i] = a[i]
      /\ \A i \in 1..(m + n) : v[l + i] = e[i]
  <2>1. /\ Len(v) = Len(a) + Len(e) /\ \A i \in 1..Len(a) : v[i] = a[i]
        /\ \A i \in 1..Len(e) : v[Len(a) + i] = e[i]
    BY <1>4, ConcatFacts
  <2> QED BY <1>5, <1>7, <2>1, Zenon
<1>10. ASSUME NEW i \in 1..((l + m) + n) PROVE u[i] = v[i]
  <2>1. CASE i <= l
    <3>1. i \in 1..l /\ i \in 1..(l + m)
      BY <2>1
    <3> QED BY <1>6, <1>8, <1>9, <3>1
  <2>2. CASE l < i /\ i <= l + m
    <3>1. PICK j \in 1..m : i = l + j
      <4>1. i - l \in 1..m /\ i = l + (i - l)
        BY <2>2
      <4> QED BY <4>1
    <3>2. i \in 1..(l + m) /\ j \in 1..(m + n)
      BY <2>2
    <3>3. u[i] = b[j]
      BY <1>6, <1>8, <3>1, <3>2
    <3>4. v[i] = b[j]
      BY <1>7, <1>9, <3>1, <3>2
    <3> QED BY <3>3, <3>4
  <2>3. CASE l + m < i
    <3>1. PICK j \in 1..n : i = (l + m) + j
      <4>1. i - (l + m) \in 1..n /\ i = (l + m) + (i - (l + m))
        BY <2>3
      <4> QED BY <4>1
    <3>2. m + j \in 1..(m + n) /\ i = l + (m + j)
      BY <3>1
    <3>3. u[i] = c[j]
      BY <1>8, <3>1
    <3>4. v[i] = c[j]
      BY <1>7, <1>9, <3>2
    <3> QED BY <3>3, <3>4
  <2> QED BY <2>1, <2>2, <2>3
<1>11. Len(u) = (l + m) + n /\ Len(v) = (l + m) + n
  BY <1>8, <1>9
<1>12. u = v
  BY <1>10, <1>11, SameSequence
<1> QED BY <1>1, <1>2, <1>3, <1>4, <1>12

LEMMA AppendToConcat ==
    ASSUME NEW S, NEW a \in Seq(S), NEW b \in Seq(S), NEW e \in S,
           NEW c, c = Append(b, e)
    PROVE  Append(a \o b, e) = a \o c
<1>1. \A s \in Seq(S) : Append(s, e) = s \o <<e>>
  <2>1. <<e>> \in Seq(S)
    OBVIOUS
  <2> TAKE s \in Seq(S)
  <2>2. PICK u \in Seq(S) : u = s \o <<e>>
    BY <2>1, ConcatFacts
  <2>3. PICK v \in Seq(S) : v = Append(s, e)
    <3>1. Append(s, e) \in Seq(S)
      OBVIOUS
    <3> QED BY <3>1
  <2>4. Len(u) = Len(v) /\ \A i \in 1..Len(u) : u[i] = v[i]
    <3>1. Len(u) = Len(s) + 1 /\ Len(v) = Len(s) + 1 /\ Len(s) \in Nat
      BY <2>2, <2>3
    <3>2. \A i \in 1..Len(s) : u[i] = s[i] /\ v[i] = s[i]
      BY <2>2, <2>3
    <3>3. u[Len(s) + 1] = e /\ v[Len(s) + 1] = e
      BY <2>2, <2>3
    <3> QED BY <3>1, <3>2, <3>3
  <2>5. u = v
    BY <2>4, SameSequence
  <2> QED BY <2>2, <2>3, <2>5
<1>2. a \o b \in Seq(S) /\ <<e>> \in Seq(S)
  BY ConcatFacts
<1>3. Append(a \o b, e) = (a \o b) \o <<e>> /\ c = b \o <<e>>
  BY <1>1, <1>2
<1> QED BY <1>2, <1>3, ConcatAssociates

\* A part that is chosen whole follows what was chosen before it, and a part
\* of which nothing is chosen adds nothing.
LEMMA SiftConcat ==
    ASSUME NEW S, NEW s \in Seq(S), NEW t \in Seq(S), NEW P, NEW Q,
           \A i \in 1..Len(s) : i \in P <=> i \in Q
    PROVE  /\ (\A i \in 1..Len(t) : Len(s) + i \in Q) => Sift(s \o t, Q) = Sift(s, P) \o t
           /\ (\A i \in 1..Len(t) : Len(s) + i \notin Q) => Sift(s \o t, Q) = Sift(s, P)
<1>1. PICK n \in Nat, m \in Nat : n = Len(s) /\ m = Len(t)
  OBVIOUS
<1>2. PICK u \in Seq(S) : u = s \o t
  <2>1. s \o t \in Seq(S)
    OBVIOUS
  <2> QED BY <2>1
<1>3. /\ Len(u) = n + m /\ \A i \in 1..n : s[i] = u[i]
      /\ \A i \in 1..m : u[n + i] = t[i]
  BY <1>1, <1>2
<1>4. PICK f : SiftsTo(f, s, P, n) /\ Sift(s, P) = f[n] /\ f[n] \in Seq(S)
  <2>1. PICK f \in [0..Len(s) -> Seq(S)] : SiftsTo(f, s, P, Len(s)) /\ Sift(s, P) = f[Len(s)]
    BY SiftFacts
  <2>2. n \in 0..n
    OBVIOUS
  <2> QED BY <1>1, <2>1, <2>2
<1>5. PICK g : SiftsTo(g, u, Q, n + m) /\ Sift(u, Q) = g[n + m]
  <2>1. PICK g \in [0..Len(u) -> Seq(S)] : SiftsTo(g, u, Q, Len(u)) /\ Sift(u, Q) = g[Len(u)]
    BY SiftFacts
  <2> QED BY <1>3, <2>1
<1>6. g[n] = f[n]
  <2>1. SiftsTo(g, u, Q, n)
    <3>1. \A i \in 1..n : i \in 1..(n + m)
      OBVIOUS
    <3> QED BY <1>5, <3>1 DEF SiftsTo
  <2>2. \A i \in 1..n : s[i] = u[i] /\ (i \in P <=> i \in Q)
    BY <1>1, <1>3
  <2>3. \A i \in 0..n : f[i] = g[i]
    BY <1>4, <2>1, <2>2, SiftUnique
  <2> QED BY <2>3
<1>7. PICK h \in Seq(S) : h = f[n]
  BY <1>4
<1>8. \A k \in 1..m : /\ n + k \in 1..(n + m) /\ (n + k) - 1 = n + (k - 1)
                      /\ k - 1 \in 0..m /\ k \in 0..m
  OBVIOUS
<1>9. ASSUME \A i \in 1..m : n + i \in Q PROVE g[n + m] = h \o t
  <2> DEFINE D == {k \in 0..m : g[n + k] # h \o SubSeq(t, 1, k)}
  <2>1. D = {}
    <3>1. SUFFICES ASSUME D # {} PROVE FALSE
      OBVIOUS
    <3>2. PICK l \in D : \A j \in D : l <= j
      <4>1. D \in SUBSET Nat /\ \A k \in D : k <= m
        OBVIOUS
      <4> HIDE DEF D
      <4> QED BY <3>1, <4>1, LowestExists
    <3>3. l # 0
      <4>1. SubSeq(t, 1, 0) = <<>> /\ h \o <<>> = h /\ n + 0 = n
        OBVIOUS
      <4> QED BY <1>6, <1>7, <4>1
    <3>4. l \in 1..m /\ l - 1 \in 0..m /\ l - 1 \notin D
      <4>1. l \in 0..m
        BY <3>2
      <4> HIDE DEF D
      <4> QED BY <3>2, <3>3, <4>1
    <3>5. g[n + (l - 1)] = h \o SubSeq(t, 1, l - 1)
      BY <3>4
    <3>6. g[n + l] = Append(g[n + (l - 1)], t[l])
      BY <1>3, <1>5, <1>8, <1>9, <3>4 DEF SiftsTo
    <3>7. t[l] \in S /\ SubSeq(t, 1, l - 1) \in Seq(S) /\ SubSeq(t, 1, l) \in Seq(S)
      BY <1>1, <3>4
    <3>8. PICK x \in Seq(S), e \in S : x = SubSeq(t, 1, l - 1) /\ e = t[l]
      BY <3>7
    <3>9. PICK y : y = SubSeq(t, 1, l) /\ y = Append(x, e)
      <4>1. SubSeq(t, 1, l) = Append(x, e)
        BY <1>1, <3>4, <3>7, <3>8
      <4> QED BY <4>1
    <3>10. Append(h \o x, e) = h \o y
      <4> HIDE DEF D
      <4>1. ASSUME NEW d, d = Append(x, e) PROVE Append(h \o x, e) = h \o d
        BY <4>1, AppendToConcat, ZenonT(30)
      <4> QED BY <3>9, <4>1
    <3> QED BY <3>2, <3>5, <3>6, <3>8, <3>9, <3>10
  <2>2. m \in 0..m /\ SubSeq(t, 1, m) = t
    BY <1>1
  <2> QED BY <2>1, <2>2
<1>10. ASSUME \A i \in 1..m : n + i \notin Q PROVE g[n + m] = h
  <2> DEFINE D == {k \in 0..m : g[n + k] # h}
  <2>1. D = {}
    <3>1. SUFFICES ASSUME D # {} PROVE FALSE
      OBVIOUS
    <3>2. PICK l \in D : \A j \in D : l <= j
      <4>1. D \in SUBSET Nat /\ \A k \in D : k <= m
        OBVIOUS
      <4> HIDE DEF D
      <4> QED BY <3>1, <4>1, LowestExists
    <3>3. l # 0
      BY <1>6, <1>7
    <3>4. l \in 1..m /\ l - 1 \in 0..m /\ l - 1 \notin D
      <4>1. l \in 0..m
        BY <3>2
      <4> HIDE DEF D
      <4> QED BY <3>2, <3>3, <4>1
    <3>5. g[n + (l - 1)] = h
      BY <3>4
    <3>6. g[n + l] = g[n + (l - 1)]
      BY <1>3, <1>5, <1>8, <1>10, <3>4 DEF SiftsTo
    <3> QED BY <3>2, <3>5, <3>6
  <2>2. m \in 0..m
    OBVIOUS
  <2> QED BY <2>1, <2>2
<1> QED BY <1>1, <1>2, <1>4, <1>5, <1>7, <1>9, <1>10

\* What is chosen is there.
LEMMA SiftNonEmpty ==
    ASSUME NEW S, NEW s \in Seq(S), NEW P, NEW c \in 1..Len(s), c \in P
    PROVE  Sift(s, P) # <<>>
<1>1. PICK n \in Nat : n = Len(s)
  OBVIOUS
<1>2. PICK f \in [0..n -> Seq(S)] : SiftsTo(f, s, P, n) /\ Sift(s, P) = f[n]
  BY <1>1, SiftFacts
<1> DEFINE D == {i \in c..n : f[i] = <<>>}
<1>3. SUFFICES ASSUME D # {} PROVE FALSE
  <2>1. n \in c..n
    BY <1>1
  <2> QED BY <1>2, <2>1
<1>4. PICK l \in D : \A j \in D : l <= j
  <2>1. D \in SUBSET Nat /\ \A i \in D : i <= n
    BY <1>1
  <2> HIDE DEF D
  <2> QED BY <1>3, <2>1, LowestExists
<1>5. /\ l \in 1..n /\ l - 1 \in 0..n /\ c \in Nat /\ c <= l /\ s[l] \in S
  BY <1>1, <1>4
<1>6. f[l - 1] \in Seq(S) /\ Append(f[l - 1], s[l]) # <<>>
  <2>1. f[l - 1] \in Seq(S)
    BY <1>2, <1>5
  <2>2. ASSUME NEW t \in Seq(S), NEW e \in S PROVE Append(t, e) # <<>>
    <3>1. Len(Append(t, e)) = Len(t) + 1 /\ Len(t) \in Nat
      OBVIOUS
    <3>2. Len(<<>>) = 0
      OBVIOUS
    <3>3. Len(Append(t, e)) # 0
      BY <3>1
    <3> QED BY <3>2, <3>3, Zenon
  <2> QED BY <1>5, <2>1, <2>2
<1>7. f[l] = IF l \in P THEN Append(f[l - 1], s[l]) ELSE f[l - 1]
  BY <1>2, <1>5 DEF SiftsTo
<1>8. CASE l = c
  BY <1>4, <1>6, <1>7, <1>8
<1>9. CASE l # c
  <2>1. l - 1 \in c..n /\ l - 1 \notin D
    BY <1>4, <1>5, <1>9
  <2> QED BY <1>4, <1>6, <1>7, <2>1
<1> QED BY <1>8, <1>9

-----------------------------------------------------------------------------
(* A value that n steps lead to.                                           *)

Iterates(f, x, step, n) ==
    f[0] = x /\ \A i \in 1..n : f[i] = step[f[i - 1], i]

LEMMA IteratesOnce ==
    ASSUME NEW X, NEW x, NEW n \in Nat, NEW step \in [X \X (1..n) -> X], NEW m \in 1..n,
           NEW f \in [0..(m - 1) -> X], Iterates(f, x, step, m - 1)
    PROVE  \E g \in [0..m -> X] : Iterates(g, x, step, m)
<1>1. PICK y \in X : y = step[f[m - 1], m]
  <2>1. f[m - 1] \in X
    OBVIOUS
  <2>2. <<f[m - 1], m>> \in X \X (1..n)
    BY <2>1
  <2> QED BY <2>2
<1> DEFINE g == [i \in 0..m |-> IF i = m THEN y ELSE f[i]]
<1>2. g \in [0..m -> X]
  <2>1. \A i \in 0..m : i # m => i \in 0..(m - 1)
    OBVIOUS
  <2> QED BY <2>1
<1>3. ASSUME NEW i \in 0..m, i # m PROVE g[i] = f[i]
  BY <1>3
<1>4. g[m] = y
  OBVIOUS
<1> HIDE DEF g
<1>5. g[0] = x
  <2>1. 0 \in 0..m /\ 0 # m
    OBVIOUS
  <2> QED BY <1>3, <2>1 DEF Iterates
<1>6. ASSUME NEW i \in 1..m PROVE g[i] = step[g[i - 1], i]
  <2>1. i - 1 \in 0..m /\ i - 1 # m
    OBVIOUS
  <2>2. CASE i = m
    BY <1>1, <1>3, <1>4, <2>1, <2>2
  <2>3. CASE i # m
    <3>1. i \in 1..(m - 1) /\ i \in 0..m
      BY <2>3
    <3>2. f[i] = step[f[i - 1], i]
      BY <3>1 DEF Iterates
    <3> QED BY <1>3, <2>1, <2>3, <3>1, <3>2
  <2> QED BY <2>2, <2>3
<1> QED BY <1>2, <1>5, <1>6 DEF Iterates

LEMMA IteratesExist ==
    ASSUME NEW X, NEW x \in X, NEW n \in Nat, NEW step \in [X \X (1..n) -> X]
    PROVE  \E f \in [0..n -> X] : Iterates(f, x, step, n)
<1> DEFINE Solved(i) == \E f \in [0..i -> X] : Iterates(f, x, step, i)
           D == {i \in 0..n : ~Solved(i)}
<1>1. Solved(0)
  <2>1. [i \in 0..0 |-> x] \in [0..0 -> X]
    OBVIOUS
  <2>2. Iterates([i \in 0..0 |-> x], x, step, 0)
    BY DEF Iterates
  <2> QED BY <2>1, <2>2
<1>2. SUFFICES ASSUME D # {} PROVE FALSE
  <2>1. n \in 0..n
    OBVIOUS
  <2> HIDE DEF Solved
  <2>2. Solved(n)
    BY <1>2, <2>1
  <2> QED BY <2>2 DEF Solved
<1>3. PICK l \in D : \A j \in D : l <= j
  <2>1. D \in SUBSET Nat /\ \A i \in D : i <= n
    OBVIOUS
  <2> HIDE DEF D
  <2> QED BY <1>2, <2>1, LowestExists
<1> HIDE DEF Solved
<1>4. l \in 1..n /\ l - 1 \in 0..n /\ ~(l <= l - 1)
  <2>1. l \in 0..n /\ l # 0
    BY <1>1, <1>3
  <2> HIDE DEF D
  <2> QED BY <2>1
<1>5. Solved(l - 1) /\ ~Solved(l)
  BY <1>3, <1>4
<1>6. PICK m \in 1..n : Solved(m - 1) /\ ~Solved(m)
  BY <1>4, <1>5
<1>7. PICK f \in [0..(m - 1) -> X] : Iterates(f, x, step, m - 1)
  BY <1>6 DEF Solved
<1>8. Solved(m)
  BY <1>7, IteratesOnce DEF Solved
<1> QED BY <1>6, <1>8

\* What takes the same steps, as long as it stays in X ...
Follows(g, X, x, step, n) ==
    g[0] = x /\ \A i \in 1..n : g[i - 1] \in X => g[i] = step[g[i - 1], i]

Agrees(f, g, n) == \A i \in 0..n : g[i] = f[i]

\* ... has the same values.
LEMMA IteratesUnique ==
    ASSUME NEW X, NEW x \in X, NEW n \in Nat, NEW step \in [X \X (1..n) -> X],
           NEW f \in [0..n -> X], Iterates(f, x, step, n),
           NEW g, Follows(g, X, x, step, n)
    PROVE  Agrees(f, g, n)
<1> DEFINE D == {i \in 0..n : f[i] # g[i]}
<1>1. SUFFICES ASSUME D # {} PROVE FALSE
  BY DEF Agrees
<1>2. PICK l \in D : l = 0 \/ (l \in 1..n /\ l - 1 \in 0..n /\ l - 1 \notin D)
  <2>1. \A i \in D : i \in 0..n
    OBVIOUS
  <2> HIDE DEF D
  <2>2. D \subseteq 0..n
    BY <2>1
  <2> QED BY <1>1, <2>2, LeastExists
<1>3. l # 0
  BY <1>2 DEF Iterates, Follows
<1>4. l \in 1..n /\ l - 1 \in 0..n /\ f[l - 1] = g[l - 1] /\ f[l] # g[l]
  BY <1>2, <1>3
<1> HIDE DEF D
<1>5. f[l - 1] \in X
  BY <1>4
<1>6. f[l] = step[f[l - 1], l]
  BY <1>4 DEF Iterates
<1> QED BY <1>4, <1>5, <1>6 DEF Follows

=============================================================================
