---------------------------- MODULE Labels_proofs ----------------------------
(***************************************************************************)
(* Proofs about Labels: while a handle is read the specifications in its    *)
(* array are those of the lines, in the order of the files; once it is open *)
(* they are in the order in which they are tried; and so what a search of   *)
(* the array finds is what the files say, of one name or of several, of a   *)
(* directory and of a property.                                             *)
(***************************************************************************)
EXTENDS Labels, FiniteSetTheorems, WellFoundedInduction, NaturalsInduction, TLAPS

-----------------------------------------------------------------------------
(* Numbers. *)

\* Induction over the numbers, for a set.
LEMMA FromZero ==
    ASSUME NEW T, 0 \in T, \A n \in Nat : n \in T => n + 1 \in T
    PROVE  Nat \subseteq T
<1> DEFINE U == Nat \ T
<1>1. SUFFICES ASSUME U # {} PROVE FALSE
  OBVIOUS
<1>2. IsWellFoundedOn(OpToRel(<, Nat), Nat)
  BY NatLessThanWellFounded
<1>3. PICK x \in U : \A y \in U : ~(<<y, x>> \in OpToRel(<, Nat))
  <2> HIDE DEF U
  <2>2. U \subseteq Nat
    BY DEF U
  <2>3. QED
    BY <1>1, <1>2, <2>2, WFMin, Zenon
<1>4. x \in Nat /\ x # 0
  OBVIOUS
<1>5. x - 1 \in Nat /\ x - 1 + 1 = x
  BY <1>4
<1>6. x - 1 \in U
  BY <1>5
<1>7. <<x - 1, x>> \in OpToRel(<, Nat)
  BY <1>4, <1>5 DEF OpToRel
<1>8. QED
  BY <1>3, <1>6, <1>7

\* The least of a set of numbers.
LEMMA MinIs ==
    ASSUME NEW S \in SUBSET Nat, S # {}
    PROVE  Min(S) \in S /\ \A y \in S : Min(S) <= y
<1>1. IsWellFoundedOn(OpToRel(<, Nat), Nat)
  BY NatLessThanWellFounded
<1>2. PICK x \in S : \A y \in S : ~(<<y, x>> \in OpToRel(<, Nat))
  BY <1>1, WFMin, Zenon
<1>3. \A y \in S : x <= y
  <2> TAKE y \in S
  <2>1. x \in Nat /\ y \in Nat
    OBVIOUS
  <2>2. ASSUME y < x PROVE FALSE
    <3>1. <<y, x>> \in OpToRel(<, Nat)
      BY <2>1, <2>2 DEF OpToRel
    <3>2. QED
      BY <1>2, <3>1
  <2>3. QED
    BY <2>1, <2>2
<1>4. \E z \in S : \A y \in S : z <= y
  BY <1>3
<1>5. QED
  BY <1>4, Zenon DEF Min

\* The greatest of a set of numbers.
LEMMA MaxIs ==
    ASSUME NEW n \in Nat, NEW S \in SUBSET (0..n), S # {}
    PROVE  Max(S) \in S /\ \A y \in S : Max(S) >= y
<1> DEFINE T == { n - y : y \in S }
<1>1. T \in SUBSET Nat /\ T # {}
  <2>1. \A y \in S : y \in Int /\ 0 <= y /\ y <= n
    OBVIOUS
  <2>2. \A y \in S : n - y \in Nat
    BY <2>1
  <2>3. QED
    BY <2>2
<1>2. Min(T) \in T /\ \A y \in T : Min(T) <= y
  BY <1>1, MinIs
<1>3. PICK x \in S : Min(T) = n - x
  BY <1>2
<1>4. \A y \in S : n - x <= n - y
  BY <1>2, <1>3
<1>5. \A y \in S : x >= y
  <2> TAKE y \in S
  <2>1. x \in Int /\ y \in Int /\ n - x <= n - y
    BY <1>4
  <2>2. QED
    BY <2>1
<1>6. \E z \in S : \A y \in S : z >= y
  BY <1>5
<1>7. QED
  BY <1>6, Zenon DEF Max

-----------------------------------------------------------------------------
(* Sequences of anything. *)

\* Sequences, as functions of their length.
LEMMA SeqIs == ASSUME NEW T, NEW q \in Seq(T) PROVE IsSeq(q)
<1>1. Len(q) \in Nat /\ DOMAIN q = 1..Len(q)
  OBVIOUS
<1>2. q = [i \in 1..Len(q) |-> q[i]]
  OBVIOUS
<1>3. QED
  BY <1>1, <1>2 DEF IsSeq

LEMMA IsIn ==
    ASSUME NEW q, IsSeq(q), NEW T, \A i \in 1..Len(q) : q[i] \in T
    PROVE  q \in Seq(T)
<1> DEFINE n == Len(q)
<1>1. n \in Nat /\ q = [i \in 1..n |-> q[i]] /\ \A i \in 1..n : q[i] \in T
  BY DEF IsSeq
<1> HIDE DEF n
<1>2. q \in [1..n -> T]
  BY <1>1
<1>3. QED
  BY <1>1, <1>2

LEMMA Made ==
    ASSUME NEW n \in Nat, NEW q, q = [i \in 1..n |-> q[i]]
    PROVE  IsSeq(q) /\ Len(q) = n
<1> DEFINE T == { q[i] : i \in 1..n }
<1>1. q \in [1..n -> T]
  OBVIOUS
<1> HIDE DEF T
<1>2. q \in Seq(T) /\ Len(q) = n
  BY <1>1
<1>3. QED
  BY <1>2, SeqIs

\* Two sequences, one after the other.
LEMMA Joined ==
    ASSUME NEW p, IsSeq(p), NEW q, IsSeq(q)
    PROVE  /\ IsSeq(p \o q) /\ Len(p \o q) = Len(p) + Len(q)
           /\ \A i \in 1..Len(p) : (p \o q)[i] = p[i]
           /\ \A i \in 1..Len(q) : (p \o q)[Len(p) + i] = q[i]
           /\ \A i \in (Len(p) + 1)..(Len(p) + Len(q)) : (p \o q)[i] = q[i - Len(p)]
<1> DEFINE T == { p[i] : i \in 1..Len(p) } \cup { q[i] : i \in 1..Len(q) }
<1>1. p \in Seq(T) /\ q \in Seq(T)
  BY IsIn
<1> HIDE DEF T
<1>2. p \o q \in Seq(T) /\ Len(p) \in Nat /\ Len(q) \in Nat
  BY <1>1
<1>3. /\ Len(p \o q) = Len(p) + Len(q)
      /\ \A i \in 1..Len(p) : (p \o q)[i] = p[i]
      /\ \A i \in (Len(p) + 1)..(Len(p) + Len(q)) : (p \o q)[i] = q[i - Len(p)]
  BY <1>1
<1>4. \A i \in 1..Len(q) : (p \o q)[Len(p) + i] = q[i]
  <2> TAKE i \in 1..Len(q)
  <2>1. Len(p) + i \in (Len(p) + 1)..(Len(p) + Len(q)) /\ (Len(p) + i) - Len(p) = i
    BY <1>2
  <2>2. QED
    BY <1>3, <2>1
<1>5. QED
  BY <1>2, <1>3, <1>4, SeqIs

\* What begins a sequence, and what is left of it.
LEMMA Begun ==
    ASSUME NEW q, IsSeq(q), NEW n \in 0..Len(q)
    PROVE  /\ IsSeq(SubSeq(q, 1, n)) /\ Len(SubSeq(q, 1, n)) = n
           /\ \A i \in 1..n : SubSeq(q, 1, n)[i] = q[i]
<1> DEFINE T == { q[i] : i \in 1..Len(q) }
<1>1. q \in Seq(T) /\ Len(q) \in Nat /\ n \in Nat
  BY IsIn DEF IsSeq
<1> HIDE DEF T
<1>2. SubSeq(q, 1, n) \in Seq(T)
  BY <1>1
<1>3. /\ Len(SubSeq(q, 1, n)) = n
      /\ \A i \in 1..n : SubSeq(q, 1, n)[i] = q[i]
  BY <1>1
<1>4. QED
  BY <1>2, <1>3, SeqIs

\* What is left of a sequence.
LEMMA Rest ==
    ASSUME NEW q, IsSeq(q), NEW n \in 0..Len(q)
    PROVE  /\ IsSeq(SubSeq(q, n + 1, Len(q))) /\ Len(SubSeq(q, n + 1, Len(q))) = Len(q) - n
           /\ \A i \in 1..(Len(q) - n) : SubSeq(q, n + 1, Len(q))[i] = q[n + i]
<1> DEFINE T == { q[i] : i \in 1..Len(q) }
           l == Len(q)
<1>1. q \in Seq(T) /\ l \in Nat /\ n \in Nat /\ n <= l /\ l = Len(q)
  BY IsIn DEF IsSeq
<1> HIDE DEF T, l
<1>2. SubSeq(q, n + 1, l) \in Seq(T)
  BY <1>1
<1>3. /\ Len(SubSeq(q, n + 1, l)) = l - n
      /\ \A i \in 1..(l - n) : SubSeq(q, n + 1, l)[i] = q[n + i]
  <2>1. Len(SubSeq(q, n + 1, l)) = l - n
    BY <1>1
  <2>2. \A i \in 1..(l - n) : SubSeq(q, n + 1, l)[i] = q[(n + 1) + i - 1]
    BY <1>1
  <2>3. \A i \in 1..(l - n) : (n + 1) + i - 1 = n + i
    BY <1>1
  <2>4. QED
    BY <2>1, <2>2, <2>3
<1>4. QED
  BY <1>1, <1>2, <1>3, SeqIs

LEMMA Single == ASSUME NEW e PROVE IsSeq(<<e>>) /\ Len(<<e>>) = 1 /\ <<e>>[1] = e
<1>1. <<e>> \in Seq({e})
  OBVIOUS
<1>2. QED
  BY <1>1, SeqIs

LEMMA SameSeq ==
    ASSUME NEW p, IsSeq(p), NEW q, IsSeq(q), Len(p) = Len(q),
           \A i \in 1..Len(p) : p[i] = q[i]
    PROVE  p = q
<1> DEFINE n == Len(p)
<1>1. p = [i \in 1..n |-> p[i]] /\ q = [i \in 1..n |-> q[i]] /\ \A i \in 1..n : p[i] = q[i]
  BY DEF IsSeq
<1> HIDE DEF n
<1>2. QED
  BY <1>1

LEMMA HeadIs ==
    ASSUME NEW q, IsSeq(q), Len(q) # 0
    PROVE  Head(q) = q[1] /\ 1 \in 1..Len(q) /\ Len(q) \in Nat \ {0}
<1> DEFINE T == { q[i] : i \in 1..Len(q) }
<1>1. q \in Seq(T)
  BY IsIn
<1>2. Len(q) \in Nat \ {0}
  BY DEF IsSeq
<1> HIDE DEF T
<1>3. Head(q) = q[1]
  BY <1>1, <1>2
<1>4. QED
  BY <1>2, <1>3

LEMMA Empty ==
    /\ IsSeq(<< >>) /\ Len(<< >>) = 0
    /\ \A q : IsSeq(q) => (q = << >> <=> Len(q) = 0)
<1>1. << >> \in Seq({}) /\ Len(<< >>) = 0
  OBVIOUS
<1>2. IsSeq(<< >>)
  BY <1>1, SeqIs
<1>3. ASSUME NEW q, IsSeq(q), Len(q) = 0 PROVE q = << >>
  <2>1. q \in Seq({})
    BY <1>3, IsIn
  <2>2. QED
    BY <1>3, <2>1
<1>4. QED
  BY <1>1, <1>2, <1>3

\* A set of numbers in order: each once, and none left out.
LEMMA Ordered ==
    ASSUME NEW S \in SUBSET Nat, IsFiniteSet(S)
    PROVE  /\ Cardinality(S) \in Nat
           /\ InOrder(S) \in [1..Cardinality(S) -> S]
           /\ \A i, j \in 1..Cardinality(S) : i < j => InOrder(S)[i] < InOrder(S)[j]
           /\ \A n \in S : \E i \in 1..Cardinality(S) : InOrder(S)[i] = n
<1> DEFINE N == Cardinality(S)
           Upto(n) == { m \in S : m <= n }
           rank == [n \in S |-> Cardinality(Upto(n))]
<1>1. N \in Nat
  BY FS_CardinalityType
<1>2. \A n \in S : IsFiniteSet(Upto(n)) /\ Cardinality(Upto(n)) \in 1..N
  <2> SUFFICES ASSUME NEW n \in S
               PROVE  IsFiniteSet(Upto(n)) /\ Cardinality(Upto(n)) \in 1..N
    OBVIOUS
  <2>1. Upto(n) \in SUBSET S /\ n \in Upto(n)
    OBVIOUS
  <2>2. IsFiniteSet(Upto(n)) /\ Cardinality(Upto(n)) <= N
    <3> HIDE DEF Upto
    <3> QED BY <2>1, FS_Subset
  <2>3. Cardinality(Upto(n)) \in Nat /\ Cardinality(Upto(n)) # 0
    <3> HIDE DEF Upto
    <3> QED BY <2>1, <2>2, FS_EmptySet, FS_CardinalityType
  <2> HIDE DEF Upto
  <2>4. QED
    BY <1>1, <2>2, <2>3
<1>3. \A n, m \in S : n < m => Cardinality(Upto(n)) < Cardinality(Upto(m))
  <2> SUFFICES ASSUME NEW n \in S, NEW m \in S, n < m
               PROVE  Cardinality(Upto(n)) < Cardinality(Upto(m))
    OBVIOUS
  <2>1. Upto(n) \in SUBSET Upto(m) /\ m \in Upto(m) /\ m \notin Upto(n)
    <3>1. \A x \in S : x \in Nat
      OBVIOUS
    <3>2. \A x \in S : x <= n => x <= m
      BY <3>1
    <3>3. m <= m /\ ~(m <= n)
      BY <3>1
    <3>4. QED
      BY <3>2, <3>3
  <2>2. /\ IsFiniteSet(Upto(m)) /\ Cardinality(Upto(n)) \in Nat /\ Cardinality(Upto(m)) \in Nat
    <3> HIDE DEF Upto
    <3> QED BY <1>2
  <2> HIDE DEF Upto
  <2>3. Cardinality(Upto(n)) <= Cardinality(Upto(m)) /\ Cardinality(Upto(m)) # Cardinality(Upto(n))
    BY <2>1, <2>2, FS_Subset
  <2>4. QED
    BY <2>2, <2>3
<1>4. rank \in Injection(S, 1..N)
  <2>1. rank \in [S -> 1..N]
    <3> HIDE DEF Upto, N
    <3> QED BY <1>2
  <2>2. \A n, m \in S : rank[n] = rank[m] => n = m
    <3> SUFFICES ASSUME NEW n \in S, NEW m \in S, rank[n] = rank[m]
                 PROVE  n = m
      OBVIOUS
    <3>1. n \in Nat /\ m \in Nat
      OBVIOUS
    <3>2. Cardinality(Upto(n)) \in Nat /\ Cardinality(Upto(n)) = Cardinality(Upto(m))
      <4> HIDE DEF Upto, N
      <4> QED BY <1>2
    <3> HIDE DEF Upto, N
    <3>3. QED
      BY <1>3, <3>1, <3>2
  <2> HIDE DEF rank, N
  <2>3. QED
    BY <2>1, <2>2 DEF Injection, IsInjective
<1>5. rank \in Surjection(S, 1..N)
  <2> HIDE DEF rank
  <2>1. IsFiniteSet(1..N) /\ Cardinality(1..N) = N
    BY <1>1, FS_Interval
  <2>2. QED
    BY <1>4, <2>1, FS_Injection
<1>6. \A i \in 1..N : \E n \in S : Cardinality(Upto(n)) = i
  BY <1>5 DEF Surjection
<1>7. \A i \in 1..N : InOrder(S)[i] \in S /\ Cardinality(Upto(InOrder(S)[i])) = i
  <2> SUFFICES ASSUME NEW i \in 1..N
               PROVE  InOrder(S)[i] \in S /\ Cardinality(Upto(InOrder(S)[i])) = i
    OBVIOUS
  <2>1. InOrder(S)[i] = CHOOSE n \in S : Cardinality(Upto(n)) = i
    BY DEF InOrder
  <2> HIDE DEF Upto
  <2>2. QED
    BY <1>6, <2>1
<1>8. InOrder(S) \in [1..N -> S]
  <2> DEFINE g(k) == CHOOSE n \in S : Cardinality(Upto(n)) = k
             f == [k \in 1..N |-> g(k)]
  <2>1. InOrder(S) = f
    BY DEF InOrder
  <2> HIDE DEF g
  <2>2. f = [k \in 1..N |-> f[k]]
    OBVIOUS
  <2> HIDE DEF f, Upto, N
  <2>3. QED
    BY <1>7, <2>1, <2>2
<1> HIDE DEF Upto
<1>9. \A i, j \in 1..N : i < j => InOrder(S)[i] < InOrder(S)[j]
  <2> SUFFICES ASSUME NEW i \in 1..N, NEW j \in 1..N, i < j
               PROVE  InOrder(S)[i] < InOrder(S)[j]
    OBVIOUS
  <2> DEFINE a == InOrder(S)[i]
             b == InOrder(S)[j]
  <2>1. a \in S /\ b \in S /\ Cardinality(Upto(a)) = i /\ Cardinality(Upto(b)) = j
    BY <1>7
  <2> HIDE DEF a, b
  <2>2. a # b /\ ~(b < a)
    BY <1>1, <1>3, <2>1
  <2>3. a \in Nat /\ b \in Nat
    BY <2>1
  <2>4. QED
    BY <2>2, <2>3 DEF a, b
<1>10. \A n \in S : \E i \in 1..N : InOrder(S)[i] = n
  <2> SUFFICES ASSUME NEW n \in S
               PROVE  \E i \in 1..N : InOrder(S)[i] = n
    OBVIOUS
  <2>1. PICK i \in 1..N : i = Cardinality(Upto(n))
    BY <1>2
  <2> DEFINE a == InOrder(S)[i]
  <2>2. a \in S /\ Cardinality(Upto(a)) = i
    BY <1>7
  <2> HIDE DEF a
  <2>3. ~(a < n) /\ ~(n < a) /\ a \in Nat /\ n \in Nat
    BY <1>3, <2>1, <2>2
  <2>4. QED
    BY <2>3 DEF a
<1>11. QED
  BY <1>1, <1>8, <1>9, <1>10

\* The first numbers.
LEMMA UpTo ==
    ASSUME NEW n \in Nat
    PROVE  IsFiniteSet(1..n) /\ Cardinality(1..n) = n
<1>1. IsFiniteSet(1..n) /\ Cardinality(1..n) = IF 1 > n THEN 0 ELSE n - 1 + 1
  BY FS_Interval
<1>2. QED
  BY <1>1

\* What is picked from a sequence, in its order.
LEMMA PickedIs ==
    ASSUME NEW q, IsSeq(q), NEW S \in SUBSET (1..Len(q))
    PROVE  /\ IsFiniteSet(S) /\ Cardinality(S) \in 0..Len(q)
           /\ IsSeq(Picked(q, S)) /\ Len(Picked(q, S)) = Cardinality(S)
           /\ \A k \in 1..Cardinality(S) : Picked(q, S)[k] = q[InOrder(S)[k]]
<1>1. Len(q) \in Nat
  BY DEF IsSeq
<1>2. IsFiniteSet(1..Len(q)) /\ Cardinality(1..Len(q)) = Len(q)
  BY <1>1, FS_Interval
<1>3. IsFiniteSet(S) /\ Cardinality(S) <= Len(q) /\ Cardinality(S) \in Nat
  BY <1>2, FS_Subset, FS_CardinalityType
<1> DEFINE f == [k \in 1..Cardinality(S) |-> q[InOrder(S)[k]]]
<1>4. f = [k \in 1..Cardinality(S) |-> f[k]]
  OBVIOUS
<1>5. Picked(q, S) = f
  BY DEF Picked
<1>6. \A k \in 1..Cardinality(S) : f[k] = q[InOrder(S)[k]]
  OBVIOUS
<1> HIDE DEF f
<1>7. IsSeq(f) /\ Len(f) = Cardinality(S)
  BY <1>3, <1>4, Made
<1>8. QED
  BY <1>1, <1>3, <1>5, <1>6, <1>7

\* One sequence begins another.
LEMMA PrefixIs ==
    ASSUME NEW p, IsSeq(p), NEW q, IsSeq(q)
    PROVE  IsPrefix(p, q) <=> /\ Len(p) <= Len(q)
                              /\ \A i \in 1..Len(p) : p[i] = q[i]
<1>1. Len(p) \in Nat /\ Len(q) \in Nat
  BY DEF IsSeq
<1>2. SUFFICES ASSUME Len(p) <= Len(q)
               PROVE  (SubSeq(p, 1, Len(p)) = SubSeq(q, 1, Len(p))
                         <=> \A i \in 1..Len(p) : p[i] = q[i])
  BY DEF IsPrefix
<1> DEFINE n == Len(p)
           a == SubSeq(p, 1, n)
           b == SubSeq(q, 1, n)
<1>3. n \in 0..Len(p) /\ n \in 0..Len(q)
  BY <1>1, <1>2
<1> HIDE DEF n
<1>4. IsSeq(a) /\ Len(a) = n /\ \A i \in 1..n : a[i] = p[i]
  BY <1>3, Begun
<1>5. IsSeq(b) /\ Len(b) = n /\ \A i \in 1..n : b[i] = q[i]
  BY <1>3, Begun
<1> HIDE DEF a, b
<1>6. a = b => \A i \in 1..n : p[i] = q[i]
  BY <1>4, <1>5
<1>7. (\A i \in 1..n : p[i] = q[i]) => a = b
  <2> SUFFICES ASSUME \A i \in 1..n : p[i] = q[i] PROVE a = b
    OBVIOUS
  <2>1. \A i \in 1..Len(a) : a[i] = b[i]
    BY <1>4, <1>5
  <2>2. QED
    BY <1>4, <1>5, <2>1, SameSeq
<1>8. QED
  BY <1>6, <1>7 DEF a, b, n

\* All but the first.
LEMMA TailIs ==
    ASSUME NEW q, IsSeq(q), Len(q) # 0
    PROVE  /\ IsSeq(Tail(q)) /\ Len(Tail(q)) = Len(q) - 1 /\ Len(q) \in Nat \ {0}
           /\ \A i \in 1..(Len(q) - 1) : Tail(q)[i] = q[i + 1]
<1> DEFINE T == { q[i] : i \in 1..Len(q) }
           n == Len(q)
<1>1. q \in Seq(T) /\ n \in Nat \ {0} /\ n = Len(q)
  BY IsIn DEF IsSeq
<1> HIDE DEF T, n
<1>2. q # << >>
  BY <1>1
<1>3. Tail(q) \in Seq(T) /\ Len(Tail(q)) = n - 1
  BY <1>1, <1>2
<1>4. \A i \in 1..(n - 1) : Tail(q)[i] = q[i + 1]
  BY <1>1, <1>2
<1>5. QED
  BY <1>1, <1>3, <1>4, SeqIs

\* Two sequences that begin alike are compared by what is behind.
LEMMA BehindHeads ==
    ASSUME NEW p, IsSeq(p), Len(p) # 0, NEW q, IsSeq(q), Len(q) # 0, p[1] = q[1]
    PROVE  /\ IsPrefix(Tail(p), Tail(q)) <=> IsPrefix(p, q)
           /\ Tail(p) = Tail(q) <=> p = q
<1> DEFINE m == Len(p)
           n == Len(q)
           s == Tail(p)
           t == Tail(q)
<1>1. IsSeq(s) /\ Len(s) = m - 1 /\ m \in Nat \ {0} /\ \A i \in 1..(m - 1) : s[i] = p[i + 1]
  BY TailIs
<1>2. IsSeq(t) /\ Len(t) = n - 1 /\ n \in Nat \ {0} /\ \A i \in 1..(n - 1) : t[i] = q[i + 1]
  BY TailIs
<1>3. IsPrefix(p, q) <=> (m <= n /\ \A i \in 1..m : p[i] = q[i])
  BY PrefixIs
<1> HIDE DEF m, n, s, t
<1>4. IsPrefix(s, t) <=> (m - 1 <= n - 1 /\ \A i \in 1..(m - 1) : s[i] = t[i])
  BY <1>1, <1>2, PrefixIs
<1>5. m <= n => ((\A i \in 1..m : p[i] = q[i]) <=> (\A i \in 1..(m - 1) : s[i] = t[i]))
  <2> SUFFICES ASSUME m <= n
               PROVE  (\A i \in 1..m : p[i] = q[i]) <=> (\A i \in 1..(m - 1) : s[i] = t[i])
    OBVIOUS
  <2>1. \A i \in 1..(m - 1) : i + 1 \in 1..m /\ s[i] = p[i + 1] /\ t[i] = q[i + 1]
    BY <1>1, <1>2
  <2>2. \A i \in 1..m : i = 1 \/ (i - 1 \in 1..(m - 1) /\ (i - 1) + 1 = i)
    BY <1>1
  <2>3. (\A i \in 1..m : p[i] = q[i]) => (\A i \in 1..(m - 1) : s[i] = t[i])
    BY <2>1
  <2>4. (\A i \in 1..(m - 1) : s[i] = t[i]) => (\A i \in 1..m : p[i] = q[i])
    <3> SUFFICES ASSUME \A i \in 1..(m - 1) : s[i] = t[i], NEW i \in 1..m
                 PROVE  p[i] = q[i]
      OBVIOUS
    <3>1. CASE i = 1
      BY <3>1
    <3>2. CASE i # 1
      <4>1. i - 1 \in 1..(m - 1) /\ (i - 1) + 1 = i
        BY <2>2, <3>2
      <4>2. s[i - 1] = p[(i - 1) + 1] /\ t[i - 1] = q[(i - 1) + 1] /\ s[i - 1] = t[i - 1]
        BY <2>1, <4>1
      <4>3. QED
        BY <4>1, <4>2
    <3>3. QED
      BY <3>1, <3>2
  <2>5. QED
    BY <2>3, <2>4
<1>6. IsPrefix(s, t) <=> IsPrefix(p, q)
  BY <1>1, <1>2, <1>3, <1>4, <1>5
<1>7. s = t => p = q
  <2> SUFFICES ASSUME s = t PROVE p = q
    OBVIOUS
  <2>1. m = n
    BY <1>1, <1>2
  <2>2. \A i \in 1..m : p[i] = q[i]
    BY <1>1, <1>5, <2>1
  <2>3. QED
    BY <2>1, <2>2, SameSeq DEF m, n
<1>8. QED
  BY <1>6, <1>7 DEF s, t

-----------------------------------------------------------------------------
(* Expressions. *)

\* A stem is the first of the fixed names.
LEMMA StemIs ==
    ASSUME NEW re, IsRe(re), StemOfSpec(re) # NoStem
    PROVE  /\ Len(re.names) # 0 /\ StemOfSpec(re) = <<re.names[1], re.escaped>>
           /\ Len(re.names) >= 2 \/ re.rest = "below"
<1>1. Len(re.names) \in Nat
  BY DEF IsRe, IsSeq
<1>2. QED
  BY <1>1 DEF StemOfSpec

\* What matches behind the stem matches, and the other way round.
LEMMA BehindStem ==
    ASSUME NEW re, IsRe(re), NEW path, IsSeq(path),
           StemOfSpec(re) = NoStem \/ StemOfSpec(re) = StemOfFile(path)
    PROVE  /\ Matches(Compiled(re), Behind(path, StemOfSpec(re))) <=> Matches(re, path)
           /\ PartlyMatches(Compiled(re), Behind(path, StemOfSpec(re)))
                <=> PartlyMatches(re, path)
<1> DEFINE c == Compiled(re)
           rest == Behind(path, StemOfSpec(re))
<1>1. c.rest = re.rest /\ c.names = Behind(re.names, StemOfSpec(re))
  BY DEF Compiled
<1>2. /\ IsPrefix(c.names, rest) <=> IsPrefix(re.names, path)
      /\ IsPrefix(rest, c.names) <=> IsPrefix(path, re.names)
      /\ (rest = c.names) <=> (path = re.names)
  <2>1. CASE StemOfSpec(re) = NoStem
    BY <1>1, <2>1 DEF Behind
  <2>2. CASE StemOfSpec(re) # NoStem
    <3>1. Len(re.names) # 0 /\ StemOfSpec(re) = <<re.names[1], re.escaped>> /\ IsSeq(re.names)
      BY <2>2, StemIs DEF IsRe
    <3>2. Len(path) >= 2 /\ StemOfFile(path) = <<path[1], FALSE>>
      BY <2>2 DEF StemOfFile
    <3>3. path[1] = re.names[1] /\ Len(path) # 0
      <4>1. Len(path) \in Nat
        BY DEF IsSeq
      <4>2. <<path[1], FALSE>> = <<re.names[1], re.escaped>>
        BY <2>2, <3>1, <3>2
      <4>3. QED
        BY <3>2, <4>1, <4>2
    <3>4. c.names = Tail(re.names) /\ rest = Tail(path)
      BY <1>1, <2>2 DEF Behind
    <3> HIDE DEF c, rest
    <3>5. QED
      BY <3>1, <3>3, <3>4, BehindHeads
  <2>3. QED
    BY <2>1, <2>2
<1> HIDE DEF c, rest
<1>3. IsStrictPrefix(c.names, rest) <=> IsStrictPrefix(re.names, path)
  BY <1>2 DEF IsStrictPrefix
<1>4. IsStrictPrefix(rest, c.names) <=> IsStrictPrefix(path, re.names)
  BY <1>2 DEF IsStrictPrefix
<1>5. re.rest \in {"end", "any", "below"}
  BY DEF IsRe
<1>6. Matches(c, rest) <=> Matches(re, path)
  BY <1>1, <1>2, <1>3, <1>5 DEF Matches
<1>7. PartlyMatches(c, rest) <=> PartlyMatches(re, path)
  BY <1>1, <1>2, <1>4 DEF PartlyMatches
<1>8. QED
  BY <1>6, <1>7 DEF c, rest

\* What matches begins with the fixed names.
LEMMA MatchesFrom ==
    ASSUME NEW re, IsRe(re), NEW path, IsSeq(path), Matches(re, path)
    PROVE  /\ IsPrefix(re.names, path)
           /\ re.rest = "below" => path # re.names
           /\ re.rest = "end" => path = re.names
<1>1. IsSeq(re.names) /\ re.rest \in {"end", "any", "below"}
  BY DEF IsRe
<1>2. Len(re.names) \in Nat
  BY <1>1 DEF IsSeq
<1>3. CASE re.rest = "end"
  <2>1. path = re.names
    BY <1>3 DEF Matches
  <2>2. IsPrefix(re.names, path)
    BY <1>1, <1>2, <2>1, PrefixIs
  <2>3. QED
    BY <1>3, <2>1, <2>2
<1>4. CASE re.rest = "any"
  BY <1>4 DEF Matches
<1>5. CASE re.rest = "below"
  BY <1>5 DEF Matches, IsStrictPrefix
<1>6. QED
  BY <1>1, <1>3, <1>4, <1>5

\* A path that an expression matches has its stem; so has one of several names
\* that it matches partly.
LEMMA StemNeeded ==
    ASSUME NEW re, IsRe(re), ~re.escaped, StemOfSpec(re) # NoStem, NEW path, IsSeq(path),
           Matches(re, path) \/ (PartlyMatches(re, path) /\ Len(path) >= 2)
    PROVE  StemOfFile(path) = StemOfSpec(re)
<1>1. /\ Len(re.names) # 0 /\ StemOfSpec(re) = <<re.names[1], re.escaped>> /\ IsSeq(re.names)
      /\ re.escaped = FALSE /\ re.rest \in {"end", "any", "below"}
      /\ Len(re.names) >= 2 \/ re.rest = "below"
  BY StemIs DEF IsRe
<1>2. Len(path) \in Nat /\ Len(re.names) \in Nat \ {0}
  BY <1>1 DEF IsSeq
<1>3. /\ IsPrefix(re.names, path) <=> (/\ Len(re.names) <= Len(path)
                                       /\ \A i \in 1..Len(re.names) : re.names[i] = path[i])
      /\ IsPrefix(path, re.names) <=> (/\ Len(path) <= Len(re.names)
                                       /\ \A i \in 1..Len(path) : path[i] = re.names[i])
  BY <1>1, PrefixIs
<1>4. IsPrefix(re.names, path) /\ Len(path) = Len(re.names) => path = re.names
  BY <1>1, <1>3, SameSeq
<1>5. Len(path) >= 2 /\ path[1] = re.names[1]
  <2>1. CASE Matches(re, path)
    <3>1. IsPrefix(re.names, path) /\ (re.rest = "below" => path # re.names)
      BY <1>1, <2>1, MatchesFrom
    <3>2. re.rest = "below" => Len(path) # Len(re.names)
      BY <1>4, <3>1
    <3>3. QED
      BY <1>1, <1>2, <1>3, <3>1, <3>2
  <2>2. CASE PartlyMatches(re, path) /\ Len(path) >= 2
    <3>1. IsPrefix(path, re.names)
      BY <1>2, <1>3, <2>2 DEF PartlyMatches, IsStrictPrefix
    <3>2. QED
      BY <1>2, <1>3, <2>2, <3>1
  <2>3. QED
    BY <2>1, <2>2
<1>6. StemOfFile(path) = <<path[1], FALSE>>
  BY <1>5 DEF StemOfFile
<1>7. QED
  BY <1>1, <1>5, <1>6

\* What matches a path below another may match the other.
LEMMA FitsAbove ==
    ASSUME NEW re, IsRe(re), NEW path, IsSeq(path), NEW below, IsSeq(below),
           IsPrefix(path, below), Matches(re, below)
    PROVE  Matches(re, path) \/ PartlyMatches(re, path)
<1>1. IsSeq(re.names) /\ re.rest \in {"end", "any", "below"}
  BY DEF IsRe
<1>2. Len(path) \in Nat /\ Len(re.names) \in Nat /\ Len(below) \in Nat
  BY <1>1 DEF IsSeq
<1>3. /\ Len(path) <= Len(below) /\ \A i \in 1..Len(path) : path[i] = below[i]
  BY PrefixIs
<1>4. /\ Len(re.names) <= Len(below) /\ \A i \in 1..Len(re.names) : re.names[i] = below[i]
      /\ re.rest = "end" => below = re.names
  <2>1. IsPrefix(re.names, below) <=> (/\ Len(re.names) <= Len(below)
                                       /\ \A i \in 1..Len(re.names) : re.names[i] = below[i])
    BY <1>1, PrefixIs
  <2>2. IsPrefix(re.names, below) /\ (re.rest = "end" => below = re.names)
    BY MatchesFrom
  <2>3. QED
    BY <2>1, <2>2
<1>5. CASE Len(path) < Len(re.names)
  <2>1. \A i \in 1..Len(path) : path[i] = re.names[i]
    BY <1>2, <1>3, <1>4, <1>5
  <2>2. IsPrefix(path, re.names)
    BY <1>1, <1>2, <1>5, <2>1, PrefixIs
  <2>3. QED
    BY <1>2, <1>5, <2>2 DEF PartlyMatches, IsStrictPrefix
<1>6. CASE Len(re.names) <= Len(path)
  <2>1. \A i \in 1..Len(re.names) : re.names[i] = path[i]
    BY <1>2, <1>3, <1>4, <1>6
  <2>2. IsPrefix(re.names, path)
    BY <1>1, <1>6, <2>1, PrefixIs
  <2>3. CASE re.rest = "end"
    <3>1. Len(path) = Len(re.names)
      BY <1>2, <1>3, <1>4, <1>6, <2>3
    <3>2. path = re.names
      BY <1>1, <2>1, <3>1, SameSeq
    <3>3. QED
      BY <2>3, <3>2 DEF Matches
  <2>4. CASE re.rest = "any"
    BY <2>2, <2>4 DEF Matches
  <2>5. CASE re.rest = "below"
    BY <2>2, <2>5 DEF Matches, PartlyMatches, IsStrictPrefix
  <2>6. QED
    BY <1>1, <2>3, <2>4, <2>5
<1>7. QED
  BY <1>2, <1>5, <1>6

-----------------------------------------------------------------------------
(* The files and the positions of their lines. *)

DiskOK ==
    /\ edits \in 0..MaxEdits
    /\ disk = [name \in FileNames |-> disk[name]]
    /\ \A name \in FileNames :
          disk[name] # Missing =>
              /\ IsSeq(disk[name]) /\ 3 * (Len(disk[name]) + (MaxEdits - edits)) < MaxSpecs
              /\ \A i \in 1..Len(disk[name]) : IsLine(disk[name][i], name)

\* The positions that have been read, and those of the lines that are kept.
ReadTo(s, n) == { p \in Positions : p[1] < s \/ (p[1] = s /\ p[2] <= n) }
KeptOnes == { p \in Positions : Kept(LineAt(p)) }

\* The files that are read.
LEMMA SourcesAre ==
    /\ Len(Sources) \in {1, 3}
    /\ \A k \in 1..Len(Sources) :
          Sources[k] \in FileNames /\ (Sources[k] = "property" <=> opts.backend = "property")
<1>1. CASE opts.backend = "property"
  <2>1. Sources = <<"property">>
    BY <1>1 DEF Sources
  <2>2. QED
    BY <1>1, <2>1 DEF FileNames
<1>2. CASE opts.backend # "property" /\ opts.baseonly
  <2>1. Sources = <<"main">>
    BY <1>2 DEF Sources
  <2>2. QED
    BY <1>2, <2>1 DEF FileNames
<1>3. CASE opts.backend # "property" /\ ~opts.baseonly
  <2>1. Sources = <<"main", "homedirs", "local">>
    BY <1>3 DEF Sources
  <2>2. QED
    BY <1>3, <2>1 DEF FileNames
<1>4. QED
  BY <1>1, <1>2, <1>3

\* Their lines.
LEMMA LinesAre ==
    ASSUME DiskOK, NEW name \in FileNames
    PROVE  /\ IsSeq(Lines(name)) /\ 3 * Len(Lines(name)) < MaxSpecs
           /\ \A i \in 1..Len(Lines(name)) : IsLine(Lines(name)[i], name)
<1>1. CASE disk[name] = Missing
  <2>1. Lines(name) = << >>
    BY <1>1 DEF Lines
  <2>2. QED
    BY <2>1, Empty, DisksAssumption
<1>2. CASE disk[name] # Missing
  <2>1. Lines(name) = disk[name]
    BY <1>2 DEF Lines
  <2> DEFINE n == Len(disk[name])
  <2>2. IsSeq(disk[name]) /\ 3 * (n + (MaxEdits - edits)) < MaxSpecs /\ n \in Nat
    BY <1>2 DEF DiskOK, IsSeq
  <2>3. edits \in 0..MaxEdits /\ MaxEdits \in Nat /\ MaxSpecs \in Nat
    BY DisksAssumption DEF DiskOK
  <2>4. \A i \in 1..n : IsLine(disk[name][i], name)
    BY <1>2 DEF DiskOK
  <2> HIDE DEF n
  <2>5. 3 * n < MaxSpecs
    BY <2>2, <2>3
  <2>6. QED
    BY <2>1, <2>2, <2>4, <2>5 DEF n
<1>3. QED
  BY <1>1, <1>2

\* The positions: finitely many, fewer than the array may have slots.
LEMMA PositionsAre ==
    ASSUME DiskOK
    PROVE  /\ \A p : p \in Positions <=>
                \E k \in 1..Len(Sources) : \E i \in 1..Len(Lines(Sources[k])) : p = <<k, i>>
           /\ IsFiniteSet(Positions) /\ Cardinality(Positions) \in 0..(MaxSpecs - 1)
<1>1. \A p : p \in Positions <=>
                \E k \in 1..Len(Sources) : \E i \in 1..Len(Lines(Sources[k])) : p = <<k, i>>
  <2> DEFINE N(k) == 1..Len(Lines(Sources[k]))
             K == 1..Len(Sources)
  <2>1. \A k \in K : \A p : p \in {k} \X N(k) <=> \E i \in N(k) : p = <<k, i>>
    <3> HIDE DEF N, K
    <3> QED OBVIOUS
  <2>2. \A p : p \in Positions <=> \E k \in K : p \in {k} \X N(k)
    BY DEF Positions
  <2> HIDE DEF N, K
  <2>3. \A p : p \in Positions <=> \E k \in K : \E i \in N(k) : p = <<k, i>>
    BY <2>1, <2>2
  <2>4. QED
    BY <2>3 DEF N, K
<1> DEFINE M == (MaxSpecs - 1) \div 3
<1>0. MaxSpecs \in Nat \ {0} /\ M \in Nat /\ 3 * M <= MaxSpecs - 1
  BY DisksAssumption
<1>2. \A k \in 1..Len(Sources) : k \in 1..3 /\ 1..Len(Lines(Sources[k])) \in SUBSET (1..M)
  <2> TAKE k \in 1..Len(Sources)
  <2>1. k \in 1..3 /\ Sources[k] \in FileNames
    BY SourcesAre
  <2> DEFINE n == Len(Lines(Sources[k]))
  <2>2. n \in Nat /\ 3 * n < MaxSpecs
    BY <2>1, LinesAre DEF IsSeq
  <2> HIDE DEF n
  <2>3. n <= M
    BY <1>0, <2>2
  <2> HIDE DEF M
  <2>4. QED
    BY <1>0, <2>1, <2>2, <2>3 DEF n
<1> HIDE DEF M
<1>3. \A p \in Positions : p \in (1..3) \X (1..M)
  BY <1>1, <1>2
<1> DEFINE U == (1..3) \X (1..M)
<1>4. IsFiniteSet(1..3) /\ Cardinality(1..3) = 3
  <2>1. \A b \in Nat : IsFiniteSet(1..b) /\ Cardinality(1..b) = b
    BY UpTo
  <2>2. QED
    BY <2>1, Zenon
<1>5. IsFiniteSet(1..M) /\ Cardinality(1..M) = M
  BY <1>0, FS_Interval
<1>6. IsFiniteSet(U) /\ Cardinality(U) = 3 * M
  <2>1. /\ IsFiniteSet((1..3) \X (1..M))
        /\ Cardinality((1..3) \X (1..M)) = Cardinality(1..3) * Cardinality(1..M)
    BY <1>4, <1>5, FS_Product, Zenon
  <2>2. QED
    BY <1>4, <1>5, <2>1
<1>7. Positions \in SUBSET U
  BY <1>3
<1> HIDE DEF U
<1>8. IsFiniteSet(Positions) /\ Cardinality(Positions) <= Cardinality(U)
  BY <1>6, <1>7, FS_Subset
<1>9. Cardinality(Positions) \in Nat
  BY <1>8, FS_CardinalityType
<1>10. QED
  BY <1>0, <1>1, <1>6, <1>8, <1>9

\* A position and its line.
LEMMA LineIs ==
    ASSUME DiskOK, NEW p \in Positions
    PROVE  /\ p = <<p[1], p[2]>> /\ p[1] \in 1..Len(Sources)
           /\ p[2] \in 1..Len(Lines(Sources[p[1]])) /\ p[1] \in Nat /\ p[2] \in Nat
           /\ p # Nowhere
           /\ Kept(LineAt(p)) =>
                 /\ LineAt(p).kind = "spec" /\ LineAt(p).ctx # None
                 /\ opts.backend = "property" => IsSeq(LineAt(p).regex)
                 /\ opts.backend = "file" => IsRe(LineAt(p).regex)
<1>1. PICK k \in 1..Len(Sources) : \E i \in 1..Len(Lines(Sources[k])) : p = <<k, i>>
  BY PositionsAre
<1>2. PICK i \in 1..Len(Lines(Sources[k])) : p = <<k, i>>
  BY <1>1
<1>3. p[1] = k /\ p[2] = i
  BY <1>2
<1>4. k \in Nat /\ i \in Nat /\ k # 0 /\ p # Nowhere
  <2>1. k \in Nat /\ k # 0 /\ Sources[k] \in FileNames
    BY SourcesAre
  <2>2. Len(Lines(Sources[k])) \in Nat
    BY <2>1, LinesAre DEF IsSeq
  <2>3. i \in Nat
    BY <2>2
  <2>4. QED
    BY <1>2, <2>1, <2>3 DEF Nowhere
<1>5. Sources[k] \in FileNames /\ (Sources[k] = "property" <=> opts.backend = "property")
  BY SourcesAre
<1>6. IsLine(LineAt(p), Sources[k])
  BY <1>3, <1>5, LinesAre DEF LineAt
<1>7. QED
  BY <1>2, <1>3, <1>4, <1>5, <1>6 DEF IsLine, Kept

\* The lines that count are among those that are kept.
LEMMA EffectiveIs ==
    ASSUME DiskOK
    PROVE  /\ Effective \in SUBSET KeptOnes /\ KeptOnes \in SUBSET Positions
           /\ IsFiniteSet(Effective) /\ IsFiniteSet(KeptOnes)
           /\ Cardinality(KeptOnes) \in 0..(MaxSpecs - 1) /\ Cardinality(Effective) \in Nat
           /\ Cardinality(Effective) = Cardinality(KeptOnes) => Effective = KeptOnes
<1>1. Effective \in SUBSET KeptOnes /\ KeptOnes \in SUBSET Positions
  BY DEF Effective, KeptOnes
<1>2. IsFiniteSet(Positions) /\ Cardinality(Positions) \in 0..(MaxSpecs - 1)
  BY PositionsAre
<1>3. IsFiniteSet(KeptOnes) /\ Cardinality(KeptOnes) <= Cardinality(Positions)
  BY <1>1, <1>2, FS_Subset
<1>4. /\ IsFiniteSet(Effective)
      /\ Cardinality(Effective) = Cardinality(KeptOnes) => Effective = KeptOnes
  BY <1>1, <1>3, FS_Subset
<1>5. Cardinality(KeptOnes) \in Nat /\ Cardinality(Effective) \in Nat
  BY <1>3, <1>4, FS_CardinalityType
<1>6. Cardinality(KeptOnes) \in 0..(MaxSpecs - 1)
  BY <1>2, <1>3, <1>5, DisksAssumption
<1>7. QED
  BY <1>1, <1>3, <1>4, <1>5, <1>6

\* Of two lines one is before the other.
LEMMA Preceding ==
    ASSUME DiskOK, NEW p \in Positions, NEW q \in Positions
    PROVE  /\ p = q \/ Precedes(p, q) \/ Precedes(q, p)
           /\ Precedes(p, q) => p # q /\ ~Precedes(q, p)
           /\ \A r \in Positions : Precedes(p, q) /\ Precedes(q, r) => Precedes(p, r)
<1>1. \A r \in Positions : r = <<r[1], r[2]>> /\ r[1] \in Nat /\ r[2] \in Nat
  BY LineIs
<1>2. QED
  BY <1>1 DEF Precedes

\* Another line read, the next file, and all of them.
LEMMA ReadOne ==
    ASSUME DiskOK, NEW s \in 1..Len(Sources), NEW n \in Nat,
           n < Len(Lines(Sources[s]))
    PROVE  /\ <<s, n + 1>> \in Positions /\ <<s, n + 1>> \notin ReadTo(s, n)
           /\ ReadTo(s, n + 1) = ReadTo(s, n) \cup {<<s, n + 1>>}
           /\ \A p \in ReadTo(s, n) : Precedes(p, <<s, n + 1>>)
           /\ LineAt(<<s, n + 1>>) = Lines(Sources[s])[n + 1]
<1> DEFINE new == <<s, n + 1>>
<1>1. Sources[s] \in FileNames /\ s \in Nat
  BY SourcesAre
<1>2. Len(Lines(Sources[s])) \in Nat
  BY <1>1, LinesAre DEF IsSeq
<1>3. n + 1 \in 1..Len(Lines(Sources[s]))
  BY <1>2
<1>4. new \in Positions /\ new[1] = s /\ new[2] = n + 1
  BY <1>3, PositionsAre
<1> HIDE DEF new
<1>5. \A p \in Positions : p = <<p[1], p[2]>> /\ p[1] \in Nat /\ p[2] \in Nat
  BY LineIs
<1>6. \A p \in Positions : p = new <=> p[1] = s /\ p[2] = n + 1
  BY <1>4, <1>5 DEF new
<1>7. \A p \in Positions : p \in ReadTo(s, n + 1) <=> p \in ReadTo(s, n) \/ p = new
  BY <1>1, <1>5, <1>6 DEF ReadTo
<1>8. ReadTo(s, n + 1) = ReadTo(s, n) \cup {new}
  <2>1. ReadTo(s, n) \in SUBSET Positions /\ ReadTo(s, n + 1) \in SUBSET Positions
    BY DEF ReadTo
  <2>2. QED
    BY <1>4, <1>7, <2>1
<1>9. new \notin ReadTo(s, n)
  BY <1>1, <1>4 DEF ReadTo
<1>10. \A p \in ReadTo(s, n) : Precedes(p, new)
  BY <1>1, <1>4, <1>5 DEF ReadTo, Precedes
<1>11. LineAt(new) = Lines(Sources[s])[n + 1]
  BY <1>4 DEF LineAt
<1>12. QED
  BY <1>4, <1>8, <1>9, <1>10, <1>11 DEF new

\* Nothing has been read at first, and all at the end.
LEMMA ReadAll ==
    ASSUME DiskOK
    PROVE  /\ ReadTo(1, 0) = {}
           /\ \A s \in 1..Len(Sources), n \in Nat :
                 n >= Len(Lines(Sources[s])) =>
                     /\ s < Len(Sources) => ReadTo(s, n) = ReadTo(s + 1, 0)
                     /\ s = Len(Sources) => ReadTo(s, n) = Positions
           /\ \A s, n : ReadTo(s, n) \in SUBSET Positions
<1>1. \A p \in Positions : /\ p[1] \in 1..Len(Sources) /\ p[1] \in Nat /\ p[2] \in Nat
                           /\ p[2] >= 1 /\ p[2] <= Len(Lines(Sources[p[1]]))
  <2> TAKE p \in Positions
  <2>1. /\ p[1] \in 1..Len(Sources) /\ p[1] \in Nat /\ p[2] \in Nat
        /\ p[2] \in 1..Len(Lines(Sources[p[1]]))
    BY LineIs
  <2>2. Len(Lines(Sources[p[1]])) \in Nat
    BY <2>1, SourcesAre, LinesAre DEF IsSeq
  <2>3. QED
    BY <2>1, <2>2
<1>2. ReadTo(1, 0) = {}
  BY <1>1 DEF ReadTo
<1>3. ASSUME NEW s \in 1..Len(Sources), NEW n \in Nat, n >= Len(Lines(Sources[s]))
      PROVE  /\ s < Len(Sources) => ReadTo(s, n) = ReadTo(s + 1, 0)
             /\ s = Len(Sources) => ReadTo(s, n) = Positions
  <2>1. s \in Nat /\ Len(Sources) \in Nat /\ Len(Lines(Sources[s])) \in Nat
    BY SourcesAre, LinesAre DEF IsSeq
  <2>2. \A p \in Positions : p[1] = s => p[2] <= n
    <3> TAKE p \in Positions
    <3> HAVE p[1] = s
    <3>1. p[2] <= Len(Lines(Sources[s])) /\ p[2] \in Nat
      BY <1>1
    <3>2. QED
      BY <1>3, <2>1, <3>1
  <2>3. \A p \in Positions : (p[1] < s \/ (p[1] = s /\ p[2] <= n)) <=> p[1] <= s
    BY <1>1, <2>1, <2>2
  <2>4. \A p \in Positions : (p[1] < s + 1 \/ (p[1] = s + 1 /\ p[2] <= 0)) <=> p[1] <= s
    BY <1>1, <2>1
  <2>5. ReadTo(s, n) = { p \in Positions : p[1] <= s }
    BY <2>3 DEF ReadTo
  <2>6. ReadTo(s + 1, 0) = { p \in Positions : p[1] <= s }
    BY <2>4 DEF ReadTo
  <2>7. s = Len(Sources) => \A p \in Positions : p[1] <= s
    BY <1>1, <2>1
  <2>8. QED
    BY <2>5, <2>6, <2>7
<1>4. QED
  BY <1>2, <1>3 DEF ReadTo

-----------------------------------------------------------------------------
(* The invariant.                                                            *)
(*                                                                         *)
(* While the files stay as they are, the first pass counts the lines that   *)
(* are kept and the second stores those that are effective, each where it    *)
(* comes among them: there is a way "at" from slots to positions.  When the  *)
(* handle is open it leads to every effective line, in the order in which    *)
(* the specifications are tried.                                            *)

IsSlot(s) ==
    s = [regex |-> s.regex, stem |-> s.stem, compiled |-> s.compiled,
         type |-> s.type, ctx |-> s.ctx]

Shape ==
    /\ phase \in {"closed", "reading", "open", "failed"}
    /\ pass \in 0..1 /\ src \in 1..3 /\ line \in Nat
    /\ nspec \in Nat /\ maxnspec \in Nat /\ nspec <= maxnspec
    /\ IsSeq(spec_arr) /\ (pass = 1 => nspec <= Len(spec_arr))
    /\ \A i \in 1..Len(spec_arr) :
          IsSlot(spec_arr[i]) /\ spec_arr[i].stem \in stem_arr \cup {NoStem}
    /\ phase \in {"reading", "open"} => opts.backend \in {"file", "property"}
    /\ phase = "reading" =>
          /\ src <= Len(Sources)
          /\ pass = 0 => Len(spec_arr) = 0 /\ maxnspec = MaxSpecs
          /\ pass = 1 => Len(spec_arr) = maxnspec
    /\ answer # NoAnswer => phase = "open"

\* What a slot holds of a line.
Holds(s, l) ==
    /\ s.regex = l.regex /\ s.ctx = l.ctx
    /\ IF opts.backend = "property" THEN s.type = AnyType /\ s.stem = NoStem
       ELSE s.type = l.type /\ s.stem = StemOfSpec(l.regex)

\* No line of a type there is not has left a compiled expression in its slot.
Untouched ==
    opts.backend = "file" /\ (opts.validating => \A p \in KeptOnes : LineAt(p).type # "bad")

CompiledRight(s) ==
    s.compiled = None \/ (s.regex.compiles /\ s.compiled = Compiled(s.regex))

InFileOrder(at) ==
    /\ \A i \in 1..nspec : at[i] \in ReadTo(src, line) /\ Holds(spec_arr[i], LineAt(at[i]))
    /\ \A i, j \in 1..nspec : i < j => Precedes(at[i], at[j])
    /\ \A p \in Effective \cap ReadTo(src, line) : \E i \in 1..nspec : at[i] = p

NoConflicts ==
    \A p, q \in Effective :
        p[1] = 1 /\ q[1] = 1 /\ p # q /\ LineAt(p).regex = LineAt(q).regex =>
            /\ opts.backend = "file"
            /\ AnyType \notin {LineAt(p).type, LineAt(q).type}
            /\ LineAt(p).type # LineAt(q).type

Counting == nspec = Cardinality(KeptOnes \cap ReadTo(src, line))

Storing ==
    /\ maxnspec = Cardinality(KeptOnes)
    /\ nspec = Cardinality(Effective \cap ReadTo(src, line))
    /\ \E at \in [1..nspec -> Effective] : InFileOrder(at)
    /\ Untouched => /\ \A i \in 1..nspec : CompiledRight(spec_arr[i])
                    /\ \A i \in (nspec + 1)..maxnspec : spec_arr[i].compiled = None
    /\ src > 1 => NoConflicts

ReadingRight ==
    phase = "reading" /\ ~edited =>
        /\ line <= Len(Lines(Sources[src]))
        /\ pass = 0 => Counting
        /\ pass = 1 => Storing

\* The exact ones last, and else in the order of the files; properties with the
\* longest first, and those with a star last.
IsExact(s) == ~HasMetaChars(s.regex)

Ahead(s, t, earlier) ==
    IF opts.backend = "property"
    THEN /\ Starred(s.regex) => Starred(t.regex)
         /\ ~Starred(s.regex) /\ ~Starred(t.regex) => Len(s.regex) >= Len(t.regex)
    ELSE /\ IsExact(s) => IsExact(t)
         /\ (IsExact(s) <=> IsExact(t)) => earlier

InTriedOrder(at) ==
    /\ \A i \in 1..nspec : Holds(spec_arr[i], LineAt(at[i]))
    /\ \A i, j \in 1..nspec : i < j =>
          Ahead(spec_arr[i], spec_arr[j], Precedes(at[i], at[j]))
    /\ \A p \in Effective : \E i \in 1..nspec : at[i] = p

OpenRight ==
    phase = "open" /\ ~edited =>
        /\ Len(spec_arr) = nspec
        /\ \E at \in [1..nspec -> Effective] : InTriedOrder(at)
        /\ Untouched => \A i \in 1..nspec : CompiledRight(spec_arr[i])
        /\ NoConflicts

IInv == DiskOK /\ Shape /\ ReadingRight /\ OpenRight

\* The files are what they were.
LEMMA SameFiles ==
    ASSUME UNCHANGED <<disk, opts>>
    PROVE  /\ Positions' = Positions /\ Effective' = Effective /\ KeptOnes' = KeptOnes
           /\ Sources' = Sources
           /\ \A p : LineAt(p)' = LineAt(p)
           /\ \A k : Lines(Sources[k])' = Lines(Sources[k])
           /\ \A s, n : ReadTo(s, n)' = ReadTo(s, n)
           /\ \A s, l : Holds(s, l)' = Holds(s, l)
           /\ (Untouched <=> Untouched') /\ (NoConflicts <=> NoConflicts')
BY DEF Positions, Effective, KeptOnes, Sources, LineAt, Lines, ReadTo, Kept, Within, Holds,
       Untouched, NoConflicts

\* One more line of some that are looked for, or none.
LEMMA Another ==
    ASSUME DiskOK, NEW s \in 1..Len(Sources), NEW n \in Nat, n < Len(Lines(Sources[s])),
           NEW S \in SUBSET Positions
    PROVE  /\ <<s, n + 1>> \notin S => S \cap ReadTo(s, n + 1) = S \cap ReadTo(s, n)
           /\ <<s, n + 1>> \in S =>
                 /\ S \cap ReadTo(s, n + 1) = (S \cap ReadTo(s, n)) \cup {<<s, n + 1>>}
                 /\ Cardinality(S \cap ReadTo(s, n + 1)) = Cardinality(S \cap ReadTo(s, n)) + 1
<1> DEFINE new == <<s, n + 1>>
           R == S \cap ReadTo(s, n)
<1>1. /\ ReadTo(s, n + 1) = ReadTo(s, n) \cup {new} /\ new \notin ReadTo(s, n)
  BY ReadOne
<1>2. IsFiniteSet(Positions) /\ R \in SUBSET Positions
  BY PositionsAre
<1>3. new \notin S => S \cap ReadTo(s, n + 1) = R
  BY <1>1
<1>4. new \in S => S \cap ReadTo(s, n + 1) = R \cup {new}
  BY <1>1
<1>5. new \notin R
  BY <1>1
<1> HIDE DEF new, R
<1>6. IsFiniteSet(R)
  BY <1>2, FS_Subset
<1>7. Cardinality(R \cup {new}) = Cardinality(R) + 1
  BY <1>5, <1>6, FS_AddElement
<1>8. QED
  BY <1>3, <1>4, <1>7 DEF new, R

\* All of the lines that are looked for, and only them, have been counted.
LEMMA NoneLeft ==
    ASSUME DiskOK, NEW R \in SUBSET Effective, Cardinality(R) >= Cardinality(KeptOnes)
    PROVE  R = Effective
<1>1. /\ Effective \in SUBSET KeptOnes /\ IsFiniteSet(KeptOnes) /\ Cardinality(KeptOnes) \in Nat
  BY EffectiveIs, DisksAssumption
<1>2. R \in SUBSET KeptOnes
  BY <1>1
<1>3. IsFiniteSet(R) /\ Cardinality(R) <= Cardinality(KeptOnes)
      /\ (Cardinality(KeptOnes) = Cardinality(R) => KeptOnes = R)
  BY <1>1, <1>2, FS_Subset
<1>4. Cardinality(R) \in Nat
  BY <1>3, FS_CardinalityType
<1>5. Cardinality(R) = Cardinality(KeptOnes)
  BY <1>1, <1>3, <1>4
<1>6. QED
  BY <1>1, <1>3, <1>5

\* A slot that is written.
LEMMA StoredIs ==
    ASSUME NEW s, IsSlot(s), NEW l
    PROVE  /\ IsSlot(Stored(s, l))
           /\ opts.backend = "property" => /\ Stored(s, l).stem = NoStem /\ Stored(s, l).type = AnyType
                                           /\ Stored(s, l).regex = l.regex /\ Stored(s, l).ctx = l.ctx
           /\ opts.backend # "property" =>
                 /\ Stored(s, l).stem = StemOfSpec(l.regex) /\ Stored(s, l).regex = l.regex
                 /\ l.type # "bad" => Stored(s, l).type = l.type /\ Stored(s, l).ctx = l.ctx
                 /\ ~opts.validating => Stored(s, l).compiled = s.compiled
                 /\ opts.validating /\ s.compiled = None => CompiledRight(Stored(s, l))
<1>1. CASE opts.backend = "property"
  <2>1. Stored(s, l) = [regex |-> l.regex, stem |-> NoStem, compiled |-> None,
                        type |-> AnyType, ctx |-> l.ctx]
    BY <1>1 DEF Stored, NoSpec
  <2>2. QED
    BY <1>1, <2>1 DEF IsSlot
<1>2. CASE opts.backend # "property"
  <2> DEFINE fresh == opts.validating /\ s.compiled = None /\ l.regex.compiles
             c == IF fresh THEN Compiled(l.regex) ELSE s.compiled
             t == IF l.type = "bad" THEN AnyType ELSE l.type
             x == IF l.type = "bad" THEN s.ctx ELSE l.ctx
  <2>1. Stored(s, l) = [regex |-> l.regex, stem |-> StemOfSpec(l.regex), compiled |-> c,
                        type |-> t, ctx |-> x]
    BY <1>2, Zenon DEF Stored
  <2>2. /\ l.type # "bad" => t = l.type /\ x = l.ctx
        /\ ~opts.validating => c = s.compiled
        /\ opts.validating /\ s.compiled = None =>
              c = None \/ (l.regex.compiles /\ c = Compiled(l.regex))
    OBVIOUS
  <2> HIDE DEF c, t, x
  <2>3. QED
    BY <1>2, <2>1, <2>2 DEF IsSlot, CompiledRight
<1>3. QED
  BY <1>1, <1>2

\* The second pass stores a line.
LEMMA ProcessKeeps ==
    ASSUME Shape, phase = "reading", pass = 1, nspec < maxnspec, NEW l, Process(l),
           UNCHANGED <<opts, maxnspec>>
    PROVE  /\ IsSeq(spec_arr') /\ Len(spec_arr') = Len(spec_arr)
           /\ nspec' \in Nat /\ nspec' <= maxnspec /\ nspec + 1 \in 1..Len(spec_arr)
           /\ nspec' = IF opts.backend = "file" /\ l.type = "bad" THEN nspec ELSE nspec + 1
           /\ spec_arr'[nspec + 1] = Stored(spec_arr[nspec + 1], l)
           /\ \A i \in 1..Len(spec_arr) : i # nspec + 1 => spec_arr'[i] = spec_arr[i]
           /\ \A i \in 1..Len(spec_arr) :
                 IsSlot(spec_arr'[i]) /\ spec_arr'[i].stem \in stem_arr' \cup {NoStem}
<1> DEFINE n == Len(spec_arr)
<1>1. /\ n \in Nat /\ spec_arr = [i \in 1..n |-> spec_arr[i]] /\ n = maxnspec
      /\ nspec \in Nat /\ maxnspec \in Nat /\ opts.backend \in {"file", "property"}
  BY DEF Shape, IsSeq
<1>2. \A i \in 1..n : IsSlot(spec_arr[i]) /\ spec_arr[i].stem \in stem_arr \cup {NoStem}
  BY DEF Shape
<1>3. spec_arr' = [spec_arr EXCEPT ![nspec + 1] = Stored(spec_arr[nspec + 1], l)]
  BY DEF Process
<1>4. nspec' = IF opts.backend = "file" /\ l.type = "bad" THEN nspec ELSE nspec + 1
  BY DEF Process
<1> HIDE DEF n
<1>5. nspec + 1 \in 1..n /\ nspec' \in Nat /\ nspec' <= maxnspec
  BY <1>1, <1>4
<1>6. /\ spec_arr' = [i \in 1..n |-> spec_arr'[i]]
      /\ spec_arr'[nspec + 1] = Stored(spec_arr[nspec + 1], l)
      /\ \A i \in 1..n : i # nspec + 1 => spec_arr'[i] = spec_arr[i]
  BY <1>1, <1>3, <1>5
<1>7. IsSeq(spec_arr') /\ Len(spec_arr') = n
  BY <1>1, <1>6, Made
<1>8. /\ stem_arr \in SUBSET stem_arr'
      /\ opts.backend = "file" => StemOfSpec(l.regex) \in stem_arr' \cup {NoStem}
  <2>1. stem_arr' = IF opts.backend = "file" /\ StemOfSpec(l.regex) # NoStem
                   THEN stem_arr \cup {StemOfSpec(l.regex)} ELSE stem_arr
    BY DEF Process
  <2>2. QED
    BY <2>1
<1>9. \A i \in 1..n : IsSlot(spec_arr'[i]) /\ spec_arr'[i].stem \in stem_arr' \cup {NoStem}
  <2> TAKE i \in 1..n
  <2>1. CASE i # nspec + 1
    BY <1>2, <1>6, <1>8, <2>1
  <2>2. CASE i = nspec + 1
    <3>1. spec_arr'[i] = Stored(spec_arr[i], l) /\ IsSlot(spec_arr[i])
      BY <1>2, <1>6, <2>2
    <3>2. IsSlot(Stored(spec_arr[i], l))
          /\ Stored(spec_arr[i], l).stem \in stem_arr' \cup {NoStem}
      BY <1>1, <1>8, <3>1, StoredIs
    <3>3. QED
      BY <3>1, <3>2
  <2>3. QED
    BY <2>1, <2>2
<1>10. QED
  BY <1>4, <1>5, <1>6, <1>7, <1>9 DEF n

\* A line that is read, counted or stored.
LEMMA ReadLineShape ==
    ASSUME DiskOK, Shape, ReadLine
    PROVE  Shape'
<1> DEFINE l == Lines(Sources[src])[line + 1]
<1>1. /\ phase = "reading" /\ phase' = "reading" /\ nspec < maxnspec
      /\ line' = line + 1
      /\ UNCHANGED <<disk, edits, opts, phase, pass, src, maxnspec, edited, answer>>
  BY DEF ReadLine, AtEnd, Shape
<1>2. Sources' = Sources
  BY <1>1, SameFiles
<1>3. pass \in 0..1 /\ nspec \in Nat /\ maxnspec \in Nat /\ line \in Nat
  BY DEF Shape
<1>4. CASE UNCHANGED <<spec_arr, nspec, stem_arr>>
  BY <1>1, <1>2, <1>3, <1>4 DEF Shape
<1>5. CASE pass = 0 /\ nspec' = nspec + 1 /\ UNCHANGED <<spec_arr, stem_arr>>
  <2>1. nspec' \in Nat /\ nspec' <= maxnspec /\ line' \in Nat
    BY <1>1, <1>3, <1>5
  <2>2. QED
    BY <1>1, <1>2, <1>3, <1>5, <2>1 DEF Shape
<1>6. CASE pass = 1 /\ Process(l)
  <2>1. /\ IsSeq(spec_arr') /\ Len(spec_arr') = Len(spec_arr)
        /\ nspec' \in Nat /\ nspec' <= maxnspec
        /\ \A i \in 1..Len(spec_arr) :
              IsSlot(spec_arr'[i]) /\ spec_arr'[i].stem \in stem_arr' \cup {NoStem}
    BY <1>1, <1>6, ProcessKeeps
  <2>2. line' \in Nat /\ Len(spec_arr) = maxnspec
    BY <1>1, <1>3, <1>6 DEF Shape
  <2>3. QED
    BY <1>1, <1>2, <1>3, <1>6, <2>1, <2>2 DEF Shape
<1>7. QED
  <2>1. \/ UNCHANGED <<spec_arr, nspec, stem_arr>>
        \/ pass = 0 /\ nspec' = nspec + 1 /\ UNCHANGED <<spec_arr, stem_arr>>
        \/ pass # 0 /\ Process(l)
    BY Zenon DEF ReadLine
  <2>2. pass # 0 => pass = 1
    BY <1>3
  <2>3. QED
    BY <1>4, <1>5, <1>6, <2>1, <2>2

\* What is counted or stored after a line is right if it was before.
LEMMA ReadLineRight ==
    ASSUME IInv, ReadLine
    PROVE  ReadingRight'
<1> DEFINE l == Lines(Sources[src])[line + 1]
           new == <<src, line + 1>>
<1>1. /\ phase = "reading" /\ phase' = "reading" /\ nspec < maxnspec /\ line' = line + 1
      /\ line < Len(Lines(Sources[src]))
      /\ UNCHANGED <<disk, edits, opts, phase, pass, src, maxnspec, edited, answer>>
  <2>1. Sources[src] \in FileNames
    BY SourcesAre DEF IInv, Shape, ReadLine
  <2>2. Len(Lines(Sources[src])) \in Nat
    BY <2>1, LinesAre DEF IInv, IsSeq
  <2>3. QED
    BY <2>2 DEF ReadLine, AtEnd, IInv, Shape
<1>2. /\ DiskOK /\ Shape /\ pass \in 0..1 /\ line \in Nat /\ src \in 1..Len(Sources)
      /\ nspec \in Nat /\ maxnspec \in Nat /\ opts.backend \in {"file", "property"}
  BY <1>1, SourcesAre DEF IInv, Shape
<1>3. SUFFICES ASSUME ~edited
               PROVE  /\ line' <= Len(Lines(Sources[src]))'
                      /\ pass = 0 => Counting'
                      /\ pass = 1 => Storing'
  BY <1>1 DEF ReadingRight
<1>4. /\ Effective' = Effective /\ KeptOnes' = KeptOnes
      /\ Lines(Sources[src])' = Lines(Sources[src])
      /\ ReadTo(src, line)' = ReadTo(src, line + 1)
      /\ \A p : LineAt(p)' = LineAt(p)
      /\ \A s, k : Holds(s, k)' = Holds(s, k)
      /\ (Untouched <=> Untouched') /\ (NoConflicts <=> NoConflicts')
  <2>1. Lines(Sources[src])' = Lines(Sources[src]) /\ ReadTo(src, line)' = ReadTo(src, line + 1)
    BY <1>1 DEF Lines, Sources, ReadTo, Positions
  <2>2. QED
    BY <1>1, <2>1, SameFiles
<1>5. line' <= Len(Lines(Sources[src]))'
  <2>1. Sources[src] \in FileNames
    BY <1>2, SourcesAre
  <2>2. Len(Lines(Sources[src])) \in Nat
    BY <1>2, <2>1, LinesAre DEF IsSeq
  <2>3. QED
    BY <1>1, <1>2, <1>4, <2>2
<1>6. /\ new \in Positions /\ new \notin ReadTo(src, line)
      /\ ReadTo(src, line + 1) = ReadTo(src, line) \cup {new}
      /\ \A p \in ReadTo(src, line) : Precedes(p, new)
      /\ LineAt(new) = l
  BY <1>1, <1>2, ReadOne
<1>7. /\ Effective \in SUBSET KeptOnes /\ KeptOnes \in SUBSET Positions /\ Effective \in SUBSET Positions
      /\ new \in KeptOnes <=> Kept(l)
      /\ new \in Effective <=> Kept(l) /\ (opts.backend = "file" => l.type # "bad")
  BY <1>2, <1>6, EffectiveIs DEF KeptOnes, Effective
<1>8. /\ new \notin KeptOnes => KeptOnes \cap ReadTo(src, line + 1) = KeptOnes \cap ReadTo(src, line)
      /\ new \in KeptOnes => Cardinality(KeptOnes \cap ReadTo(src, line + 1))
                               = Cardinality(KeptOnes \cap ReadTo(src, line)) + 1
  BY <1>1, <1>2, <1>7, Another
<1>9. /\ new \notin Effective => Effective \cap ReadTo(src, line + 1) = Effective \cap ReadTo(src, line)
      /\ new \in Effective =>
            /\ Effective \cap ReadTo(src, line + 1) = (Effective \cap ReadTo(src, line)) \cup {new}
            /\ Cardinality(Effective \cap ReadTo(src, line + 1))
                 = Cardinality(Effective \cap ReadTo(src, line)) + 1
  BY <1>1, <1>2, <1>7, Another
<1>10. ASSUME pass = 0 PROVE Counting'
  <2>1. nspec = Cardinality(KeptOnes \cap ReadTo(src, line))
    BY <1>1, <1>3, <1>10 DEF IInv, ReadingRight, Counting
  <2>2. nspec' = IF Kept(l) THEN nspec + 1 ELSE nspec
    BY <1>10 DEF ReadLine
  <2>3. nspec' = Cardinality(KeptOnes \cap ReadTo(src, line + 1))
    BY <1>7, <1>8, <2>1, <2>2
  <2>4. QED
    BY <1>4, <2>3 DEF Counting
<1>11. ASSUME pass = 1 PROVE Storing'
  <2>1. Storing
    BY <1>1, <1>3, <1>11 DEF IInv, ReadingRight
  <2>2. PICK at \in [1..nspec -> Effective] : InFileOrder(at)
    BY <2>1 DEF Storing
  <2>3. maxnspec' = Cardinality(KeptOnes') /\ (src' > 1 => NoConflicts')
    BY <1>1, <1>4, <2>1 DEF Storing
  <2>4. CASE ~Kept(l)
    <3>1. UNCHANGED <<spec_arr, nspec>> /\ new \notin Effective
      BY <1>7, <2>4 DEF ReadLine
    <3>2. Effective \cap ReadTo(src, line + 1) = Effective \cap ReadTo(src, line)
      BY <1>9, <3>1
    <3>3. InFileOrder(at)'
      <4>1. \A i \in 1..nspec : at[i] \in ReadTo(src, line + 1)
        BY <1>6, <2>2 DEF InFileOrder
      <4>2. QED
        BY <1>4, <2>2, <3>1, <3>2, <4>1 DEF InFileOrder, Precedes
    <3>4. \E f \in [1..nspec' -> Effective'] : InFileOrder(f)'
      BY <1>4, <2>2, <3>1, <3>3
    <3>5. QED
      BY <1>1, <1>4, <2>1, <2>3, <3>1, <3>2, <3>4 DEF Storing, CompiledRight
  <2>5. CASE Kept(l)
    <3>1. Process(l)
      BY <1>11, <2>5 DEF ReadLine
    <3>2. /\ Len(spec_arr) = maxnspec /\ nspec + 1 \in 1..maxnspec
          /\ nspec' = IF opts.backend = "file" /\ l.type = "bad" THEN nspec ELSE nspec + 1
          /\ spec_arr'[nspec + 1] = Stored(spec_arr[nspec + 1], l)
          /\ \A i \in 1..maxnspec : i # nspec + 1 => spec_arr'[i] = spec_arr[i]
          /\ IsSlot(spec_arr[nspec + 1])
      BY <1>1, <1>2, <1>11, <3>1, ProcessKeeps DEF Shape
    <3>3. \A i \in 1..nspec : i \in 1..maxnspec /\ i # nspec + 1 /\ spec_arr'[i] = spec_arr[i]
      BY <1>1, <1>2, <3>2
    <3>4. \A i \in (nspec + 2)..maxnspec : i \in (nspec + 1)..maxnspec /\ spec_arr'[i] = spec_arr[i]
      BY <1>2, <3>2
    <3>5. CASE opts.backend = "file" /\ l.type = "bad"
      <4>1. nspec' = nspec /\ new \notin Effective
        BY <1>7, <3>2, <3>5
      <4>2. Effective \cap ReadTo(src, line + 1) = Effective \cap ReadTo(src, line)
        BY <1>9, <4>1
      <4>3. InFileOrder(at)'
        <5>1. \A i \in 1..nspec : at[i] \in ReadTo(src, line + 1)
          BY <1>6, <2>2 DEF InFileOrder
        <5>2. \A i \in 1..nspec : Holds(spec_arr'[i], LineAt(at[i]))
          BY <2>2, <3>3 DEF InFileOrder
        <5>3. QED
          BY <1>4, <2>2, <4>1, <4>2, <5>1, <5>2 DEF InFileOrder, Precedes
      <4>4. \E f \in [1..nspec' -> Effective'] : InFileOrder(f)'
        BY <1>4, <2>2, <4>1, <4>3
      <4>5. ASSUME Untouched
            PROVE  /\ \A i \in 1..nspec' : CompiledRight(spec_arr'[i])
                   /\ \A i \in (nspec' + 1)..maxnspec : spec_arr'[i].compiled = None
        <5>1. ~opts.validating
          BY <1>6, <1>7, <2>5, <3>5, <4>5 DEF Untouched
        <5>2. spec_arr'[nspec + 1].compiled = spec_arr[nspec + 1].compiled
          BY <3>2, <3>5, <5>1, StoredIs
        <5>3. \A i \in (nspec + 1)..maxnspec : spec_arr[i].compiled = None
          BY <2>1, <4>5 DEF Storing
        <5>4. nspec + 1 \in (nspec + 1)..maxnspec
          BY <1>2, <3>2
        <5>5. spec_arr'[nspec + 1].compiled = None
          BY <5>2, <5>3, <5>4
        <5>6. \A i \in (nspec + 1)..maxnspec : i = nspec + 1 \/ i \in (nspec + 2)..maxnspec
          BY <1>2
        <5>7. \A i \in (nspec + 1)..maxnspec : spec_arr'[i].compiled = None
          BY <3>4, <5>3, <5>5, <5>6
        <5>8. \A i \in 1..nspec : CompiledRight(spec_arr'[i])
          BY <2>1, <3>3, <4>5 DEF Storing
        <5>9. QED
          BY <4>1, <5>7, <5>8
      <4>6. nspec' = Cardinality(Effective' \cap ReadTo(src, line)')
        BY <1>4, <2>1, <4>1, <4>2 DEF Storing
      <4>7. QED
        BY <1>1, <1>4, <2>3, <4>4, <4>5, <4>6 DEF Storing, CompiledRight
    <3>6. CASE ~(opts.backend = "file" /\ l.type = "bad")
      <4>1. nspec' = nspec + 1 /\ new \in Effective
        BY <1>7, <2>5, <3>2, <3>6
      <4> DEFINE f == [i \in 1..(nspec + 1) |-> IF i = nspec + 1 THEN new ELSE at[i]]
      <4>2. \A i \in 1..(nspec + 1) : i = nspec + 1 \/ i \in 1..nspec
        BY <1>2
      <4>3. \A i \in 1..nspec : i \in 1..(nspec + 1) /\ i # nspec + 1 /\ f[i] = at[i]
        BY <1>2
      <4>4. f[nspec + 1] = new /\ nspec + 1 \in 1..(nspec + 1)
        BY <1>2
      <4>5. f \in [1..(nspec + 1) -> Effective]
        BY <2>2, <4>1, <4>2
      <4> HIDE DEF f, new, l
      <4>6. /\ \A i \in 1..nspec : at[i] \in ReadTo(src, line) /\ Holds(spec_arr[i], LineAt(at[i]))
            /\ \A i, j \in 1..nspec : i < j => Precedes(at[i], at[j])
            /\ \A p \in Effective \cap ReadTo(src, line) : \E i \in 1..nspec : at[i] = p
        BY <2>2 DEF InFileOrder
      <4>7. Holds(spec_arr'[nspec + 1], l)
        BY <1>2, <3>2, <3>6, StoredIs DEF Holds
      <4>8. \A i \in 1..(nspec + 1) :
                f[i] \in ReadTo(src, line + 1) /\ Holds(spec_arr'[i], LineAt(f[i]))
        <5> TAKE i \in 1..(nspec + 1)
        <5>1. CASE i = nspec + 1
          BY <1>6, <4>4, <4>7, <5>1
        <5>2. CASE i \in 1..nspec
          BY <1>6, <3>3, <4>3, <4>6, <5>2
        <5>3. QED
          BY <4>2, <5>1, <5>2
      <4>9. \A i, j \in 1..(nspec + 1) : i < j => Precedes(f[i], f[j])
        <5> TAKE i, j \in 1..(nspec + 1)
        <5> HAVE i < j
        <5>1. i \in 1..nspec
          BY <1>2
        <5>2. CASE j = nspec + 1
          BY <1>6, <4>3, <4>4, <4>6, <5>1, <5>2
        <5>3. CASE j \in 1..nspec
          BY <4>3, <4>6, <5>1, <5>3
        <5>4. QED
          BY <4>2, <5>2, <5>3
      <4>10. \A p \in Effective \cap ReadTo(src, line + 1) : \E i \in 1..(nspec + 1) : f[i] = p
        <5> TAKE p \in Effective \cap ReadTo(src, line + 1)
        <5>1. CASE p = new
          BY <4>4, <5>1
        <5>2. CASE p \in Effective \cap ReadTo(src, line)
          BY <4>3, <4>6, <5>2
        <5>3. QED
          BY <1>6, <5>1, <5>2
      <4>11. PICK g \in [1..(nspec + 1) -> Effective] : g = f
        BY <4>5
      <4>12. \E h \in [1..nspec' -> Effective'] : InFileOrder(h)'
        <5>1. InFileOrder(g)'
          BY <1>4, <4>1, <4>8, <4>9, <4>10, <4>11 DEF InFileOrder, Precedes
        <5>2. QED
          BY <1>4, <4>1, <5>1
      <4>13. ASSUME Untouched
             PROVE  /\ \A i \in 1..nspec' : CompiledRight(spec_arr'[i])
                    /\ \A i \in (nspec' + 1)..maxnspec : spec_arr'[i].compiled = None
        <5>1. /\ \A i \in 1..nspec : CompiledRight(spec_arr[i])
              /\ \A i \in (nspec + 1)..maxnspec : spec_arr[i].compiled = None
          BY <2>1, <4>13 DEF Storing
        <5>2. nspec + 1 \in (nspec + 1)..maxnspec
          BY <1>2, <3>2
        <5>3. spec_arr[nspec + 1].compiled = None
          BY <5>1, <5>2
        <5>4. opts.backend # "property"
          BY <4>13 DEF Untouched
        <5>5. CompiledRight(spec_arr'[nspec + 1])
          BY <3>2, <5>3, <5>4, StoredIs DEF CompiledRight
        <5>6. \A i \in 1..(nspec + 1) : CompiledRight(spec_arr'[i])
          BY <3>3, <4>2, <5>1, <5>5
        <5>7. (nspec + 1) + 1 = nspec + 2
          BY <1>2
        <5>8. \A i \in (nspec + 2)..maxnspec : spec_arr'[i].compiled = None
          BY <3>4, <5>1
        <5>9. QED
          BY <4>1, <5>6, <5>7, <5>8
      <4>14. nspec' = Cardinality(Effective' \cap ReadTo(src, line)')
        BY <1>4, <1>9, <2>1, <4>1 DEF Storing
      <4>15. QED
        BY <1>1, <1>4, <2>3, <4>12, <4>13, <4>14 DEF Storing, CompiledRight
    <3>7. QED
      BY <3>5, <3>6
  <2>6. QED
    BY <2>4, <2>5
<1>12. QED
  BY <1>5, <1>10, <1>11

-----------------------------------------------------------------------------
(* The orders in which specifications are tried. *)

\* Moving the exact ones to the end keeps each, and the order of the others.
LEMMA ExactLastIs ==
    ASSUME NEW q, IsSeq(q)
    PROVE  /\ IsSeq(ExactLast(q)) /\ Len(ExactLast(q)) = Len(q)
           /\ \E o \in [1..Len(q) -> 1..Len(q)] :
                 /\ \A k \in 1..Len(q) : ExactLast(q)[k] = q[o[k]]
                 /\ \A i \in 1..Len(q) : \E k \in 1..Len(q) : o[k] = i
                 /\ \A i, j \in 1..Len(q) : i < j =>
                       /\ IsExact(q[o[i]]) => IsExact(q[o[j]])
                       /\ (IsExact(q[o[i]]) <=> IsExact(q[o[j]])) => o[i] < o[j]
<1> DEFINE n == Len(q)
           Exact(i) == IsExact(q[i])
           E == { i \in 1..n : Exact(i) }
           M == (1..n) \ E
           a == Cardinality(M)
           b == Cardinality(E)
           s == Picked(q, M)
           t == Picked(q, E)
<1>1. n \in Nat /\ DOMAIN q = 1..n /\ n = Len(q)
  BY DEF IsSeq
<1>2. ExactLast(q) = s \o t
  <2>1. { i \in DOMAIN q : ~HasMetaChars(q[i].regex) } = E
    BY <1>1 DEF IsExact
  <2>2. QED
    BY <1>1, <2>1 DEF ExactLast
<1> HIDE DEF n, Exact
<1>3. E \in SUBSET (1..n) /\ M \in SUBSET (1..n) /\ E \cap M = {} /\ E \cup M = 1..n
  OBVIOUS
<1>4. /\ \A i \in E : Exact(i) /\ i \in 1..n
      /\ \A i \in M : ~Exact(i) /\ i \in 1..n
  OBVIOUS
<1> HIDE DEF E, M
<1>5. /\ IsFiniteSet(M) /\ a \in Nat /\ IsSeq(s) /\ Len(s) = a
      /\ \A k \in 1..a : s[k] = q[InOrder(M)[k]]
  BY <1>1, <1>3, PickedIs
<1>6. /\ IsFiniteSet(E) /\ b \in Nat /\ IsSeq(t) /\ Len(t) = b
      /\ \A k \in 1..b : t[k] = q[InOrder(E)[k]]
  BY <1>1, <1>3, PickedIs
<1>7. a + b = n
  <2>1. Cardinality(E \cup M) = b + a - Cardinality(E \cap M)
    BY <1>5, <1>6, FS_Union
  <2>2. Cardinality(E \cap M) = 0
    BY <1>3, FS_EmptySet
  <2>3. Cardinality(E \cup M) = n
    <3>1. Cardinality(1..n) = n
      BY <1>1, UpTo
    <3>2. QED
      BY <1>3, <3>1, Zenon
  <2>4. a \in Nat /\ b \in Nat
    BY <1>5, <1>6
  <2> DEFINE u == Cardinality(E \cup M)
             c == Cardinality(E \cap M)
  <2>5. u = b + a - c /\ c = 0 /\ u = n
    BY <2>1, <2>2, <2>3
  <2> HIDE DEF a, b, u, c
  <2>6. n \in Nat
    BY <1>1
  <2>7. b + a - 0 = n
    BY <2>5
  <2>8. QED
    BY <2>4, <2>6, <2>7
<1>8. /\ InOrder(M) \in [1..a -> M]
      /\ \A i, j \in 1..a : i < j => InOrder(M)[i] < InOrder(M)[j]
      /\ \A m \in M : \E i \in 1..a : InOrder(M)[i] = m
  <2>1. M \in SUBSET Nat
    BY <1>1, <1>3
  <2>2. QED
    BY <1>5, <2>1, Ordered
<1>9. /\ InOrder(E) \in [1..b -> E]
      /\ \A i, j \in 1..b : i < j => InOrder(E)[i] < InOrder(E)[j]
      /\ \A m \in E : \E i \in 1..b : InOrder(E)[i] = m
  <2>1. E \in SUBSET Nat
    BY <1>1, <1>3
  <2>2. QED
    BY <1>6, <2>1, Ordered
<1> HIDE DEF a, b, s, t
<1>10. /\ IsSeq(s \o t) /\ Len(s \o t) = n
       /\ \A k \in 1..a : (s \o t)[k] = s[k]
       /\ \A k \in (a + 1)..n : (s \o t)[k] = t[k - a]
  <2>1. /\ IsSeq(s \o t) /\ Len(s \o t) = Len(s) + Len(t)
        /\ \A k \in 1..Len(s) : (s \o t)[k] = s[k]
        /\ \A k \in (Len(s) + 1)..(Len(s) + Len(t)) : (s \o t)[k] = t[k - Len(s)]
    <3>1. IsSeq(s) /\ IsSeq(t)
      BY <1>5, <1>6
    <3>2. QED
      BY <3>1, Joined
  <2>2. Len(s) = a /\ Len(t) = b
    BY <1>5, <1>6
  <2>3. QED
    BY <1>7, <2>1, <2>2
<1>11. \A k \in 1..n : k \in 1..a \/ (k \in (a + 1)..n /\ ~(k <= a) /\ k - a \in 1..b)
  BY <1>1, <1>5, <1>6, <1>7
<1>12. /\ \A k \in 1..a : k \in 1..n /\ k <= a
       /\ \A k \in 1..b : k + a \in (a + 1)..n /\ k + a \in 1..n /\ (k + a) - a = k /\ ~(k + a <= a)
  BY <1>1, <1>5, <1>6, <1>7
<1> DEFINE f == [k \in 1..n |-> IF k <= a THEN InOrder(M)[k] ELSE InOrder(E)[k - a]]
<1>13. \A k \in 1..a : f[k] = InOrder(M)[k] /\ f[k] \in M
  BY <1>8, <1>12
<1>14. \A k \in (a + 1)..n : k \in 1..n /\ ~(k <= a) => f[k] = InOrder(E)[k - a]
  OBVIOUS
<1>15. \A k \in 1..n : k \in (a + 1)..n /\ ~(k <= a) /\ k - a \in 1..b =>
           f[k] = InOrder(E)[k - a] /\ f[k] \in E
  BY <1>9, <1>14
<1>16. f \in [1..n -> 1..n]
  <2>1. \A k \in 1..n : f[k] \in 1..n
    BY <1>4, <1>11, <1>13, <1>15
  <2>2. f = [k \in 1..n |-> f[k]]
    OBVIOUS
  <2> HIDE DEF f
  <2>3. QED
    BY <2>1, <2>2
<1> HIDE DEF f
<1>17. \A k \in 1..n : (s \o t)[k] = q[f[k]]
  <2> TAKE k \in 1..n
  <2>1. CASE k \in 1..a
    BY <1>5, <1>10, <1>13, <2>1
  <2>2. CASE k \in (a + 1)..n /\ ~(k <= a) /\ k - a \in 1..b
    BY <1>6, <1>10, <1>15, <2>2
  <2>3. QED
    BY <1>11, <2>1, <2>2
<1>18. \A i \in 1..n : \E k \in 1..n : f[k] = i
  <2> TAKE i \in 1..n
  <2>1. CASE i \in M
    BY <1>8, <1>12, <1>13, <2>1
  <2>2. CASE i \in E
    <3>1. PICK k \in 1..b : InOrder(E)[k] = i
      BY <1>9, <2>2
    <3>2. f[k + a] = i /\ k + a \in 1..n
      BY <1>12, <1>15, <3>1
    <3>3. QED
      BY <3>2
  <2>3. QED
    BY <1>3, <2>1, <2>2
<1>19. \A i, j \in 1..n : i < j => /\ Exact(f[i]) => Exact(f[j])
                                   /\ (Exact(f[i]) <=> Exact(f[j])) => f[i] < f[j]
  <2> TAKE i, j \in 1..n
  <2> HAVE i < j
  <2>1. CASE i \in 1..a /\ j \in 1..a
    BY <1>4, <1>8, <1>13, <2>1
  <2>2. CASE i \in 1..a /\ j \notin 1..a
    <3>1. f[i] \in M /\ f[j] \in E
      BY <1>11, <1>13, <1>15, <2>2
    <3>2. QED
      BY <1>4, <3>1
  <2>3. CASE i \notin 1..a
    <3>1. /\ i \in (a + 1)..n /\ ~(i <= a) /\ i - a \in 1..b
          /\ j \in (a + 1)..n /\ ~(j <= a) /\ j - a \in 1..b
          /\ i - a < j - a
      BY <1>1, <1>5, <1>11, <2>3
    <3>2. f[i] \in E /\ f[j] \in E /\ f[i] < f[j]
      BY <1>9, <1>15, <3>1
    <3>3. QED
      BY <1>4, <3>2
  <2>4. QED
    BY <2>1, <2>2, <2>3
<1>20. \A i, j \in 1..n : i < j =>
           /\ IsExact(q[f[i]]) => IsExact(q[f[j]])
           /\ (IsExact(q[f[i]]) <=> IsExact(q[f[j]])) => f[i] < f[j]
  BY <1>19 DEF Exact
<1>21. /\ IsSeq(ExactLast(q)) /\ Len(ExactLast(q)) = n
       /\ \A k \in 1..n : ExactLast(q)[k] = q[f[k]]
  BY <1>2, <1>10, <1>17
<1>22. QED
  BY <1>16, <1>18, <1>20, <1>21 DEF n

\* What compares equal may come in any order, but nothing is lost.
LEMMA PropertyOrdersAre ==
    ASSUME nspec \in Nat, NEW o \in PropertyOrders
    PROVE  /\ o \in [1..nspec -> 1..nspec]
           /\ \A i \in 1..nspec : \E k \in 1..nspec : o[k] = i
           /\ \A i, j \in 1..nspec : i < j =>
                 LET r == spec_arr[o[i]].regex
                     s == spec_arr[o[j]].regex
                 IN  /\ Starred(r) => Starred(s)
                     /\ ~Starred(r) /\ ~Starred(s) => Len(r) >= Len(s)
<1>1. /\ o \in [1..nspec -> 1..nspec]
      /\ \A i, j \in 1..nspec : i # j => o[i] # o[j]
      /\ \A i, j \in 1..nspec : i < j =>
            LET r == spec_arr[o[i]].regex
                s == spec_arr[o[j]].regex
            IN  /\ Starred(r) => Starred(s)
                /\ ~Starred(r) /\ ~Starred(s) => Len(r) >= Len(s)
  BY Zenon DEF PropertyOrders
<1>2. o \in Injection(1..nspec, 1..nspec)
  BY <1>1 DEF Injection, IsInjective
<1>3. IsFiniteSet(1..nspec)
  BY FS_Interval
<1>4. o \in Surjection(1..nspec, 1..nspec)
  BY <1>2, <1>3, FS_Injection
<1>5. QED
  BY <1>1, <1>4 DEF Surjection

\* What the handle is opened with is what was stored, each once.
LEMMA OpenedIs ==
    ASSUME Shape, phase = "reading", pass = 1, Opened
    PROVE  /\ IsSeq(spec_arr') /\ Len(spec_arr') = nspec
           /\ \E o \in [1..nspec -> 1..nspec] :
                 /\ \A k \in 1..nspec : spec_arr'[k] = spec_arr[o[k]]
                 /\ \A i \in 1..nspec : \E k \in 1..nspec : o[k] = i
                 /\ \A i, j \in 1..nspec : i < j =>
                       Ahead(spec_arr'[i], spec_arr'[j], o[i] < o[j])
<1>1. nspec \in Nat /\ IsSeq(spec_arr) /\ nspec <= Len(spec_arr) /\ Len(spec_arr) \in Nat
  BY DEF Shape, IsSeq
<1>2. CASE opts.backend = "property"
  <2>1. PICK o \in PropertyOrders : spec_arr' = [i \in 1..nspec |-> spec_arr[o[i]]]
    BY <1>2 DEF Opened
  <2>2. /\ o \in [1..nspec -> 1..nspec]
        /\ \A i \in 1..nspec : \E k \in 1..nspec : o[k] = i
        /\ \A i, j \in 1..nspec : i < j =>
              /\ Starred(spec_arr[o[i]].regex) => Starred(spec_arr[o[j]].regex)
              /\ ~Starred(spec_arr[o[i]].regex) /\ ~Starred(spec_arr[o[j]].regex) =>
                    Len(spec_arr[o[i]].regex) >= Len(spec_arr[o[j]].regex)
    BY <1>1, PropertyOrdersAre
  <2>3. \A k \in 1..nspec : spec_arr'[k] = spec_arr[o[k]]
    BY <2>1
  <2>4. spec_arr' = [i \in 1..nspec |-> spec_arr'[i]]
    BY <2>1
  <2>5. IsSeq(spec_arr') /\ Len(spec_arr') = nspec
    BY <1>1, <2>4, Made
  <2>6. \A i, j \in 1..nspec : i < j => Ahead(spec_arr'[i], spec_arr'[j], o[i] < o[j])
    <3> TAKE i, j \in 1..nspec
    <3> HAVE i < j
    <3> DEFINE s == spec_arr[o[i]]
               t == spec_arr[o[j]]
    <3>1. spec_arr'[i] = s /\ spec_arr'[j] = t
      BY <2>3
    <3>2. /\ Starred(s.regex) => Starred(t.regex)
          /\ ~Starred(s.regex) /\ ~Starred(t.regex) => Len(s.regex) >= Len(t.regex)
      BY <2>2
    <3> HIDE DEF s, t
    <3>3. QED
      BY <1>2, <3>1, <3>2 DEF Ahead
  <2>7. QED
    BY <2>2, <2>3, <2>5, <2>6
<1>3. CASE opts.backend # "property"
  <2> DEFINE q == SubSeq(spec_arr, 1, nspec)
  <2>1. IsSeq(q) /\ Len(q) = nspec /\ \A i \in 1..nspec : q[i] = spec_arr[i]
    BY <1>1, Begun
  <2>2. spec_arr' = ExactLast(q)
    BY <1>3 DEF Opened
  <2> HIDE DEF q
  <2>3. IsSeq(spec_arr') /\ Len(spec_arr') = nspec
    BY <2>1, <2>2, ExactLastIs
  <2>4. PICK o \in [1..Len(q) -> 1..Len(q)] :
                 /\ \A k \in 1..Len(q) : ExactLast(q)[k] = q[o[k]]
                 /\ \A i \in 1..Len(q) : \E k \in 1..Len(q) : o[k] = i
                 /\ \A i, j \in 1..Len(q) : i < j =>
                       /\ IsExact(q[o[i]]) => IsExact(q[o[j]])
                       /\ (IsExact(q[o[i]]) <=> IsExact(q[o[j]])) => o[i] < o[j]
    BY <2>1, ExactLastIs
  <2>5. /\ o \in [1..nspec -> 1..nspec]
        /\ \A i \in 1..nspec : \E k \in 1..nspec : o[k] = i
        /\ \A k \in 1..nspec : spec_arr'[k] = q[o[k]]
    BY <2>1, <2>2, <2>4
  <2>6. \A k \in 1..nspec : spec_arr'[k] = spec_arr[o[k]]
    BY <2>1, <2>5
  <2>7. \A i, j \in 1..nspec : i < j =>
                       /\ IsExact(spec_arr'[i]) => IsExact(spec_arr'[j])
                       /\ (IsExact(spec_arr'[i]) <=> IsExact(spec_arr'[j])) => o[i] < o[j]
    BY <2>1, <2>4, <2>5
  <2>8. \A i, j \in 1..nspec : i < j => Ahead(spec_arr'[i], spec_arr'[j], o[i] < o[j])
    BY <1>3, <2>7 DEF Ahead
  <2>9. QED
    BY <2>3, <2>5, <2>6, <2>8
<1>4. QED
  BY <1>2, <1>3

\* What happens at the end of a file.
LEMMA EndCases ==
    ASSUME Shape, EndOfFile
    PROVE  /\ phase = "reading" /\ AtEnd /\ src \in 1..Len(Sources)
           /\ UNCHANGED <<disk, edits, opts, stem_arr, edited, answer>>
           /\ \/ pass = 1 /\ src = 1 /\ ~Nodups /\ phase' = "failed"
                 /\ UNCHANGED <<reader, spec_arr, nspec>>
              \/ /\ pass = 1 /\ src = 1 => Nodups
                 /\ src < Len(Sources) /\ src' = src + 1 /\ line' = 0
                 /\ UNCHANGED <<phase, pass, maxnspec, spec_arr, nspec>>
              \/ /\ src = Len(Sources) /\ pass = 0 /\ nspec = 0
                 /\ phase' = "open" /\ UNCHANGED <<reader, spec_arr, nspec>>
              \/ /\ src = Len(Sources) /\ pass = 0 /\ nspec # 0
                 /\ pass' = 1 /\ src' = 1 /\ line' = 0 /\ maxnspec' = nspec /\ nspec' = 0
                 /\ spec_arr' = [i \in 1..nspec |-> NoSpec] /\ UNCHANGED phase
              \/ /\ src = 1 => Nodups
                 /\ src = Len(Sources) /\ pass = 1 /\ Opened
<1>1. src \in 1..3 /\ src <= Len(Sources) /\ Len(Sources) \in Nat /\ pass \in 0..1
  BY SourcesAre DEF Shape, EndOfFile
<1>2. src \in 1..Len(Sources)
  BY <1>1
<1>3. ~(src < Len(Sources)) => src = Len(Sources)
  BY <1>1
<1>4. pass # 0 => pass = 1
  BY <1>1
<1>5. QED
  BY <1>2, <1>3, <1>4, Zenon DEF EndOfFile

LEMMA NoSpecIs == IsSlot(NoSpec) /\ NoSpec.stem = NoStem /\ NoSpec.compiled = None
BY DEF NoSpec, IsSlot

\* The end of a file.
LEMMA EndShape ==
    ASSUME Shape, EndOfFile
    PROVE  Shape'
<1>1. /\ phase = "reading" /\ src \in 1..Len(Sources) /\ Len(Sources) \in {1, 3}
      /\ UNCHANGED <<disk, edits, opts, stem_arr, edited, answer>>
  BY EndCases, SourcesAre
<1>2. Sources' = Sources
  BY <1>1, SameFiles
<1>3. 1 \in 1..3 /\ 1 \in 0..1 /\ 0 \in Nat
  OBVIOUS
<1>4. CASE pass = 1 /\ src = 1 /\ ~Nodups /\ phase' = "failed" /\ UNCHANGED <<reader, spec_arr, nspec>>
  BY <1>1, <1>2, <1>4 DEF Shape, reader
<1>5. CASE src < Len(Sources) /\ src' = src + 1 /\ line' = 0
           /\ UNCHANGED <<phase, pass, maxnspec, spec_arr, nspec>>
  <2>1. src' \in 1..3 /\ src' <= Len(Sources) /\ line' \in Nat
    <3>1. CASE Len(Sources) = 1
      BY <1>1, <1>5, <3>1
    <3>2. CASE Len(Sources) = 3
      BY <1>1, <1>5, <3>2
    <3>3. QED
      BY <1>1, <3>1, <3>2
  <2>2. QED
    BY <1>1, <1>2, <1>5, <2>1 DEF Shape
<1>6. CASE phase' = "open" /\ UNCHANGED <<reader, spec_arr, nspec>>
  BY <1>1, <1>2, <1>6 DEF Shape, reader
<1>7. CASE pass' = 1 /\ src' = 1 /\ line' = 0 /\ maxnspec' = nspec /\ nspec' = 0
           /\ spec_arr' = [i \in 1..nspec |-> NoSpec] /\ UNCHANGED phase
  <2>1. nspec \in Nat
    BY DEF Shape
  <2>2. spec_arr' = [i \in 1..nspec |-> spec_arr'[i]] /\ \A i \in 1..nspec : spec_arr'[i] = NoSpec
    BY <1>7
  <2>3. IsSeq(spec_arr') /\ Len(spec_arr') = nspec
    BY <2>1, <2>2, Made
  <2>4. \A i \in 1..nspec : IsSlot(spec_arr'[i]) /\ spec_arr'[i].stem = NoStem
    BY <2>2, NoSpecIs
  <2>5. 0 <= nspec
    BY <2>1
  <2>6. QED
    BY <1>1, <1>2, <1>3, <1>7, <2>1, <2>3, <2>4, <2>5 DEF Shape
<1>8. CASE pass = 1 /\ Opened
  <2>1. /\ IsSeq(spec_arr') /\ Len(spec_arr') = nspec
        /\ \E o \in [1..nspec -> 1..nspec] : \A k \in 1..nspec : spec_arr'[k] = spec_arr[o[k]]
    BY <1>1, <1>8, OpenedIs
  <2>2. PICK o \in [1..nspec -> 1..nspec] : \A k \in 1..nspec : spec_arr'[k] = spec_arr[o[k]]
    BY <2>1
  <2>3. phase' = "open" /\ UNCHANGED <<reader, nspec>>
    BY <1>8 DEF Opened
  <2>4. nspec \in Nat /\ Len(spec_arr) \in Nat /\ nspec <= Len(spec_arr)
    BY <1>8 DEF Shape, IsSeq
  <2>5. \A k \in 1..nspec : o[k] \in 1..Len(spec_arr)
    BY <2>4
  <2>6. \A k \in 1..nspec : IsSlot(spec_arr'[k]) /\ spec_arr'[k].stem \in stem_arr \cup {NoStem}
    BY <2>2, <2>5 DEF Shape
  <2>7. nspec' \in Nat /\ nspec' <= Len(spec_arr')
    BY <2>1, <2>3, <2>4
  <2>8. UNCHANGED <<pass, src, line, maxnspec, nspec>>
    BY <2>3 DEF reader
  <2>9. \A i \in 1..Len(spec_arr') :
            IsSlot(spec_arr'[i]) /\ spec_arr'[i].stem \in stem_arr' \cup {NoStem}
    BY <1>1, <2>1, <2>6
  <2>10. QED
    BY <1>1, <2>1, <2>3, <2>7, <2>8, <2>9 DEF Shape
<1>9. QED
  BY <1>4, <1>5, <1>6, <1>7, <1>8, EndCases

\* At the end of a file what has been read goes to the beginning of the next.
LEMMA AtTheEnd ==
    ASSUME DiskOK, Shape, ReadingRight, phase = "reading", ~edited, AtEnd
    PROVE  /\ src \in 1..Len(Sources)
           /\ pass = 0 => KeptOnes \cap ReadTo(src, line) =
                             (IF src < Len(Sources) THEN KeptOnes \cap ReadTo(src + 1, 0)
                              ELSE KeptOnes)
           /\ pass = 1 => /\ Effective \cap ReadTo(src, line) =
                                (IF src < Len(Sources) THEN Effective \cap ReadTo(src + 1, 0)
                                 ELSE Effective)
                          /\ \A p \in Effective : p[1] <= src => p \in ReadTo(src, line)
<1>1. /\ src \in 1..3 /\ src <= Len(Sources) /\ line \in Nat /\ pass \in 0..1
      /\ nspec \in Nat /\ maxnspec \in Nat /\ Len(Sources) \in Nat
  BY SourcesAre DEF Shape
<1>2. src \in 1..Len(Sources)
  BY <1>1
<1>3. /\ Effective \in SUBSET KeptOnes /\ KeptOnes \in SUBSET Positions
      /\ IsFiniteSet(KeptOnes) /\ Cardinality(KeptOnes) \in 0..(MaxSpecs - 1)
  BY EffectiveIs
<1>4. \A p \in Positions : p[1] \in Nat /\ p[2] \in Nat /\ p[1] <= Len(Sources)
  <2> TAKE p \in Positions
  <2>1. p[1] \in 1..Len(Sources) /\ p[1] \in Nat /\ p[2] \in Nat
    BY LineIs
  <2>2. QED
    BY <1>1, <2>1
<1>5. CASE line >= Len(Lines(Sources[src]))
  <2>1. ReadTo(src, line) = IF src < Len(Sources) THEN ReadTo(src + 1, 0) ELSE Positions
    <3>1. /\ src < Len(Sources) => ReadTo(src, line) = ReadTo(src + 1, 0)
          /\ src = Len(Sources) => ReadTo(src, line) = Positions
      BY <1>1, <1>2, <1>5, ReadAll
    <3>2. QED
      BY <1>1, <3>1
  <2>2. \A p \in Positions : p[1] <= src => p \in ReadTo(src, line)
    <3>1. CASE src < Len(Sources)
      <4>1. \A p \in Positions : p[1] <= src => p[1] < src + 1
        BY <1>1, <1>4
      <4>2. QED
        BY <2>1, <3>1, <4>1 DEF ReadTo
    <3>2. CASE ~(src < Len(Sources))
      BY <2>1, <3>2
    <3>3. QED
      BY <3>1, <3>2
  <2>3. QED
    BY <1>2, <1>3, <2>1, <2>2
<1>6. CASE nspec >= maxnspec
  <2>1. CASE pass = 0
    <3>1. nspec = Cardinality(KeptOnes \cap ReadTo(src, line)) /\ maxnspec = MaxSpecs
      BY <2>1 DEF ReadingRight, Counting, Shape
    <3> DEFINE R == KeptOnes \cap ReadTo(src, line)
    <3>2. R \in SUBSET KeptOnes
      OBVIOUS
    <3> HIDE DEF R
    <3>3. Cardinality(R) <= Cardinality(KeptOnes)
      BY <1>3, <3>2, FS_Subset
    <3>4. FALSE
      BY <1>1, <1>3, <1>6, <3>1, <3>3, DisksAssumption DEF R
    <3>5. QED
      BY <3>4
  <2>2. CASE pass = 1
    <3> DEFINE R == Effective \cap ReadTo(src, line)
    <3>1. nspec = Cardinality(R) /\ maxnspec = Cardinality(KeptOnes)
      BY <2>2 DEF ReadingRight, Storing
    <3>2. R \in SUBSET Effective
      OBVIOUS
    <3>3. R = Effective
      <4> HIDE DEF R
      <4>1. QED
        BY <1>6, <3>1, <3>2, NoneLeft
    <3>4. \A p \in ReadTo(src, line) : p \in ReadTo(src + 1, 0)
      <4> TAKE p \in ReadTo(src, line)
      <4>1. p \in Positions /\ (p[1] < src \/ p[1] = src)
        BY DEF ReadTo
      <4>2. p[1] < src + 1
        BY <1>1, <1>4, <4>1
      <4>3. QED
        BY <4>1, <4>2 DEF ReadTo
    <3>5. Effective \cap ReadTo(src + 1, 0) = Effective
      BY <3>3, <3>4
    <3>6. QED
      BY <1>2, <2>2, <3>3, <3>5
  <2>3. QED
    BY <1>1, <2>1, <2>2
<1>7. QED
  BY <1>5, <1>6 DEF AtEnd

\* A first file that has no duplicates among what is stored has none.
LEMMA NodupsMeans ==
    ASSUME DiskOK, Shape, ReadingRight, phase = "reading", ~edited, AtEnd, pass = 1,
           src = 1, Nodups
    PROVE  NoConflicts
<1>1. PICK at \in [1..nspec -> Effective] : InFileOrder(at)
  BY DEF ReadingRight, Storing
<1>2. /\ nspec \in Nat /\ opts.backend \in {"file", "property"}
  BY DEF Shape
<1>3. \A p \in Effective : p[1] = 1 => \E i \in 1..nspec : at[i] = p
  <2>1. \A p \in Effective : p[1] <= src => p \in ReadTo(src, line)
    BY AtTheEnd
  <2>2. \A p \in Effective : p[1] = 1 => p[1] <= src
    OBVIOUS
  <2>3. QED
    BY <1>1, <2>1, <2>2 DEF InFileOrder
<1>4. \A i, j \in 1..nspec : ~Duplicates(i, j)
  BY DEF Nodups
<1>5. SUFFICES ASSUME NEW p \in Effective, NEW q \in Effective, p[1] = 1, q[1] = 1, p # q,
                      LineAt(p).regex = LineAt(q).regex
               PROVE  /\ opts.backend = "file"
                      /\ AnyType \notin {LineAt(p).type, LineAt(q).type}
                      /\ LineAt(p).type # LineAt(q).type
  BY DEF NoConflicts
<1>6. PICK i \in 1..nspec : at[i] = p
  BY <1>3, <1>5
<1>7. PICK j \in 1..nspec : at[j] = q
  BY <1>3, <1>5
<1>8. i < j \/ j < i
  <2>1. i \in Int /\ j \in Int /\ i # j
    BY <1>2, <1>5, <1>6, <1>7
  <2>2. QED
    BY <2>1
<1>9. Holds(spec_arr[i], LineAt(p)) /\ Holds(spec_arr[j], LineAt(q))
  BY <1>1, <1>6, <1>7 DEF InFileOrder
<1>10. spec_arr[i].regex = spec_arr[j].regex
  BY <1>5, <1>9 DEF Holds
<1>11. ~(\/ AnyType \in {spec_arr[i].type, spec_arr[j].type}
         \/ spec_arr[i].type = spec_arr[j].type)
  BY <1>4, <1>8, <1>10 DEF Duplicates
<1>12. opts.backend = "file"
  <2>1. opts.backend = "property" => spec_arr[i].type = AnyType
    BY <1>9 DEF Holds
  <2>2. QED
    BY <1>2, <1>11, <2>1
<1>13. spec_arr[i].type = LineAt(p).type /\ spec_arr[j].type = LineAt(q).type
  BY <1>9, <1>12 DEF Holds
<1>14. QED
  BY <1>11, <1>12, <1>13

\* The next file or the next pass begins as it should.
LEMMA EndReadingRight ==
    ASSUME IInv, EndOfFile
    PROVE  ReadingRight'
<1>0. DiskOK /\ Shape /\ ReadingRight
  BY DEF IInv
<1>1. /\ phase = "reading" /\ AtEnd /\ src \in 1..Len(Sources)
      /\ UNCHANGED <<disk, edits, opts, stem_arr, edited, answer>>
  BY <1>0, EndCases
<1>2. SUFFICES ASSUME ~edited, phase' = "reading"
               PROVE  /\ line' <= Len(Lines(Sources[src]))'
                      /\ pass' = 0 => Counting'
                      /\ pass' = 1 => Storing'
  BY <1>1 DEF ReadingRight
<1>3. /\ Effective' = Effective /\ KeptOnes' = KeptOnes /\ Sources' = Sources
      /\ \A k : Lines(Sources[k])' = Lines(Sources[k])
      /\ \A p : LineAt(p)' = LineAt(p)
      /\ \A s, n : ReadTo(s, n)' = ReadTo(s, n)
      /\ \A s, k : Holds(s, k)' = Holds(s, k)
      /\ (Untouched <=> Untouched') /\ (NoConflicts <=> NoConflicts')
  BY <1>1, SameFiles
<1>4. \A s \in 1..Len(Sources) : 0 <= Len(Lines(Sources[s]))
  BY <1>0, SourcesAre, LinesAre DEF IsSeq
<1>5. /\ pass = 0 => nspec = Cardinality(KeptOnes \cap ReadTo(src, line))
      /\ pass = 1 => Storing
  BY <1>0, <1>1, <1>2 DEF ReadingRight, Counting
<1>6. CASE /\ pass = 1 /\ src = 1 => Nodups
           /\ src < Len(Sources) /\ src' = src + 1 /\ line' = 0
           /\ UNCHANGED <<phase, pass, maxnspec, spec_arr, nspec>>
  <2>1. src + 1 \in 1..Len(Sources) /\ src \in Nat
    BY <1>1, <1>6, SourcesAre
  <2>2. Lines(Sources[src])' = Lines(Sources[src + 1]) /\ ReadTo(src, line)' = ReadTo(src + 1, 0)
    BY <1>1, <1>6 DEF Lines, Sources, ReadTo, Positions
  <2>3. line' <= Len(Lines(Sources[src]))'
    BY <1>4, <1>6, <2>1, <2>2
  <2>4. ASSUME pass = 0 PROVE Counting'
    <3>1. KeptOnes \cap ReadTo(src, line) = KeptOnes \cap ReadTo(src + 1, 0)
      BY <1>0, <1>1, <1>2, <1>6, <2>4, AtTheEnd
    <3>2. QED
      BY <1>3, <1>5, <1>6, <2>2, <2>4, <3>1 DEF Counting
  <2>5. ASSUME pass = 1 PROVE Storing'
    <3>1. Effective \cap ReadTo(src, line) = Effective \cap ReadTo(src + 1, 0)
      BY <1>0, <1>1, <1>2, <1>6, <2>5, AtTheEnd
    <3>2. PICK at \in [1..nspec -> Effective] : InFileOrder(at)
      BY <1>5, <2>5 DEF Storing
    <3>3. \A i \in 1..nspec : at[i] \in ReadTo(src + 1, 0)
      <4> TAKE i \in 1..nspec
      <4>1. at[i] \in Effective \cap ReadTo(src, line)
        BY <3>2 DEF InFileOrder
      <4>2. QED
        BY <3>1, <4>1
    <3>4. InFileOrder(at)'
      BY <1>3, <1>6, <2>2, <3>1, <3>2, <3>3 DEF InFileOrder, Precedes
    <3>5. NoConflicts
      <4>1. CASE src = 1
        BY <1>0, <1>1, <1>2, <1>6, <2>5, <4>1, NodupsMeans
      <4>2. CASE src # 1
        <5>1. src > 1
          BY <1>1, <2>1, <4>2
        <5>2. QED
          BY <1>5, <2>5, <5>1 DEF Storing
      <4>3. QED
        BY <4>1, <4>2
    <3>6. \E f \in [1..nspec' -> Effective'] : InFileOrder(f)'
      BY <1>3, <1>6, <3>2, <3>4
    <3>7. nspec' = Cardinality(Effective' \cap ReadTo(src, line)')
      BY <1>3, <1>5, <1>6, <2>2, <2>5, <3>1 DEF Storing
    <3>8. QED
      BY <1>3, <1>5, <1>6, <2>5, <3>5, <3>6, <3>7 DEF Storing, CompiledRight
  <2>6. QED
    BY <1>6, <2>3, <2>4, <2>5
<1>7. CASE /\ src = Len(Sources) /\ pass = 0 /\ nspec # 0
           /\ pass' = 1 /\ src' = 1 /\ line' = 0 /\ maxnspec' = nspec /\ nspec' = 0
           /\ spec_arr' = [i \in 1..nspec |-> NoSpec] /\ UNCHANGED phase
  <2>1. /\ Lines(Sources[src])' = Lines(Sources[1]) /\ ReadTo(src, line)' = ReadTo(1, 0)
        /\ 1 \in 1..Len(Sources)
    BY <1>1, <1>7, SourcesAre DEF Lines, Sources, ReadTo, Positions
  <2>2. line' <= Len(Lines(Sources[src]))'
    BY <1>4, <1>7, <2>1
  <2>3. KeptOnes \cap ReadTo(src, line) = KeptOnes
    BY <1>0, <1>1, <1>2, <1>7, AtTheEnd, SourcesAre
  <2>4. maxnspec' = Cardinality(KeptOnes')
    BY <1>3, <1>5, <1>7, <2>3
  <2>5. ReadTo(1, 0) = {}
    BY <1>0, ReadAll
  <2>6. nspec' = Cardinality(Effective' \cap ReadTo(src, line)')
    <3>1. Effective' \cap ReadTo(src, line)' = {}
      BY <1>3, <2>1, <2>5
    <3>2. QED
      BY <1>7, <3>1, FS_EmptySet
  <2>7. 1..0 = {} /\ nspec \in Nat
    BY <1>0 DEF Shape
  <2>8. \E at \in [1..nspec' -> Effective'] : InFileOrder(at)'
    <3> DEFINE f == [i \in {} |-> i]
    <3>1. f \in [1..nspec' -> Effective']
      BY <1>7, <2>7
    <3>2. PICK at \in [1..nspec' -> Effective'] : at = f
      BY <3>1
    <3>3. InFileOrder(at)'
      BY <1>3, <1>7, <2>1, <2>5, <2>7 DEF InFileOrder
    <3>4. QED
      BY <3>3
  <2>9. \A i \in (nspec' + 1)..maxnspec' : spec_arr'[i].compiled = None
    <3>1. \A i \in 1..nspec : spec_arr'[i] = NoSpec
      BY <1>7
    <3>2. QED
      BY <1>7, <2>7, <3>1, NoSpecIs
  <2>10. \A i \in 1..nspec' : CompiledRight(spec_arr[i])'
    BY <1>7, <2>7
  <2>11. Storing'
    <3>1. ~(src' > 1)
      BY <1>7
    <3>2. QED
      BY <2>4, <2>6, <2>8, <2>9, <2>10, <3>1 DEF Storing, CompiledRight
  <2>12. QED
    BY <1>7, <2>2, <2>11
<1>8. CASE phase' = "failed" \/ phase' = "open"
  BY <1>2, <1>8
<1>9. phase' = "open" \/ ~Opened
  BY DEF Opened
<1>10. QED
  BY <1>0, <1>6, <1>7, <1>8, <1>9, EndCases

\* The handle is opened with all that counts, in the order of the search.
LEMMA EndOpenRight ==
    ASSUME IInv, EndOfFile
    PROVE  OpenRight'
<1>0. DiskOK /\ Shape /\ ReadingRight
  BY DEF IInv
<1>1. /\ phase = "reading" /\ AtEnd /\ src \in 1..Len(Sources)
      /\ UNCHANGED <<disk, edits, opts, stem_arr, edited, answer>>
  BY <1>0, EndCases
<1>2. SUFFICES ASSUME ~edited, phase' = "open"
               PROVE  /\ Len(spec_arr') = nspec'
                      /\ \E at \in [1..nspec' -> Effective'] : InTriedOrder(at)'
                      /\ Untouched' => \A i \in 1..nspec' : CompiledRight(spec_arr[i])'
                      /\ NoConflicts'
  BY <1>1 DEF OpenRight, CompiledRight
<1>3. /\ Effective' = Effective /\ KeptOnes' = KeptOnes
      /\ \A p : LineAt(p)' = LineAt(p)
      /\ \A s, k : Holds(s, k)' = Holds(s, k)
      /\ (Untouched <=> Untouched') /\ (NoConflicts <=> NoConflicts')
  BY <1>1, SameFiles
<1>4. CASE /\ src = Len(Sources) /\ pass = 0 /\ nspec = 0
           /\ phase' = "open" /\ UNCHANGED <<reader, spec_arr, nspec>>
  <2>1. KeptOnes = {}
    <3>1. KeptOnes \cap ReadTo(src, line) = KeptOnes
      BY <1>0, <1>1, <1>2, <1>4, AtTheEnd, SourcesAre
    <3>2. Cardinality(KeptOnes) = 0
      BY <1>0, <1>1, <1>2, <1>4, <3>1 DEF ReadingRight, Counting
    <3>3. QED
      BY <1>0, <3>2, EffectiveIs, FS_EmptySet
  <2>2. Effective = {}
    BY <1>0, <2>1, EffectiveIs
  <2>3. Len(spec_arr') = nspec'
    BY <1>0, <1>1, <1>4 DEF Shape
  <2>4. 1..nspec' = {}
    BY <1>4
  <2>5. \E at \in [1..nspec' -> Effective'] : InTriedOrder(at)'
    <3> DEFINE f == [i \in {} |-> i]
    <3>1. f \in [1..nspec' -> Effective']
      BY <2>4
    <3>2. PICK at \in [1..nspec' -> Effective'] : at = f
      BY <3>1
    <3>3. InTriedOrder(at)'
      BY <1>3, <2>2, <2>4 DEF InTriedOrder
    <3>4. QED
      BY <3>3
  <2>6. NoConflicts
    BY <2>2 DEF NoConflicts
  <2>7. QED
    BY <1>3, <2>3, <2>4, <2>5, <2>6
<1>5. CASE /\ src = 1 => Nodups
           /\ src = Len(Sources) /\ pass = 1 /\ Opened
  <2>1. Storing
    BY <1>0, <1>1, <1>2, <1>5 DEF ReadingRight
  <2>2. PICK at \in [1..nspec -> Effective] : InFileOrder(at)
    BY <2>1 DEF Storing
  <2>3. Effective \cap ReadTo(src, line) = Effective
    BY <1>0, <1>1, <1>2, <1>5, AtTheEnd, SourcesAre
  <2>4. /\ IsSeq(spec_arr') /\ Len(spec_arr') = nspec
        /\ \E o \in [1..nspec -> 1..nspec] :
              /\ \A k \in 1..nspec : spec_arr'[k] = spec_arr[o[k]]
              /\ \A i \in 1..nspec : \E k \in 1..nspec : o[k] = i
              /\ \A i, j \in 1..nspec : i < j => Ahead(spec_arr'[i], spec_arr'[j], o[i] < o[j])
    BY <1>0, <1>1, <1>5, OpenedIs
  <2>5. PICK o \in [1..nspec -> 1..nspec] :
              /\ \A k \in 1..nspec : spec_arr'[k] = spec_arr[o[k]]
              /\ \A i \in 1..nspec : \E k \in 1..nspec : o[k] = i
              /\ \A i, j \in 1..nspec : i < j => Ahead(spec_arr'[i], spec_arr'[j], o[i] < o[j])
    BY <2>4
  <2>6. nspec' = nspec /\ nspec \in Nat
    BY <1>0, <1>5 DEF Opened, Shape
  <2> DEFINE f == [k \in 1..nspec |-> at[o[k]]]
  <2>7. f \in [1..nspec -> Effective] /\ \A k \in 1..nspec : f[k] = at[o[k]]
    OBVIOUS
  <2> HIDE DEF f
  <2>8. PICK g \in [1..nspec -> Effective] : g = f
    BY <2>7
  <2>9. /\ \A i \in 1..nspec : Holds(spec_arr[i], LineAt(at[i]))
        /\ \A i, j \in 1..nspec : i < j => Precedes(at[i], at[j])
        /\ \A p \in Effective : \E i \in 1..nspec : at[i] = p
    BY <2>2, <2>3 DEF InFileOrder
  <2>10. \A k \in 1..nspec : Holds(spec_arr'[k], LineAt(g[k]))
    BY <2>5, <2>7, <2>8, <2>9
  <2>11. \A i, j \in 1..nspec : i < j =>
              Ahead(spec_arr'[i], spec_arr'[j], Precedes(g[i], g[j]))
    <3> TAKE i, j \in 1..nspec
    <3> HAVE i < j
    <3>1. o[i] < o[j] => Precedes(g[i], g[j])
      BY <2>7, <2>8, <2>9
    <3>2. Ahead(spec_arr'[i], spec_arr'[j], o[i] < o[j])
      BY <2>5
    <3>3. QED
      BY <3>1, <3>2 DEF Ahead
  <2>12. \A p \in Effective : \E i \in 1..nspec : g[i] = p
    <3> TAKE p \in Effective
    <3>1. PICK i \in 1..nspec : at[i] = p
      BY <2>9
    <3>2. PICK k \in 1..nspec : o[k] = i
      BY <2>5
    <3>3. g[k] = p
      BY <2>7, <2>8, <3>1, <3>2
    <3>4. QED
      BY <3>3
  <2>13. InTriedOrder(g)'
    BY <1>1, <1>3, <2>6, <2>10, <2>11, <2>12 DEF InTriedOrder, Ahead, Precedes, IsExact
  <2>14. NoConflicts
    <3>1. CASE src = 1
      BY <1>0, <1>1, <1>2, <1>5, <3>1, NodupsMeans
    <3>2. CASE src # 1
      <4>1. src > 1
        BY <1>1, <3>2, SourcesAre
      <4>2. QED
        BY <2>1, <4>1 DEF Storing
    <3>3. QED
      BY <3>1, <3>2
  <2>15. Untouched => \A i \in 1..nspec' : CompiledRight(spec_arr'[i])
    <3> SUFFICES ASSUME Untouched, NEW i \in 1..nspec
                 PROVE  CompiledRight(spec_arr'[i])
      BY <2>6
    <3>1. spec_arr'[i] = spec_arr[o[i]] /\ o[i] \in 1..nspec
      BY <2>5
    <3>2. CompiledRight(spec_arr[o[i]])
      BY <2>1, <3>1 DEF Storing
    <3>3. QED
      BY <3>1, <3>2
  <2>16. \E h \in [1..nspec' -> Effective'] : InTriedOrder(h)'
    BY <1>3, <2>6, <2>13
  <2>17. QED
    BY <1>3, <2>4, <2>6, <2>14, <2>15, <2>16 DEF CompiledRight
<1>6. CASE phase' = "failed" \/ phase' = "reading"
  BY <1>2, <1>6
<1>7. QED
  BY <1>0, <1>1, <1>4, <1>5, <1>6, EndCases

\* Editing leaves files that can be read.
LEMMA EditKeeps ==
    ASSUME DiskOK, Edit
    PROVE  DiskOK'
<1>1. PICK name \in {"main", "property"} :
          /\ disk[name] # Missing /\ disk[name] # << >>
          /\ \/ disk' = [disk EXCEPT ![name] = Front(disk[name])]
             \/ disk' = [disk EXCEPT ![name] = Append(disk[name], Head(disk[name]))]
  BY DEF Edit
<1>2. /\ edits < MaxEdits /\ edits' = edits + 1 /\ edits \in 0..MaxEdits /\ MaxEdits \in Nat
      /\ name \in FileNames
  BY DisksAssumption DEF Edit, DiskOK, FileNames
<1> DEFINE q == disk[name]
           n == Len(q)
<1>3. /\ IsSeq(q) /\ n \in Nat /\ 3 * (n + (MaxEdits - edits)) < MaxSpecs
      /\ \A i \in 1..n : IsLine(q[i], name)
  BY <1>1, <1>2 DEF DiskOK, IsSeq
<1>4. n # 0 /\ Head(q) = q[1] /\ 1 \in 1..n
  BY <1>1, <1>3, Empty, HeadIs
<1> DEFINE r == disk'[name]
<1>5. disk' = [x \in FileNames |-> disk'[x]] /\ \A x \in FileNames : x # name => disk'[x] = disk[x]
  BY <1>1, <1>2 DEF DiskOK
<1>6. r = Front(q) \/ r = Append(q, q[1])
  BY <1>1, <1>2, <1>4 DEF DiskOK
<1> HIDE DEF q, n, r
<1>7. /\ IsSeq(r) /\ Len(r) \in {n - 1, n + 1}
      /\ \A i \in 1..Len(r) : \E j \in 1..n : r[i] = q[j]
  <2> DEFINE T == { q[j] : j \in 1..n }
  <2>1. q \in Seq(T) /\ n = Len(q)
    BY <1>3, IsIn DEF n
  <2>2. q[1] \in T
    BY <1>4
  <2>3. \A x \in T : \E j \in 1..n : x = q[j]
    OBVIOUS
  <2> HIDE DEF T
  <2>4. CASE r = Front(q)
    <3>1. r = SubSeq(q, 1, n - 1) /\ n - 1 \in 0..n
      BY <1>3, <1>4, <2>1, <2>4 DEF Front
    <3>2. IsSeq(r) /\ Len(r) = n - 1 /\ \A i \in 1..(n - 1) : r[i] = q[i] /\ i \in 1..n
      BY <1>3, <2>1, <3>1, Begun
    <3>3. QED
      BY <3>2
  <2>5. CASE r = Append(q, q[1])
    <3>1. r \in Seq(T) /\ Len(r) = n + 1
      BY <2>1, <2>2, <2>5
    <3>2. \A i \in 1..Len(r) : r[i] \in T
      BY <3>1
    <3>3. QED
      BY <2>3, <3>1, <3>2, SeqIs
  <2>6. QED
    BY <1>6, <2>4, <2>5
<1>8. 3 * (Len(r) + (MaxEdits - edits')) < MaxSpecs
  BY <1>2, <1>3, <1>7, DisksAssumption
<1>9. \A i \in 1..Len(r) : IsLine(r[i], name)
  BY <1>3, <1>7
<1>10. \A x \in FileNames : x # name /\ disk[x] # Missing =>
           /\ IsSeq(disk[x]) /\ 3 * (Len(disk[x]) + (MaxEdits - edits')) < MaxSpecs
           /\ \A i \in 1..Len(disk[x]) : IsLine(disk[x][i], x)
  <2> TAKE x \in FileNames
  <2> HAVE x # name /\ disk[x] # Missing
  <2> DEFINE m == Len(disk[x])
  <2>1. /\ IsSeq(disk[x]) /\ m \in Nat /\ 3 * (m + (MaxEdits - edits)) < MaxSpecs
        /\ \A i \in 1..m : IsLine(disk[x][i], x)
    BY DEF DiskOK, IsSeq
  <2> HIDE DEF m
  <2>2. 3 * (m + (MaxEdits - edits')) < MaxSpecs
    BY <1>2, <2>1, DisksAssumption
  <2>3. QED
    BY <2>1, <2>2 DEF m
<1>11. edits' \in 0..MaxEdits
  BY <1>2
<1>12. \A x \in FileNames : disk'[x] # Missing =>
           /\ IsSeq(disk'[x]) /\ 3 * (Len(disk'[x]) + (MaxEdits - edits')) < MaxSpecs
           /\ \A i \in 1..Len(disk'[x]) : IsLine(disk'[x][i], x)
  <2> TAKE x \in FileNames
  <2>1. CASE x = name
    BY <1>7, <1>8, <1>9, <2>1 DEF r
  <2>2. CASE x # name
    BY <1>5, <1>10, <2>2
  <2>3. QED
    BY <2>1, <2>2
<1>13. QED
  BY <1>5, <1>11, <1>12 DEF DiskOK

\* Nothing but what has been compiled is changed by looking up.
LEMMA LookingKeeps ==
    ASSUME IInv, phase = "open",
           UNCHANGED <<disk, edits, opts, phase, reader, nspec, stem_arr, edited>>,
           spec_arr' = spec_arr \/ \E S : spec_arr' = CompiledBy(S)
    PROVE  IInv'
<1> DEFINE n == Len(spec_arr)
<1>1. /\ IsSeq(spec_arr) /\ n \in Nat /\ DOMAIN spec_arr = 1..n
      /\ \A i \in 1..n : IsSlot(spec_arr[i]) /\ spec_arr[i].stem \in stem_arr \cup {NoStem}
  BY DEF IInv, Shape, IsSeq
<1>2. /\ IsSeq(spec_arr') /\ Len(spec_arr') = n
      /\ \A i \in 1..n : \/ spec_arr'[i] = spec_arr[i]
                         \/ spec_arr'[i] = [spec_arr[i] EXCEPT !.compiled = Executed(spec_arr[i])]
  <2>1. CASE spec_arr' = spec_arr
    BY <1>1, <2>1
  <2>2. CASE \E S : spec_arr' = CompiledBy(S)
    <3>1. PICK S : spec_arr' = CompiledBy(S)
      BY <2>2
    <3> DEFINE P(i) == \E q \in S : i \in Tried(q.key, q.type) /\ i >= LastOf(q.key, q.type, q.partial)
               e == [i \in 1..n |-> IF P(i) THEN [spec_arr[i] EXCEPT !.compiled = Executed(spec_arr[i])]
                                    ELSE spec_arr[i]]
    <3>2. spec_arr' = e
      BY <1>1, <3>1, Zenon DEF CompiledBy
    <3> HIDE DEF P, n
    <3>3. /\ e = [i \in 1..n |-> e[i]]
          /\ \A i \in 1..n : \/ e[i] = spec_arr[i]
                             \/ e[i] = [spec_arr[i] EXCEPT !.compiled = Executed(spec_arr[i])]
      OBVIOUS
    <3> HIDE DEF e
    <3>4. IsSeq(e) /\ Len(e) = n
      BY <1>1, <3>3, Made
    <3>5. QED
      BY <3>2, <3>3, <3>4 DEF n
  <2>3. QED
    BY <2>1, <2>2
<1> HIDE DEF n
<1>3. \A i \in 1..n :
          /\ IsSlot(spec_arr'[i]) /\ spec_arr'[i].regex = spec_arr[i].regex
          /\ spec_arr'[i].stem = spec_arr[i].stem /\ spec_arr'[i].type = spec_arr[i].type
          /\ spec_arr'[i].ctx = spec_arr[i].ctx
          /\ CompiledRight(spec_arr[i]) => CompiledRight(spec_arr'[i])
  <2> TAKE i \in 1..n
  <2>1. CASE spec_arr'[i] = spec_arr[i]
    BY <1>1, <2>1
  <2>2. CASE spec_arr'[i] = [spec_arr[i] EXCEPT !.compiled = Executed(spec_arr[i])]
    <3> DEFINE s == spec_arr[i]
               x == Executed(s)
               t == spec_arr'[i]
    <3>1. s = [regex |-> s.regex, stem |-> s.stem, compiled |-> s.compiled,
               type |-> s.type, ctx |-> s.ctx]
      BY <1>1 DEF IsSlot
    <3>2. CompiledRight(s) => x = None \/ (s.regex.compiles /\ x = Compiled(s.regex))
      BY DEF CompiledRight, Executed
    <3>3. t = [s EXCEPT !.compiled = x]
      BY <2>2
    <3> HIDE DEF s, x, t
    <3>4. t = [regex |-> s.regex, stem |-> s.stem, compiled |-> x, type |-> s.type, ctx |-> s.ctx]
      BY <3>1, <3>3
    <3>5. /\ t.regex = s.regex /\ t.stem = s.stem /\ t.type = s.type /\ t.ctx = s.ctx
          /\ t.compiled = x
      BY <3>4
    <3>6. IsSlot(t)
      BY <3>4, <3>5 DEF IsSlot
    <3>7. QED
      BY <3>2, <3>5, <3>6 DEF CompiledRight, s, t
  <2>3. QED
    BY <1>2, <2>1, <2>2
<1>4. DiskOK'
  BY DEF IInv, DiskOK
<1>5. Shape'
  <2>1. Sources' = Sources
    BY SameFiles
  <2>2. UNCHANGED <<pass, src, line, maxnspec>>
    BY DEF reader
  <2>3. \A i \in 1..Len(spec_arr') :
            IsSlot(spec_arr'[i]) /\ spec_arr'[i].stem \in stem_arr' \cup {NoStem}
    BY <1>1, <1>2, <1>3
  <2>4. pass = 1 => nspec <= n
    BY DEF IInv, Shape, n
  <2>5. /\ phase \in {"closed", "reading", "open", "failed"}
        /\ pass \in 0..1 /\ src \in 1..3 /\ line \in Nat
        /\ nspec \in Nat /\ maxnspec \in Nat /\ nspec <= maxnspec
        /\ phase \in {"reading", "open"} => opts.backend \in {"file", "property"}
    BY DEF IInv, Shape
  <2>6. QED
    BY <1>2, <2>2, <2>3, <2>4, <2>5 DEF Shape
<1>6. ReadingRight'
  BY DEF ReadingRight
<1>7. ASSUME ~edited PROVE OpenRight'
  <2>1. /\ n = nspec
        /\ Untouched => \A i \in 1..nspec : CompiledRight(spec_arr[i])
        /\ NoConflicts
    BY <1>7 DEF IInv, OpenRight, n
  <2>2. PICK at \in [1..nspec -> Effective] : InTriedOrder(at)
    BY <1>7 DEF IInv, OpenRight
  <2>3. /\ Effective' = Effective /\ \A p : LineAt(p)' = LineAt(p)
        /\ \A s, k : Holds(s, k)' = Holds(s, k)
        /\ (Untouched <=> Untouched') /\ (NoConflicts <=> NoConflicts')
    BY SameFiles
  <2>4. /\ \A i \in 1..nspec : Holds(spec_arr[i], LineAt(at[i]))
        /\ \A i, j \in 1..nspec : i < j =>
              Ahead(spec_arr[i], spec_arr[j], Precedes(at[i], at[j]))
        /\ \A p \in Effective : \E i \in 1..nspec : at[i] = p
    BY <2>2 DEF InTriedOrder
  <2>5. \A i \in 1..nspec : Holds(spec_arr'[i], LineAt(at[i]))
    BY <1>3, <2>1, <2>4 DEF Holds
  <2>6. \A i, j \in 1..nspec : i < j =>
            Ahead(spec_arr'[i], spec_arr'[j], Precedes(at[i], at[j]))
    <3> TAKE i, j \in 1..nspec
    <3> HAVE i < j
    <3>1. Ahead(spec_arr[i], spec_arr[j], Precedes(at[i], at[j]))
      BY <2>4
    <3>2. spec_arr'[i].regex = spec_arr[i].regex /\ spec_arr'[j].regex = spec_arr[j].regex
      BY <1>3, <2>1
    <3>3. QED
      BY <3>1, <3>2 DEF Ahead, IsExact
  <2>7. InTriedOrder(at)'
    BY <2>3, <2>4, <2>5, <2>6 DEF InTriedOrder, Ahead, Precedes, IsExact
  <2>8. \E h \in [1..nspec' -> Effective'] : InTriedOrder(h)'
    BY <2>2, <2>3, <2>7
  <2>9. Untouched => \A i \in 1..nspec : CompiledRight(spec_arr'[i])
    BY <1>3, <2>1
  <2>10. QED
    BY <1>2, <2>1, <2>3, <2>8, <2>9 DEF OpenRight, CompiledRight
<1>8. edited => OpenRight'
  BY DEF OpenRight
<1>9. QED
  BY <1>4, <1>5, <1>6, <1>7, <1>8 DEF IInv

\* At the beginning of the first file.
LEMMA NothingRead ==
    DiskOK => ReadTo(1, 0) = {} /\ (src = 1 => 0 <= Len(Lines(Sources[src])))
BY ReadAll, SourcesAre, LinesAre DEF IsSeq

LEMMA OpenKeeps ==
    ASSUME IInv, Open
    PROVE  IInv'
<1>1. DiskOK'
  BY DEF IInv, DiskOK, Open
<1>2. /\ phase' = "failed" \/ (phase' = "reading" /\ opts'.backend \in {"file", "property"})
      /\ pass' = 0 /\ src' = 1 /\ line' = 0 /\ maxnspec' = MaxSpecs
      /\ spec_arr' = << >> /\ nspec' = 0 /\ answer' = NoAnswer
  BY Zenon DEF Open
<1>3. Len(Sources') \in {1, 3}
  <2>1. (Len(Sources) \in {1, 3})'
    BY SourcesAre, PTL
  <2>2. QED
    BY <2>1
<1>4. Shape'
  <2>1. /\ IsSeq(spec_arr') /\ Len(spec_arr') = 0
    BY <1>2, Empty
  <2>2. 1..0 = {}
    OBVIOUS
  <2>3. /\ 0 \in 0..1 /\ 1 \in 1..3 /\ 0 \in Nat /\ MaxSpecs \in Nat /\ 0 <= MaxSpecs
        /\ src' <= Len(Sources')
    BY <1>2, <1>3, DisksAssumption
  <2>4. QED
    BY <1>2, <2>1, <2>2, <2>3 DEF Shape
<1>5. ReadingRight'
  <2>1. (ReadTo(1, 0) = {})'
    <3>1. (DiskOK => ReadTo(1, 0) = {} /\ (src = 1 => 0 <= Len(Lines(Sources[src]))))'
      BY NothingRead, PTL
    <3>2. QED
      BY <1>1, <3>1
  <2>2. ReadTo(src, line)' = {}
    BY <1>2, <2>1 DEF ReadTo
  <2>3. Counting'
    <3>1. KeptOnes' \cap ReadTo(src, line)' = {}
      BY <2>2
    <3>2. QED
      BY <1>2, <3>1, FS_EmptySet DEF Counting
  <2>4. line' <= Len(Lines(Sources[src]))'
    <3>1. (DiskOK => ReadTo(1, 0) = {} /\ (src = 1 => 0 <= Len(Lines(Sources[src]))))'
      BY NothingRead, PTL
    <3>2. QED
      BY <1>1, <1>2, <3>1
  <2>5. pass' # 1
    BY <1>2
  <2>6. QED
    BY <2>3, <2>4, <2>5 DEF ReadingRight
<1>6. OpenRight'
  BY <1>2 DEF OpenRight
<1>7. QED
  BY <1>1, <1>4, <1>5, <1>6 DEF IInv

\* A handle that is closed has nothing.
LEMMA CloseKeeps ==
    ASSUME IInv, Close
    PROVE  IInv'
<1>1. DiskOK'
  BY DEF IInv, DiskOK, Close
<1>2. Shape'
  <2>1. /\ phase' = "closed" /\ pass' = 0 /\ src' = 1 /\ line' = 0 /\ maxnspec' = 0
        /\ spec_arr' = << >> /\ nspec' = 0 /\ answer' = NoAnswer
    BY DEF Close
  <2>2. /\ IsSeq(spec_arr') /\ Len(spec_arr') = 0
    BY <2>1, Empty
  <2>3. 1..0 = {} /\ 0 \in 0..1 /\ 1 \in 1..3 /\ 0 \in Nat /\ 0 <= 0
    OBVIOUS
  <2>4. QED
    BY <2>1, <2>2, <2>3 DEF Shape
<1>3. phase' = "closed"
  BY DEF Close
<1>4. QED
  BY <1>1, <1>2, <1>3 DEF IInv, ReadingRight, OpenRight

\* An edit: from here on nothing is said of what is read.
LEMMA EditShape ==
    ASSUME IInv, Edit
    PROVE  IInv'
<1>1. DiskOK'
  BY EditKeeps DEF IInv
<1>2. UNCHANGED <<opts, phase, pass, src, line, maxnspec, spec_arr, nspec, stem_arr, answer>>
      /\ edited'
  BY DEF Edit, reader
<1>3. Shape'
  <2>1. Sources' = Sources
    BY <1>2 DEF Sources
  <2>2. QED
    BY <1>2, <2>1 DEF IInv, Shape
<1>4. QED
  BY <1>1, <1>2, <1>3 DEF IInv, ReadingRight, OpenRight

\* Sets of numbers up to k and up to k + 1.
LEMMA Beginnings ==
    ASSUME NEW k \in Nat
    PROVE  /\ SUBSET (1..0) = {{}}
           /\ \A x \in SUBSET (1..k) : x # {} => /\ Max(x) \in x
                                                 /\ x \ {Max(x)} \in SUBSET (1..k)
           /\ \A x \in SUBSET (1..(k + 1)) : x \notin SUBSET (1..k) =>
                 Max(x) = k + 1 /\ x # {} /\ x \ {k + 1} \in SUBSET (1..k)
           /\ Max(1..(k + 1)) = k + 1 /\ (1..(k + 1)) \ {k + 1} = 1..k
           /\ 1..(k + 1) # {} /\ 1..0 = {}
<1>1. SUBSET (1..0) = {{}} /\ 1..0 = {}
  <2>1. 1..0 = {}
    OBVIOUS
  <2>2. QED
    BY <2>1
<1>2. ASSUME NEW n \in Nat, NEW x \in SUBSET (1..n), x # {}
      PROVE  Max(x) \in x /\ \A y \in x : Max(x) >= y
  <2>1. x \in SUBSET (0..n)
    OBVIOUS
  <2>2. QED
    BY <1>2, <2>1, MaxIs
<1>3. \A x \in SUBSET (1..k) : x # {} => /\ Max(x) \in x
                                         /\ x \ {Max(x)} \in SUBSET (1..k)
  BY <1>2
<1>4. ASSUME NEW x \in SUBSET (1..(k + 1)), x \notin SUBSET (1..k)
      PROVE  Max(x) = k + 1 /\ x # {} /\ x \ {k + 1} \in SUBSET (1..k)
  <2>1. k + 1 \in x
    <3>1. PICK y \in x : y \notin 1..k
      BY <1>4
    <3>2. y \in 1..(k + 1)
      OBVIOUS
    <3>3. y = k + 1
      BY <3>1, <3>2
    <3>4. QED
      BY <3>3
  <2>2. Max(x) \in x /\ Max(x) >= k + 1
    <3>1. k + 1 \in Nat /\ x # {}
      BY <2>1
    <3>2. Max(x) \in x /\ \A y \in x : Max(x) >= y
      BY <1>2, <3>1
    <3>3. QED
      BY <2>1, <3>2
  <2>3. Max(x) \in 1..(k + 1)
    BY <2>2
  <2>4. Max(x) = k + 1
    BY <2>2, <2>3
  <2>5. \A y \in x \ {k + 1} : y \in 1..k
    <3> TAKE y \in x \ {k + 1}
    <3>1. y \in 1..(k + 1) /\ y # k + 1
      OBVIOUS
    <3>2. QED
      BY <3>1
  <2>6. QED
    BY <2>1, <2>4, <2>5
<1>5. k + 1 \in 1..(k + 1) /\ k + 1 \notin 1..k
  OBVIOUS
<1>6. Max(1..(k + 1)) = k + 1 /\ 1..(k + 1) # {}
  BY <1>4, <1>5
<1>7. (1..(k + 1)) \ {k + 1} = 1..k
  OBVIOUS
<1>8. QED
  BY <1>1, <1>3, <1>4, <1>6, <1>7

\* The better of the best so far and the next that was found.
Better(best, i) == IF i # 0 /\ Longer(i, best) THEN i ELSE best

\* The function of the fold over the first n that were found.
Folding(g, n, base, q) ==
    g = [x \in SUBSET (1..n) |->
            IF x = {} THEN base ELSE Better(g[x \ {Max(x)}], q[Max(x)])]

\* There is one.
LEMMA Recursion ==
    ASSUME NEW n \in Nat, NEW base, NEW q
    PROVE  \E g : Folding(g, n, base, q)
<1> DEFINE Is(g, k) == g = [x \in SUBSET (1..k) |->
                          IF x = {} THEN base ELSE Better(g[x \ {Max(x)}], q[Max(x)])]
           T == { k \in Nat : \E g : Is(g, k) }
<1>1. 0 \in T
  <2> DEFINE g == [x \in SUBSET (1..0) |-> base]
  <2>1. g = [x \in SUBSET (1..0) |->
                IF x = {} THEN base ELSE Better(g[x \ {Max(x)}], q[Max(x)])]
    <3>1. \A x \in SUBSET (1..0) : x = {}
      BY Beginnings
    <3>2. QED
      BY <3>1
  <2>2. QED
    BY <2>1
<1>2. ASSUME NEW k \in Nat, k \in T PROVE k + 1 \in T
  <2>1. PICK g : Is(g, k)
    BY <1>2
  <2> DEFINE h == [x \in SUBSET (1..(k + 1)) |->
                      IF x \in SUBSET (1..k) THEN g[x]
                      ELSE Better(g[x \ {Max(x)}], q[Max(x)])]
  <2>2. \A x \in SUBSET (1..(k + 1)) :
            h[x] = IF x = {} THEN base ELSE Better(h[x \ {Max(x)}], q[Max(x)])
    <3> TAKE x \in SUBSET (1..(k + 1))
    <3>0. \A y \in SUBSET (1..k) : y \in SUBSET (1..(k + 1)) /\ h[y] = g[y]
      OBVIOUS
    <3> HIDE DEF h
    <3>1. CASE x \in SUBSET (1..k)
      <4>1. h[x] = g[x] /\ g[x] = IF x = {} THEN base ELSE Better(g[x \ {Max(x)}], q[Max(x)])
        BY <2>1, <3>0, <3>1
      <4>2. x # {} => h[x \ {Max(x)}] = g[x \ {Max(x)}]
        BY <3>0, <3>1, Beginnings
      <4>3. QED
        BY <4>1, <4>2
    <3>2. CASE x \notin SUBSET (1..k)
      <4>1. Max(x) = k + 1 /\ x # {} /\ x \ {Max(x)} \in SUBSET (1..k)
        BY <3>2, Beginnings
      <4>2. h[x] = Better(g[x \ {Max(x)}], q[Max(x)])
        BY <3>2 DEF h
      <4>3. h[x \ {Max(x)}] = g[x \ {Max(x)}]
        BY <3>0, <4>1
      <4>4. QED
        BY <4>1, <4>2, <4>3
    <3>3. QED
      BY <3>1, <3>2
  <2>3. h = [x \in SUBSET (1..(k + 1)) |-> h[x]]
    OBVIOUS
  <2> HIDE DEF h
  <2>4. Is(h, k + 1)
    BY <2>2, <2>3, Zenon
  <2>5. k + 1 \in Nat
    OBVIOUS
  <2> HIDE DEF Is
  <2>6. QED
    BY <2>4, <2>5
<1>3. n \in T
  <2> HIDE DEF T
  <2>1. Nat \subseteq T
    BY <1>1, <1>2, FromZero
  <2>2. QED
    BY <2>1
<1>4. QED
  BY <1>3 DEF Folding

\* Such a function, at the beginnings.
LEMMA AtBeginnings ==
    ASSUME NEW n \in Nat, NEW k \in 1..n
    PROVE  /\ 1..k \in SUBSET (1..n) /\ 1..k # {} /\ Max(1..k) = k
           /\ (1..k) \ {Max(1..k)} = 1..(k - 1)
           /\ {} \in SUBSET (1..n) /\ 1..0 = {}
<1>1. PICK l \in Nat : k = l + 1
  <2>1. k - 1 \in Nat /\ k = (k - 1) + 1
    OBVIOUS
  <2>2. QED
    BY <2>1
<1>2. Max(1..k) = k /\ (1..k) \ {k} = 1..l /\ 1..k # {} /\ 1..0 = {}
  BY <1>1, Beginnings
<1>3. l = k - 1 /\ 1..k \in SUBSET (1..n)
  BY <1>1
<1>4. QED
  BY <1>2, <1>3

-----------------------------------------------------------------------------
(* What is found. *)

\* A path without doubled slashes is one.
LEMMA CleanIs ==
    ASSUME NEW key, IsSeq(key)
    PROVE  IsSeq(Clean(key))
<1> DEFINE S == { i \in DOMAIN key : key[i] # Slash }
<1>1. DOMAIN key = 1..Len(key)
  BY DEF IsSeq
<1>2. S \in SUBSET (1..Len(key))
  BY <1>1
<1> HIDE DEF S
<1>3. IsSeq(Picked(key, S))
  BY <1>2, PickedIs
<1>4. QED
  BY <1>3 DEF Clean, S

\* There is one last line.
LEMMA LastLineIs ==
    ASSUME DiskOK, NEW S \in SUBSET Positions, NEW p \in S,
           \A q \in S : q = p \/ Precedes(q, p)
    PROVE  LastLine(S) = p
<1>1. \A r \in S : (\A q \in S : q = r \/ Precedes(q, r)) => r = p
  <2> SUFFICES ASSUME NEW r \in S, \A q \in S : q = r \/ Precedes(q, r), r # p
               PROVE  FALSE
    OBVIOUS
  <2>1. Precedes(r, p) /\ Precedes(p, r)
    OBVIOUS
  <2>2. p \in Positions /\ r \in Positions
    OBVIOUS
  <2>3. QED
    BY <2>1, <2>2, Preceding
<1>2. QED
  BY <1>1, Zenon DEF LastLine

\* An open file backend and a slot of it.
FileSlot(i, p) ==
    /\ IInv /\ phase = "open" /\ opts.backend = "file"
    /\ i \in 1..nspec /\ i \in 1..Len(spec_arr) /\ p \in Effective
    /\ Holds(spec_arr[i], LineAt(p))

\* What such a slot holds.
LEMMA FileSlotIs ==
    ASSUME NEW i, NEW p, FileSlot(i, p)
    PROVE  /\ DiskOK /\ Shape /\ p \in Positions /\ p # Nowhere
           /\ spec_arr[i].regex = LineAt(p).regex /\ spec_arr[i].ctx = LineAt(p).ctx
           /\ spec_arr[i].type = LineAt(p).type
           /\ spec_arr[i].stem = StemOfSpec(LineAt(p).regex)
           /\ spec_arr[i].stem \in stem_arr \cup {NoStem}
           /\ IsRe(LineAt(p).regex) /\ LineAt(p).ctx # None /\ LineAt(p).kind = "spec"
           /\ Kept(LineAt(p))
<1>1. DiskOK /\ Shape
  BY DEF FileSlot, IInv
<1>2. p \in Positions /\ Kept(LineAt(p))
  BY <1>1, EffectiveIs DEF FileSlot, Effective
<1>3. Holds(spec_arr[i], LineAt(p)) /\ opts.backend = "file"
  BY DEF FileSlot
<1>4. spec_arr[i].stem \in stem_arr \cup {NoStem}
  BY <1>1 DEF FileSlot, Shape
<1>5. IsRe(LineAt(p).regex) /\ LineAt(p).ctx # None /\ LineAt(p).kind = "spec" /\ p # Nowhere
  BY <1>1, <1>2, <1>3, LineIs
<1>6. QED
  BY <1>1, <1>2, <1>3, <1>4, <1>5 DEF Holds

\* The stems that are tried are those the expression may have.
LEMMA StemTried ==
    ASSUME NEW i, NEW p, FileSlot(i, p), NEW key
    PROVE  spec_arr[i].stem \in {NoStem, FileStem(Clean(key))}
             <=> \/ StemOfSpec(LineAt(p).regex) = NoStem
                 \/ StemOfSpec(LineAt(p).regex) = StemOfFile(Clean(key))
<1>1. spec_arr[i].stem = StemOfSpec(LineAt(p).regex) /\ spec_arr[i].stem \in stem_arr \cup {NoStem}
  BY FileSlotIs
<1>2. QED
  BY <1>1 DEF FileStem

\* What is executed is the expression behind its stem.
LEMMA ExecutedIs ==
    ASSUME NEW i, NEW p, FileSlot(i, p), CompiledRight(spec_arr[i])
    PROVE  Executed(spec_arr[i]) = IF LineAt(p).regex.compiles THEN Compiled(LineAt(p).regex)
                                   ELSE None
<1>1. spec_arr[i].regex = LineAt(p).regex /\ IsRe(LineAt(p).regex)
  BY FileSlotIs
<1>2. Compiled(LineAt(p).regex) # None
  BY <1>1 DEF IsRe
<1>3. QED
  BY <1>1, <1>2 DEF Executed, CompiledRight

\* A specification that is tried and matches fits.
LEMMA EndsFits ==
    ASSUME NEW i, NEW p, FileSlot(i, p), CompiledRight(spec_arr[i]), NEW key, IsSeq(key),
           NEW type, i \in Tried(key, type), Executed(spec_arr[i]) # None
    PROVE  /\ Ends(i, key, FALSE) => Fits(LineAt(p), Clean(key), type)
           /\ Ends(i, key, TRUE) => MayFit(LineAt(p), Clean(key))
<1> DEFINE re == LineAt(p).regex
           path == Clean(key)
<1>1. /\ IsRe(re) /\ spec_arr[i].stem = StemOfSpec(re) /\ spec_arr[i].type = LineAt(p).type
  BY FileSlotIs
<1>2. IsSeq(path)
  BY CleanIs
<1>3. StemOfSpec(re) = NoStem \/ StemOfSpec(re) = StemOfFile(path)
  BY StemTried DEF Tried
<1>4. type = AnyType \/ LineAt(p).type \in {AnyType, type}
  BY <1>1 DEF Tried
<1>5. Executed(spec_arr[i]) = Compiled(re)
  BY ExecutedIs
<1> HIDE DEF re, path
<1>6. /\ Matches(Compiled(re), Behind(path, StemOfSpec(re))) <=> Matches(re, path)
      /\ PartlyMatches(Compiled(re), Behind(path, StemOfSpec(re))) <=> PartlyMatches(re, path)
  BY <1>1, <1>2, <1>3, BehindStem
<1>7. Ends(i, key, FALSE) => Matches(re, path)
  BY <1>1, <1>5, <1>6 DEF Ends, path
<1>8. Ends(i, key, TRUE) => Matches(re, path) \/ PartlyMatches(re, path)
  BY <1>1, <1>5, <1>6 DEF Ends, path
<1>9. QED
  BY <1>4, <1>7, <1>8 DEF Fits, MayFit, re, path

\* One that fits is tried and matches.
LEMMA FitsEnds ==
    ASSUME NEW i, NEW p, FileSlot(i, p), CompiledRight(spec_arr[i]), NEW key, IsSeq(key),
           NEW type, LineAt(p).regex.compiles, ~LineAt(p).regex.escaped
    PROVE  /\ Executed(spec_arr[i]) # None
           /\ Fits(LineAt(p), Clean(key), type) =>
                  i \in Tried(key, type) /\ Ends(i, key, FALSE)
           /\ MayFit(LineAt(p), Clean(key)) /\ Len(Clean(key)) > 1 =>
                  i \in Tried(key, AnyType) /\ Ends(i, key, TRUE)
<1> DEFINE re == LineAt(p).regex
           path == Clean(key)
<1>1. /\ IsRe(re) /\ spec_arr[i].stem = StemOfSpec(re) /\ spec_arr[i].type = LineAt(p).type
  BY FileSlotIs
<1>2. IsSeq(path) /\ i \in 1..nspec
  BY CleanIs DEF FileSlot
<1>3. Executed(spec_arr[i]) = Compiled(re) /\ Compiled(re) # None
  BY <1>1, ExecutedIs DEF IsRe
<1>4. spec_arr[i].stem \in {NoStem, FileStem(path)}
        <=> (StemOfSpec(re) = NoStem \/ StemOfSpec(re) = StemOfFile(path))
  BY StemTried
<1>5. ~re.escaped
  OBVIOUS
<1> HIDE DEF re, path
<1>6. StemOfSpec(re) = NoStem \/ StemOfSpec(re) = StemOfFile(path) =>
        /\ Matches(Compiled(re), Behind(path, StemOfSpec(re))) <=> Matches(re, path)
        /\ PartlyMatches(Compiled(re), Behind(path, StemOfSpec(re))) <=> PartlyMatches(re, path)
  BY <1>1, <1>2, BehindStem
<1>7. Matches(re, path) => StemOfSpec(re) = NoStem \/ StemOfSpec(re) = StemOfFile(path)
  BY <1>1, <1>2, <1>5, StemNeeded
<1>8. PartlyMatches(re, path) /\ Len(path) > 1 =>
          StemOfSpec(re) = NoStem \/ StemOfSpec(re) = StemOfFile(path)
  <2>1. Len(path) \in Nat
    BY <1>2 DEF IsSeq
  <2>2. Len(path) > 1 => Len(path) >= 2
    BY <2>1
  <2>3. QED
    BY <1>1, <1>2, <1>5, <2>2, StemNeeded
<1>9. ASSUME Fits(LineAt(p), Clean(key), type)
      PROVE  i \in Tried(key, type) /\ Ends(i, key, FALSE)
  <2>1. Matches(re, path) /\ (type = AnyType \/ LineAt(p).type \in {AnyType, type})
    BY <1>9 DEF Fits, re, path
  <2>2. spec_arr[i].stem \in {NoStem, FileStem(path)}
    BY <1>4, <1>7, <2>1
  <2>3. i \in Tried(key, type)
    BY <1>1, <1>2, <2>1, <2>2 DEF Tried, path
  <2>4. Matches(Executed(spec_arr[i]), Behind(path, spec_arr[i].stem))
    BY <1>1, <1>3, <1>6, <1>7, <2>1
  <2>5. QED
    BY <2>3, <2>4 DEF Ends, path
<1>10. ASSUME MayFit(LineAt(p), Clean(key)), Len(Clean(key)) > 1
       PROVE  i \in Tried(key, AnyType) /\ Ends(i, key, TRUE)
  <2>1. (Matches(re, path) \/ PartlyMatches(re, path)) /\ Len(path) > 1
    BY <1>10 DEF MayFit, re, path
  <2>2. spec_arr[i].stem \in {NoStem, FileStem(path)}
    BY <1>4, <1>7, <1>8, <2>1
  <2>3. i \in Tried(key, AnyType)
    BY <1>2, <2>2 DEF Tried, path
  <2>4. \/ Matches(Executed(spec_arr[i]), Behind(path, spec_arr[i].stem))
        \/ PartlyMatches(Executed(spec_arr[i]), Behind(path, spec_arr[i].stem))
    BY <1>1, <1>3, <1>6, <1>7, <1>8, <2>1
  <2>5. QED
    BY <2>3, <2>4 DEF Ends, path
<1>11. QED
  BY <1>3, <1>9, <1>10

\* An open handle of which the answers are those of the files.
SoundOpen(at) ==
    /\ IInv /\ phase = "open" /\ Sound
    /\ at \in [1..nspec -> Effective] /\ InTriedOrder(at)

\* What is known of such a handle.
LEMMA SoundOpenIs ==
    ASSUME NEW at, SoundOpen(at)
    PROVE  /\ DiskOK /\ nspec \in Nat
           /\ \A i \in 1..nspec :
                 /\ at[i] \in Effective /\ FileSlot(i, at[i]) /\ CompiledRight(spec_arr[i])
                 /\ LineAt(at[i]).regex.compiles /\ ~LineAt(at[i]).regex.escaped
           /\ \A p \in Effective : \E i \in 1..nspec : at[i] = p
           /\ \A i, j \in 1..nspec : i < j =>
                 /\ IsExact(LineAt(at[i])) => IsExact(LineAt(at[j]))
                 /\ (IsExact(LineAt(at[i])) <=> IsExact(LineAt(at[j]))) => Precedes(at[i], at[j])
<1>1. /\ IInv /\ DiskOK /\ Shape /\ phase = "open" /\ ~edited /\ opts.backend = "file"
      /\ nspec \in Nat /\ at \in [1..nspec -> Effective] /\ InTriedOrder(at)
  BY DEF SoundOpen, Sound, IInv, Shape
<1>2. /\ Len(spec_arr) = nspec /\ (Untouched => \A i \in 1..nspec : CompiledRight(spec_arr[i]))
  BY <1>1 DEF IInv, OpenRight
<1>3. \A p \in Positions : LineAt(p).kind = "spec" =>
          /\ LineAt(p).regex.compiles /\ ~LineAt(p).regex.escaped
          /\ opts.validating => LineAt(p).type # "bad"
  BY DEF SoundOpen, Sound
<1>4. Untouched
  <2>1. \A p \in KeptOnes : p \in Positions /\ LineAt(p).kind = "spec"
    BY DEF KeptOnes, Kept
  <2>2. QED
    BY <1>1, <1>3, <2>1 DEF Untouched
<1>5. \A i \in 1..nspec : at[i] \in Effective /\ FileSlot(i, at[i])
  BY <1>1, <1>2 DEF FileSlot, InTriedOrder
<1>6. \A i \in 1..nspec : /\ LineAt(at[i]).regex.compiles /\ ~LineAt(at[i]).regex.escaped
                          /\ spec_arr[i].regex = LineAt(at[i]).regex
  <2> TAKE i \in 1..nspec
  <2>1. /\ at[i] \in Positions /\ LineAt(at[i]).kind = "spec"
        /\ spec_arr[i].regex = LineAt(at[i]).regex
    BY <1>5, FileSlotIs
  <2>2. QED
    BY <1>3, <2>1
<1>7. \A i, j \in 1..nspec : i < j =>
                 /\ IsExact(LineAt(at[i])) => IsExact(LineAt(at[j]))
                 /\ (IsExact(LineAt(at[i])) <=> IsExact(LineAt(at[j]))) => Precedes(at[i], at[j])
  <2> TAKE i, j \in 1..nspec
  <2> HAVE i < j
  <2>1. Ahead(spec_arr[i], spec_arr[j], Precedes(at[i], at[j]))
    BY <1>1 DEF InTriedOrder
  <2>2. IsExact(spec_arr[i]) = IsExact(LineAt(at[i])) /\ IsExact(spec_arr[j]) = IsExact(LineAt(at[j]))
    BY <1>6 DEF IsExact
  <2>3. QED
    BY <1>1, <2>1, <2>2 DEF Ahead
<1>8. QED
  BY <1>1, <1>2, <1>4, <1>5, <1>6, <1>7 DEF InTriedOrder

\* The greatest is the last.
LEMMA LastIs ==
    ASSUME NEW n \in Nat, NEW S \in SUBSET (1..n), S # {}
    PROVE  Max(S) \in S /\ Max(S) \in 1..n /\ Max(S) # 0 /\ \A y \in S : y = Max(S) \/ y < Max(S)
<1>1. S \in SUBSET (0..n)
  OBVIOUS
<1>2. Max(S) \in S /\ \A y \in S : Max(S) >= y
  BY <1>1, MaxIs
<1>3. Max(S) \in 1..n /\ \A y \in S : y \in 1..n
  BY <1>2
<1>4. QED
  BY <1>2, <1>3

\* The last of those that are tried is the one that is meant.
LEMMA MeantIs ==
    ASSUME NEW at, SoundOpen(at), NEW key, IsSeq(key), NEW type
    PROVE  LET i == LastOf(key, type, FALSE)
               m == Meant(key, type)
           IN  /\ i = 0 => m = Nowhere
               /\ i # 0 => i \in 1..nspec /\ at[i] = m /\ m \in Effective
<1> DEFINE S == { i \in Tried(key, type) : Ends(i, key, FALSE) }
           fit == { p \in Effective : Fits(LineAt(p), Clean(key), type) }
           exact == { p \in fit : ~HasMetaChars(LineAt(p).regex) }
<1>1. /\ DiskOK /\ nspec \in Nat
      /\ \A i \in 1..nspec :
                 /\ at[i] \in Effective /\ FileSlot(i, at[i]) /\ CompiledRight(spec_arr[i])
                 /\ LineAt(at[i]).regex.compiles /\ ~LineAt(at[i]).regex.escaped
      /\ \A p \in Effective : \E i \in 1..nspec : at[i] = p
      /\ \A i, j \in 1..nspec : i < j =>
            /\ IsExact(LineAt(at[i])) => IsExact(LineAt(at[j]))
            /\ (IsExact(LineAt(at[i])) <=> IsExact(LineAt(at[j]))) => Precedes(at[i], at[j])
  BY SoundOpenIs
<1>2. S \in SUBSET (1..nspec)
  BY DEF Tried
<1>3. \A i \in 1..nspec : i \in S <=> at[i] \in fit
  <2> TAKE i \in 1..nspec
  <2>1. /\ FileSlot(i, at[i]) /\ CompiledRight(spec_arr[i]) /\ at[i] \in Effective
        /\ LineAt(at[i]).regex.compiles /\ ~LineAt(at[i]).regex.escaped
    BY <1>1
  <2>2. /\ Executed(spec_arr[i]) # None
        /\ Fits(LineAt(at[i]), Clean(key), type) => i \in Tried(key, type) /\ Ends(i, key, FALSE)
    BY <2>1, FitsEnds
  <2>3. i \in Tried(key, type) /\ Ends(i, key, FALSE) => Fits(LineAt(at[i]), Clean(key), type)
    BY <2>1, <2>2, EndsFits
  <2>4. QED
    BY <2>1, <2>2, <2>3
<1>4. LastOf(key, type, FALSE) = IF S = {} THEN 0 ELSE Max(S)
  BY DEF LastOf, Comes
<1>5. Meant(key, type) = IF exact # {} THEN LastLine(exact)
                         ELSE IF fit # {} THEN LastLine(fit) ELSE Nowhere
  BY DEF Meant
<1>6. /\ exact \in SUBSET fit /\ fit \in SUBSET Effective /\ Effective \in SUBSET Positions
      /\ \A p \in fit : p \in exact <=> IsExact(LineAt(p))
  BY <1>1, EffectiveIs DEF IsExact
<1> HIDE DEF S, fit, exact
<1>7. CASE S = {}
  <2>1. fit = {}
    BY <1>1, <1>3, <1>6, <1>7
  <2>2. QED
    BY <1>4, <1>5, <1>6, <1>7, <2>1
<1>8. CASE S # {}
  <2> DEFINE i == Max(S)
  <2>1. i \in S /\ i \in 1..nspec /\ i # 0 /\ \A j \in S : j = i \/ j < i
    BY <1>1, <1>2, <1>8, LastIs
  <2> HIDE DEF i
  <2>2. at[i] \in fit
    BY <1>3, <2>1
  <2>3. \A p \in fit : \E j \in S : at[j] = p
    BY <1>1, <1>3, <1>6
  <2>4. \A p \in fit : p # at[i] =>
            /\ IsExact(LineAt(p)) => IsExact(LineAt(at[i]))
            /\ (IsExact(LineAt(p)) <=> IsExact(LineAt(at[i]))) => Precedes(p, at[i])
    <3> TAKE p \in fit
    <3> HAVE p # at[i]
    <3>1. PICK j \in S : at[j] = p
      BY <2>3
    <3>2. j \in 1..nspec /\ j < i
      BY <1>2, <2>1, <3>1
    <3>3. QED
      BY <1>1, <2>1, <3>1, <3>2
  <2>5. CASE IsExact(LineAt(at[i]))
    <3>1. at[i] \in exact
      BY <1>6, <2>2, <2>5
    <3>2. \A p \in exact : p = at[i] \/ Precedes(p, at[i])
      BY <1>6, <2>4, <2>5
    <3>3. LastLine(exact) = at[i]
      BY <1>1, <1>6, <3>1, <3>2, LastLineIs
    <3>4. QED
      BY <1>4, <1>5, <1>6, <1>8, <2>1, <2>2, <3>1, <3>3 DEF i
  <2>6. CASE ~IsExact(LineAt(at[i]))
    <3>1. exact = {}
      <4>1. \A p \in fit : ~IsExact(LineAt(p))
        BY <2>4, <2>6
      <4>2. QED
        BY <1>6, <4>1
    <3>2. \A p \in fit : p = at[i] \/ Precedes(p, at[i])
      BY <2>4, <2>6, <3>1, <1>6
    <3>3. LastLine(fit) = at[i]
      BY <1>1, <1>6, <2>2, <3>2, LastLineIs
    <3>4. QED
      BY <1>4, <1>5, <1>6, <1>8, <2>1, <2>2, <3>1, <3>3 DEF i
  <2>7. QED
    BY <2>5, <2>6
<1>9. QED
  BY <1>7, <1>8

\* What is found is what is meant, if it has a label.
LEMMA FoundIs ==
    ASSUME NEW at, SoundOpen(at), NEW key, IsSeq(key), NEW type
    PROVE  LET i == Found(key, type, FALSE)
               m == Meant(key, type)
           IN  /\ i = 0 <=> Context(m) = None
               /\ ContextOf(i) = Context(m)
               /\ i # 0 => i \in 1..nspec /\ at[i] = m /\ m \in Effective
                           /\ spec_arr[i].regex = LineAt(m).regex
<1> DEFINE i == LastOf(key, type, FALSE)
           m == Meant(key, type)
           f == Found(key, type, FALSE)
<1>1. /\ i = 0 => m = Nowhere
      /\ i # 0 => i \in 1..nspec /\ at[i] = m /\ m \in Effective
  BY MeantIs
<1>2. f = IF i = 0 THEN 0
          ELSE IF Executed(spec_arr[i]) = None \/ spec_arr[i].ctx = NoLabel THEN 0 ELSE i
  BY DEF Found
<1> HIDE DEF i, m, f
<1>3. CASE i = 0
  BY <1>1, <1>2, <1>3 DEF Context, ContextOf, f, m
<1>4. CASE i # 0
  <2>1. /\ FileSlot(i, at[i]) /\ CompiledRight(spec_arr[i])
        /\ LineAt(at[i]).regex.compiles /\ ~LineAt(at[i]).regex.escaped
    BY <1>1, <1>4, SoundOpenIs
  <2>2. Executed(spec_arr[i]) # None
    <3>1. Executed(spec_arr[i]) = Compiled(LineAt(at[i]).regex) /\ IsRe(LineAt(at[i]).regex)
      BY <2>1, ExecutedIs, FileSlotIs
    <3>2. QED
      BY <3>1 DEF IsRe
  <2>3. /\ spec_arr[i].ctx = LineAt(m).ctx /\ LineAt(m).ctx # None /\ m # Nowhere
        /\ spec_arr[i].regex = LineAt(m).regex
    BY <1>1, <1>4, <2>1, FileSlotIs
  <2>4. Context(m) = IF spec_arr[i].ctx = NoLabel THEN None ELSE spec_arr[i].ctx
    BY <2>3 DEF Context
  <2>5. f = IF spec_arr[i].ctx = NoLabel THEN 0 ELSE i
    BY <1>2, <1>4, <2>2
  <2>6. QED
    BY <1>1, <1>4, <2>3, <2>4, <2>5 DEF ContextOf, f, m
<1>5. QED
  BY <1>3, <1>4

-----------------------------------------------------------------------------
(* The answers. *)

\* What the files say stays the same while they do.
LEMMA SameMeanings ==
    ASSUME UNCHANGED <<disk, opts, edited>>
    PROVE  /\ Sound' <=> Sound
           /\ \A p : Context(p)' = Context(p)
           /\ \A key, type : Meant(key, type)' = Meant(key, type)
<1>1. /\ Positions' = Positions /\ Effective' = Effective
      /\ \A p : LineAt(p)' = LineAt(p)
  BY SameFiles
<1>2. Sound' <=> Sound
  BY <1>1 DEF Sound
<1>3. \A p : Context(p)' = Context(p)
  BY <1>1 DEF Context
<1>4. ASSUME NEW key, NEW type PROVE Meant(key, type)' = Meant(key, type)
  <2> DEFINE fit == { p \in Effective : Fits(LineAt(p), Clean(key), type) }
             exact == { p \in fit : ~HasMetaChars(LineAt(p).regex) }
  <2>1. Meant(key, type) = IF exact # {} THEN LastLine(exact)
                           ELSE IF fit # {} THEN LastLine(fit) ELSE Nowhere
    BY DEF Meant
  <2>2. (Meant(key, type) = IF exact # {} THEN LastLine(exact)
                           ELSE IF fit # {} THEN LastLine(fit) ELSE Nowhere)'
    BY DEF Meant
  <2>3. fit' = fit
    BY <1>1
  <2>4. exact' = exact
    BY <1>1, <2>3
  <2> HIDE DEF fit, exact
  <2>5. QED
    BY <2>1, <2>2, <2>3, <2>4
<1>5. QED
  BY <1>2, <1>3, <1>4


-----------------------------------------------------------------------------
(* Every step. *)

\* A handle that is not open.
LEMMA InitHolds == Init => IInv
<1> SUFFICES ASSUME Init PROVE IInv
  OBVIOUS
<1>1. /\ disk \in Disks /\ edits = 0 /\ phase = "closed" /\ pass = 0 /\ src = 1 /\ line = 0
      /\ maxnspec = 0 /\ spec_arr = << >> /\ nspec = 0 /\ stem_arr = {} /\ answer = NoAnswer
  BY DEF Init
<1>2. DiskOK
  <2>1. MaxEdits - edits = MaxEdits /\ edits \in 0..MaxEdits
    BY <1>1, DisksAssumption
  <2>2. QED
    BY <1>1, <2>1, DisksAssumption DEF DiskOK
<1>3. Shape
  <2>1. IsSeq(spec_arr) /\ Len(spec_arr) = 0 /\ 1..0 = {}
    BY <1>1, Empty
  <2>2. QED
    BY <1>1, <2>1 DEF Shape
<1>4. QED
  BY <1>1, <1>2, <1>3 DEF IInv, ReadingRight, OpenRight

LEMMA ReadLineKeeps ==
    ASSUME IInv, ReadLine
    PROVE  IInv'
<1>1. /\ UNCHANGED <<disk, edits, phase>> /\ phase = "reading"
  BY DEF ReadLine
<1>2. DiskOK'
  BY <1>1 DEF IInv, DiskOK
<1>3. Shape'
  BY ReadLineShape DEF IInv
<1>4. ReadingRight'
  BY ReadLineRight
<1>5. OpenRight'
  BY <1>1 DEF OpenRight
<1>6. QED
  BY <1>2, <1>3, <1>4, <1>5 DEF IInv

LEMMA EndOfFileKeeps ==
    ASSUME IInv, EndOfFile
    PROVE  IInv'
<1>1. UNCHANGED <<disk, edits>>
  BY Zenon DEF EndOfFile
<1>2. DiskOK'
  BY <1>1 DEF IInv, DiskOK
<1>3. Shape'
  BY EndShape DEF IInv
<1>4. QED
  BY <1>2, <1>3, EndReadingRight, EndOpenRight DEF IInv

\* What a lookup does to everything but the answer.
LEMMA LooksUp ==
    ASSUME NEW key, NEW type, NEW aliases,
           Lookup(key, type) \/ PartialMatch(key) \/ BestMatch(key, aliases, type)
    PROVE  /\ phase = "open" /\ answer = NoAnswer
           /\ UNCHANGED <<disk, edits, opts, phase, reader, nspec, stem_arr, edited>>
           /\ spec_arr' = spec_arr \/ \E S : spec_arr' = CompiledBy(S)
<1>1. CASE Lookup(key, type)
  <2>1. CASE opts.backend = "property"
    BY <1>1, <2>1, Zenon DEF Lookup, Answered
  <2>2. CASE opts.backend # "property"
    BY <1>1, <2>2, Zenon DEF Lookup, Answered
  <2>3. QED
    BY <2>1, <2>2
<1>2. CASE PartialMatch(key)
  <2>1. CASE opts.backend = "property"
    BY <1>2, <2>1, Zenon DEF PartialMatch
  <2>2. CASE opts.backend # "property"
    BY <1>2, <2>2, Zenon DEF PartialMatch
  <2>3. QED
    BY <2>1, <2>2
<1>3. CASE BestMatch(key, aliases, type)
  BY <1>3, Zenon DEF BestMatch, Answered
<1>4. QED
  BY <1>1, <1>2, <1>3

\* Taking an answer, and doing nothing.
LEMMA RestsKeeps ==
    ASSUME IInv, UNCHANGED <<disk, edits, opts, phase, reader, spec_arr, nspec, stem_arr, edited>>,
           answer' \in {answer, NoAnswer}
    PROVE  IInv'
<1>1. UNCHANGED <<pass, src, line, maxnspec>>
  BY DEF reader
<1>2. /\ Effective' = Effective /\ KeptOnes' = KeptOnes /\ Sources' = Sources
      /\ \A p : LineAt(p)' = LineAt(p)
      /\ \A k : Lines(Sources[k])' = Lines(Sources[k])
      /\ \A s, n : ReadTo(s, n)' = ReadTo(s, n)
      /\ \A s, l : Holds(s, l)' = Holds(s, l)
      /\ (Untouched <=> Untouched') /\ (NoConflicts <=> NoConflicts')
  BY SameFiles
<1>3. DiskOK'
  BY DEF IInv, DiskOK
<1>4. Shape'
  BY <1>1, <1>2 DEF IInv, Shape
<1>5. ReadingRight'
  <2> SUFFICES ASSUME phase = "reading", ~edited PROVE ReadingRight'
    BY DEF ReadingRight
  <2>1. line <= Len(Lines(Sources[src])) /\ (pass = 0 => Counting) /\ (pass = 1 => Storing)
    BY DEF IInv, ReadingRight
  <2>2. Counting => Counting'
    BY <1>1, <1>2 DEF Counting
  <2>3. Storing => Storing'
    <3> SUFFICES ASSUME Storing PROVE Storing'
      OBVIOUS
    <3>1. PICK at \in [1..nspec -> Effective] : InFileOrder(at)
      BY DEF Storing
    <3>2. InFileOrder(at)'
      BY <1>1, <1>2, <3>1 DEF InFileOrder, Precedes
    <3>3. \E h \in [1..nspec' -> Effective'] : InFileOrder(h)'
      BY <1>2, <3>2
    <3>4. QED
      BY <1>1, <1>2, <3>3 DEF Storing, CompiledRight
  <2>4. (line <= Len(Lines(Sources[src])))'
    BY <1>1, <1>2, <2>1
  <2>5. QED
    BY <1>1, <2>1, <2>2, <2>3, <2>4 DEF ReadingRight
<1>6. OpenRight'
  <2> SUFFICES ASSUME phase = "open", ~edited PROVE OpenRight'
    BY DEF OpenRight
  <2>1. PICK at \in [1..nspec -> Effective] : InTriedOrder(at)
    BY DEF IInv, OpenRight
  <2>2. InTriedOrder(at)'
    BY <1>2, <2>1 DEF InTriedOrder, Precedes, Ahead, IsExact
  <2>3. \E h \in [1..nspec' -> Effective'] : InTriedOrder(h)'
    BY <1>2, <2>2
  <2>4. /\ Len(spec_arr) = nspec /\ NoConflicts
        /\ Untouched => \A i \in 1..nspec : CompiledRight(spec_arr[i])
    BY DEF IInv, OpenRight
  <2>5. QED
    BY <1>2, <2>3, <2>4 DEF OpenRight, CompiledRight
<1>7. QED
  BY <1>3, <1>4, <1>5, <1>6 DEF IInv

\* The invariant is inductive.
LEMMA NextKeeps == IInv /\ [Next]_vars => IInv'
<1> SUFFICES ASSUME IInv, [Next]_vars PROVE IInv'
  OBVIOUS
<1>1. CASE Open
  BY <1>1, OpenKeeps
<1>2. CASE ReadLine
  BY <1>2, ReadLineKeeps
<1>3. CASE EndOfFile
  BY <1>3, EndOfFileKeeps
<1>4. CASE Edit
  BY <1>4, EditShape
<1>5. CASE Take
  BY <1>5, RestsKeeps DEF Take
<1>6. CASE Close
  BY <1>6, CloseKeeps
<1>7. ASSUME NEW key, NEW type, NEW aliases,
             Lookup(key, type) \/ PartialMatch(key) \/ BestMatch(key, aliases, type)
      PROVE  IInv'
  BY <1>7, LooksUp, LookingKeeps
<1>8. CASE UNCHANGED vars
  BY <1>8, RestsKeeps DEF vars, reader
<1>9. QED
  BY <1>1, <1>2, <1>3, <1>4, <1>5, <1>6, <1>7, <1>8, Zenon DEF Next

\* It implies the type invariant.
LEMMA TypesFollow == IInv => TypeOK
<1> SUFFICES ASSUME IInv PROVE TypeOK
  OBVIOUS
<1>1. edits \in 0..MaxEdits
  BY DEF IInv, DiskOK
<1>2. DOMAIN spec_arr = 1..Len(spec_arr)
  BY DEF IInv, Shape, IsSeq
<1>3. QED
  BY <1>1, <1>2 DEF IInv, Shape, TypeOK

-----------------------------------------------------------------------------
(* What the properties say of an answer a. *)

LastRight(a) ==
    a.op = "lookup" /\ Sound => a.ctx = Context(Meant(a.key, a.type))

FitsRight(a) ==
    a.op \in {"lookup", "best"} /\ opts.backend = "file" /\ ~edited
    /\ ~opts.validating /\ a.ctx # None =>
        \E p \in Effective, k \in DOMAIN (<<a.key>> \o a.aliases) :
            /\ LineAt(p).ctx = a.ctx
            /\ Fits(LineAt(p), Clean((<<a.key>> \o a.aliases)[k]), a.type)

Met(names, type) == { k \in DOMAIN names : Context(Meant(names[k], type)) # None }
ExprAt(name, type) == LineAt(Meant(name, type)).regex
Exactly(names, type) ==
    { k \in Met(names, type) : ~HasMetaChars(ExprAt(names[k], type)) }
TakenOf(names, type) ==
    { k \in Met(names, type) : k = 1 \/ PrefixLen(ExprAt(names[k], type)) > 0 }
LongestOf(names, type) ==
    { k \in TakenOf(names, type) : \A m \in TakenOf(names, type) :
          PrefixLen(ExprAt(names[m], type)) <= PrefixLen(ExprAt(names[k], type)) }

BestContext(names, type) ==
    IF Exactly(names, type) # {}
    THEN Context(Meant(names[Min(Exactly(names, type))], type))
    ELSE IF TakenOf(names, type) # {}
         THEN Context(Meant(names[Min(LongestOf(names, type))], type)) ELSE None

BestRight(a) ==
    a.op = "best" /\ Sound => a.ctx = BestContext(<<a.key>> \o a.aliases, a.type)

SkipRight(a) ==
    a.op = "partial" /\ Sound /\ ~a.may /\ Len(Clean(a.key)) > 1
    /\ (\A p \in Effective : MayFit(LineAt(p), Clean(a.key)) => LineAt(p).ctx # NoLabel) =>
        \A key \in Keys, type \in Types :
            IsPrefix(Clean(a.key), Clean(key)) => Meant(key, type) = Nowhere

BegunAt(key) ==
    { p \in Effective : ~Starred(LineAt(p).regex) /\ IsPrefix(LineAt(p).regex, key) }
StarsAt == { p \in Effective : Starred(LineAt(p).regex) }

PropertyRight(a) ==
    a.op = "lookup" /\ opts.backend = "property" /\ ~edited =>
        IF BegunAt(a.key) # {}
        THEN \E p \in BegunAt(a.key) :
                /\ \A q \in BegunAt(a.key) : Len(LineAt(q).regex) <= Len(LineAt(p).regex)
                /\ a.ctx = LineAt(p).ctx
        ELSE IF StarsAt # {} THEN \E p \in StarsAt : a.ctx = LineAt(p).ctx
        ELSE a.ctx = None

AllRight(a) ==
    /\ LastRight(a) /\ FitsRight(a) /\ BestRight(a) /\ SkipRight(a) /\ PropertyRight(a)

\* The properties of Labels, as what they say of the answer.
LEMMA AnswersAre ==
    (LastMatchWins /\ LabelFits /\ BestMatchIsBest /\ SkippedHasNoLabels /\ LongestPrefixWins)
      <=> \A a : a = answer => AllRight(a)
<1>1. LastMatchWins <=> LastRight(answer)
  BY Zenon DEF LastMatchWins, LastRight
<1>2. LabelFits <=> FitsRight(answer)
  BY Zenon DEF LabelFits, FitsRight
<1>3. BestMatchIsBest <=> BestRight(answer)
  BY Zenon DEF BestMatchIsBest, BestRight, BestContext, Exactly, TakenOf, LongestOf, Met, ExprAt
<1>4. SkippedHasNoLabels <=> SkipRight(answer)
  BY Zenon DEF SkippedHasNoLabels, SkipRight
<1>5. LongestPrefixWins <=> PropertyRight(answer)
  BY Zenon DEF LongestPrefixWins, PropertyRight, BegunAt, StarsAt
<1>6. QED
  BY <1>1, <1>2, <1>3, <1>4, <1>5, Zenon DEF AllRight

\* They say nothing where nothing has been asked.
LEMMA Unanswered == AllRight(NoAnswer)
BY DEF AllRight, NoAnswer, LastRight, FitsRight, BestRight, SkipRight, PropertyRight

\* They say the same while the files and the options stay what they are.
LEMMA SameAnswers ==
    ASSUME UNCHANGED <<disk, opts, edited>>, NEW a
    PROVE  AllRight(a)' <=> AllRight(a)
<1>1. /\ Effective' = Effective /\ \A p : LineAt(p)' = LineAt(p)
      /\ Sound' <=> Sound
      /\ \A p : Context(p)' = Context(p)
      /\ \A key, type : Meant(key, type)' = Meant(key, type)
  BY SameFiles, SameMeanings
<1>2. LastRight(a)' <=> LastRight(a)
  BY <1>1 DEF LastRight
<1>3. FitsRight(a)' <=> FitsRight(a)
  BY <1>1 DEF FitsRight
<1>4. BestRight(a)' <=> BestRight(a)
  <2>1. \A name, type : ExprAt(name, type)' = ExprAt(name, type)
    BY <1>1 DEF ExprAt
  <2>2. \A names, type : Met(names, type)' = Met(names, type)
    BY <1>1 DEF Met
  <2>3. \A names, type : Exactly(names, type)' = Exactly(names, type)
    BY <2>1, <2>2 DEF Exactly
  <2>4. \A names, type : TakenOf(names, type)' = TakenOf(names, type)
    BY <2>1, <2>2 DEF TakenOf
  <2>5. \A names, type : LongestOf(names, type)' = LongestOf(names, type)
    BY <2>1, <2>4 DEF LongestOf
  <2>6. \A names, type : BestContext(names, type)' = BestContext(names, type)
    BY <1>1, <2>3, <2>4, <2>5 DEF BestContext
  <2>7. QED
    BY <1>1, <2>6 DEF BestRight
<1>5. SkipRight(a)' <=> SkipRight(a)
  BY <1>1 DEF SkipRight
<1>6. PropertyRight(a)' <=> PropertyRight(a)
  <2>1. StarsAt' = StarsAt /\ \A key : BegunAt(key)' = BegunAt(key)
    BY <1>1 DEF StarsAt, BegunAt
  <2>2. QED
    BY <1>1, <2>1 DEF PropertyRight
<1>7. QED
  BY <1>2, <1>3, <1>4, <1>5, <1>6 DEF AllRight

\* What is found of a name is the label of a line that fits it.
LEMMA LabelFound ==
    ASSUME IInv, phase = "open", opts.backend = "file", ~edited, ~opts.validating,
           NEW key, IsSeq(key), NEW type, Found(key, type, FALSE) # 0
    PROVE  \E p \in Effective : /\ LineAt(p).ctx = ContextOf(Found(key, type, FALSE))
                                /\ Fits(LineAt(p), Clean(key), type)
<1> DEFINE S == { i \in Tried(key, type) : Ends(i, key, FALSE) }
           l == LastOf(key, type, FALSE)
<1>1. /\ Len(spec_arr) = nspec /\ \A i \in 1..nspec : CompiledRight(spec_arr[i])
      /\ nspec \in Nat
  BY DEF IInv, OpenRight, Untouched, Shape
<1>2. PICK at \in [1..nspec -> Effective] : InTriedOrder(at)
  BY DEF IInv, OpenRight
<1>3. l # 0 /\ Executed(spec_arr[l]) # None /\ Found(key, type, FALSE) = l
  BY DEF Found
<1>4. l = IF S = {} THEN 0 ELSE Max(S)
  BY DEF LastOf, Comes
<1>5. S \in SUBSET (1..nspec)
  BY DEF Tried
<1> HIDE DEF S
<1>6. l \in S /\ l \in 1..nspec
  BY <1>1, <1>3, <1>4, <1>5, LastIs
<1>7. l \in Tried(key, type) /\ Ends(l, key, FALSE)
  BY <1>6 DEF S
<1> HIDE DEF l
<1>8. FileSlot(l, at[l]) /\ at[l] \in Effective
  BY <1>1, <1>2, <1>6 DEF FileSlot, InTriedOrder
<1>9. Fits(LineAt(at[l]), Clean(key), type)
  BY <1>1, <1>3, <1>6, <1>7, <1>8, EndsFits
<1>10. LineAt(at[l]).ctx = ContextOf(l)
  BY <1>3, <1>8, FileSlotIs DEF ContextOf
<1>11. QED
  BY <1>3, <1>8, <1>9, <1>10

\* A lookup in the file backend.
LEMMA LookupRight ==
    ASSUME IInv, phase = "open", opts.backend # "property", NEW key, IsSeq(key), NEW type
    PROVE  AllRight([op |-> "lookup", key |-> key, type |-> type, aliases |-> << >>,
                     ctx |-> ContextOf(Found(key, type, FALSE))])
<1> DEFINE c == ContextOf(Found(key, type, FALSE))
           a == [op |-> "lookup", key |-> key, type |-> type, aliases |-> << >>, ctx |-> c]
<1>1. opts.backend = "file"
  BY DEF IInv, Shape
<1>2. LastRight(a)
  <2> SUFFICES ASSUME Sound PROVE c = Context(Meant(key, type))
    BY DEF LastRight
  <2>1. PICK at \in [1..nspec -> Effective] : InTriedOrder(at)
    BY DEF IInv, OpenRight, Sound
  <2>2. SoundOpen(at)
    BY <2>1 DEF SoundOpen
  <2>3. QED
    BY <2>2, FoundIs
<1>3. FitsRight(a)
  <2> SUFFICES ASSUME ~edited, ~opts.validating, c # None
               PROVE  \E p \in Effective, k \in DOMAIN (<<key>> \o << >>) :
                          /\ LineAt(p).ctx = c
                          /\ Fits(LineAt(p), Clean((<<key>> \o << >>)[k]), type)
    BY DEF FitsRight
  <2>1. Found(key, type, FALSE) # 0
    BY DEF ContextOf
  <2>2. PICK p \in Effective : LineAt(p).ctx = c /\ Fits(LineAt(p), Clean(key), type)
    BY <1>1, <2>1, LabelFound
  <2>3. 1 \in DOMAIN (<<key>> \o << >>) /\ (<<key>> \o << >>)[1] = key
    <3>1. <<key>> \o << >> = <<key>>
      OBVIOUS
    <3>2. QED
      BY <3>1
  <2> HIDE DEF c
  <2>4. QED
    BY <2>2, <2>3, Zenon
<1>4. BestRight(a) /\ SkipRight(a) /\ PropertyRight(a)
  BY <1>1 DEF BestRight, SkipRight, PropertyRight
<1>5. QED
  BY <1>2, <1>3, <1>4 DEF AllRight

\* One that is skipped: what matches something below it would have been found.
LEMMA PartialRight ==
    ASSUME IInv, phase = "open", opts.backend # "property", NEW key, IsSeq(key)
    PROVE  AllRight([op |-> "partial", key |-> key,
                     may |-> Found(key, AnyType, TRUE) # 0])
<1> DEFINE m == Found(key, AnyType, TRUE) # 0
           a == [op |-> "partial", key |-> key, may |-> m]
<1>1. LastRight(a) /\ FitsRight(a) /\ BestRight(a) /\ PropertyRight(a)
  BY DEF LastRight, FitsRight, BestRight, PropertyRight
<1>2. SkipRight(a)
  <2> SUFFICES ASSUME Sound, Found(key, AnyType, TRUE) = 0, Len(Clean(key)) > 1,
                      \A p \in Effective : MayFit(LineAt(p), Clean(key)) => LineAt(p).ctx # NoLabel,
                      NEW below \in Keys, NEW type \in Types,
                      IsPrefix(Clean(key), Clean(below))
               PROVE  Meant(below, type) = Nowhere
    BY DEF SkipRight
  <2>1. PICK at \in [1..nspec -> Effective] : InTriedOrder(at)
    BY DEF IInv, OpenRight, Sound
  <2>2. SoundOpen(at)
    BY <2>1 DEF SoundOpen
  <2>3. /\ nspec \in Nat
        /\ \A i \in 1..nspec :
              /\ at[i] \in Effective /\ FileSlot(i, at[i]) /\ CompiledRight(spec_arr[i])
              /\ LineAt(at[i]).regex.compiles /\ ~LineAt(at[i]).regex.escaped
    BY <2>2, SoundOpenIs
  <2>4. IsSeq(below) /\ IsSeq(Clean(below)) /\ IsSeq(Clean(key))
    BY CleanIs, LookupsAssumption
  <2> DEFINE S == { i \in Tried(key, AnyType) : Ends(i, key, TRUE) }
             l == LastOf(key, AnyType, TRUE)
  <2>5. l = IF S = {} THEN 0 ELSE Max(S)
    BY DEF LastOf, Comes
  <2>6. S \in SUBSET (1..nspec)
    BY DEF Tried
  <2>7. S = {}
    <3> SUFFICES ASSUME S # {} PROVE FALSE
      OBVIOUS
    <3> HIDE DEF S
    <3>1. l \in S /\ l \in 1..nspec /\ l # 0
      BY <2>3, <2>5, <2>6, LastIs
    <3>2. l \in Tried(key, AnyType) /\ Ends(l, key, TRUE)
      BY <3>1 DEF S
    <3>3. Executed(spec_arr[l]) = None \/ spec_arr[l].ctx = NoLabel
      BY <3>1 DEF Found
    <3> HIDE DEF l
    <3>4. FileSlot(l, at[l]) /\ at[l] \in Effective /\ CompiledRight(spec_arr[l])
          /\ LineAt(at[l]).regex.compiles
      BY <2>3, <3>1
    <3>5. Executed(spec_arr[l]) # None
      <4>1. IsRe(LineAt(at[l]).regex)
        BY <3>4, FileSlotIs
      <4>2. QED
        BY <3>4, <4>1, ExecutedIs DEF IsRe
    <3>6. MayFit(LineAt(at[l]), Clean(key))
      BY <3>2, <3>4, <3>5, EndsFits
    <3>7. LineAt(at[l]).ctx = NoLabel
      BY <3>3, <3>4, <3>5, FileSlotIs
    <3>8. QED
      BY <3>4, <3>6, <3>7
  <2> DEFINE i == LastOf(below, type, FALSE)
  <2>8. /\ i = 0 => Meant(below, type) = Nowhere
        /\ i # 0 => i \in 1..nspec /\ at[i] = Meant(below, type)
    BY <2>2, <2>4, MeantIs
  <2>9. i = 0
    <3> SUFFICES ASSUME i # 0 PROVE FALSE
      OBVIOUS
    <3> DEFINE B == { k \in Tried(below, type) : Ends(k, below, FALSE) }
    <3>1. i = IF B = {} THEN 0 ELSE Max(B)
      BY DEF LastOf, Comes
    <3>2. B \in SUBSET (1..nspec)
      BY DEF Tried
    <3> HIDE DEF B
    <3>3. i \in B /\ i \in 1..nspec
      BY <2>3, <3>1, <3>2, LastIs
    <3>4. i \in Tried(below, type) /\ Ends(i, below, FALSE)
      BY <3>3 DEF B
    <3> HIDE DEF i, S, l
    <3>5. FileSlot(i, at[i]) /\ CompiledRight(spec_arr[i])
          /\ LineAt(at[i]).regex.compiles /\ ~LineAt(at[i]).regex.escaped
      BY <2>3, <3>3
    <3>6. Executed(spec_arr[i]) # None /\ IsRe(LineAt(at[i]).regex)
      BY <2>4, <3>5, FitsEnds, FileSlotIs
    <3>7. Matches(LineAt(at[i]).regex, Clean(below))
      BY <2>4, <3>4, <3>5, <3>6, EndsFits DEF Fits
    <3>8. MayFit(LineAt(at[i]), Clean(key))
      BY <2>4, <3>6, <3>7, FitsAbove DEF MayFit
    <3>9. i \in Tried(key, AnyType) /\ Ends(i, key, TRUE)
      BY <3>5, <3>8, FitsEnds
    <3>10. QED
      BY <2>7, <3>9 DEF S
  <2>10. QED
    BY <2>8, <2>9
<1>3. QED
  BY <1>1, <1>2 DEF AllRight

\* The first property that fits is the longest one, or a star.
LEMMA PropertyLookupRight ==
    ASSUME IInv, phase = "open", opts.backend = "property", NEW key, NEW type
    PROVE  AllRight([op |-> "lookup", key |-> key, type |-> type, aliases |-> << >>,
                     ctx |-> ContextOf(FoundProperty(key))])
<1> DEFINE c == ContextOf(FoundProperty(key))
           a == [op |-> "lookup", key |-> key, type |-> type, aliases |-> << >>, ctx |-> c]
<1>1. LastRight(a) /\ FitsRight(a) /\ BestRight(a) /\ SkipRight(a)
  BY DEF LastRight, FitsRight, BestRight, SkipRight, Sound
<1>2. PropertyRight(a)
  <2> SUFFICES ASSUME ~edited
               PROVE  IF BegunAt(key) # {}
                      THEN \E p \in BegunAt(key) :
                              /\ \A q \in BegunAt(key) : Len(LineAt(q).regex) <= Len(LineAt(p).regex)
                              /\ c = LineAt(p).ctx
                      ELSE IF StarsAt # {} THEN \E p \in StarsAt : c = LineAt(p).ctx
                      ELSE c = None
    BY DEF PropertyRight
  <2>1. PICK at \in [1..nspec -> Effective] : InTriedOrder(at)
    BY DEF IInv, OpenRight
  <2>2. DiskOK /\ nspec \in Nat /\ Effective \in SUBSET Positions
    BY EffectiveIs DEF IInv, Shape
  <2>3. \A i \in 1..nspec : /\ at[i] \in Effective /\ spec_arr[i].regex = LineAt(at[i]).regex
                            /\ spec_arr[i].ctx = LineAt(at[i]).ctx
    BY <2>1 DEF InTriedOrder, Holds
  <2>4. \A p \in Effective : Len(LineAt(p).regex) \in Nat
    BY <2>2, LineIs DEF Effective, IsSeq
  <2>5. \A i, j \in 1..nspec : i < j =>
            /\ Starred(LineAt(at[i]).regex) => Starred(LineAt(at[j]).regex)
            /\ ~Starred(LineAt(at[i]).regex) /\ ~Starred(LineAt(at[j]).regex) =>
                   Len(LineAt(at[i]).regex) >= Len(LineAt(at[j]).regex)
    BY <2>1, <2>3 DEF InTriedOrder, Ahead
  <2>6. \A p \in Effective : \E i \in 1..nspec : at[i] = p
    BY <2>1 DEF InTriedOrder
  <2> DEFINE S == { i \in 1..nspec : \/ IsPrefix(spec_arr[i].regex, key)
                                     \/ Starred(spec_arr[i].regex) }
             f == FoundProperty(key)
  <2>7. f = IF S = {} THEN 0 ELSE Min(S)
    BY DEF FoundProperty
  <2>8. \A i \in 1..nspec :
            i \in S <=> (at[i] \in BegunAt(key) \/ at[i] \in StarsAt)
    BY <2>3 DEF BegunAt, StarsAt
  <2>9. S \in SUBSET Nat /\ S \in SUBSET (1..nspec)
    OBVIOUS
  <2>10. \A p : (p \in BegunAt(key) \/ p \in StarsAt) => \E i \in S : at[i] = p
    <3> SUFFICES ASSUME NEW p, p \in BegunAt(key) \/ p \in StarsAt
                 PROVE  \E i \in S : at[i] = p
      OBVIOUS
    <3>1. PICK i \in 1..nspec : at[i] = p
      BY <2>6 DEF BegunAt, StarsAt
    <3>2. QED
      BY <2>8, <3>1
  <2>11. c = IF f = 0 THEN None ELSE spec_arr[f].ctx
    BY DEF ContextOf
  <2> HIDE DEF S, f, c
  <2>12. CASE S = {}
    <3>1. BegunAt(key) = {} /\ StarsAt = {}
      BY <2>10, <2>12
    <3>2. QED
      BY <2>7, <2>11, <2>12, <3>1
  <2>13. CASE S # {}
    <3>1. f \in S /\ \A i \in S : f <= i
      BY <2>7, <2>9, <2>13, MinIs
    <3>2. f \in 1..nspec /\ f # 0 /\ c = LineAt(at[f]).ctx
      <4>1. f \in 1..nspec
        BY <2>9, <3>1
      <4>2. f # 0
        BY <2>2, <4>1
      <4>3. QED
        BY <2>3, <2>11, <4>1, <4>2
    <3>3. CASE Starred(LineAt(at[f]).regex)
      <4>1. at[f] \in StarsAt
        BY <2>3, <3>2, <3>3 DEF StarsAt
      <4>2. BegunAt(key) = {}
        <5> SUFFICES ASSUME NEW p \in BegunAt(key) PROVE FALSE
          OBVIOUS
        <5>1. PICK i \in S : at[i] = p
          BY <2>10
        <5>2. ~Starred(LineAt(p).regex)
          BY DEF BegunAt
        <5>3. i \in 1..nspec /\ (f = i \/ f < i)
          BY <2>2, <2>9, <3>1, <3>2
        <5>4. QED
          BY <2>5, <3>2, <3>3, <5>1, <5>2, <5>3
      <4>3. QED
        BY <3>2, <4>1, <4>2
    <3>4. CASE ~Starred(LineAt(at[f]).regex)
      <4>1. at[f] \in BegunAt(key)
        BY <2>8, <3>1, <3>2, <3>4 DEF StarsAt
      <4>2. \A q \in BegunAt(key) : Len(LineAt(q).regex) <= Len(LineAt(at[f]).regex)
        <5> TAKE q \in BegunAt(key)
        <5>1. PICK i \in S : at[i] = q
          BY <2>10
        <5>2. ~Starred(LineAt(q).regex) /\ q \in Effective
          BY DEF BegunAt
        <5>3. i \in 1..nspec /\ (f = i \/ f < i)
          BY <2>2, <2>9, <3>1, <3>2
        <5>4. Len(LineAt(q).regex) \in Nat /\ Len(LineAt(at[f]).regex) \in Nat
          BY <2>3, <2>4, <3>2, <5>2
        <5>5. CASE f = i
          BY <5>1, <5>4, <5>5
        <5>6. CASE f < i
          <6>1. Len(LineAt(at[f]).regex) >= Len(LineAt(at[i]).regex)
            BY <2>5, <3>2, <3>4, <5>1, <5>2, <5>3, <5>6
          <6>2. QED
            BY <5>1, <5>4, <6>1
        <5>7. QED
          BY <5>3, <5>5, <5>6
      <4>3. QED
        BY <3>2, <4>1, <4>2
    <3>5. QED
      BY <3>3, <3>4
  <2>14. QED
    BY <2>12, <2>13
<1>3. QED
  BY <1>1, <1>2 DEF AllRight

-----------------------------------------------------------------------------
(* The best of what was found.                                               *)

\* The fold is a walk over what was found of the aliases.
LEMMA WalkIs ==
    ASSUME NEW found, IsSeq(found), Len(found) # 0, ExactOnes(found) = {}
    PROVE  \E B : /\ B[0] = found[1] /\ BestOf(found) = B[Len(found) - 1]
                  /\ \A k \in 1..(Len(found) - 1) : B[k] = Better(B[k - 1], found[k + 1])
<1> DEFINE q == Tail(found)
           m == Len(found) - 1
           base == found[1]
           E(g) == g = [x \in SUBSET DOMAIN q |->
                          IF x = {} THEN base
                          ELSE IF q[Max(x)] # 0 /\ Longer(q[Max(x)], g[x \ {Max(x)}])
                               THEN q[Max(x)] ELSE g[x \ {Max(x)}]]
           h == CHOOSE g : E(g)
<1>1. IsSeq(q) /\ Len(q) = m /\ m \in Nat /\ \A k \in 1..m : q[k] = found[k + 1]
  <2>1. /\ IsSeq(Tail(found)) /\ Len(Tail(found)) = Len(found) - 1 /\ Len(found) \in Nat \ {0}
        /\ \A i \in 1..(Len(found) - 1) : Tail(found)[i] = found[i + 1]
    BY TailIs
  <2>2. Len(found) - 1 \in Nat
    BY <2>1
  <2>3. QED
    BY <2>1, <2>2
<1>2. DOMAIN q = 1..m
  BY <1>1 DEF IsSeq
<1>3. BestOf(found) = h[DOMAIN q]
  BY Zenon DEF BestOf, FoldLeft, MapThenFoldSet
<1> HIDE DEF q, m, base
<1>4. PICK g : Folding(g, m, base, q)
  BY <1>1, Recursion
<1>5. E(g)
  BY <1>2, <1>4, Zenon DEF Folding, Better
<1>6. E(h)
  BY <1>5, Zenon
<1> HIDE DEF h
<1>7. Folding(h, m, base, q)
  BY <1>2, <1>6, Zenon DEF Folding, Better
<1> DEFINE B == [k \in 0..m |-> h[1..k]]
<1>8. B[0] = base
  <2>1. 0 \in 0..m /\ 1..0 = {} /\ {} \in SUBSET (1..m)
    BY <1>1
  <2>2. h[{}] = base
    BY <1>7, <2>1 DEF Folding
  <2>3. QED
    BY <2>1, <2>2
<1>9. ASSUME NEW k \in 1..m PROVE B[k] = Better(B[k - 1], q[k])
  <2>1. /\ 1..k \in SUBSET (1..m) /\ 1..k # {} /\ Max(1..k) = k
        /\ (1..k) \ {Max(1..k)} = 1..(k - 1)
    BY <1>1, AtBeginnings
  <2>2. h[1..k] = Better(h[(1..k) \ {Max(1..k)}], q[Max(1..k)])
    BY <1>7, <2>1 DEF Folding
  <2>3. k \in 0..m /\ k - 1 \in 0..m
    BY <1>1
  <2>4. QED
    BY <2>1, <2>2, <2>3
<1>10. B[m] = h[1..m]
  BY <1>1
<1> HIDE DEF B
<1>11. /\ B[0] = found[1] /\ BestOf(found) = B[m]
       /\ \A k \in 1..m : B[k] = Better(B[k - 1], found[k + 1])
  BY <1>1, <1>2, <1>3, <1>8, <1>9, <1>10 DEF base
<1>12. QED
  BY <1>11 DEF m

Width(i) == PrefixLen(spec_arr[i].regex)

\* Those of the first j that are not passed over, and the first of the longest.
Among(found, j) == { k \in 1..j : found[k] # 0 /\ (k = 1 \/ Width(found[k]) > 0) }

FirstLongest(found, j, l) ==
    /\ l \in Among(found, j)
    /\ \A m \in Among(found, j) : /\ Width(found[m]) <= Width(found[l])
                                  /\ m < l => Width(found[m]) < Width(found[l])

BestSoFar(found, j, b) ==
    /\ Among(found, j) = {} => b = 0
    /\ Among(found, j) # {} => \E l : FirstLongest(found, j, l) /\ b = found[l]

\* One more that was found is the better one, or the best stays.
LEMMA NextBest ==
    ASSUME NEW found, NEW j \in Nat \ {0}, NEW b, BestSoFar(found, j, b),
           \A k \in 1..(j + 1) : found[k] # 0 => Width(found[k]) \in Nat
    PROVE  BestSoFar(found, j + 1, Better(b, found[j + 1]))
<1> DEFINE T == Among(found, j)
           U == Among(found, j + 1)
           i == found[j + 1]
           c == Better(b, i)
           In == i # 0 /\ Width(i) > 0
<1>1. U = T \cup (IF In THEN {j + 1} ELSE {})
  <2>1. \A k : k \in 1..(j + 1) <=> (k \in 1..j \/ k = j + 1)
    OBVIOUS
  <2>2. j + 1 # 1
    OBVIOUS
  <2>3. QED
    BY <2>1, <2>2 DEF Among
<1>2. \A k \in T : k \in 1..j /\ found[k] # 0 /\ Width(found[k]) \in Nat
  <2>1. \A k \in T : k \in 1..j /\ found[k] # 0
    BY DEF Among
  <2>2. \A k \in 1..j : k \in 1..(j + 1)
    OBVIOUS
  <2>3. QED
    BY <2>1, <2>2
<1>3. i # 0 => Width(i) \in Nat
  <2>1. j + 1 \in 1..(j + 1)
    OBVIOUS
  <2>2. QED
    BY <2>1
<1>4. (T = {} => b = 0) /\ (T # {} => \E l : FirstLongest(found, j, l) /\ b = found[l])
  BY DEF BestSoFar
<1>5. c = IF i # 0 /\ Width(i) > (IF b = 0 THEN 0 ELSE Width(b)) THEN i ELSE b
  BY DEF Better, Longer, Width
<1>6. \A l : FirstLongest(found, j, l) <=>
          /\ l \in T
          /\ \A m \in T : /\ Width(found[m]) <= Width(found[l])
                          /\ m < l => Width(found[m]) < Width(found[l])
  BY DEF FirstLongest
<1>7. \A l : FirstLongest(found, j + 1, l) <=>
          /\ l \in U
          /\ \A m \in U : /\ Width(found[m]) <= Width(found[l])
                          /\ m < l => Width(found[m]) < Width(found[l])
  BY DEF FirstLongest
<1>8. i = found[j + 1]
  OBVIOUS
<1> HIDE DEF T, U, i, c
<1>9. (U = {} => c = 0) /\ (U # {} => \E l : FirstLongest(found, j + 1, l) /\ c = found[l])
  <2>1. CASE T = {}
    <3>1. c = IF In THEN i ELSE 0
      BY <1>3, <1>4, <1>5, <2>1
    <3>2. CASE In
      <4>1. U = {j + 1} /\ c = found[j + 1] /\ Width(found[j + 1]) \in Nat
        BY <1>1, <1>3, <1>8, <2>1, <3>1, <3>2
      <4>2. FirstLongest(found, j + 1, j + 1)
        BY <1>7, <4>1
      <4>3. QED
        BY <4>1, <4>2
    <3>3. CASE ~In
      BY <1>1, <2>1, <3>1, <3>3
    <3>4. QED
      BY <3>2, <3>3
  <2>2. CASE T # {}
    <3>1. PICK l : FirstLongest(found, j, l) /\ b = found[l]
      BY <1>4, <2>2
    <3>2. /\ l \in T /\ b # 0 /\ Width(b) \in Nat /\ l \in 1..j
          /\ \A m \in T : /\ Width(found[m]) <= Width(b)
                          /\ m < l => Width(found[m]) < Width(b)
      BY <1>2, <1>6, <3>1
    <3>3. CASE i # 0 /\ Width(i) > Width(b)
      <4>1. In /\ c = found[j + 1] /\ Width(found[j + 1]) \in Nat /\ Width(found[j + 1]) > Width(b)
        BY <1>3, <1>5, <1>8, <3>2, <3>3
      <4>2. U = T \cup {j + 1} /\ j + 1 \in U
        BY <1>1, <4>1
      <4>3. \A m \in U : /\ Width(found[m]) <= Width(found[j + 1])
                         /\ m < j + 1 => Width(found[m]) < Width(found[j + 1])
        <5> TAKE m \in U
        <5>1. CASE m = j + 1
          BY <4>1, <5>1
        <5>2. CASE m \in T
          <6>1. Width(found[m]) <= Width(b) /\ Width(found[m]) \in Nat
            BY <1>2, <3>2, <5>2
          <6>2. QED
            BY <3>2, <4>1, <6>1
        <5>3. QED
          BY <4>2, <5>1, <5>2
      <4>4. FirstLongest(found, j + 1, j + 1)
        BY <1>7, <4>2, <4>3
      <4>5. QED
        BY <4>1, <4>2, <4>4
    <3>4. CASE ~(i # 0 /\ Width(i) > Width(b))
      <4>1. c = found[l]
        BY <1>5, <3>1, <3>2, <3>4
      <4>2. l \in U /\ U \subseteq T \cup {j + 1}
        BY <1>1, <3>2
      <4>3. \A m \in U : /\ Width(found[m]) <= Width(found[l])
                         /\ m < l => Width(found[m]) < Width(found[l])
        <5> TAKE m \in U
        <5>1. CASE m \in T
          BY <3>1, <3>2, <5>1
        <5>2. CASE m \notin T
          <6>1. In /\ m = j + 1
            BY <1>1, <5>2
          <6>2. Width(found[m]) <= Width(b)
            BY <1>3, <1>8, <3>2, <3>4, <6>1
          <6>3. ~(m < l)
            BY <3>2, <6>1
          <6>4. QED
            BY <3>1, <6>2, <6>3
        <5>3. QED
          BY <5>1, <5>2
      <4>4. QED
        BY <1>7, <4>1, <4>2, <4>3
    <3>5. QED
      BY <3>3, <3>4
  <2>3. QED
    BY <2>1, <2>2
<1>10. QED
  BY <1>9 DEF BestSoFar, U, c, i

\* The walk ends with the first of the longest.
LEMMA BestIs ==
    ASSUME NEW found, IsSeq(found), Len(found) # 0, ExactOnes(found) = {},
           \A k \in 1..Len(found) : found[k] # 0 => Width(found[k]) \in Nat
    PROVE  BestSoFar(found, Len(found), BestOf(found))
<1> DEFINE n == Len(found)
<1>1. n \in Nat \ {0}
  BY DEF IsSeq
<1>2. PICK B : /\ B[0] = found[1] /\ BestOf(found) = B[n - 1]
               /\ \A k \in 1..(n - 1) : B[k] = Better(B[k - 1], found[k + 1])
  BY WalkIs
<1> HIDE DEF n
<1> DEFINE T == { k \in Nat : k <= n - 1 => BestSoFar(found, k + 1, B[k]) }
<1>3. 0 \in T
  <2>1. 1 \in 1..n /\ \A k : k \in 1..1 <=> k = 1
    BY <1>1
  <2>2. Among(found, 1) = IF found[1] # 0 THEN {1} ELSE {}
    BY <2>1 DEF Among
  <2>3. found[1] # 0 => Width(found[1]) \in Nat
    BY <2>1 DEF n
  <2>4. found[1] # 0 => FirstLongest(found, 1, 1)
    BY <2>2, <2>3 DEF FirstLongest
  <2>5. BestSoFar(found, 1, found[1])
    BY <2>2, <2>4 DEF BestSoFar
  <2>6. QED
    BY <1>2, <2>5
<1>4. ASSUME NEW k \in Nat, k \in T PROVE k + 1 \in T
  <2> SUFFICES ASSUME k + 1 <= n - 1 PROVE BestSoFar(found, (k + 1) + 1, B[k + 1])
    BY <1>1
  <2>1. k <= n - 1 /\ k + 1 \in 1..(n - 1) /\ (k + 1) - 1 = k /\ k + 1 \in Nat \ {0}
    BY <1>1
  <2>2. BestSoFar(found, k + 1, B[k])
    BY <1>4, <2>1
  <2>3. B[k + 1] = Better(B[k], found[(k + 1) + 1])
    BY <1>2, <2>1
  <2>4. \A m \in 1..((k + 1) + 1) : found[m] # 0 => Width(found[m]) \in Nat
    <3>1. \A m \in 1..((k + 1) + 1) : m \in 1..n
      BY <1>1, <2>1
    <3>2. QED
      BY <3>1 DEF n
  <2> HIDE DEF T
  <2>5. QED
    BY <2>1, <2>2, <2>3, <2>4, NextBest
<1>5. n - 1 \in T
  <2> HIDE DEF T
  <2>1. Nat \subseteq T
    BY <1>3, <1>4, FromZero
  <2>2. QED
    BY <1>1, <2>1
<1>6. BestSoFar(found, n, B[n - 1])
  <2>1. (n - 1) + 1 = n /\ n - 1 <= n - 1
    BY <1>1
  <2>2. QED
    BY <1>5, <2>1
<1>7. QED
  BY <1>2, <1>6 DEF n

FoundOf(names, type) == [k \in DOMAIN names |-> Found(names[k], type, FALSE)]

\* The length of a fixed prefix.
LEMMA PrefixLenIs == ASSUME NEW re, IsRe(re) PROVE PrefixLen(re) \in Nat
<1> DEFINE n == Len(re.names)
<1>1. n \in Nat
  BY DEF IsRe, IsSeq
<1>2. PrefixLen(re) = 2 * n + 1 \/ PrefixLen(re) = 2 * n + 0
  BY Zenon DEF PrefixLen
<1> HIDE DEF n
<1>3. QED
  BY <1>1, <1>2

\* What is found is a specification, with a length of its fixed prefix.
LEMMA FoundSlot ==
    ASSUME IInv, phase = "open", opts.backend = "file", ~edited, NEW key, NEW type,
           Found(key, type, FALSE) # 0
    PROVE  Width(Found(key, type, FALSE)) \in Nat
<1> DEFINE l == Found(key, type, FALSE)
           S == { i \in Tried(key, type) : Ends(i, key, FALSE) }
<1>1. PICK at \in [1..nspec -> Effective] : InTriedOrder(at)
  BY DEF IInv, OpenRight
<1>2. Len(spec_arr) = nspec /\ nspec \in Nat
  BY DEF IInv, OpenRight, Shape
<1>3. S \in SUBSET (1..nspec)
  BY DEF Tried
<1>4. l = IF S = {} THEN 0 ELSE Max(S)
  BY DEF Found, LastOf, Comes
<1> HIDE DEF S, l
<1>5. l \in 1..nspec
  BY <1>2, <1>3, <1>4, LastIs DEF l
<1>6. FileSlot(l, at[l])
  BY <1>1, <1>2, <1>5 DEF FileSlot, InTriedOrder
<1>7. IsRe(spec_arr[l].regex)
  BY <1>6, FileSlotIs
<1>8. PrefixLen(spec_arr[l].regex) \in Nat
  BY <1>7, PrefixLenIs
<1>9. QED
  BY <1>8 DEF Width, l

\* What was found of some names.
LEMMA FoundOfIs ==
    ASSUME IInv, phase = "open", opts.backend = "file", ~edited, NEW names, IsSeq(names),
           Len(names) # 0, NEW type
    PROVE  LET found == FoundOf(names, type)
           IN  /\ IsSeq(found) /\ Len(found) = Len(names) /\ DOMAIN found = 1..Len(names)
               /\ DOMAIN names = 1..Len(names) /\ Len(names) \in Nat \ {0}
               /\ \A k \in 1..Len(names) :
                     /\ found[k] = Found(names[k], type, FALSE)
                     /\ found[k] # 0 => Width(found[k]) \in Nat
<1> DEFINE found == FoundOf(names, type)
           n == Len(names)
<1>1. DOMAIN names = 1..n /\ n \in Nat \ {0}
  BY DEF IsSeq
<1>2. \A k \in 1..n : found[k] = Found(names[k], type, FALSE)
  BY <1>1 DEF FoundOf
<1>3. found = [k \in 1..n |-> found[k]]
  BY <1>1 DEF FoundOf
<1> HIDE DEF found, n
<1>4. IsSeq(found) /\ Len(found) = n
  BY <1>1, <1>3, Made
<1>5. \A k \in 1..n : found[k] # 0 => Width(found[k]) \in Nat
  BY <1>2, FoundSlot
<1>6. DOMAIN found = 1..n
  BY <1>3
<1>7. QED
  BY <1>1, <1>2, <1>4, <1>5, <1>6 DEF found, n

\* The best is one of them, if there is any.
LEMMA BestIsFound ==
    ASSUME NEW found, IsSeq(found), Len(found) # 0,
           \A k \in 1..Len(found) : found[k] # 0 => Width(found[k]) \in Nat,
           BestOf(found) # 0
    PROVE  \E k \in 1..Len(found) : found[k] = BestOf(found)
<1>1. DOMAIN found = 1..Len(found) /\ Len(found) \in Nat
  BY DEF IsSeq
<1>2. CASE ExactOnes(found) # {}
  <2>1. ExactOnes(found) \in SUBSET (1..Len(found))
    BY <1>1 DEF ExactOnes
  <2>2. ExactOnes(found) \in SUBSET Nat
    BY <2>1
  <2>3. Min(ExactOnes(found)) \in ExactOnes(found)
    BY <1>2, <2>2, MinIs
  <2>4. BestOf(found) = found[Min(ExactOnes(found))]
    BY <1>2, Zenon DEF BestOf
  <2>5. QED
    BY <2>1, <2>3, <2>4
<1>3. CASE ExactOnes(found) = {}
  <2>1. BestSoFar(found, Len(found), BestOf(found))
    BY <1>3, BestIs
  <2>2. PICK l : FirstLongest(found, Len(found), l) /\ BestOf(found) = found[l]
    BY <2>1 DEF BestSoFar
  <2>3. QED
    BY <2>2 DEF FirstLongest, Among
<1>4. QED
  BY <1>2, <1>3

\* The best of what was found is the best of what is meant.
LEMMA BestMeant ==
    ASSUME NEW at, SoundOpen(at), NEW names, IsSeq(names), Len(names) # 0,
           \A k \in 1..Len(names) : IsSeq(names[k]), NEW type
    PROVE  ContextOf(BestOf(FoundOf(names, type))) = BestContext(names, type)
<1> DEFINE found == FoundOf(names, type)
           n == Len(names)
           exact == ExactOnes(found)
           best == BestOf(found)
<1>1. IInv /\ phase = "open" /\ opts.backend = "file" /\ ~edited
  BY DEF SoundOpen, Sound
<1>2. /\ IsSeq(found) /\ Len(found) = n /\ DOMAIN found = 1..n /\ DOMAIN names = 1..n
      /\ n \in Nat \ {0}
      /\ \A k \in 1..n : /\ found[k] = Found(names[k], type, FALSE)
                         /\ found[k] # 0 => Width(found[k]) \in Nat
  BY <1>1, FoundOfIs
<1>3. \A k \in 1..n :
          /\ found[k] = 0 <=> Context(Meant(names[k], type)) = None
          /\ ContextOf(found[k]) = Context(Meant(names[k], type))
          /\ found[k] # 0 => spec_arr[found[k]].regex = ExprAt(names[k], type)
  <2> TAKE k \in 1..n
  <2>1. IsSeq(names[k]) /\ found[k] = Found(names[k], type, FALSE)
    BY <1>2
  <2> HIDE DEF found, n
  <2>2. QED
    BY <2>1, FoundIs DEF ExprAt
<1> HIDE DEF found, n
<1>4. Met(names, type) = { k \in 1..n : found[k] # 0 }
  BY <1>2, <1>3 DEF Met
<1>5. exact = Exactly(names, type)
  <2>1. \A k : k \in exact <=> k \in Exactly(names, type)
    BY <1>2, <1>3, <1>4 DEF ExactOnes, Exactly
  <2>2. QED
    BY <2>1 DEF Exactly, ExactOnes
<1>6. \A k \in 1..n : found[k] # 0 => Width(found[k]) = PrefixLen(ExprAt(names[k], type))
  BY <1>3 DEF Width
<1>7. Among(found, n) = TakenOf(names, type)
  <2>1. \A k : k \in Among(found, n) <=> k \in TakenOf(names, type)
    BY <1>4, <1>6 DEF Among, TakenOf
  <2>2. QED
    BY <2>1 DEF Among, TakenOf
<1>8. CASE exact # {}
  <2>1. exact \in SUBSET (1..n) /\ exact \in SUBSET Nat
    BY <1>2 DEF ExactOnes
  <2>2. Min(exact) \in 1..n
    BY <1>8, <2>1, MinIs
  <2>3. best = found[Min(exact)]
    BY <1>8, Zenon DEF BestOf
  <2>4. BestContext(names, type) = Context(Meant(names[Min(exact)], type))
    BY <1>5, <1>8, Zenon DEF BestContext
  <2> HIDE DEF exact, best
  <2>5. ContextOf(best) = BestContext(names, type)
    BY <1>3, <2>2, <2>3, <2>4
  <2>6. QED
    BY <2>5 DEF best, found
<1>9. CASE exact = {}
  <2>1. BestSoFar(found, n, best)
    BY <1>2, <1>9, BestIs
  <2>2. BestContext(names, type) =
            IF Among(found, n) # {}
            THEN Context(Meant(names[Min(LongestOf(names, type))], type)) ELSE None
    BY <1>5, <1>7, <1>9, Zenon DEF BestContext
  <2> HIDE DEF exact, best
  <2>3. CASE Among(found, n) = {}
    BY <2>1, <2>2, <2>3 DEF BestSoFar, ContextOf, best, found
  <2>4. CASE Among(found, n) # {}
    <3>1. PICK l : FirstLongest(found, n, l) /\ best = found[l]
      BY <2>1, <2>4 DEF BestSoFar
    <3> DEFINE L == LongestOf(names, type)
               w(k) == PrefixLen(ExprAt(names[k], type))
    <3>2. \A k \in Among(found, n) : /\ k \in 1..n /\ k \in Nat /\ found[k] # 0
                                     /\ Width(found[k]) = w(k) /\ w(k) \in Nat
      <4> TAKE k \in Among(found, n)
      <4>1. k \in 1..n /\ found[k] # 0
        BY DEF Among
      <4>2. Width(found[k]) = w(k)
        BY <1>6, <4>1
      <4>3. Width(found[k]) \in Nat
        BY <1>2, <4>1
      <4>4. k \in Nat
        BY <4>1
      <4> HIDE DEF w
      <4>5. QED
        BY <4>1, <4>2, <4>3, <4>4
    <3>3. /\ l \in Among(found, n)
          /\ \A m \in Among(found, n) : w(m) <= w(l) /\ (m < l => w(m) < w(l))
      BY <3>1, <3>2 DEF FirstLongest
    <3>4. L = { k \in Among(found, n) : \A m \in Among(found, n) : w(m) <= w(k) }
      BY <1>7 DEF LongestOf
    <3> HIDE DEF L, w
    <3>5. L \in SUBSET Nat /\ l \in L
      BY <3>2, <3>3, <3>4
    <3>6. Min(L) \in L /\ Min(L) <= l
      BY <3>5, MinIs
    <3>7. Min(L) = l
      <4>1. Min(L) \in Among(found, n) /\ w(l) <= w(Min(L))
        BY <3>3, <3>4, <3>6
      <4>2. w(l) \in Nat /\ w(Min(L)) \in Nat /\ l \in Nat /\ Min(L) \in Nat
        BY <3>2, <3>3, <4>1
      <4>3. ~(Min(L) < l)
        BY <3>3, <4>1, <4>2
      <4>4. QED
        BY <3>6, <4>2, <4>3
    <3>8. ContextOf(best) = Context(Meant(names[l], type))
      BY <1>3, <3>1, <3>2, <3>3
    <3>9. BestContext(names, type) = Context(Meant(names[l], type))
      BY <2>2, <2>4, <3>7 DEF L
    <3>10. QED
      BY <3>8, <3>9 DEF best, found
  <2>5. QED
    BY <2>3, <2>4
<1>10. QED
  BY <1>8, <1>9

\* A best match.
LEMMA BestMatchRight ==
    ASSUME IInv, phase = "open", opts.backend = "file", NEW key, IsSeq(key), NEW aliases,
           IsSeq(aliases), \A i \in 1..Len(aliases) : IsSeq(aliases[i]), NEW type
    PROVE  AllRight([op |-> "best", key |-> key, type |-> type, aliases |-> aliases,
                     ctx |-> ContextOf(BestOf(FoundOf(<<key>> \o aliases, type)))])
<1> DEFINE names == <<key>> \o aliases
           found == FoundOf(names, type)
           c == ContextOf(BestOf(found))
           a == [op |-> "best", key |-> key, type |-> type, aliases |-> aliases, ctx |-> c]
<1>1. LastRight(a) /\ SkipRight(a) /\ PropertyRight(a)
  BY DEF LastRight, SkipRight, PropertyRight
<1>2. IsSeq(names) /\ Len(names) # 0 /\ \A k \in 1..Len(names) : IsSeq(names[k])
  <2>1. IsSeq(<<key>>) /\ Len(<<key>>) = 1 /\ <<key>>[1] = key /\ Len(aliases) \in Nat
    BY Single DEF IsSeq
  <2>2. /\ IsSeq(names) /\ Len(names) = 1 + Len(aliases)
        /\ \A i \in 1..1 : names[i] = <<key>>[i]
        /\ \A i \in (1 + 1)..(1 + Len(aliases)) : names[i] = aliases[i - 1]
    BY <2>1, Joined
  <2> HIDE DEF names
  <2>3. ASSUME NEW k \in 1..Len(names) PROVE IsSeq(names[k])
    <3>1. CASE k = 1
      BY <2>1, <2>2, <3>1
    <3>2. CASE k # 1
      <4>1. k \in (1 + 1)..(1 + Len(aliases)) /\ k - 1 \in 1..Len(aliases)
        BY <2>1, <2>2, <3>2
      <4>2. QED
        BY <2>2, <4>1
    <3>3. QED
      BY <3>1, <3>2
  <2>4. QED
    BY <2>1, <2>2, <2>3
<1> HIDE DEF names
<1>3. BestRight(a)
  <2> SUFFICES ASSUME Sound PROVE c = BestContext(names, type)
    BY DEF BestRight, names
  <2>1. PICK at \in [1..nspec -> Effective] : InTriedOrder(at)
    BY DEF IInv, OpenRight, Sound
  <2>2. SoundOpen(at)
    BY <2>1 DEF SoundOpen
  <2>3. QED
    BY <1>2, <2>2, BestMeant
<1>4. FitsRight(a)
  <2> SUFFICES ASSUME ~edited, ~opts.validating, c # None
               PROVE  \E p \in Effective, k \in DOMAIN names :
                          LineAt(p).ctx = c /\ Fits(LineAt(p), Clean(names[k]), type)
    BY DEF FitsRight, names
  <2>1. /\ IsSeq(found) /\ Len(found) = Len(names) /\ DOMAIN names = 1..Len(names)
        /\ \A k \in 1..Len(names) : /\ found[k] = Found(names[k], type, FALSE)
                                    /\ found[k] # 0 => Width(found[k]) \in Nat
    BY <1>2, FoundOfIs
  <2>2. BestOf(found) # 0
    BY DEF ContextOf
  <2> HIDE DEF found
  <2>3. PICK k \in 1..Len(names) : found[k] = BestOf(found)
    BY <1>2, <2>1, <2>2, BestIsFound
  <2>4. Found(names[k], type, FALSE) # 0 /\ c = ContextOf(Found(names[k], type, FALSE))
    BY <2>1, <2>2, <2>3
  <2>5. PICK p \in Effective : LineAt(p).ctx = c /\ Fits(LineAt(p), Clean(names[k]), type)
    BY <1>2, <2>4, LabelFound
  <2> HIDE DEF c
  <2>6. QED
    BY <2>1, <2>5, Zenon
<1>5. AllRight(a)
  BY <1>1, <1>3, <1>4 DEF AllRight
<1>6. QED
  BY <1>5 DEF names

-----------------------------------------------------------------------------
(* The answers are right after every step. *)

AnswersRight ==
    LastMatchWins /\ LabelFits /\ BestMatchIsBest /\ SkippedHasNoLabels /\ LongestPrefixWins

LEMMA NoneAnswered == answer = NoAnswer => AnswersRight
BY Unanswered, AnswersAre DEF AnswersRight

\* The answer of each lookup is right.
LEMMA LookedUp ==
    ASSUME IInv, NEW key \in Keys, NEW type, NEW aliases,
           \/ Lookup(key, type) \/ PartialMatch(key)
           \/ aliases \in Aliases /\ BestMatch(key, aliases, type)
    PROVE  AllRight(answer')
<1>1. phase = "open" /\ IsSeq(key)
  BY LooksUp, LookupsAssumption
<1>2. CASE Lookup(key, type)
  <2>1. CASE opts.backend = "property"
    <3>1. answer' = [op |-> "lookup", key |-> key, type |-> type, aliases |-> << >>,
                     ctx |-> ContextOf(FoundProperty(key))]
      BY <1>2, <2>1, Zenon DEF Lookup, Answered
    <3>2. QED
      BY <1>1, <2>1, <3>1, PropertyLookupRight
  <2>2. CASE opts.backend # "property"
    <3>1. answer' = [op |-> "lookup", key |-> key, type |-> type, aliases |-> << >>,
                     ctx |-> ContextOf(Found(key, type, FALSE))]
      BY <1>2, <2>2, Zenon DEF Lookup, Answered
    <3>2. QED
      BY <1>1, <2>2, <3>1, LookupRight
  <2>3. QED
    BY <2>1, <2>2
<1>3. CASE PartialMatch(key)
  <2>1. CASE opts.backend = "property"
    <3>1. answer' = [op |-> "partial", key |-> key, may |-> TRUE]
      BY <1>3, <2>1, Zenon DEF PartialMatch
    <3>2. QED
      BY <3>1 DEF AllRight, LastRight, FitsRight, BestRight, SkipRight, PropertyRight
  <2>2. CASE opts.backend # "property"
    <3>1. answer' = [op |-> "partial", key |-> key, may |-> Found(key, AnyType, TRUE) # 0]
      BY <1>3, <2>2, Zenon DEF PartialMatch
    <3>2. QED
      BY <1>1, <2>2, <3>1, PartialRight
  <2>3. QED
    BY <2>1, <2>2
<1>4. CASE aliases \in Aliases /\ BestMatch(key, aliases, type)
  <2>0. IsSeq(aliases) /\ \A i \in 1..Len(aliases) : IsSeq(aliases[i])
    BY <1>4, LookupsAssumption
  <2>1. opts.backend = "file"
    BY <1>4, Zenon DEF BestMatch
  <2>2. answer' = [op |-> "best", key |-> key, type |-> type, aliases |-> aliases,
                   ctx |-> ContextOf(BestOf(FoundOf(<<key>> \o aliases, type)))]
    BY <1>4, Zenon DEF BestMatch, Answered, FoundOf
  <2>3. QED
    BY <1>1, <2>0, <2>1, <2>2, BestMatchRight
<1>5. QED
  BY <1>2, <1>3, <1>4

\* So the answers are right after any step.
LEMMA AnswersKept == IInv /\ AnswersRight /\ [Next]_vars => AnswersRight'
<1> SUFFICES ASSUME IInv, AnswersRight, [Next]_vars PROVE AnswersRight'
  OBVIOUS
<1>1. (AnswersRight <=> \A a : a = answer => AllRight(a))'
  <2>1. AnswersRight <=> \A a : a = answer => AllRight(a)
    BY AnswersAre DEF AnswersRight
  <2>2. QED
    BY AnswersAre, PTL DEF AnswersRight
<1>2. (answer = NoAnswer => AnswersRight)'
  BY NoneAnswered, PTL
<1>3. answer # NoAnswer => phase = "open"
  BY DEF IInv, Shape
<1>4. CASE Open \/ Take \/ Close
  <2>1. answer' = NoAnswer
    BY <1>4, Zenon DEF Open, Take, Close
  <2>2. QED
    BY <1>2, <2>1 DEF NoAnswer
<1>5. CASE ReadLine \/ EndOfFile \/ Edit
  <2>1. phase = "reading" /\ answer' = answer
    BY <1>5, Zenon DEF ReadLine, EndOfFile, Edit
  <2>2. answer' = NoAnswer
    BY <1>3, <2>1
  <2>3. QED
    BY <1>2, <2>2 DEF NoAnswer
<1>6. ASSUME NEW key \in Keys, NEW type, NEW aliases,
             \/ Lookup(key, type) \/ PartialMatch(key)
             \/ aliases \in Aliases /\ BestMatch(key, aliases, type)
      PROVE  AnswersRight'
  <2>1. AllRight(answer') /\ UNCHANGED <<disk, opts, edited>>
    BY <1>6, LookedUp, LooksUp
  <2>2. ASSUME NEW a, a = answer' PROVE AllRight(a)'
    BY <2>1, <2>2, SameAnswers
  <2>3. QED
    BY <1>1, <2>2
<1>7. CASE UNCHANGED vars
  <2>1. UNCHANGED <<disk, opts, edited, answer>>
    BY <1>7 DEF vars
  <2>2. \A a : a = answer => AllRight(a)
    BY AnswersAre DEF AnswersRight
  <2>3. ASSUME NEW a, a = answer' PROVE AllRight(a)'
    BY <2>1, <2>2, <2>3, SameAnswers
  <2>4. QED
    BY <1>1, <2>3
<1>8. CASE Next
  BY <1>4, <1>5, <1>6, <1>8, Zenon DEF Next
<1>9. QED
  BY <1>7, <1>8

\* A handle that is open has no conflicts.
LEMMA OpenedWithoutConflicts == IInv => NoConflictsOpened
BY Zenon DEF IInv, OpenRight, NoConflicts, NoConflictsOpened

\* Whatever is read and looked up, the invariant holds and the answers are
\* right, those of the backends and those to a search for part of a path.
LEMMA AlwaysRight == Spec => [](IInv /\ AnswersRight)
<1>1. Init => IInv /\ AnswersRight
  <2>1. Init => answer = NoAnswer
    BY DEF Init
  <2>2. QED
    BY <2>1, InitHolds, NoneAnswered
<1>2. IInv /\ AnswersRight /\ [Next]_vars => IInv' /\ AnswersRight'
  BY NextKeeps, AnswersKept
<1>3. QED
  BY <1>1, <1>2, PTL DEF Spec

\* A lookup in the file backend (lookup_common() and lookup_best_match() of
\* label_file.c) answers what the files say: the last exact specification that
\* matches or else the last one, and of several names the exact one or that of
\* the longest fixed prefix.  This is so for any specifications, options and paths
\* (Sound says which files are meant: not edited between the two passes, of
\* expressions that compile and whose first name is written without escapes).  Of
\* other files, unless edited or validated, it says only that a label is that of
\* a specification that matches.
THEOREM FileAnswers == Spec => []FileAnswersRight
<1>1. IInv /\ AnswersRight => FileAnswersRight
  BY TypesFollow, Zenon DEF AnswersRight, FileAnswersRight
<1>2. QED
  BY <1>1, AlwaysRight, PTL

\* A directory that selabel_partial_match() says nothing below can match holds
\* nothing that has a label, whatever is looked up there: of files that are Sound,
\* but for the directories of the root and for directories that a specification
\* of <<none>> is for, or for something below, which are skipped though another
\* specification may label what they hold (label_file.c:651).
THEOREM SkippedHoldsNothing == Spec => []SkippedHasNoLabels
<1>1. IInv /\ AnswersRight => SkippedHasNoLabels
  BY Zenon DEF AnswersRight
<1>2. QED
  BY <1>1, AlwaysRight, PTL

\* lookup() of the property backend (label_android_property.c), which takes the
\* first of the sorted keys, answers with the longest one that fits, and no file
\* with two specifications of one thing (nodups_specs()) is ever opened; of files
\* that are not edited between the two passes.
THEOREM PropertyAnswers == Spec => []PropertyAnswersRight
<1>1. IInv /\ AnswersRight => PropertyAnswersRight
  BY OpenedWithoutConflicts, Zenon DEF AnswersRight, PropertyAnswersRight
<1>2. QED
  BY <1>1, AlwaysRight, PTL
=============================================================================
