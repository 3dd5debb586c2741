-------------------------- MODULE SparseFile_proofs --------------------------
(***************************************************************************)
(* Proofs about libsparse and its tools, for images, sources and part sizes *)
(* of any kind: every list of backed blocks stays sound (ListsSound), no    *)
(* part of simg2simg is longer than asked but for its gaps                  *)
(* (PartsFitButForGaps), and its second cut makes as many parts as its      *)
(* first has counted (SecondCutAgrees).  What the lists and files hold is   *)
(* proved in SparseImage_proofs.                                            *)
(*                                                                         *)
(* A list is sound if its cells are in order, none reaches into the next,   *)
(* and the last_used hint leads into it (IsList); each call keeps that for  *)
(* the lists it touches.  Two things make it inductive.  Every cell ends    *)
(* within MaxBlocks blocks, so that merged lengths do not wrap; and while   *)
(* simg2simg counts and cuts, what has been moved to tmp ends before what   *)
(* is left begins (Behind), so that moved runs are put at the end.          *)
(*                                                                         *)
(* What is imported is in order because the blocks of the chunks before a   *)
(* chunk are where it starts: sums along the file, taken from the folds the *)
(* model is written with.                                                   *)
(*                                                                         *)
(* A part is as long as its header and what its cells cost, with a chunk    *)
(* header for each gap before, between and behind them: the same sums.      *)
(* What is counted is cut alike because tmp keeps the parts one behind the  *)
(* other (Cuts).  The only cell a round may change that an earlier part has *)
(* looked at is the first behind it, and the piece it keeps still costs     *)
(* too much for that part (KeepsNext).                                      *)
(***************************************************************************)
EXTENDS SparseFile, FiniteSetTheorems, WellFoundedInduction, NaturalsInduction, TLAPS

-----------------------------------------------------------------------------
(* Blocks and words. *)
\* Quotients and products of words and blocks.
LEMMA Quotient ==
    ASSUME NEW b \in Nat \ {0}, NEW q \in Nat, NEW r \in 0..(b - 1)
    PROVE  (q * b + r) \div b = q
OBVIOUS

LEMMA Product ==
    ASSUME NEW b \in Nat, NEW q \in Nat
    PROVE  q * b \in Nat /\ (q + 1) * b = q * b + b
OBVIOUS

LEMMA SumTimes ==
    ASSUME NEW b \in Nat, NEW q \in Nat, NEW k \in Nat
    PROVE  (k + q) * b = k * b + q * b
OBVIOUS

LEMMA TimesMonotone ==
    ASSUME NEW b \in Nat, NEW q \in Nat, NEW k \in Nat, q <= k
    PROVE  q * b <= k * b
OBVIOUS

LEMMA Parts ==
    ASSUME NEW b \in Nat \ {0}, NEW n \in Nat
    PROVE  /\ n \div b \in Nat /\ n % b \in 0..(b - 1)
           /\ n = (n \div b) * b + (n % b)
           /\ n - (n % b) = (n \div b) * b
<1>1. n \div b \in Nat /\ n % b \in 0..(b - 1) /\ n = (n \div b) * b + (n % b)
  <2>1. n \div b \in Nat /\ n % b \in 0..(b - 1)
        /\ n = b * (n \div b) + (n % b)
    OBVIOUS
  <2>2. b * (n \div b) = (n \div b) * b
    BY <2>1
  <2>3. QED
    BY <2>1, <2>2
<1>2. (n \div b) * b \in Nat
  BY <1>1, Product
<1> DEFINE p == (n \div b) * b
           r == n % b
<1>3. p \in Nat /\ r \in Int /\ n = p + r
  BY <1>1, <1>2
<1> HIDE DEF p, r
<1>4. n - r = p
  BY <1>3
<1>5. QED
  BY <1>1, <1>4 DEF p, r

\* Whole blocks, together and without one another, are whole blocks.
LEMMA WholeTimes ==
    ASSUME NEW b \in Nat \ {0}, NEW q \in Nat
    PROVE  (q * b) % b = 0
<1> DEFINE n == q * b
           k == n \div b
           r == n % b
<1>1. n \in Nat
  BY Product
<1>2. k \in Nat /\ r \in 0..(b - 1) /\ n = k * b + r
  BY <1>1, Parts
<1>3. k = q
  <2>1. 0 \in 0..(b - 1)
    OBVIOUS
  <2>2. (q * b + 0) \div b = q
    BY <2>1, Quotient
  <2>3. q * b + 0 = n
    BY <1>1
  <2>4. QED
    BY <2>2, <2>3
<1>4. k * b = n
  BY <1>3
<1> HIDE DEF n, k, r
<1>5. r = 0
  BY <1>1, <1>2, <1>4
<1>6. QED
  BY <1>5 DEF r, n

LEMMA WholeIs ==
    ASSUME NEW b \in Nat \ {0}, NEW n \in Nat, n % b = 0
    PROVE  n \div b \in Nat /\ n = (n \div b) * b
<1> DEFINE p == (n \div b) * b
<1>1. n \div b \in Nat /\ n = p + (n % b)
  BY Parts
<1>2. p \in Nat
  BY <1>1, Product
<1> HIDE DEF p
<1>3. n = p
  BY <1>1, <1>2
<1>4. QED
  BY <1>1, <1>3 DEF p

LEMMA WholeSum ==
    ASSUME NEW b \in Nat \ {0}, NEW n \in Nat, NEW m \in Nat, n % b = 0, m % b = 0
    PROVE  (n + m) % b = 0 /\ (n <= m => (m - n) % b = 0)
<1> DEFINE k == n \div b
           j == m \div b
<1>1. k \in Nat /\ j \in Nat /\ n = k * b /\ m = j * b
  BY WholeIs
<1> HIDE DEF k, j
<1>2. n + m = (k + j) * b /\ k + j \in Nat
  BY <1>1, SumTimes
<1>3. ASSUME n <= m PROVE (m - n) % b = 0
  <2>1. k <= j
    <3>1. SUFFICES ASSUME j + 1 <= k PROVE FALSE
      BY <1>1
    <3>2. (j + 1) * b <= k * b /\ (j + 1) * b = j * b + b
      BY <1>1, <3>1, TimesMonotone, Product
    <3>3. m + b <= n
      BY <1>1, <3>2
    <3>4. QED
      BY <1>3, <3>3
  <2> DEFINE d == j - k
  <2>2. d \in Nat /\ k + d = j
    BY <1>1, <2>1
  <2> HIDE DEF d
  <2>3. j * b = k * b + d * b
    BY <1>1, <2>2, SumTimes
  <2>4. d * b \in Nat
    BY <2>2, Product
  <2>5. m - n = d * b
    BY <1>1, <2>3, <2>4
  <2>6. QED
    BY <2>2, <2>5, WholeTimes
<1>4. QED
  BY <1>2, <1>3, WholeTimes

\* So many words need so many blocks.
LEMMA UpIs ==
    ASSUME NEW q \in Nat, NEW r \in 0..(BlockSize - 1)
    PROVE  DivUp(q * BlockSize + r) = IF r = 0 THEN q ELSE q + 1
<1> BlockSize \in Nat \ {0}
  BY BlockSizeAssumption
<1>1. q * BlockSize \in Nat /\ (q + 1) * BlockSize = q * BlockSize + BlockSize
  BY Product
<1>2. CASE r = 0
  <2>1. q * BlockSize + r + BlockSize - 1 = q * BlockSize + (BlockSize - 1)
    BY <1>1, <1>2
  <2>2. QED
    BY <1>2, <2>1, Quotient DEF DivUp
<1>3. CASE r # 0
  <2>1. r - 1 \in 0..(BlockSize - 1) /\ q + 1 \in Nat
    BY <1>3
  <2>2. q * BlockSize + r + BlockSize - 1 = (q + 1) * BlockSize + (r - 1)
    BY <1>1
  <2>3. (q * BlockSize + r + BlockSize - 1) \div BlockSize = q + 1
    BY <2>1, <2>2, Quotient
  <2>4. QED
    BY <1>3, <2>3 DEF DivUp
<1>4. QED
  BY <1>2, <1>3

LEMMA UpNat ==
    ASSUME NEW n \in Nat
    PROVE  DivUp(n) \in Nat /\ (n > 0 => DivUp(n) > 0) /\ (n = 0 => DivUp(n) = 0)
<1> BlockSize \in Nat \ {0}
  BY BlockSizeAssumption
<1> DEFINE q == n \div BlockSize
           r == n % BlockSize
<1>1. q \in Nat /\ r \in 0..(BlockSize - 1) /\ n = q * BlockSize + r
  BY Parts
<1>2. q = 0 => q * BlockSize = 0
  BY <1>1
<1>3. n = 0 => q = 0 /\ r = 0
  BY <1>1, Product
<1> HIDE DEF q, r
<1>4. DivUp(n) = IF r = 0 THEN q ELSE q + 1
  BY <1>1, UpIs
<1>5. QED
  BY <1>1, <1>2, <1>3, <1>4

\* Whole blocks and some words.
LEMMA UpBehind ==
    ASSUME NEW k \in Nat, NEW n \in Nat
    PROVE  DivUp(k * BlockSize + n) = k + DivUp(n)
<1> BlockSize \in Nat \ {0}
  BY BlockSizeAssumption
<1>1. PICK q \in Nat, r \in 0..(BlockSize - 1) : n = q * BlockSize + r
  BY Parts
<1>2. k * BlockSize + n = (k + q) * BlockSize + r /\ k + q \in Nat
  BY <1>1, SumTimes, Product
<1>3. DivUp((k + q) * BlockSize + r) = IF r = 0 THEN k + q ELSE k + q + 1
  BY <1>2, UpIs
<1>4. DivUp(q * BlockSize + r) = IF r = 0 THEN q ELSE q + 1
  BY UpIs
<1>5. DivUp(k * BlockSize + n) = DivUp((k + q) * BlockSize + r) /\ DivUp(n) = DivUp(q * BlockSize + r)
  BY <1>1, <1>2, Zenon
<1>6. QED
  BY <1>3, <1>4, <1>5

LEMMA UpWhole ==
    ASSUME NEW k \in Nat
    PROVE  DivUp(k * BlockSize) = k /\ k * BlockSize \in Nat
<1> BlockSize \in Nat \ {0}
  BY BlockSizeAssumption
<1>1. k * BlockSize \in Nat
  BY Product
<1>2. PICK r \in 0..(BlockSize - 1) : r = 0
  OBVIOUS
<1>3. DivUp(k * BlockSize + r) = IF r = 0 THEN k ELSE k + 1
  BY UpIs
<1>4. k * BlockSize + r = k * BlockSize
  BY <1>1, <1>2
<1>5. DivUp(k * BlockSize + r) = k
  BY <1>2, <1>3, Zenon
<1>6. DivUp(k * BlockSize) = k
  BY <1>4, <1>5, Zenon
<1>7. QED
  BY <1>1, <1>6

LEMMA UpCovers ==
    ASSUME NEW n \in Nat
    PROVE  /\ n <= DivUp(n) * BlockSize
           /\ DivUp(n) <= n \div BlockSize => n = (n \div BlockSize) * BlockSize
<1> BlockSize \in Nat \ {0}
  BY BlockSizeAssumption
<1> DEFINE q == n \div BlockSize
           r == n % BlockSize
<1>1. q \in Nat /\ r \in 0..(BlockSize - 1) /\ n = q * BlockSize + r
  BY Parts
<1>2. q * BlockSize \in Nat /\ (q + 1) * BlockSize = q * BlockSize + BlockSize
  BY <1>1, Product
<1> HIDE DEF q, r
<1>3. DivUp(n) = IF r = 0 THEN q ELSE q + 1
  BY <1>1, UpIs
<1>4. n <= DivUp(n) * BlockSize
  BY <1>1, <1>2, <1>3
<1>5. DivUp(n) <= q => n = q * BlockSize
  BY <1>1, <1>2, <1>3
<1>6. QED
  BY <1>4, <1>5 DEF q

-----------------------------------------------------------------------------
(* Numbers. *)

\* Induction over the numbers, for a set.
LEMMA FromZero ==
    ASSUME NEW T, 0 \in T, \A n \in Nat : n \in T => n + 1 \in T
    PROVE  Nat \subseteq T
<1> DEFINE U == Nat \ T
<1>1. SUFFICES ASSUME U # {} PROVE FALSE
  OBVIOUS
<1>2. IsWellFoundedOn(OpToRel(<, Nat), Nat)
  BY NatLessThanWellFounded
<1>3. PICK x \in U : \A y \in U : ~(<<y, x>> \in OpToRel(<, Nat))
  <2> HIDE DEF U
  <2>2. U \subseteq Nat
    BY DEF U
  <2>3. QED
    BY <1>1, <1>2, <2>2, WFMin, Zenon
<1>4. x \in Nat /\ x # 0
  OBVIOUS
<1>5. x - 1 \in Nat /\ x - 1 + 1 = x
  BY <1>4
<1>6. x - 1 \in U
  BY <1>5
<1>7. <<x - 1, x>> \in OpToRel(<, Nat)
  BY <1>4, <1>5 DEF OpToRel
<1>8. QED
  BY <1>3, <1>6, <1>7

LEMMA MinIs ==
    ASSUME NEW S \in SUBSET Nat, S # {}
    PROVE  Min(S) \in S /\ \A y \in S : Min(S) <= y
<1>1. IsWellFoundedOn(OpToRel(<, Nat), Nat)
  BY NatLessThanWellFounded
<1>2. PICK x \in S : \A y \in S : ~(<<y, x>> \in OpToRel(<, Nat))
  BY <1>1, WFMin, Zenon
<1>3. \A y \in S : x <= y
  <2> TAKE y \in S
  <2>1. x \in Nat /\ y \in Nat
    OBVIOUS
  <2>2. ASSUME y < x PROVE FALSE
    <3>1. <<y, x>> \in OpToRel(<, Nat)
      BY <2>1, <2>2 DEF OpToRel
    <3>2. QED
      BY <1>2, <3>1
  <2>3. QED
    BY <2>1, <2>2
<1>4. \E z \in S : \A y \in S : z <= y
  BY <1>3
<1>5. QED
  BY <1>4, Zenon DEF Min

LEMMA MaxIs ==
    ASSUME NEW n \in Nat, NEW S \in SUBSET (0..n), S # {}
    PROVE  Max(S) \in S /\ \A y \in S : Max(S) >= y
<1> DEFINE T == { n - y : y \in S }
<1>1. T \in SUBSET Nat /\ T # {}
  <2>1. \A y \in S : y \in Int /\ 0 <= y /\ y <= n
    OBVIOUS
  <2>2. \A y \in S : n - y \in Nat
    BY <2>1
  <2>3. QED
    BY <2>2
<1>2. Min(T) \in T /\ \A y \in T : Min(T) <= y
  BY <1>1, MinIs
<1>3. PICK x \in S : Min(T) = n - x
  BY <1>2
<1>4. \A y \in S : n - x <= n - y
  BY <1>2, <1>3
<1>5. \A y \in S : x >= y
  <2> TAKE y \in S
  <2>1. x \in Int /\ y \in Int /\ n - x <= n - y
    BY <1>4
  <2>2. QED
    BY <2>1
<1>6. \E z \in S : \A y \in S : z >= y
  BY <1>5
<1>7. QED
  BY <1>6, Zenon DEF Max

-----------------------------------------------------------------------------
(* Sequences of anything. *)
IsSeq(q) == Len(q) \in Nat /\ q = [i \in 1..Len(q) |-> q[i]]

LEMMA SeqIs == ASSUME NEW T, NEW q \in Seq(T) PROVE IsSeq(q)
<1>1. Len(q) \in Nat /\ DOMAIN q = 1..Len(q)
  OBVIOUS
<1>2. q = [i \in 1..Len(q) |-> q[i]]
  OBVIOUS
<1>3. QED
  BY <1>1, <1>2 DEF IsSeq

LEMMA IsIn ==
    ASSUME NEW q, IsSeq(q), NEW T, \A i \in 1..Len(q) : q[i] \in T
    PROVE  q \in Seq(T)
<1> DEFINE n == Len(q)
<1>1. n \in Nat /\ q = [i \in 1..n |-> q[i]] /\ \A i \in 1..n : q[i] \in T
  BY DEF IsSeq
<1> HIDE DEF n
<1>2. q \in [1..n -> T]
  BY <1>1
<1>3. QED
  BY <1>1, <1>2

LEMMA Made ==
    ASSUME NEW n \in Nat, NEW q, q = [i \in 1..n |-> q[i]]
    PROVE  IsSeq(q) /\ Len(q) = n
<1> DEFINE T == { q[i] : i \in 1..n }
<1>1. q \in [1..n -> T]
  OBVIOUS
<1> HIDE DEF T
<1>2. q \in Seq(T) /\ Len(q) = n
  BY <1>1
<1>3. QED
  BY <1>2, SeqIs

LEMMA Joined ==
    ASSUME NEW p, IsSeq(p), NEW q, IsSeq(q)
    PROVE  /\ IsSeq(p \o q) /\ Len(p \o q) = Len(p) + Len(q)
           /\ \A i \in 1..Len(p) : (p \o q)[i] = p[i]
           /\ \A i \in 1..Len(q) : (p \o q)[Len(p) + i] = q[i]
           /\ \A i \in (Len(p) + 1)..(Len(p) + Len(q)) : (p \o q)[i] = q[i - Len(p)]
<1> DEFINE T == { p[i] : i \in 1..Len(p) } \cup { q[i] : i \in 1..Len(q) }
<1>1. p \in Seq(T) /\ q \in Seq(T)
  BY IsIn
<1> HIDE DEF T
<1>2. p \o q \in Seq(T) /\ Len(p) \in Nat /\ Len(q) \in Nat
  BY <1>1
<1>3. /\ Len(p \o q) = Len(p) + Len(q)
      /\ \A i \in 1..Len(p) : (p \o q)[i] = p[i]
      /\ \A i \in (Len(p) + 1)..(Len(p) + Len(q)) : (p \o q)[i] = q[i - Len(p)]
  BY <1>1
<1>4. \A i \in 1..Len(q) : (p \o q)[Len(p) + i] = q[i]
  <2> TAKE i \in 1..Len(q)
  <2>1. Len(p) + i \in (Len(p) + 1)..(Len(p) + Len(q)) /\ (Len(p) + i) - Len(p) = i
    BY <1>2
  <2>2. QED
    BY <1>3, <2>1
<1>5. QED
  BY <1>2, <1>3, <1>4, SeqIs

\* What begins a sequence, and what is left of it.
LEMMA Begun ==
    ASSUME NEW q, IsSeq(q), NEW n \in 0..Len(q)
    PROVE  /\ IsSeq(SubSeq(q, 1, n)) /\ Len(SubSeq(q, 1, n)) = n
           /\ \A i \in 1..n : SubSeq(q, 1, n)[i] = q[i]
<1> DEFINE T == { q[i] : i \in 1..Len(q) }
<1>1. q \in Seq(T) /\ Len(q) \in Nat /\ n \in Nat
  BY IsIn DEF IsSeq
<1> HIDE DEF T
<1>2. SubSeq(q, 1, n) \in Seq(T)
  BY <1>1
<1>3. /\ Len(SubSeq(q, 1, n)) = n
      /\ \A i \in 1..n : SubSeq(q, 1, n)[i] = q[i]
  BY <1>1
<1>4. QED
  BY <1>2, <1>3, SeqIs

LEMMA Rest ==
    ASSUME NEW q, IsSeq(q), NEW n \in 0..Len(q)
    PROVE  /\ IsSeq(SubSeq(q, n + 1, Len(q))) /\ Len(SubSeq(q, n + 1, Len(q))) = Len(q) - n
           /\ \A i \in 1..(Len(q) - n) : SubSeq(q, n + 1, Len(q))[i] = q[n + i]
<1> DEFINE T == { q[i] : i \in 1..Len(q) }
           l == Len(q)
<1>1. q \in Seq(T) /\ l \in Nat /\ n \in Nat /\ n <= l /\ l = Len(q)
  BY IsIn DEF IsSeq
<1> HIDE DEF T, l
<1>2. SubSeq(q, n + 1, l) \in Seq(T)
  BY <1>1
<1>3. /\ Len(SubSeq(q, n + 1, l)) = l - n
      /\ \A i \in 1..(l - n) : SubSeq(q, n + 1, l)[i] = q[n + i]
  <2>1. Len(SubSeq(q, n + 1, l)) = l - n
    BY <1>1
  <2>2. \A i \in 1..(l - n) : SubSeq(q, n + 1, l)[i] = q[(n + 1) + i - 1]
    BY <1>1
  <2>3. \A i \in 1..(l - n) : (n + 1) + i - 1 = n + i
    BY <1>1
  <2>4. QED
    BY <2>1, <2>2, <2>3
<1>4. QED
  BY <1>1, <1>2, <1>3, SeqIs

LEMMA Single == ASSUME NEW e PROVE IsSeq(<<e>>) /\ Len(<<e>>) = 1 /\ <<e>>[1] = e
<1>1. <<e>> \in Seq({e})
  OBVIOUS
<1>2. QED
  BY <1>1, SeqIs

\* One element more, and one less.
LEMMA Inserted ==
    ASSUME NEW q, IsSeq(q), NEW p \in 0..Len(q), NEW e
    PROVE  /\ IsSeq(InsertAt(q, p + 1, e)) /\ Len(InsertAt(q, p + 1, e)) = Len(q) + 1
           /\ \A i \in 1..p : InsertAt(q, p + 1, e)[i] = q[i]
           /\ InsertAt(q, p + 1, e)[p + 1] = e
           /\ \A i \in (p + 2)..(Len(q) + 1) : InsertAt(q, p + 1, e)[i] = q[i - 1]
<1> DEFINE a == SubSeq(q, 1, p)
           b == SubSeq(q, p + 1, Len(q))
           o == <<e>>
           t == (a \o o) \o b
           l == Len(q)
<1>1. InsertAt(q, p + 1, e) = t
  <2>1. (p + 1) - 1 = p
    OBVIOUS
  <2>2. QED
    BY <2>1 DEF InsertAt
<1>2. l \in Nat /\ p \in Nat /\ p <= l /\ l = Len(q)
  BY DEF IsSeq
<1>3. /\ IsSeq(a) /\ Len(a) = p /\ \A i \in 1..p : a[i] = q[i]
      /\ IsSeq(b) /\ Len(b) = l - p /\ \A i \in 1..(l - p) : b[i] = q[p + i]
  BY Begun, Rest
<1>4. IsSeq(o) /\ Len(o) = 1 /\ o[1] = e
  BY Single
<1> DEFINE c == a \o o
<1>5. /\ IsSeq(c) /\ Len(c) = p + 1 /\ (\A i \in 1..p : c[i] = a[i]) /\ c[p + 1] = e
  <2> HIDE DEF a, b, o
  <2>1. /\ IsSeq(c) /\ Len(c) = Len(a) + Len(o) /\ (\A i \in 1..Len(a) : c[i] = a[i])
        /\ \A i \in (Len(a) + 1)..(Len(a) + Len(o)) : c[i] = o[i - Len(a)]
    <3>1. IsSeq(a) /\ IsSeq(o)
      BY <1>3, <1>4
    <3>2. QED
      BY <3>1, Joined, Zenon
  <2> HIDE DEF c
  <2>2. p + 1 \in (Len(a) + 1)..(Len(a) + Len(o)) /\ (p + 1) - Len(a) = 1
    BY <1>2, <1>3, <1>4
  <2>3. c[p + 1] = o[1]
    BY <2>1, <2>2
  <2>4. QED
    BY <1>3, <1>4, <2>1, <2>3
<1> HIDE DEF a, b, c, o
<1>6. /\ IsSeq(c \o b) /\ Len(c \o b) = (p + 1) + (l - p)
      /\ \A i \in 1..(p + 1) : (c \o b)[i] = c[i]
      /\ \A i \in ((p + 1) + 1)..((p + 1) + (l - p)) : (c \o b)[i] = b[i - (p + 1)]
  <2>1. /\ IsSeq(c \o b) /\ Len(c \o b) = Len(c) + Len(b)
        /\ \A i \in 1..Len(c) : (c \o b)[i] = c[i]
        /\ \A i \in (Len(c) + 1)..(Len(c) + Len(b)) : (c \o b)[i] = b[i - Len(c)]
    <3>1. IsSeq(c) /\ IsSeq(b)
      BY <1>3, <1>5
    <3>2. QED
      BY <3>1, Joined, Zenon
  <2>2. Len(c) = p + 1 /\ Len(b) = l - p
    BY <1>3, <1>5
  <2>3. QED
    BY <2>1, <2>2, Zenon
<1>7. t = c \o b
  BY DEF c
<1> HIDE DEF t, l
<1>8. IsSeq(t) /\ Len(t) = l + 1
  <2> DEFINE cb == c \o b
  <2>1. IsSeq(cb) /\ Len(cb) = (p + 1) + (l - p) /\ t = cb
    BY <1>6, <1>7
  <2> HIDE DEF cb
  <2>2. (p + 1) + (l - p) = l + 1
    BY <1>2
  <2>3. QED
    BY <2>1, <2>2
<1>9. \A i \in 1..p : t[i] = q[i]
  BY <1>2, <1>3, <1>5, <1>6, <1>7
<1>10. t[p + 1] = e
  BY <1>2, <1>5, <1>6, <1>7
<1>11. \A i \in (p + 2)..(l + 1) : t[i] = q[i - 1]
  <2> TAKE i \in (p + 2)..(l + 1)
  <2>1. /\ i \in ((p + 1) + 1)..((p + 1) + (l - p)) /\ i - (p + 1) \in 1..(l - p)
        /\ p + (i - (p + 1)) = i - 1
    BY <1>2
  <2>2. t[i] = b[i - (p + 1)]
    BY <1>6, <1>7, <2>1
  <2>3. b[i - (p + 1)] = q[p + (i - (p + 1))]
    BY <1>3, <2>1
  <2>4. QED
    BY <2>1, <2>2, <2>3
<1>12. QED
  BY <1>1, <1>2, <1>8, <1>9, <1>10, <1>11

LEMMA Removed ==
    ASSUME NEW q, IsSeq(q), NEW p \in 1..Len(q)
    PROVE  /\ IsSeq(RemoveAt(q, p)) /\ Len(RemoveAt(q, p)) = Len(q) - 1
           /\ \A i \in 1..(p - 1) : RemoveAt(q, p)[i] = q[i]
           /\ \A i \in p..(Len(q) - 1) : RemoveAt(q, p)[i] = q[i + 1]
<1> DEFINE a == SubSeq(q, 1, p - 1)
           b == SubSeq(q, p + 1, Len(q))
           t == a \o b
           l == Len(q)
<1>1. RemoveAt(q, p) = t
  BY DEF RemoveAt
<1>2. l \in Nat /\ p \in Nat /\ 1 <= p /\ p <= l /\ l = Len(q) /\ p - 1 \in 0..l /\ p \in 0..l
  BY DEF IsSeq
<1>3. /\ IsSeq(a) /\ Len(a) = p - 1 /\ \A i \in 1..(p - 1) : a[i] = q[i]
      /\ IsSeq(b) /\ Len(b) = l - p /\ \A i \in 1..(l - p) : b[i] = q[p + i]
  BY <1>2, Begun, Rest
<1> HIDE DEF a, b
<1>4. /\ IsSeq(t) /\ Len(t) = (p - 1) + (l - p)
      /\ \A i \in 1..(p - 1) : t[i] = a[i]
      /\ \A i \in ((p - 1) + 1)..((p - 1) + (l - p)) : t[i] = b[i - (p - 1)]
  <2>1. /\ IsSeq(t) /\ Len(t) = Len(a) + Len(b)
        /\ \A i \in 1..Len(a) : t[i] = a[i]
        /\ \A i \in (Len(a) + 1)..(Len(a) + Len(b)) : t[i] = b[i - Len(a)]
    <3>1. IsSeq(a) /\ IsSeq(b)
      BY <1>3
    <3>2. QED
      BY <3>1, Joined, Zenon
  <2>2. Len(a) = p - 1 /\ Len(b) = l - p
    BY <1>3
  <2>3. QED
    BY <2>1, <2>2, Zenon
<1> HIDE DEF t, l
<1>5. IsSeq(t) /\ Len(t) = l - 1
  BY <1>2, <1>4
<1>6. \A i \in 1..(p - 1) : t[i] = q[i]
  BY <1>3, <1>4
<1>7. \A i \in p..(l - 1) : t[i] = q[i + 1]
  <2> TAKE i \in p..(l - 1)
  <2>1. /\ i \in ((p - 1) + 1)..((p - 1) + (l - p)) /\ i - (p - 1) \in 1..(l - p)
        /\ p + (i - (p - 1)) = i + 1
    BY <1>2
  <2>2. t[i] = b[i - (p - 1)] /\ b[i - (p - 1)] = q[p + (i - (p - 1))]
    BY <1>3, <1>4, <2>1
  <2>3. QED
    BY <2>1, <2>2
<1>8. QED
  BY <1>1, <1>2, <1>5, <1>6, <1>7

\* Two sequences in one.
AreJoined(p, q, r) ==
    /\ IsSeq(r) /\ Len(r) = Len(p) + Len(q)
    /\ \A i \in 1..Len(p) : r[i] = p[i]
    /\ \A i \in 1..Len(q) : r[Len(p) + i] = q[i]

\* Appending joins two sequences.
LEMMA JoinedAs ==
    ASSUME NEW p, IsSeq(p), NEW q, IsSeq(q)
    PROVE  AreJoined(p, q, p \o q)
BY Joined DEF AreJoined

\* One element more.
IsInserted(q, p, e, r) ==
    /\ IsSeq(r) /\ Len(r) = Len(q) + 1
    /\ \A i \in 1..p : r[i] = q[i]
    /\ r[p + 1] = e
    /\ \A i \in (p + 2)..(Len(q) + 1) : r[i] = q[i - 1]

\* InsertAt() inserts.
LEMMA InsertedAs ==
    ASSUME NEW q, IsSeq(q), NEW p \in 0..Len(q), NEW e
    PROVE  IsInserted(q, p, e, InsertAt(q, p + 1, e))
<1> DEFINE r == InsertAt(q, p + 1, e)
<1>1. IsSeq(r) /\ Len(r) = Len(q) + 1 /\ r[p + 1] = e
  BY Inserted
<1>2. \A i \in 1..p : r[i] = q[i]
  BY Inserted
<1>3. \A i \in (p + 2)..(Len(q) + 1) : r[i] = q[i - 1]
  BY Inserted
<1> HIDE DEF r
<1>4. IsInserted(q, p, e, r)
  BY <1>1, <1>2, <1>3 DEF IsInserted
<1>5. QED
  BY <1>4 DEF r

-----------------------------------------------------------------------------
(* Folds over sequences: each is a recursive function of sets of positions,  *)
(* of which the beginnings of the sequence are what matters.                 *)

LEMMA Beginnings ==
    ASSUME NEW k \in Nat
    PROVE  /\ SUBSET (1..0) = {{}}
           /\ \A x \in SUBSET (1..k) : x # {} => /\ Max(x) \in x
                                                 /\ x \ {Max(x)} \in SUBSET (1..k)
           /\ \A x \in SUBSET (1..(k + 1)) : x \notin SUBSET (1..k) =>
                 Max(x) = k + 1 /\ x # {} /\ x \ {k + 1} \in SUBSET (1..k)
           /\ Max(1..(k + 1)) = k + 1 /\ (1..(k + 1)) \ {k + 1} = 1..k
           /\ 1..(k + 1) # {} /\ 1..0 = {}
<1>1. SUBSET (1..0) = {{}} /\ 1..0 = {}
  <2>1. 1..0 = {}
    OBVIOUS
  <2>2. QED
    BY <2>1
<1>2. ASSUME NEW n \in Nat, NEW x \in SUBSET (1..n), x # {}
      PROVE  Max(x) \in x /\ \A y \in x : Max(x) >= y
  <2>1. x \in SUBSET (0..n)
    OBVIOUS
  <2>2. QED
    BY <1>2, <2>1, MaxIs
<1>3. \A x \in SUBSET (1..k) : x # {} => /\ Max(x) \in x
                                         /\ x \ {Max(x)} \in SUBSET (1..k)
  BY <1>2
<1>4. ASSUME NEW x \in SUBSET (1..(k + 1)), x \notin SUBSET (1..k)
      PROVE  Max(x) = k + 1 /\ x # {} /\ x \ {k + 1} \in SUBSET (1..k)
  <2>1. k + 1 \in x
    <3>1. PICK y \in x : y \notin 1..k
      BY <1>4
    <3>2. y \in 1..(k + 1)
      OBVIOUS
    <3>3. y = k + 1
      BY <3>1, <3>2
    <3>4. QED
      BY <3>3
  <2>2. Max(x) \in x /\ Max(x) >= k + 1
    <3>1. k + 1 \in Nat /\ x # {}
      BY <2>1
    <3>2. Max(x) \in x /\ \A y \in x : Max(x) >= y
      BY <1>2, <3>1
    <3>3. QED
      BY <2>1, <3>2
  <2>3. Max(x) \in 1..(k + 1)
    BY <2>2
  <2>4. Max(x) = k + 1
    BY <2>2, <2>3
  <2>5. \A y \in x \ {k + 1} : y \in 1..k
    <3> TAKE y \in x \ {k + 1}
    <3>1. y \in 1..(k + 1) /\ y # k + 1
      OBVIOUS
    <3>2. QED
      BY <3>1
  <2>6. QED
    BY <2>1, <2>4, <2>5
<1>5. k + 1 \in 1..(k + 1) /\ k + 1 \notin 1..k
  OBVIOUS
<1>6. Max(1..(k + 1)) = k + 1 /\ 1..(k + 1) # {}
  BY <1>4, <1>5
<1>7. (1..(k + 1)) \ {k + 1} = 1..k
  OBVIOUS
<1>8. QED
  BY <1>1, <1>3, <1>4, <1>6, <1>7

\* The function of a fold of n elements.
Folding(g, n, base, step) ==
    g = [x \in SUBSET (1..n) |->
            IF x = {} THEN base ELSE step[<<Max(x), g[x \ {Max(x)}]>>]]

\* There is one.
LEMMA Recursion ==
    ASSUME NEW n \in Nat, NEW base, NEW step
    PROVE  \E g : Folding(g, n, base, step)
<1> DEFINE Is(g, k) == g = [x \in SUBSET (1..k) |->
                          IF x = {} THEN base ELSE step[<<Max(x), g[x \ {Max(x)}]>>]]
           T == { k \in Nat : \E g : Is(g, k) }
<1>1. 0 \in T
  <2> DEFINE g == [x \in SUBSET (1..0) |-> base]
  <2>1. g = [x \in SUBSET (1..0) |->
                IF x = {} THEN base ELSE step[<<Max(x), g[x \ {Max(x)}]>>]]
    <3>1. \A x \in SUBSET (1..0) : x = {}
      BY Beginnings
    <3>2. QED
      BY <3>1
  <2>2. QED
    BY <2>1
<1>2. ASSUME NEW k \in Nat, k \in T PROVE k + 1 \in T
  <2>1. PICK g : Is(g, k)
    BY <1>2
  <2> DEFINE h == [x \in SUBSET (1..(k + 1)) |->
                      IF x \in SUBSET (1..k) THEN g[x]
                      ELSE step[<<Max(x), g[x \ {Max(x)}]>>]]
  <2>2. \A x \in SUBSET (1..(k + 1)) :
            h[x] = IF x = {} THEN base ELSE step[<<Max(x), h[x \ {Max(x)}]>>]
    <3> TAKE x \in SUBSET (1..(k + 1))
    <3>0. \A y \in SUBSET (1..k) : y \in SUBSET (1..(k + 1)) /\ h[y] = g[y]
      OBVIOUS
    <3> HIDE DEF h
    <3>1. CASE x \in SUBSET (1..k)
      <4>1. h[x] = g[x] /\ g[x] = IF x = {} THEN base ELSE step[<<Max(x), g[x \ {Max(x)}]>>]
        BY <2>1, <3>0, <3>1
      <4>2. x # {} => h[x \ {Max(x)}] = g[x \ {Max(x)}]
        BY <3>0, <3>1, Beginnings
      <4>3. QED
        BY <4>1, <4>2
    <3>2. CASE x \notin SUBSET (1..k)
      <4>1. Max(x) = k + 1 /\ x # {} /\ x \ {Max(x)} \in SUBSET (1..k)
        BY <3>2, Beginnings
      <4>2. h[x] = step[<<Max(x), g[x \ {Max(x)}]>>]
        BY <3>2 DEF h
      <4>3. h[x \ {Max(x)}] = g[x \ {Max(x)}]
        BY <3>0, <4>1
      <4>4. QED
        BY <4>1, <4>2, <4>3
    <3>3. QED
      BY <3>1, <3>2
  <2>3. h = [x \in SUBSET (1..(k + 1)) |-> h[x]]
    OBVIOUS
  <2> HIDE DEF h
  <2>4. Is(h, k + 1)
    BY <2>2, <2>3, Zenon
  <2>5. k + 1 \in Nat
    OBVIOUS
  <2> HIDE DEF Is
  <2>6. QED
    BY <2>4, <2>5
<1>3. n \in T
  <2> HIDE DEF T
  <2>1. Nat \subseteq T
    BY <1>1, <1>2, FromZero
  <2>2. QED
    BY <2>1
<1>4. QED
  BY <1>3 DEF Folding

\* Its values are of one set, if each step stays in it.
LEMMA RecursionIn ==
    ASSUME NEW n \in Nat, NEW A, NEW base \in A, NEW step \in [(1..n) \X A -> A]
    PROVE  \E g \in [SUBSET (1..n) -> A] : Folding(g, n, base, step)
<1>0. PICK g : Folding(g, n, base, step)
  BY Recursion
<1>1. g = [x \in SUBSET (1..n) |->
              IF x = {} THEN base ELSE step[<<Max(x), g[x \ {Max(x)}]>>]]
  BY <1>0 DEF Folding
<1> DEFINE T == { k \in Nat : k <= n => \A x \in SUBSET (1..k) : g[x] \in A }
<1>2. 0 \in T
  <2>1. \A x \in SUBSET (1..0) : x = {} /\ x \in SUBSET (1..n)
    BY Beginnings
  <2>2. QED
    BY <1>1, <2>1
<1>3. ASSUME NEW k \in Nat, k \in T PROVE k + 1 \in T
  <2>1. SUFFICES ASSUME k + 1 <= n, NEW x \in SUBSET (1..(k + 1)) PROVE g[x] \in A
    <3>1. k + 1 \in Nat
      OBVIOUS
    <3>2. QED
      BY <3>1
  <2>2. k <= n /\ k + 1 \in 1..n /\ \A y \in SUBSET (1..k) : g[y] \in A
    BY <1>3, <2>1
  <2>3. x \in SUBSET (1..n)
    BY <2>1
  <2>4. CASE x \in SUBSET (1..k)
    BY <2>2, <2>4
  <2>5. CASE x \notin SUBSET (1..k)
    <3>1. Max(x) = k + 1 /\ x # {} /\ x \ {Max(x)} \in SUBSET (1..k)
      BY <2>5, Beginnings
    <3>2. g[x] = step[<<k + 1, g[x \ {Max(x)}]>>]
      BY <1>1, <2>3, <3>1
    <3>3. g[x \ {Max(x)}] \in A
      BY <2>2, <3>1
    <3>4. QED
      BY <2>2, <3>2, <3>3
  <2>6. QED
    BY <2>4, <2>5
<1>4. n \in T
  <2> HIDE DEF T
  <2>1. Nat \subseteq T
    BY <1>2, <1>3, FromZero
  <2>2. QED
    BY <2>1
<1>5. \A x \in SUBSET (1..n) : g[x] \in A
  BY <1>4
<1>6. g \in [SUBSET (1..n) -> A]
  BY <1>1, <1>5
<1>7. QED
  BY <1>0, <1>6

\* Such a function, at the beginnings.
LEMMA AtBeginnings ==
    ASSUME NEW n \in Nat, NEW k \in 1..n
    PROVE  /\ 1..k \in SUBSET (1..n) /\ 1..k # {} /\ Max(1..k) = k
           /\ (1..k) \ {Max(1..k)} = 1..(k - 1)
           /\ {} \in SUBSET (1..n) /\ 1..0 = {}
<1>1. PICK l \in Nat : k = l + 1
  <2>1. k - 1 \in Nat /\ k = (k - 1) + 1
    OBVIOUS
  <2>2. QED
    BY <2>1
<1>2. Max(1..k) = k /\ (1..k) \ {k} = 1..l /\ 1..k # {} /\ 1..0 = {}
  BY <1>1, Beginnings
<1>3. l = k - 1 /\ 1..k \in SUBSET (1..n)
  BY <1>1
<1>4. QED
  BY <1>2, <1>3

\* The sums of the first numbers.
Sums(w, n, S) ==
    /\ S \in [0..n -> Nat] /\ S[0] = 0
    /\ \A k \in 1..n : S[k] = S[k - 1] + w[k]

LEMMA SumsExist ==
    ASSUME NEW n \in Nat, NEW w, \A i \in 1..n : w[i] \in Nat
    PROVE  \E S : Sums(w, n, S)
<1> DEFINE step == [p \in (1..n) \X Nat |-> p[2] + w[p[1]]]
<1>1. step \in [(1..n) \X Nat -> Nat]
  OBVIOUS
<1>2. \A k \in 1..n, a \in Nat : step[<<k, a>>] = a + w[k]
  OBVIOUS
<1> HIDE DEF step
<1>2a. PICK g \in [SUBSET (1..n) -> Nat] : Folding(g, n, 0, step)
  <2>1. 0 \in Nat
    OBVIOUS
  <2>2. QED
    BY <1>1, <2>1, RecursionIn
<1>3. g = [x \in SUBSET (1..n) |->
              IF x = {} THEN 0 ELSE step[<<Max(x), g[x \ {Max(x)}]>>]]
  BY <1>2a DEF Folding
<1> DEFINE S == [k \in 0..n |-> g[1..k]]
<1>4. S \in [0..n -> Nat]
  <2>1. \A k \in 0..n : 1..k \in SUBSET (1..n)
    OBVIOUS
  <2>2. QED
    BY <2>1
<1>5. S[0] = 0
  <2>1. 1..0 = {} /\ {} \in SUBSET (1..n) /\ 0 \in 0..n
    OBVIOUS
  <2>2. g[{}] = 0
    BY <1>3, <2>1
  <2>3. QED
    BY <2>1, <2>2
<1>6. ASSUME NEW k \in 1..n PROVE S[k] = S[k - 1] + w[k]
  <2>1. /\ 1..k \in SUBSET (1..n) /\ 1..k # {} /\ Max(1..k) = k
        /\ (1..k) \ {Max(1..k)} = 1..(k - 1)
    BY AtBeginnings
  <2>2. k \in 0..n /\ k - 1 \in 0..n
    OBVIOUS
  <2>3. g[1..k] = step[<<k, g[1..(k - 1)]>>]
    BY <1>3, <2>1
  <2>4. S[k] = g[1..k] /\ S[k - 1] = g[1..(k - 1)] /\ S[k - 1] \in Nat
    BY <1>4, <2>2
  <2>5. QED
    BY <1>2, <2>3, <2>4
<1> HIDE DEF S
<1>7. Sums(w, n, S)
  BY <1>4, <1>5, <1>6 DEF Sums
<1>8. QED
  BY <1>7

\* A function that adds them up as a fold does.
Adding(h, m, w) ==
    h = [x \in SUBSET (1..m) |->
            IF x = {} THEN 0 ELSE h[x \ {Max(x)}] + w[Max(x)]]

LEMMA SumsAgree ==
    ASSUME NEW n \in Nat, NEW w, NEW S, Sums(w, n, S), NEW m \in 0..n, NEW h,
           Adding(h, m, w)
    PROVE  h[1..m] = S[m]
<1>0. h = [x \in SUBSET (1..m) |->
              IF x = {} THEN 0 ELSE h[x \ {Max(x)}] + w[Max(x)]]
  BY DEF Adding
<1> DEFINE T == { k \in Nat : k <= m => h[1..k] = S[k] }
<1>1. 0 \in T
  <2>1. 1..0 = {} /\ {} \in SUBSET (1..m)
    OBVIOUS
  <2>2. h[1..0] = 0
    BY <1>0, <2>1
  <2>3. QED
    BY <2>2 DEF Sums
<1>2. ASSUME NEW k \in Nat, k \in T PROVE k + 1 \in T
  <2>1. SUFFICES ASSUME k + 1 <= m PROVE h[1..(k + 1)] = S[k + 1]
    <3>1. k + 1 \in Nat
      OBVIOUS
    <3>2. QED
      BY <3>1
  <2>2. k + 1 \in 1..m /\ k + 1 \in 1..n /\ (k + 1) - 1 = k /\ h[1..k] = S[k]
    <3>1. n \in Nat /\ m \in Nat /\ m <= n /\ k <= m
      BY <2>1
    <3>2. h[1..k] = S[k]
      BY <1>2, <3>1
    <3>3. QED
      BY <2>1, <3>1, <3>2
  <2>3. /\ 1..(k + 1) \in SUBSET (1..m) /\ 1..(k + 1) # {} /\ Max(1..(k + 1)) = k + 1
        /\ (1..(k + 1)) \ {Max(1..(k + 1))} = 1..((k + 1) - 1)
    BY <2>2, AtBeginnings
  <2>4. h[1..(k + 1)] = h[1..((k + 1) - 1)] + w[k + 1]
    BY <1>0, <2>3
  <2>5. S[k + 1] = S[(k + 1) - 1] + w[k + 1]
    BY <2>2 DEF Sums
  <2>6. QED
    BY <2>2, <2>4, <2>5
<1>3. m \in T
  <2> HIDE DEF T
  <2>1. Nat \subseteq T
    BY <1>1, <1>2, FromZero
  <2>2. QED
    BY <2>1
<1>4. m \in Nat /\ m <= m
  OBVIOUS
<1>5. QED
  BY <1>3, <1>4

LEMMA AddingExists ==
    ASSUME NEW m \in Nat, NEW w, \A i \in 1..m : w[i] \in Nat
    PROVE  \E g : g = [x \in SUBSET (1..m) |->
                          IF x = {} THEN 0 ELSE g[x \ {Max(x)}] + w[Max(x)]]
<1> DEFINE step == [p \in (1..m) \X Nat |-> p[2] + w[p[1]]]
<1>1. step \in [(1..m) \X Nat -> Nat] /\ 0 \in Nat
  OBVIOUS
<1>2. \A k \in 1..m, a \in Nat : step[<<k, a>>] = a + w[k]
  OBVIOUS
<1> HIDE DEF step
<1>3. PICK g \in [SUBSET (1..m) -> Nat] : Folding(g, m, 0, step)
  BY <1>1, RecursionIn
<1>4. g = [x \in SUBSET (1..m) |->
              IF x = {} THEN 0 ELSE step[<<Max(x), g[x \ {Max(x)}]>>]]
  BY <1>3 DEF Folding
<1>5. \A x \in SUBSET (1..m) :
          g[x] = IF x = {} THEN 0 ELSE g[x \ {Max(x)}] + w[Max(x)]
  <2> TAKE x \in SUBSET (1..m)
  <2>1. CASE x = {}
    BY <1>4, <2>1
  <2>2. CASE x # {}
    <3>1. Max(x) \in 1..m /\ x \ {Max(x)} \in SUBSET (1..m)
      BY <2>2, Beginnings
    <3>2. g[x \ {Max(x)}] \in Nat
      BY <3>1
    <3>3. g[x] = step[<<Max(x), g[x \ {Max(x)}]>>]
      BY <1>4, <2>2
    <3>4. QED
      BY <1>2, <2>2, <3>1, <3>2, <3>3
  <2>3. QED
    BY <2>1, <2>2
<1>6. g = [x \in SUBSET (1..m) |-> g[x]]
  OBVIOUS
<1>7. g = [x \in SUBSET (1..m) |->
              IF x = {} THEN 0 ELSE g[x \ {Max(x)}] + w[Max(x)]]
  BY <1>5, <1>6, Zenon
<1>8. QED
  BY <1>7

\* The block a chunk starts at is the sum of those before it.
BlocksOf(chunks) == [i \in 1..Len(chunks) |-> chunks[i].blocks]

LEMMA CurBlockIs ==
    ASSUME NEW chunks, IsSeq(chunks), \A i \in 1..Len(chunks) : chunks[i].blocks \in Nat,
           NEW S, Sums(BlocksOf(chunks), Len(chunks), S), NEW m \in 0..Len(chunks)
    PROVE  CurBlock(chunks, m + 1) = S[m]
<1> DEFINE ss == SubSeq(chunks, 1, m)
           w == BlocksOf(chunks)
<1>1. m \in Nat /\ (m + 1) - 1 = m /\ Len(chunks) \in Nat
  BY DEF IsSeq
<1>2. /\ IsSeq(ss) /\ Len(ss) = m /\ \A i \in 1..m : ss[i] = chunks[i]
  BY Begun
<1>3. DOMAIN ss = 1..m
  BY <1>2 DEF IsSeq
<1>4. \A i \in 1..m : w[i] \in Nat /\ w[i] = ss[i].blocks
  BY <1>2 DEF BlocksOf
<1> HIDE DEF ss, w
<1> DEFINE E(g) == g = [x \in SUBSET DOMAIN ss |->
                          IF x = {} THEN 0 ELSE g[x \ {Max(x)}] + ss[Max(x)].blocks]
           h == CHOOSE g : E(g)
<1>5. \A x \in SUBSET (1..m) : x # {} => Max(x) \in 1..m
  BY <1>1, Beginnings
<1>6. \E g : E(g)
  <2>1. PICK g : g = [x \in SUBSET (1..m) |->
                          IF x = {} THEN 0 ELSE g[x \ {Max(x)}] + w[Max(x)]]
    BY <1>1, <1>4, AddingExists, Zenon
  <2>2. \A x \in SUBSET (1..m) :
            (IF x = {} THEN 0 ELSE g[x \ {Max(x)}] + w[Max(x)])
              = (IF x = {} THEN 0 ELSE g[x \ {Max(x)}] + ss[Max(x)].blocks)
    BY <1>4, <1>5
  <2>3. E(g)
    BY <1>3, <2>1, <2>2, Zenon
  <2>4. QED
    BY <2>3
<1>7. E(h)
  BY <1>6, Zenon
<1>8. CurBlock(chunks, m + 1) = h[1..m]
  <2>1. CurBlock(chunks, m + 1) = FoldLeft(LAMBDA n, k : n + k.blocks, 0, ss)
    BY <1>1 DEF CurBlock, ss
  <2>2. FoldLeft(LAMBDA n, k : n + k.blocks, 0, ss) = h[DOMAIN ss]
    BY Zenon DEF FoldLeft, MapThenFoldSet
  <2>3. QED
    BY <1>3, <2>1, <2>2, Zenon
<1> HIDE DEF h
<1>9. h = [x \in SUBSET (1..m) |->
              IF x = {} THEN 0 ELSE h[x \ {Max(x)}] + w[Max(x)]]
  <2>2. \A x \in SUBSET (1..m) :
            (IF x = {} THEN 0 ELSE h[x \ {Max(x)}] + w[Max(x)])
              = (IF x = {} THEN 0 ELSE h[x \ {Max(x)}] + ss[Max(x)].blocks)
    BY <1>4, <1>5
  <2>3. QED
    BY <1>3, <1>7, <2>2, Zenon
<1>10. Sums(w, Len(chunks), S)
  BY DEF w
<1>11. h[1..m] = S[m]
  <2>1. Adding(h, m, w)
    BY <1>9 DEF Adding
  <2>2. QED
    BY <1>1, <1>10, <2>1, SumsAgree
<1>12. QED
  BY <1>8, <1>11

\* What a list costs in a file.
CostsOf(cells) == [i \in 1..Len(cells) |-> CellCost(cells[i])]
Used(cells, n) ==
    FoldLeft(LAMBDA sum, bb : sum + CellCost(bb), 0, SubSeq(cells, 1, n))

LEMMA UsedIs ==
    ASSUME NEW cells, IsSeq(cells), \A i \in 1..Len(cells) : CellCost(cells[i]) \in Nat,
           NEW S, Sums(CostsOf(cells), Len(cells), S), NEW m \in 0..Len(cells)
    PROVE  Used(cells, m) = S[m]
<1> DEFINE ss == SubSeq(cells, 1, m)
           w == CostsOf(cells)
<1>1. m \in Nat /\ Len(cells) \in Nat
  BY DEF IsSeq
<1>2. /\ IsSeq(ss) /\ Len(ss) = m /\ \A i \in 1..m : ss[i] = cells[i]
  BY Begun
<1>3. DOMAIN ss = 1..m
  BY <1>2 DEF IsSeq
<1>4. \A i \in 1..m : w[i] \in Nat /\ w[i] = CellCost(ss[i])
  BY <1>2 DEF CostsOf
<1> HIDE DEF ss, w
<1> DEFINE E(g) == g = [x \in SUBSET DOMAIN ss |->
                          IF x = {} THEN 0 ELSE g[x \ {Max(x)}] + CellCost(ss[Max(x)])]
           h == CHOOSE g : E(g)
<1>5. \A x \in SUBSET (1..m) : x # {} => Max(x) \in 1..m
  BY <1>1, Beginnings
<1>6. \E g : E(g)
  <2>1. PICK g : g = [x \in SUBSET (1..m) |->
                          IF x = {} THEN 0 ELSE g[x \ {Max(x)}] + w[Max(x)]]
    BY <1>1, <1>4, AddingExists, Zenon
  <2>2. \A x \in SUBSET (1..m) :
            (IF x = {} THEN 0 ELSE g[x \ {Max(x)}] + w[Max(x)])
              = (IF x = {} THEN 0 ELSE g[x \ {Max(x)}] + CellCost(ss[Max(x)]))
    BY <1>4, <1>5
  <2>3. E(g)
    BY <1>3, <2>1, <2>2, Zenon
  <2>4. QED
    BY <2>3
<1>7. E(h)
  BY <1>6, Zenon
<1>8. Used(cells, m) = h[1..m]
  <2>1. Used(cells, m) = FoldLeft(LAMBDA sum, bb : sum + CellCost(bb), 0, ss)
    BY DEF Used, ss
  <2>2. FoldLeft(LAMBDA sum, bb : sum + CellCost(bb), 0, ss) = h[DOMAIN ss]
    BY Zenon DEF FoldLeft, MapThenFoldSet
  <2>3. QED
    BY <1>3, <2>1, <2>2, Zenon
<1> HIDE DEF h
<1>9. h = [x \in SUBSET (1..m) |->
              IF x = {} THEN 0 ELSE h[x \ {Max(x)}] + w[Max(x)]]
  <2>2. \A x \in SUBSET (1..m) :
            (IF x = {} THEN 0 ELSE h[x \ {Max(x)}] + w[Max(x)])
              = (IF x = {} THEN 0 ELSE h[x \ {Max(x)}] + CellCost(ss[Max(x)]))
    BY <1>4, <1>5
  <2>3. QED
    BY <1>3, <1>7, <2>2, Zenon
<1>10. Sums(w, Len(cells), S)
  BY DEF w
<1>11. h[1..m] = S[m]
  <2>1. Adding(h, m, w)
    BY <1>9 DEF Adding
  <2>2. QED
    BY <1>1, <1>10, <2>1, SumsAgree
<1>12. QED
  BY <1>8, <1>11

-----------------------------------------------------------------------------
(* Cells and chunks. *)
CellTypes == {"fill", "data", "file", "fd"}

\* A cell with something in it; a fill is of whole blocks.
IsCell(bb) ==
    /\ bb = Cell(bb.type, bb.src, bb.off, bb.len, bb.block)
    /\ bb.type \in CellTypes /\ bb.off \in Nat
    /\ bb.block \in Nat /\ bb.len \in Nat \ {0}
    /\ bb.type = "fill" => bb.len % BlockSize = 0

\* A cell ends behind its first block.
LEMMA EndNat ==
    ASSUME NEW bb, IsCell(bb)
    PROVE  EndBlock(bb) \in Nat /\ bb.block < EndBlock(bb) /\ DivUp(bb.len) \in Nat
<1>1. DivUp(bb.len) \in Nat /\ DivUp(bb.len) > 0
  BY UpNat DEF IsCell
<1>2. QED
  BY <1>1 DEF IsCell, EndBlock

IsChunk(k) ==
    /\ k.kind \in {"skip", "fill", "raw", "crc"} /\ k.blocks \in Nat
    /\ k.kind \in {"fill", "raw"} => k.blocks > 0

LEMMA SkipIsChunk == ASSUME NEW b \in Nat PROVE IsChunk(Skip(b))
BY DEF IsChunk, Skip

\* Each cell is written as one chunk, each gap as a skip chunk.
LEMMA ChunkOfCell == ASSUME NEW bb, IsCell(bb) PROVE IsChunk(ChunkOf(bb))
<1>1. DivUp(bb.len) \in Nat /\ DivUp(bb.len) > 0
  BY UpNat DEF IsCell
<1>2. ChunkOf(bb).blocks = DivUp(bb.len) /\ ChunkOf(bb).kind \in {"fill", "raw"}
  <2> DEFINE d == IF bb.type = "fill" THEN << >>
                  ELSE [i \in 1..AlignUp(bb.len) |-> CellWord(bb, i - 1)]
  <2>1. ChunkOf(bb) = [kind   |-> IF bb.type = "fill" THEN "fill" ELSE "raw",
                       blocks |-> DivUp(bb.len),
                       val    |-> IF bb.type = "fill" THEN bb.src ELSE 0,
                       data   |-> d]
    BY DEF ChunkOf
  <2> HIDE DEF d
  <2>2. QED
    BY <2>1
<1>3. QED
  BY <1>1, <1>2 DEF IsChunk

\* One cell of write_all_blocks().
Grown(acc, bb) ==
    [next |-> EndBlock(bb),
     out  |-> acc.out \o (IF bb.block > acc.next THEN <<Skip(bb.block - acc.next)>>
                                                  ELSE << >>)
                      \o <<ChunkOf(bb)>>]

\* One step of write_all_blocks().
LEMMA GrownIn ==
    ASSUME NEW K, NEW acc \in [next : Nat, out : Seq(K)], NEW bb, IsCell(bb),
           ChunkOf(bb) \in K, \A b \in Nat : Skip(b) \in K
    PROVE  Grown(acc, bb) \in [next : Nat, out : Seq(K)]
<1> DEFINE gap == IF bb.block > acc.next THEN <<Skip(bb.block - acc.next)>> ELSE << >>
           o   == <<ChunkOf(bb)>>
<1>1. gap \in Seq(K)
  <2>1. CASE bb.block > acc.next
    <3>1. bb.block - acc.next \in Nat
      BY <2>1 DEF IsCell
    <3>2. Skip(bb.block - acc.next) \in K
      BY <3>1
    <3>3. <<Skip(bb.block - acc.next)>> \in Seq(K)
      BY <3>2
    <3>4. QED
      BY <2>1, <3>3
  <2>2. CASE ~(bb.block > acc.next)
    BY <2>2
  <2>3. QED
    BY <2>1, <2>2
<1>2. o \in Seq(K)
  OBVIOUS
<1>3. acc.out \in Seq(K) /\ EndBlock(bb) \in Nat
  BY EndNat
<1>4. Grown(acc, bb) = [next |-> EndBlock(bb), out |-> acc.out \o gap \o o]
  BY DEF Grown
<1> HIDE DEF gap, o
<1>5. acc.out \o gap \o o \in Seq(K)
  BY <1>1, <1>2, <1>3
<1>6. QED
  BY <1>3, <1>4, <1>5

IsCells(cells) == IsSeq(cells) /\ \A i \in 1..Len(cells) : IsCell(cells[i])

\* What is written of a list are chunks.
LEMMA ChunksAre ==
    ASSUME NEW c, IsCells(c.list.cells), c.len \in Nat
    PROVE  IsSeq(ChunksOf(c)) /\ \A i \in 1..Len(ChunksOf(c)) : IsChunk(ChunksOf(c)[i])
<1> DEFINE cells == c.list.cells
           n == Len(cells)
           K == { Skip(b) : b \in Nat } \cup { ChunkOf(cells[i]) : i \in 1..n }
           A == [next : Nat, out : Seq(K)]
           base == [next |-> 0, out |-> << >>]
           step == [p \in (1..n) \X A |-> Grown(p[2], cells[p[1]])]
<1>1. n \in Nat /\ DOMAIN cells = 1..n /\ \A i \in 1..n : IsCell(cells[i])
  BY DEF IsCells, IsSeq
<1>2. \A k \in K : IsChunk(k)
  BY <1>1, SkipIsChunk, ChunkOfCell
<1>3. (\A b \in Nat : Skip(b) \in K) /\ \A i \in 1..n : ChunkOf(cells[i]) \in K
  OBVIOUS
<1>4. \A i \in 1..n, a \in A : Grown(a, cells[i]) \in A
  <2> HIDE DEF cells, n, K
  <2>1. QED
    BY <1>1, <1>3, GrownIn
<1>5. base \in A
  <2> HIDE DEF K
  <2>1. << >> \in Seq(K)
    OBVIOUS
  <2>2. QED
    BY <2>1
<1> HIDE DEF cells, n, K, A, base
<1>6. step \in [(1..n) \X A -> A] /\ \A i \in 1..n, a \in A : step[<<i, a>>] = Grown(a, cells[i])
  BY <1>4
<1> HIDE DEF step
<1> DEFINE E(g) == g = [x \in SUBSET DOMAIN cells |->
                          IF x = {} THEN base ELSE Grown(g[x \ {Max(x)}], cells[Max(x)])]
           h == CHOOSE g : E(g)
<1>7. \A x \in SUBSET (1..n) : x # {} => Max(x) \in 1..n /\ x \ {Max(x)} \in SUBSET (1..n)
  BY <1>1, Beginnings
<1>8. \E g : E(g)
  <2>1. PICK g \in [SUBSET (1..n) -> A] : Folding(g, n, base, step)
    BY <1>1, <1>5, <1>6, RecursionIn
  <2>2. g = [x \in SUBSET (1..n) |->
                IF x = {} THEN base ELSE step[<<Max(x), g[x \ {Max(x)}]>>]]
    BY <2>1 DEF Folding
  <2>3. \A x \in SUBSET (1..n) :
            (IF x = {} THEN base ELSE step[<<Max(x), g[x \ {Max(x)}]>>])
              = (IF x = {} THEN base ELSE Grown(g[x \ {Max(x)}], cells[Max(x)]))
    BY <1>6, <1>7
  <2>4. E(g)
    BY <1>1, <2>2, <2>3, Zenon
  <2>5. QED
    BY <2>4
<1>9. E(h)
  BY <1>8, Zenon
<1> DEFINE all == h[1..n]
           pad == c.len - all.next * BlockSize
<1>10. ChunksOf(c) = all.out \o (IF pad > 0 /\ pad % BlockSize = 0
                                 THEN <<Skip(pad \div BlockSize)>> ELSE << >>)
  <2>1. ChunksOf(c) = LET a == h[DOMAIN cells]
                          p == c.len - a.next * BlockSize
                      IN  a.out \o (IF p > 0 /\ p % BlockSize = 0
                                    THEN <<Skip(p \div BlockSize)>> ELSE << >>)
    BY Zenon DEF ChunksOf, FoldLeft, MapThenFoldSet, cells, base, Grown
  <2> HIDE DEF h
  <2>2. h[DOMAIN cells] = h[1..n]
    BY <1>1
  <2>3. QED
    BY <2>1, <2>2, Zenon
<1> HIDE DEF h
<1>11. all \in A
  <2> DEFINE T == { k \in Nat : k <= n => h[1..k] \in A }
  <2>1. 0 \in T
    <3>1. 1..0 = {} /\ {} \in SUBSET (1..n)
      OBVIOUS
    <3>2. h[1..0] = base
      BY <1>1, <1>9, <3>1
    <3>3. QED
      BY <1>5, <3>2
  <2>2. ASSUME NEW k \in Nat, k \in T PROVE k + 1 \in T
    <3>1. SUFFICES ASSUME k + 1 <= n PROVE h[1..(k + 1)] \in A
      <4>1. k + 1 \in Nat
        OBVIOUS
      <4>2. QED
        BY <4>1
    <3>2. k + 1 \in 1..n /\ (k + 1) - 1 = k /\ h[1..k] \in A
      BY <1>1, <2>2, <3>1
    <3>3. /\ 1..(k + 1) \in SUBSET (1..n) /\ 1..(k + 1) # {} /\ Max(1..(k + 1)) = k + 1
          /\ (1..(k + 1)) \ {Max(1..(k + 1))} = 1..((k + 1) - 1)
      BY <1>1, <3>2, AtBeginnings
    <3>4. h[1..(k + 1)] = Grown(h[1..k], cells[k + 1])
      BY <1>1, <1>9, <3>2, <3>3
    <3>5. QED
      BY <1>4, <3>2, <3>4
  <2>3. n \in T
    <3> HIDE DEF T
    <3>1. Nat \subseteq T
      BY <2>1, <2>2, FromZero
    <3>2. QED
      BY <1>1, <3>1
  <2>4. n <= n
    BY <1>1
  <2>5. QED
    BY <2>3, <2>4
<1> HIDE DEF all
<1>12. all.out \in Seq(K) /\ all.next \in Nat
  BY <1>11 DEF A
<1> DEFINE e == IF pad > 0 /\ pad % BlockSize = 0 THEN <<Skip(pad \div BlockSize)>> ELSE << >>
<1>13. e \in Seq(K)
  <2>1. CASE pad > 0 /\ pad % BlockSize = 0
    <3>1. pad \in Nat /\ BlockSize \in Nat \ {0}
      <4>1. BlockSize \in Nat \ {0}
        BY BlockSizeAssumption
      <4>2. all.next * BlockSize \in Nat
        BY <1>12, <4>1, Product
      <4>3. QED
        BY <2>1, <4>1, <4>2
    <3>2. pad \div BlockSize \in Nat
      BY <3>1, Parts
    <3>3. Skip(pad \div BlockSize) \in K
      BY <1>3, <3>2
    <3>4. <<Skip(pad \div BlockSize)>> \in Seq(K)
      BY <3>3
    <3>5. QED
      BY <2>1, <3>4
  <2>2. CASE ~(pad > 0 /\ pad % BlockSize = 0)
    <3>1. e = << >>
      BY <2>2
    <3> HIDE DEF e
    <3>2. QED
      BY <3>1
  <2>3. QED
    BY <2>1, <2>2
<1> HIDE DEF e
<1>14. ChunksOf(c) = all.out \o e
  BY <1>10 DEF e
<1>15. ChunksOf(c) \in Seq(K)
  BY <1>12, <1>13, <1>14
<1>16. QED
  BY <1>2, <1>15, SeqIs

-----------------------------------------------------------------------------
(* What is at a word. *)

\* A cell puts v at word w; one of the cells does.
WordAt(bb, w) == CellWord(bb, w - bb.block * BlockSize)
Puts(bb, w, v) == w \in Covered(bb) /\ v = WordAt(bb, w)
Shows(cells, w, v) == \E i \in 1..Len(cells) : Puts(cells[i], w, v)

\* The words of a cell.
LEMMA CoveredIs ==
    ASSUME NEW bb, bb.block \in Nat, bb.len \in Nat
    PROVE  /\ bb.block * BlockSize \in Nat /\ EndBlock(bb) * BlockSize \in Nat
           /\ EndBlock(bb) \in Nat
           /\ EndBlock(bb) * BlockSize = bb.block * BlockSize + DivUp(bb.len) * BlockSize
           /\ DivUp(bb.len) * BlockSize \in Nat
           /\ bb.len <= DivUp(bb.len) * BlockSize
           /\ Covered(bb) = (bb.block * BlockSize)..(EndBlock(bb) * BlockSize - 1)
<1>1. DivUp(bb.len) \in Nat /\ BlockSize \in Nat
  BY UpNat, BlockSizeAssumption
<1>2. EndBlock(bb) \in Nat /\ EndBlock(bb) = bb.block + DivUp(bb.len)
  BY <1>1 DEF EndBlock
<1>3. (bb.block + DivUp(bb.len)) * BlockSize = bb.block * BlockSize + DivUp(bb.len) * BlockSize
  BY <1>1, SumTimes
<1>4. bb.block * BlockSize \in Nat /\ EndBlock(bb) * BlockSize \in Nat
      /\ DivUp(bb.len) * BlockSize \in Nat
  BY <1>1, <1>2, Product
<1>5. bb.len <= DivUp(bb.len) * BlockSize
  BY UpCovers
<1>6. QED
  BY <1>2, <1>3, <1>4, <1>5 DEF Covered

\* m is a with b behind it.
IsJoin(a, b, m, k) ==
    /\ k \in Nat /\ a.len = k * BlockSize /\ b.block = a.block + k
    /\ a.block \in Nat /\ b.len \in Nat /\ a.off \in Nat
    /\ m.type = a.type /\ b.type = a.type /\ m.src = a.src /\ b.src = a.src
    /\ m.block = a.block /\ m.len = a.len + b.len
    /\ a.type # "fill" => m.off = a.off /\ b.off = a.off + a.len

\* Two cells in one put what both have put.
LEMMA JoinPuts ==
    ASSUME NEW a, NEW b, NEW m, NEW k, IsJoin(a, b, m, k)
    PROVE  \A w, v : Puts(m, w, v) <=> Puts(a, w, v) \/ Puts(b, w, v)
<1> DEFINE x == a.block * BlockSize
           y == b.block * BlockSize
           z == EndBlock(b) * BlockSize
           l == a.len
<1>1. BlockSize \in Nat /\ k \in Nat /\ l \in Nat /\ a.block \in Nat /\ b.block \in Nat
      /\ b.len \in Nat /\ m.len \in Nat /\ m.len = l + b.len /\ m.block = a.block /\ a.off \in Nat
  <2>1. k * BlockSize \in Nat /\ BlockSize \in Nat
    BY BlockSizeAssumption, Product DEF IsJoin
  <2>2. QED
    BY <2>1 DEF IsJoin
<1>2. x \in Nat /\ y \in Nat /\ z \in Nat /\ y <= z /\ Covered(b) = y..(z - 1)
  <2> DEFINE d == DivUp(b.len) * BlockSize
  <2>1. x \in Nat
    BY <1>1, Product
  <2>2. y \in Nat /\ z \in Nat /\ z = y + d /\ d \in Nat /\ Covered(b) = y..(z - 1)
    BY <1>1, CoveredIs
  <2> HIDE DEF x, y, z, d
  <2>3. QED
    BY <2>1, <2>2
<1>3. y = x + l
  BY <1>1, SumTimes DEF IsJoin
<1>4. Covered(a) = x..(y - 1)
  <2>1. DivUp(l) = k
    BY <1>1, UpWhole DEF IsJoin
  <2>2. EndBlock(a) = b.block
    BY <2>1 DEF EndBlock, IsJoin
  <2>3. QED
    BY <1>1, <2>2, CoveredIs
<1>5. Covered(m) = x..(z - 1)
  <2>1. DivUp(m.len) = k + DivUp(b.len)
    <3>1. m.len = k * BlockSize + b.len
      BY DEF IsJoin
    <3>2. QED
      BY <1>1, <3>1, UpBehind
  <2>2. DivUp(b.len) \in Nat
    BY <1>1, UpNat
  <2>3. EndBlock(m) = EndBlock(b)
    BY <1>1, <2>1, <2>2 DEF EndBlock, IsJoin
  <2>4. QED
    BY <1>1, <2>3, CoveredIs
<1> HIDE DEF x, y, z, l
<1>6. ASSUME NEW w \in x..(y - 1) PROVE WordAt(m, w) = WordAt(a, w)
  <2> DEFINE i == w - x
  <2>1. i < l /\ i < m.len
    BY <1>1, <1>2, <1>3
  <2>2. WordAt(m, w) = CellWord(m, i) /\ WordAt(a, w) = CellWord(a, i)
    BY <1>1 DEF WordAt, x
  <2> HIDE DEF i
  <2>3. CASE a.type = "fill"
    BY <2>2, <2>3 DEF CellWord, IsJoin
  <2>4. CASE a.type # "fill"
    BY <2>1, <2>2, <2>4 DEF CellWord, IsJoin, l
  <2>5. QED
    BY <2>3, <2>4
<1>7. ASSUME NEW w \in y..(z - 1) PROVE WordAt(m, w) = WordAt(b, w)
  <2> DEFINE i == w - x
             j == w - y
  <2>1. i = l + j /\ j \in Nat /\ (i < m.len <=> j < b.len)
    BY <1>1, <1>2, <1>3
  <2>2. WordAt(m, w) = CellWord(m, i) /\ WordAt(b, w) = CellWord(b, j)
    BY <1>1 DEF WordAt, x, y
  <2> HIDE DEF i, j
  <2>3. CASE a.type = "fill"
    BY <2>2, <2>3 DEF CellWord, IsJoin
  <2>4. CASE a.type # "fill"
    <3>1. m.off = a.off /\ b.off = a.off + l /\ m.src = b.src /\ m.type # "fill" /\ b.type # "fill"
      BY <2>4 DEF IsJoin, l
    <3>2. m.off + i + 1 = b.off + j + 1
      BY <1>1, <2>1, <3>1
    <3>3. QED
      BY <2>1, <2>2, <3>1, <3>2 DEF CellWord
  <2>5. QED
    BY <2>3, <2>4
<1>8. \A w : w \in x..(z - 1) <=> w \in x..(y - 1) \/ w \in y..(z - 1)
  BY <1>1, <1>2, <1>3
<1>9. QED
  BY <1>2, <1>4, <1>5, <1>6, <1>7, <1>8 DEF Puts

-----------------------------------------------------------------------------
(* Lists. *)

\* No cell reaches into another.
Disjoint(cells) ==
    \A i, j \in 1..Len(cells) : i < j => EndBlock(cells[i]) <= cells[j].block

\* They end by a block, or begin at one.
Within(cells, top) == \A i \in 1..Len(cells) : EndBlock(cells[i]) <= top
From(cells, b) == \A i \in 1..Len(cells) : b <= cells[i].block

IsOrdered(cells) == IsCells(cells) /\ Disjoint(cells)

IsList(l) ==
    /\ l = [cells |-> l.cells, hint |-> l.hint, dangling |-> l.dangling]
    /\ IsOrdered(l.cells)
    /\ l.hint \in 0..Len(l.cells) /\ l.dangling \in BOOLEAN

\* A cell that has swallowed the next ends where that ended: it has whole
\* blocks, and no length wraps.
LEMMA MergedCell ==
    ASSUME NEW a, IsCell(a), NEW b, IsCell(b), EndBlock(a) <= b.block, Mergeable(a, b),
           EndBlock(b) <= MaxBlocks
    PROVE  LET m == [a EXCEPT !.len = (@ + b.len) % LenWidth]
           IN  IsCell(m) /\ m.block = a.block /\ EndBlock(m) = EndBlock(b)
               /\ IsJoin(a, b, m, a.len \div BlockSize)
<1> DEFINE k == a.len \div BlockSize
           sum == a.len + b.len
           m == [a EXCEPT !.len = sum % LenWidth]
<1>1. BlockSize \in Nat \ {0} /\ LenWidth \in Nat \ {0} /\ MaxBlocks \in Nat
      /\ MaxBlocks * BlockSize < LenWidth
  BY BlockSizeAssumption, LenWidthAssumption, SizesAssumption
<1>2. a.len \in Nat \ {0} /\ a.block \in Nat /\ b.len \in Nat \ {0} /\ b.block \in Nat
  BY DEF IsCell
<1>3. k \in Nat /\ a.block + k = b.block
  <2>1. k \in Nat
    BY <1>1, <1>2, Parts
  <2>2. QED
    BY <2>1 DEF Mergeable
<1>4. a.len = k * BlockSize
  <2>1. DivUp(a.len) <= k
    <3>1. DivUp(a.len) \in Nat /\ a.block + DivUp(a.len) <= b.block
      BY <1>2, UpNat DEF EndBlock
    <3>2. QED
      BY <1>2, <1>3, <3>1
  <2>2. QED
    BY <1>2, <2>1, UpCovers
<1> HIDE DEF k
<1>5. DivUp(sum) = k + DivUp(b.len)
  <2>1. DivUp(k * BlockSize + b.len) = k + DivUp(b.len)
    BY <1>2, <1>3, UpBehind
  <2>2. QED
    BY <1>4, <2>1
<1>6. DivUp(b.len) \in Nat /\ b.block + DivUp(b.len) <= MaxBlocks
  BY <1>2, UpNat DEF EndBlock
<1>7. a.block + DivUp(sum) = b.block + DivUp(b.len)
  BY <1>2, <1>3, <1>5, <1>6
<1>8. sum \in Nat \ {0}
  BY <1>2
<1>9. sum < LenWidth
  <2>1. DivUp(sum) \in Nat /\ DivUp(sum) <= MaxBlocks
    BY <1>1, <1>2, <1>6, <1>7, <1>8, UpNat
  <2>2. sum <= DivUp(sum) * BlockSize
    BY <1>8, UpCovers
  <2>3. DivUp(sum) * BlockSize <= MaxBlocks * BlockSize
    BY <1>1, <2>1, TimesMonotone
  <2> DEFINE x == DivUp(sum) * BlockSize
             y == MaxBlocks * BlockSize
  <2>4. x \in Nat /\ y \in Nat
    BY <1>1, <2>1, Product
  <2>5. sum <= x /\ x <= y /\ y < LenWidth
    BY <1>1, <2>2, <2>3
  <2> HIDE DEF x, y, sum
  <2>6. QED
    BY <1>1, <1>8, <2>4, <2>5
<1> HIDE DEF sum
<1>10. sum % LenWidth = sum
  BY <1>1, <1>8, <1>9
<1>11. m = Cell(a.type, a.src, a.off, sum, a.block)
  BY <1>10 DEF IsCell, Cell
<1>110. a.type = "fill" => sum % BlockSize = 0
  <2>1. SUFFICES ASSUME a.type = "fill" PROVE sum % BlockSize = 0
    OBVIOUS
  <2>2. b.type = "fill"
    BY <2>1 DEF Mergeable
  <2>3. a.len % BlockSize = 0 /\ b.len % BlockSize = 0
    BY <2>1, <2>2 DEF IsCell
  <2>4. QED
    BY <1>1, <1>2, <2>3, WholeSum DEF sum
<1>12. IsCell(m) /\ m.block = a.block /\ m.len = sum
  BY <1>8, <1>11, <1>110 DEF IsCell, Cell
<1>13. EndBlock(m) = EndBlock(b)
  <2> HIDE DEF m
  <2>1. QED
    BY <1>7, <1>12 DEF EndBlock
<1>14. IsJoin(a, b, m, k)
  <2>1. m.type = a.type /\ m.src = a.src /\ m.off = a.off /\ m.block = a.block /\ m.len = sum
    BY <1>11 DEF Cell
  <2> HIDE DEF m
  <2>2. a.off \in Nat /\ a.type \in CellTypes
    BY DEF IsCell
  <2>3. /\ b.type = a.type /\ b.src = a.src
        /\ a.type # "fill" => b.off = a.off + a.len
    <3>1. /\ a.type = b.type /\ a.type # "data" /\ a.src = b.src
          /\ a.type \in {"fd", "file"} => a.off + a.len = b.off
      BY DEF Mergeable
    <3>2. a.type # "fill" => a.type \in {"fd", "file"}
      BY <2>2, <3>1 DEF CellTypes
    <3>3. QED
      BY <3>1, <3>2
  <2>4. m.len = a.len + b.len
    BY <2>1 DEF sum
  <2>5. QED
    BY <1>2, <1>3, <1>4, <2>1, <2>2, <2>3, <2>4 DEF IsJoin
<1>15. QED
  BY <1>12, <1>13, <1>14 DEF sum, k

\* In q, cell i has swallowed its successor; all others are as they were.
Joins(cells, i, q) ==
    /\ i \in 1..(Len(cells) - 1) /\ IsSeq(q) /\ Len(q) = Len(cells) - 1
    /\ \A j \in 1..(i - 1) : q[j] = cells[j]
    /\ \E k : IsJoin(cells[i], cells[i + 1], q[i], k)
    /\ \A j \in (i + 1)..(Len(cells) - 1) : q[j] = cells[j + 1]

\* merge_bb() joins two cells, or leaves the list alone.
LEMMA MergeIs ==
    ASSUME NEW cells, IsOrdered(cells), NEW top \in Nat, Within(cells, top),
           top <= MaxBlocks, NEW i \in Nat
    PROVE  LET m == MergeAt(cells, i)
           IN  \/ m = cells
               \/ /\ Joins(cells, i, m) /\ IsCell(m[i])
                  /\ m[i].block = cells[i].block /\ EndBlock(m[i]) = EndBlock(cells[i + 1])
<1> DEFINE n == Len(cells)
           m == MergeAt(cells, i)
<1>1. n \in Nat /\ IsSeq(cells) /\ \A j \in 1..n : IsCell(cells[j])
  BY DEF IsOrdered, IsCells, IsSeq
<1>2. CASE ~(i \in 1..(n - 1) /\ Mergeable(cells[i], cells[i + 1]))
  BY <1>2 DEF MergeAt
<1>3. CASE i \in 1..(n - 1) /\ Mergeable(cells[i], cells[i + 1])
  <2> DEFINE a == [cells[i] EXCEPT !.len = (@ + cells[i + 1].len) % LenWidth]
             x == [cells EXCEPT ![i] = a]
  <2>1. m = RemoveAt(x, i + 1)
    BY <1>3 DEF MergeAt
  <2>2. i \in 1..n /\ i + 1 \in 1..n /\ i < i + 1
    BY <1>1, <1>3
  <2>3. IsCell(a) /\ a.block = cells[i].block /\ EndBlock(a) = EndBlock(cells[i + 1])
        /\ IsJoin(cells[i], cells[i + 1], a, cells[i].len \div BlockSize)
    <3>1. EndBlock(cells[i]) <= cells[i + 1].block /\ EndBlock(cells[i + 1]) <= top
      BY <2>2 DEF IsOrdered, Disjoint, Within
    <3>2. EndBlock(cells[i + 1]) \in Nat /\ MaxBlocks \in Nat
      BY <1>1, <2>2, EndNat, SizesAssumption
    <3>3. EndBlock(cells[i + 1]) <= MaxBlocks
      BY <3>1, <3>2
    <3>4. QED
      BY <1>1, <1>3, <2>2, <3>1, <3>3, MergedCell
  <2> HIDE DEF a
  <2>4. DOMAIN cells = 1..n
    BY <1>1 DEF IsSeq
  <2>5. x = [j \in 1..n |-> x[j]] /\ x[i] = a /\ \A j \in 1..n : j # i => x[j] = cells[j]
    BY <2>2, <2>4
  <2> HIDE DEF x
  <2>6. IsSeq(x) /\ Len(x) = n
    BY <1>1, <2>5, Made
  <2>7. /\ IsSeq(m) /\ Len(m) = n - 1
        /\ \A j \in 1..((i + 1) - 1) : m[j] = x[j]
        /\ \A j \in (i + 1)..(n - 1) : m[j] = x[j + 1]
    <3> DEFINE r == RemoveAt(x, i + 1)
    <3>1. i + 1 \in 1..Len(x)
      BY <2>2, <2>6
    <3>2. /\ IsSeq(r) /\ Len(r) = Len(x) - 1
          /\ \A j \in 1..((i + 1) - 1) : r[j] = x[j]
          /\ \A j \in (i + 1)..(Len(x) - 1) : r[j] = x[j + 1]
      BY <2>6, <3>1, Removed, Zenon
    <3>3. m = r
      BY <2>1
    <3> HIDE DEF m, r
    <3>4. QED
      BY <2>6, <3>2, <3>3, Zenon
  <2> HIDE DEF m, n
  <2>8. m[i] = a /\ (\A j \in 1..(i - 1) : m[j] = cells[j])
        /\ \A j \in (i + 1)..(n - 1) : m[j] = cells[j + 1]
    <3>1. i \in 1..((i + 1) - 1)
      BY <1>1, <2>2
    <3>2. \A j \in 1..(i - 1) : j \in 1..((i + 1) - 1) /\ j \in 1..n /\ j # i
      BY <1>1, <2>2
    <3>3. \A j \in (i + 1)..(n - 1) : j + 1 \in 1..n /\ j + 1 # i
      BY <1>1, <2>2
    <3>4. QED
      BY <2>5, <2>7, <3>1, <3>2, <3>3
  <2>9. Joins(cells, i, m)
    BY <1>3, <2>3, <2>7, <2>8 DEF Joins, n
  <2>10. QED
    BY <2>3, <2>8, <2>9 DEF m, n
<1>4. QED
  BY <1>2, <1>3

\* merge_bb() keeps a list in order.
LEMMA MergeKeeps ==
    ASSUME NEW cells, IsOrdered(cells), NEW top \in Nat, Within(cells, top),
           top <= MaxBlocks, NEW i \in Nat
    PROVE  LET m == MergeAt(cells, i)
           IN  /\ IsOrdered(m) /\ Within(m, top)
               /\ m = cells \/ (Len(m) = Len(cells) - 1 /\ i \in 1..(Len(cells) - 1))
<1> DEFINE n == Len(cells)
           m == MergeAt(cells, i)
<1>1. n \in Nat /\ IsSeq(cells) /\ \A j \in 1..n : IsCell(cells[j])
  BY DEF IsOrdered, IsCells, IsSeq
<1>2. CASE m = cells
  BY <1>2
<1>3. CASE m # cells
  <2>1. /\ Joins(cells, i, m) /\ IsCell(m[i])
        /\ m[i].block = cells[i].block /\ EndBlock(m[i]) = EndBlock(cells[i + 1])
    BY <1>3, MergeIs
  <2> HIDE DEF m
  <2>2. /\ i \in 1..(n - 1) /\ i \in 1..n /\ i + 1 \in 1..n /\ i < i + 1
        /\ IsSeq(m) /\ Len(m) = n - 1
    BY <1>1, <2>1 DEF Joins
  <2>8. /\ \A j \in 1..(i - 1) : m[j] = cells[j]
        /\ \A j \in (i + 1)..(n - 1) : m[j] = cells[j + 1]
    BY <2>1 DEF Joins
  <2> HIDE DEF n
  \* Where each cell of the result begins and ends.
  <2> DEFINE s0(j) == IF j <= i THEN j ELSE j + 1
             e0(j) == IF j < i THEN j ELSE j + 1
  <2>9. \A j \in 1..(n - 1) :
            /\ s0(j) \in 1..n /\ e0(j) \in 1..n
            /\ IsCell(m[j]) /\ m[j].block = cells[s0(j)].block
            /\ EndBlock(m[j]) = EndBlock(cells[e0(j)])
    <3> TAKE j \in 1..(n - 1)
    <3>1. CASE j < i
      <4>1. j \in 1..(i - 1) /\ j \in 1..n /\ s0(j) = j /\ e0(j) = j
        BY <1>1, <2>2, <3>1
      <4>2. QED
        BY <1>1, <2>8, <4>1
    <3>2. CASE j = i
      <4>1. s0(j) = i /\ e0(j) = i + 1
        BY <2>2, <3>2
      <4>2. QED
        BY <2>1, <2>2, <3>2, <4>1
    <3>3. CASE j > i
      <4>1. j \in (i + 1)..(n - 1) /\ j + 1 \in 1..n /\ s0(j) = j + 1 /\ e0(j) = j + 1
        BY <1>1, <2>2, <3>3
      <4>2. QED
        BY <1>1, <2>8, <4>1
    <3>4. QED
      BY <2>2, <3>1, <3>2, <3>3
  <2>10. \A j, k \in 1..(n - 1) : j < k => e0(j) < s0(k)
    BY <1>1, <2>2
  <2> HIDE DEF s0, e0
  <2>11. Disjoint(m)
    <3>1. ASSUME NEW j \in 1..(n - 1), NEW k \in 1..(n - 1), j < k
          PROVE  EndBlock(m[j]) <= m[k].block
      <4>1. EndBlock(cells[e0(j)]) <= cells[s0(k)].block
        BY <2>9, <2>10, <3>1 DEF IsOrdered, Disjoint, n
      <4>2. QED
        BY <2>9, <4>1
    <3>2. QED
      BY <2>2, <3>1 DEF Disjoint
  <2>12. Within(m, top)
    <3>1. \A j \in 1..(n - 1) : EndBlock(cells[e0(j)]) <= top
      BY <2>9 DEF Within, n
    <3>2. QED
      BY <2>2, <2>9, <3>1 DEF Within
  <2>13. IsCells(m)
    BY <2>2, <2>9 DEF IsCells
  <2>14. QED
    BY <2>2, <2>11, <2>12, <2>13 DEF m, n, IsOrdered
<1>4. QED
  BY <1>2, <1>3

LEMMA SameSeq ==
    ASSUME NEW p, IsSeq(p), NEW q, IsSeq(q), Len(p) = Len(q),
           \A i \in 1..Len(p) : p[i] = q[i]
    PROVE  p = q
<1> DEFINE n == Len(p)
<1>1. p = [i \in 1..n |-> p[i]] /\ q = [i \in 1..n |-> q[i]] /\ \A i \in 1..n : p[i] = q[i]
  BY DEF IsSeq
<1> HIDE DEF n
<1>2. QED
  BY <1>1

LEMMA HeadIs ==
    ASSUME NEW q, IsSeq(q), Len(q) # 0
    PROVE  Head(q) = q[1] /\ 1 \in 1..Len(q) /\ Len(q) \in Nat \ {0}
<1> DEFINE T == { q[i] : i \in 1..Len(q) }
<1>1. q \in Seq(T)
  BY IsIn
<1>2. Len(q) \in Nat \ {0}
  BY DEF IsSeq
<1> HIDE DEF T
<1>3. Head(q) = q[1]
  BY <1>1, <1>2
<1>4. QED
  BY <1>2, <1>3

LEMMA Empty ==
    /\ IsSeq(<< >>) /\ Len(<< >>) = 0
    /\ \A q : IsSeq(q) => (q = << >> <=> Len(q) = 0)
<1>1. << >> \in Seq({}) /\ Len(<< >>) = 0
  OBVIOUS
<1>2. IsSeq(<< >>)
  BY <1>1, SeqIs
<1>3. ASSUME NEW q, IsSeq(q), Len(q) = 0 PROVE q = << >>
  <2>1. q \in Seq({})
    BY <1>3, IsIn
  <2>2. QED
    BY <1>3, <2>1
<1>4. QED
  BY <1>1, <1>2, <1>3

\* A cell put where nothing is keeps a list in order.
LEMMA InsertKeeps ==
    ASSUME NEW cells, IsOrdered(cells), NEW p \in 0..Len(cells), NEW bb, IsCell(bb),
           \A i \in 1..p : EndBlock(cells[i]) <= bb.block,
           \A i \in (p + 1)..Len(cells) : EndBlock(bb) <= cells[i].block,
           NEW top \in Nat, Within(cells, top), EndBlock(bb) <= top
    PROVE  /\ IsOrdered(InsertAt(cells, p + 1, bb)) /\ Within(InsertAt(cells, p + 1, bb), top)
           /\ Len(InsertAt(cells, p + 1, bb)) = Len(cells) + 1
<1> DEFINE n == Len(cells)
           t == InsertAt(cells, p + 1, bb)
<1>1. n \in Nat /\ p \in Nat /\ p <= n /\ IsSeq(cells) /\ \A i \in 1..n : IsCell(cells[i])
  BY DEF IsOrdered, IsCells, IsSeq
<1>2. /\ IsSeq(t) /\ Len(t) = n + 1
      /\ \A i \in 1..p : t[i] = cells[i]
      /\ t[p + 1] = bb
      /\ \A i \in (p + 2)..(n + 1) : t[i] = cells[i - 1]
  <2>1. IsSeq(cells) /\ p \in 0..Len(cells)
    BY <1>1
  <2> HIDE DEF t, n
  <2>2. /\ IsSeq(t) /\ Len(t) = Len(cells) + 1
        /\ \A i \in 1..p : t[i] = cells[i]
        /\ t[p + 1] = bb
        /\ \A i \in (p + 2)..(Len(cells) + 1) : t[i] = cells[i - 1]
    BY <2>1, Inserted DEF t
  <2>3. QED
    BY <2>2 DEF n
<1>3. /\ \A i, j \in 1..n : i < j => EndBlock(cells[i]) <= cells[j].block
      /\ \A i \in 1..n : EndBlock(cells[i]) <= top
      /\ \A i \in (p + 1)..n : EndBlock(bb) <= cells[i].block
  BY DEF IsOrdered, Disjoint, Within
<1> HIDE DEF t, n
<1>4. ASSUME NEW i \in 1..(n + 1)
      PROVE  \/ i \in 1..p /\ i \in 1..n /\ t[i] = cells[i]
             \/ i = p + 1 /\ t[i] = bb
             \/ i \in (p + 2)..(n + 1) /\ i - 1 \in (p + 1)..n /\ i - 1 \in 1..n /\ t[i] = cells[i - 1]
  <2>1. CASE i <= p
    BY <1>1, <1>2, <2>1
  <2>2. CASE i = p + 1
    BY <1>2, <2>2
  <2>3. CASE i > p + 1
    <3>1. i \in (p + 2)..(n + 1) /\ i - 1 \in (p + 1)..n /\ i - 1 \in 1..n
      BY <1>1, <2>3
    <3>2. QED
      BY <1>2, <3>1
  <2>4. QED
    BY <1>1, <2>1, <2>2, <2>3
<1>5. \A i \in 1..(n + 1) : IsCell(t[i]) /\ EndBlock(t[i]) <= top
  BY <1>1, <1>3, <1>4
<1>6. ASSUME NEW i \in 1..(n + 1), NEW j \in 1..(n + 1), i < j
      PROVE  EndBlock(t[i]) <= t[j].block
  <2>1. CASE i \in 1..p /\ i \in 1..n /\ t[i] = cells[i]
    <3>1. CASE j \in 1..p /\ j \in 1..n /\ t[j] = cells[j]
      BY <1>3, <1>6, <2>1, <3>1
    <3>2. CASE j = p + 1 /\ t[j] = bb
      BY <2>1, <3>2
    <3>3. CASE j \in (p + 2)..(n + 1) /\ j - 1 \in (p + 1)..n /\ j - 1 \in 1..n /\ t[j] = cells[j - 1]
      <4>1. i < j - 1
        BY <1>1, <2>1, <3>3
      <4>2. QED
        BY <1>3, <2>1, <3>3, <4>1
    <3>4. QED
      BY <1>4, <3>1, <3>2, <3>3
  <2>2. CASE i = p + 1 /\ t[i] = bb
    <3>1. j \in (p + 2)..(n + 1) /\ j - 1 \in (p + 1)..n /\ j - 1 \in 1..n /\ t[j] = cells[j - 1]
      <4>1. ~(j \in 1..p) /\ j # p + 1
        BY <1>1, <1>6, <2>2
      <4>2. QED
        BY <1>4, <4>1
    <3>2. QED
      BY <1>3, <2>2, <3>1
  <2>3. CASE i \in (p + 2)..(n + 1) /\ i - 1 \in (p + 1)..n /\ i - 1 \in 1..n /\ t[i] = cells[i - 1]
    <3>1. j \in (p + 2)..(n + 1) /\ j - 1 \in (p + 1)..n /\ j - 1 \in 1..n /\ t[j] = cells[j - 1]
      <4>1. ~(j \in 1..p) /\ j # p + 1
        BY <1>1, <1>6, <2>3
      <4>2. QED
        BY <1>4, <4>1
    <3>2. i - 1 < j - 1
      BY <1>6
    <3>3. QED
      BY <1>3, <2>3, <3>1, <3>2
  <2>4. QED
    BY <1>4, <2>1, <2>2, <2>3
<1>7. IsOrdered(t) /\ Within(t, top)
  BY <1>2, <1>5, <1>6 DEF IsOrdered, IsCells, Disjoint, Within
<1>8. QED
  BY <1>2, <1>7 DEF t, n

\* Where the search ends.
LEMMA BeforeIs ==
    ASSUME NEW cells, IsCells(cells), NEW start \in 1..Len(cells), NEW block \in Nat
    PROVE  LET p == Before(cells, start, block)
           IN  /\ p \in start..Len(cells)
               /\ p = Len(cells) \/ cells[p + 1].block >= block
               /\ p = start \/ cells[p].block < block
<1> DEFINE n == Len(cells)
           S == { i \in start..n : i = n \/ cells[i + 1].block >= block }
           p == Before(cells, start, block)
<1>1. n \in Nat /\ start \in Nat /\ 1 <= start /\ start <= n /\ \A i \in 1..n : cells[i].block \in Nat
  BY DEF IsCells, IsSeq, IsCell
<1> HIDE DEF n
<1>2. S \in SUBSET Nat /\ n \in S
  BY <1>1
<1>3. p = Min(S)
  BY DEF Before, n
<1> HIDE DEF p
<1>4. p \in S /\ \A i \in S : p <= i
  BY <1>2, <1>3, MinIs
<1>5. p = start \/ cells[p].block < block
  <2>1. SUFFICES ASSUME p # start PROVE cells[p].block < block
    OBVIOUS
  <2>2. p - 1 \in start..n /\ p - 1 # n /\ (p - 1) + 1 = p /\ p \in 1..n /\ ~(p <= p - 1)
    BY <1>1, <1>4, <2>1
  <2>3. p - 1 \notin S
    BY <1>4, <2>2
  <2>4. ~(cells[p].block >= block)
    BY <2>2, <2>3
  <2>5. QED
    BY <1>1, <2>2, <2>4
<1>6. QED
  BY <1>4, <1>5 DEF p, n

\* A region that is not used yet.
IsFree(cells, bb) ==
    \A i \in 1..Len(cells) : EndBlock(bb) <= cells[i].block \/ EndBlock(cells[i]) <= bb.block

\* What a sound list gives.
LEMMA ListParts ==
    ASSUME NEW l, IsList(l)
    PROVE  /\ Len(l.cells) \in Nat /\ IsSeq(l.cells)
           /\ \A i \in 1..Len(l.cells) :
                 /\ IsCell(l.cells[i]) /\ EndBlock(l.cells[i]) \in Nat
                 /\ l.cells[i].block \in Nat /\ l.cells[i].block < EndBlock(l.cells[i])
           /\ \A i, j \in 1..Len(l.cells) : i < j => EndBlock(l.cells[i]) <= l.cells[j].block
<1>1. IsSeq(l.cells) /\ \A i \in 1..Len(l.cells) : IsCell(l.cells[i])
  BY DEF IsList, IsOrdered, IsCells
<1>2. Len(l.cells) \in Nat
  BY <1>1 DEF IsSeq
<1>3. \A i \in 1..Len(l.cells) :
          /\ EndBlock(l.cells[i]) \in Nat
          /\ l.cells[i].block \in Nat /\ l.cells[i].block < EndBlock(l.cells[i])
  BY <1>1, EndNat DEF IsCell
<1>4. \A i, j \in 1..Len(l.cells) : i < j => EndBlock(l.cells[i]) <= l.cells[j].block
  BY DEF IsList, IsOrdered, Disjoint
<1>5. QED
  BY <1>1, <1>2, <1>3, <1>4

\* Cells in order make a list under any hint into them.
LEMMA ListOf ==
    ASSUME NEW cells, IsOrdered(cells), NEW hint \in 0..Len(cells), NEW dangling \in BOOLEAN
    PROVE  IsList([cells |-> cells, hint |-> hint, dangling |-> dangling])
BY DEF IsList

\* A cell in front.
LEMMA PrependKeeps ==
    ASSUME NEW l, IsList(l), NEW bb, IsCell(bb), Len(l.cells) # 0,
           l.cells[1].block > bb.block, IsFree(l.cells, bb),
           NEW top \in Nat, Within(l.cells, top), EndBlock(bb) <= top
    PROVE  IsList(Prepended(l, bb)) /\ Within(Prepended(l, bb).cells, top)
<1> DEFINE n == Len(l.cells)
           o == <<bb>>
           t == o \o l.cells
           u == InsertAt(l.cells, 0 + 1, bb)
<1>1. /\ n \in Nat \ {0} /\ IsSeq(l.cells) /\ 1 \in 1..n
      /\ \A i \in 1..n : /\ IsCell(l.cells[i]) /\ EndBlock(l.cells[i]) \in Nat
                         /\ l.cells[i].block \in Nat /\ l.cells[i].block < EndBlock(l.cells[i])
      /\ \A i, j \in 1..n : i < j => EndBlock(l.cells[i]) <= l.cells[j].block
  BY ListParts
<1>2. EndBlock(bb) \in Nat /\ bb.block \in Nat /\ bb.block < EndBlock(bb)
  BY EndNat DEF IsCell
<1>3. EndBlock(bb) <= l.cells[1].block
  BY <1>1, <1>2 DEF IsFree
<1>4. \A i \in 1..n : EndBlock(bb) <= l.cells[i].block
  <2> TAKE i \in 1..n
  <2>1. CASE i = 1
    BY <1>3, <2>1
  <2>2. CASE i # 1
    <3>1. EndBlock(l.cells[1]) <= l.cells[i].block
      BY <1>1, <2>2
    <3>2. QED
      BY <1>1, <1>2, <1>3, <3>1
  <2>3. QED
    BY <2>1, <2>2
<1>5. IsOrdered(u) /\ Within(u, top) /\ Len(u) = n + 1
  <2>1. /\ IsOrdered(l.cells) /\ 0 \in 0..Len(l.cells)
        /\ \A i \in 1..0 : EndBlock(l.cells[i]) <= bb.block
        /\ \A i \in (0 + 1)..Len(l.cells) : EndBlock(bb) <= l.cells[i].block
    BY <1>1, <1>4 DEF IsList
  <2>2. QED
    BY <2>1, InsertKeeps
<1>6. t = u
  <2>1. IsSeq(o) /\ Len(o) = 1 /\ o[1] = bb
    BY Single
  <2>2. /\ IsSeq(t) /\ Len(t) = Len(o) + n /\ \A i \in 1..Len(o) : t[i] = o[i]
        /\ \A i \in (Len(o) + 1)..(Len(o) + n) : t[i] = l.cells[i - Len(o)]
    <3> HIDE DEF o
    <3>1. IsSeq(o) /\ IsSeq(l.cells)
      BY <1>1, <2>1
    <3>2. QED
      BY <3>1, Joined, Zenon
  <2>3. /\ IsSeq(u) /\ Len(u) = n + 1 /\ u[0 + 1] = bb
        /\ \A i \in (0 + 2)..(n + 1) : u[i] = l.cells[i - 1]
    <3>1. 0 \in 0..n
      BY <1>1
    <3>2. QED
      BY <1>1, <3>1, Inserted
  <2> HIDE DEF o, t, u, n
  <2>4. \A i \in 1..(n + 1) : t[i] = u[i]
    <3> TAKE i \in 1..(n + 1)
    <3>1. CASE i = 1
      BY <2>1, <2>2, <2>3, <3>1
    <3>2. CASE i # 1
      <4>1. i \in (0 + 2)..(n + 1) /\ i \in (Len(o) + 1)..(Len(o) + n) /\ i - Len(o) = i - 1
        BY <1>1, <2>1, <3>2
      <4>2. QED
        BY <2>2, <2>3, <4>1
    <3>3. QED
      BY <3>1, <3>2
  <2>5. Len(t) = n + 1
    BY <1>1, <2>1, <2>2
  <2>6. QED
    BY <2>2, <2>3, <2>4, <2>5, SameSeq
<1>7. l.hint \in 0..n /\ l.dangling \in BOOLEAN
  BY DEF IsList
<1> DEFINE h == CASE l.hint = 0 -> 0
                  [] l.hint # 0 /\ l.dangling /\ ReusesCells -> 1
                  [] OTHER -> l.hint + 1
           d == l.dangling /\ ~ReusesCells
<1>8. h \in 0..(n + 1) /\ d \in BOOLEAN
  <2>1. d \in BOOLEAN
    OBVIOUS
  <2>2. CASE l.hint = 0
    BY <1>1, <2>2
  <2>3. CASE l.hint # 0 /\ l.dangling /\ ReusesCells
    BY <1>1, <2>3
  <2>4. CASE l.hint # 0 /\ ~(l.dangling /\ ReusesCells)
    BY <1>1, <1>7, <2>4
  <2>5. QED
    BY <2>1, <2>2, <2>3, <2>4
<1>9. Prepended(l, bb) = [cells |-> t, hint |-> h, dangling |-> d]
  BY DEF Prepended
<1> HIDE DEF h, d, o, t, u, n
<1>10. IsList([cells |-> t, hint |-> h, dangling |-> d])
  BY <1>5, <1>6, <1>8, ListOf
<1>11. QED
  BY <1>5, <1>6, <1>9, <1>10

\* The place of a cell behind another.
LEMMA PlaceKeeps ==
    ASSUME NEW l, IsList(l), NEW bb, IsCell(bb), NEW start \in 1..Len(l.cells),
           l.cells[start].block <= bb.block, IsFree(l.cells, bb),
           NEW top \in Nat, Within(l.cells, top), EndBlock(bb) <= top
    PROVE  LET p == Before(l.cells, start, bb.block)
               t == InsertAt(l.cells, p + 1, bb)
           IN  /\ p \in 1..Len(l.cells) /\ p \in 0..Len(l.cells) /\ p \in Nat
               /\ Len(l.cells) \in Nat
               /\ IsOrdered(t) /\ Within(t, top) /\ Len(t) = Len(l.cells) + 1
<1> DEFINE n == Len(l.cells)
           p == Before(l.cells, start, bb.block)
           t == InsertAt(l.cells, p + 1, bb)
<1>1. /\ n \in Nat /\ IsSeq(l.cells)
      /\ \A i \in 1..n : /\ IsCell(l.cells[i]) /\ EndBlock(l.cells[i]) \in Nat
                         /\ l.cells[i].block \in Nat /\ l.cells[i].block < EndBlock(l.cells[i])
      /\ \A i, j \in 1..n : i < j => EndBlock(l.cells[i]) <= l.cells[j].block
  BY ListParts
<1>2. EndBlock(bb) \in Nat /\ bb.block \in Nat /\ bb.block < EndBlock(bb)
  BY EndNat DEF IsCell
<1>3. /\ p \in start..n /\ (p = n \/ l.cells[p + 1].block >= bb.block)
      /\ (p = start \/ l.cells[p].block < bb.block)
  <2>1. IsCells(l.cells)
    BY DEF IsList, IsOrdered
  <2>2. QED
    BY <1>2, <2>1, BeforeIs
<1> HIDE DEF p, n
<1>4. p \in 1..n /\ p \in 0..n /\ p \in Nat /\ l.cells[p].block <= bb.block
  BY <1>1, <1>2, <1>3 DEF n
<1>5. EndBlock(l.cells[p]) <= bb.block
  <2>1. EndBlock(bb) <= l.cells[p].block \/ EndBlock(l.cells[p]) <= bb.block
    BY <1>4 DEF IsFree, n
  <2>2. l.cells[p].block \in Nat
    BY <1>1, <1>4
  <2>3. QED
    BY <1>2, <1>4, <2>1, <2>2
<1>6. \A i \in 1..p : EndBlock(l.cells[i]) <= bb.block
  <2> TAKE i \in 1..p
  <2>1. CASE i = p
    BY <1>5, <2>1
  <2>2. CASE i # p
    <3>1. i \in 1..n /\ i < p
      BY <1>1, <1>4, <2>2
    <3>2. EndBlock(l.cells[i]) <= l.cells[p].block
      BY <1>1, <1>4, <3>1
    <3>3. QED
      BY <1>1, <1>2, <1>4, <3>1, <3>2
  <2>3. QED
    BY <2>1, <2>2
<1>7. \A i \in (p + 1)..n : EndBlock(bb) <= l.cells[i].block
  <2> TAKE i \in (p + 1)..n
  <2>0. n \in Nat /\ p \in Nat /\ p >= 1 /\ p <= n
    BY <1>1, <1>4
  <2>1. p # n /\ p + 1 \in 1..n /\ i \in 1..n
    BY <2>0
  <2> DEFINE x == l.cells[p + 1]
             y == l.cells[i]
  <2>2. /\ x.block \in Nat /\ EndBlock(x) \in Nat /\ x.block < EndBlock(x)
        /\ y.block \in Nat /\ x.block >= bb.block
        /\ EndBlock(bb) <= x.block \/ EndBlock(x) <= bb.block
    <3>1. x.block >= bb.block
      BY <1>3, <2>1
    <3>2. EndBlock(bb) <= x.block \/ EndBlock(x) <= bb.block
      BY <2>1 DEF IsFree, n
    <3>3. /\ x.block \in Nat /\ EndBlock(x) \in Nat /\ x.block < EndBlock(x)
          /\ y.block \in Nat
      BY <1>1, <2>1
    <3> HIDE DEF x, y
    <3>4. QED
      BY <3>1, <3>2, <3>3
  <2>3. CASE i = p + 1
    <3>1. y = x
      BY <2>3
    <3> HIDE DEF x
    <3>2. EndBlock(bb) <= x.block
      BY <1>2, <2>2
    <3>3. QED
      BY <3>1, <3>2
  <2>4. CASE i # p + 1
    <3>1. p + 1 < i
      BY <2>0, <2>4
    <3>2. EndBlock(x) <= y.block
      BY <1>1, <2>1, <3>1
    <3> HIDE DEF x, y
    <3>3. EndBlock(bb) <= y.block
      BY <1>2, <2>2, <3>2
    <3>4. QED
      BY <3>3 DEF y
  <2>5. QED
    BY <2>3, <2>4
<1>8. IsOrdered(t) /\ Within(t, top) /\ Len(t) = n + 1
  <2>1. IsOrdered(l.cells)
    BY DEF IsList
  <2>2. QED
    BY <1>4, <1>6, <1>7, <2>1, InsertKeeps DEF n
<1>9. QED
  BY <1>1, <1>4, <1>8 DEF n, p

\* A cell behind another.
LEMMA InsertFromKeeps ==
    ASSUME NEW l, IsList(l), NEW bb, IsCell(bb), NEW start \in 1..Len(l.cells),
           l.cells[start].block <= bb.block, IsFree(l.cells, bb),
           NEW top \in Nat, Within(l.cells, top), EndBlock(bb) <= top, top <= MaxBlocks
    PROVE  IsList(InsertFrom(l, start, bb)) /\ Within(InsertFrom(l, start, bb).cells, top)
<1> DEFINE n == Len(l.cells)
           p == Before(l.cells, start, bb.block)
           t == InsertAt(l.cells, p + 1, bb)
           inserted == MergeAt(t, p + 1)
           merged == MergeAt(inserted, p)
           freed == Len(merged) < Len(inserted)
<1>1. n \in Nat /\ p \in 1..n /\ p \in 0..n /\ p \in Nat
  BY PlaceKeeps
<1>8. IsOrdered(t) /\ Within(t, top) /\ Len(t) = n + 1
  BY PlaceKeeps
<1> HIDE DEF p, n
<1> HIDE DEF t
<1>9. /\ IsOrdered(inserted) /\ Within(inserted, top)
      /\ inserted = t \/ (Len(inserted) = Len(t) - 1 /\ p + 1 \in 1..(Len(t) - 1))
  <2>1. p + 1 \in Nat
    BY <1>1
  <2>2. QED
    BY <1>8, <2>1, MergeKeeps
<1> HIDE DEF inserted
<1>10. /\ IsOrdered(merged) /\ Within(merged, top)
       /\ merged = inserted \/ (Len(merged) = Len(inserted) - 1 /\ p \in 1..(Len(inserted) - 1))
  BY <1>1, <1>9, MergeKeeps
<1> HIDE DEF merged
<1> DEFINE h == IF freed THEN p ELSE p + 1
<1>11. h \in 0..Len(merged) /\ freed \in BOOLEAN
  <2>1. Len(inserted) \in Nat /\ p + 1 <= Len(inserted)
    BY <1>1, <1>8, <1>9
  <2>2. CASE merged = inserted
    <3>1. h = p + 1
      BY <2>1, <2>2
    <3>2. QED
      BY <1>1, <2>1, <2>2, <3>1
  <2>3. CASE Len(merged) = Len(inserted) - 1 /\ p \in 1..(Len(inserted) - 1)
    <3>1. h = p
      BY <2>1, <2>3
    <3>2. QED
      BY <1>1, <2>1, <2>3, <3>1
  <2>4. QED
    BY <1>10, <2>2, <2>3
<1>12. InsertFrom(l, start, bb) = [cells |-> merged, hint |-> h, dangling |-> freed]
  BY DEF InsertFrom, p, t, inserted, merged
<1> HIDE DEF h, freed
<1>13. IsList([cells |-> merged, hint |-> h, dangling |-> freed])
  BY <1>10, <1>11, ListOf
<1>14. QED
  BY <1>10, <1>12, <1>13

\* The search begins at a cell that is not behind the new one.
LEMMA StartIs ==
    ASSUME NEW l, IsList(l), NEW bb, IsCell(bb), Len(l.cells) # 0,
           ~(l.cells[1].block > bb.block)
    PROVE  /\ StartOf(l, bb) \in 1..Len(l.cells)
           /\ l.cells[StartOf(l, bb)].block <= bb.block
<1>1. /\ Len(l.cells) \in Nat /\ \A i \in 1..Len(l.cells) : l.cells[i].block \in Nat
      /\ l.hint \in 0..Len(l.cells) /\ bb.block \in Nat
  BY ListParts DEF IsList, IsCell
<1>2. 1 \in 1..Len(l.cells)
  BY <1>1
<1>3. CASE l.hint # 0 /\ ~l.dangling /\ bb.block > l.cells[l.hint].block
  <2>1. StartOf(l, bb) = l.hint
    BY <1>3 DEF StartOf
  <2>2. l.hint \in 1..Len(l.cells)
    BY <1>1, <1>3
  <2>3. l.cells[l.hint].block \in Nat
    BY <1>1, <2>2
  <2>4. QED
    BY <1>1, <1>3, <2>1, <2>2, <2>3
<1>4. CASE ~(l.hint # 0 /\ ~l.dangling /\ bb.block > l.cells[l.hint].block)
  <2>1. StartOf(l, bb) = 1
    BY <1>4 DEF StartOf
  <2>2. l.cells[1].block \in Nat
    BY <1>1, <1>2
  <2>3. QED
    BY <1>1, <1>2, <2>1, <2>2
<1>5. QED
  BY <1>3, <1>4

\* queue_bb() keeps a list sound, whatever is freed under the hint.
LEMMA QueuedKeeps ==
    ASSUME NEW l, IsList(l), NEW bb, IsCell(bb), IsFree(l.cells, bb),
           NEW top \in Nat, Within(l.cells, top), EndBlock(bb) <= top, top <= MaxBlocks,
           NEW q \in Queued(l, bb)
    PROVE  IsList(q) /\ Within(q.cells, top)
<1>1. /\ Len(l.cells) \in Nat /\ IsSeq(l.cells)
      /\ \A i \in 1..Len(l.cells) : l.cells[i].block \in Nat
  BY ListParts
<1>2. l.hint \in 0..Len(l.cells) /\ bb.block \in Nat
  BY DEF IsList, IsCell
<1>3. CASE l.cells = << >>
  <2>1. q = [l EXCEPT !.cells = <<bb>>]
    BY <1>3 DEF Queued
  <2>2. Len(l.cells) = 0
    BY <1>1, <1>3, Empty
  <2>3. IsSeq(<<bb>>) /\ Len(<<bb>>) = 1 /\ <<bb>>[1] = bb
    BY Single
  <2> DEFINE o == <<bb>>
  <2>4. q = [cells |-> o, hint |-> l.hint, dangling |-> l.dangling]
    BY <2>1 DEF IsList
  <2>5. IsSeq(o) /\ Len(o) = 1 /\ o[1] = bb
    BY <2>3
  <2> HIDE DEF o
  <2>6. \A i \in 1..Len(o) : o[i] = bb /\ i = 1
    BY <2>5
  <2>7. IsOrdered(o) /\ Within(o, top)
    BY <2>5, <2>6 DEF IsOrdered, IsCells, Disjoint, Within
  <2>8. l.hint \in 0..Len(o) /\ l.dangling \in BOOLEAN
    BY <1>2, <2>2, <2>5 DEF IsList
  <2>9. QED
    BY <2>4, <2>7, <2>8, ListOf
<1>4. CASE l.cells # << >>
  <2>1. Head(l.cells) = l.cells[1] /\ 1 \in 1..Len(l.cells) /\ Len(l.cells) # 0
    BY <1>1, <1>4, Empty, HeadIs
  <2>2. CASE l.cells[1].block > bb.block
    <3>1. q = Prepended(l, bb)
      BY <1>4, <2>1, <2>2 DEF Queued
    <3>2. QED
      BY <2>1, <2>2, <3>1, PrependKeeps
  <2>3. CASE ~(l.cells[1].block > bb.block)
    <3>1. q = InsertFrom(l, StartOf(l, bb), bb) \/ q = l
      BY <1>4, <2>1, <2>3 DEF Queued
    <3>2. CASE q = l
      BY <3>2
    <3>3. CASE q = InsertFrom(l, StartOf(l, bb), bb)
      <4>1. /\ StartOf(l, bb) \in 1..Len(l.cells)
            /\ l.cells[StartOf(l, bb)].block <= bb.block
        BY <2>1, <2>3, StartIs
      <4>2. QED
        BY <3>3, <4>1, InsertFromKeeps
    <3>4. QED
      BY <3>1, <3>2, <3>3
  <2>4. QED
    BY <2>2, <2>3
<1>5. QED
  BY <1>3, <1>4

\* Two cells in one put there what both have put.
LEMMA JoinsShow ==
    ASSUME NEW cells, Len(cells) \in Nat, NEW i, NEW q, Joins(cells, i, q)
    PROVE  \A w, v : Shows(q, w, v) <=> Shows(cells, w, v)
<1> DEFINE n == Len(cells)
<1>1. /\ n \in Nat /\ i \in 1..(n - 1) /\ i \in 1..n /\ i + 1 \in 1..n
      /\ Len(q) = n - 1
      /\ \A j \in 1..(i - 1) : q[j] = cells[j]
      /\ \A j \in (i + 1)..(n - 1) : q[j] = cells[j + 1]
  BY DEF Joins
<1>2. PICK k : IsJoin(cells[i], cells[i + 1], q[i], k)
  BY DEF Joins
<1>3. \A w, v : Puts(q[i], w, v) <=> Puts(cells[i], w, v) \/ Puts(cells[i + 1], w, v)
  BY <1>2, JoinPuts
<1> HIDE DEF n
<1>4. ASSUME NEW w, NEW v, Shows(q, w, v) PROVE Shows(cells, w, v)
  <2>1. PICK j \in 1..(n - 1) : Puts(q[j], w, v)
    BY <1>1, <1>4 DEF Shows
  <2>2. CASE j < i
    <3>1. j \in 1..(i - 1) /\ j \in 1..n
      BY <1>1, <2>2
    <3>2. QED
      BY <1>1, <2>1, <3>1 DEF Shows, n
  <2>3. CASE j = i
    BY <1>1, <1>3, <2>1, <2>3 DEF Shows, n
  <2>4. CASE j > i
    <3>1. j \in (i + 1)..(n - 1) /\ j + 1 \in 1..n
      BY <1>1, <2>4
    <3>2. QED
      BY <1>1, <2>1, <3>1 DEF Shows, n
  <2>5. QED
    BY <1>1, <2>2, <2>3, <2>4
<1>5. ASSUME NEW w, NEW v, Shows(cells, w, v) PROVE Shows(q, w, v)
  <2>1. PICK j \in 1..n : Puts(cells[j], w, v)
    BY <1>5 DEF Shows, n
  <2>2. CASE j < i
    <3>1. j \in 1..(i - 1) /\ j \in 1..(n - 1)
      BY <1>1, <2>2
    <3>2. QED
      BY <1>1, <2>1, <3>1 DEF Shows
  <2>3. CASE j = i \/ j = i + 1
    BY <1>1, <1>3, <2>1, <2>3 DEF Shows
  <2>4. CASE j > i + 1
    <3>1. j - 1 \in (i + 1)..(n - 1) /\ j - 1 \in 1..(n - 1) /\ (j - 1) + 1 = j
      BY <1>1, <2>4
    <3>2. q[j - 1] = cells[j]
      BY <1>1, <3>1
    <3>3. QED
      BY <1>1, <2>1, <3>1, <3>2 DEF Shows
  <2>5. QED
    BY <1>1, <2>2, <2>3, <2>4
<1>6. QED
  BY <1>4, <1>5

\* What is inserted is there.
LEMMA InsertShows ==
    ASSUME NEW q, Len(q) \in Nat, NEW p \in 0..Len(q), NEW e, NEW r, IsInserted(q, p, e, r)
    PROVE  \A w, v : Shows(r, w, v) <=> Shows(q, w, v) \/ Puts(e, w, v)
<1> DEFINE n == Len(q)
<1>1. /\ n \in Nat /\ p \in 0..n /\ p + 1 \in 1..(n + 1)
      /\ Len(r) = n + 1 /\ r[p + 1] = e
      /\ \A j \in 1..p : r[j] = q[j]
      /\ \A j \in (p + 2)..(n + 1) : r[j] = q[j - 1]
  BY DEF IsInserted
<1> HIDE DEF n
<1>2. ASSUME NEW w, NEW v, Shows(r, w, v) PROVE Shows(q, w, v) \/ Puts(e, w, v)
  <2>1. PICK j \in 1..(n + 1) : Puts(r[j], w, v)
    BY <1>1, <1>2 DEF Shows
  <2>2. CASE j <= p
    <3>1. j \in 1..p /\ j \in 1..n
      BY <1>1, <2>2
    <3>2. QED
      BY <1>1, <2>1, <3>1 DEF Shows, n
  <2>3. CASE j = p + 1
    BY <1>1, <2>1, <2>3
  <2>4. CASE j > p + 1
    <3>1. j \in (p + 2)..(n + 1) /\ j - 1 \in 1..n
      BY <1>1, <2>4
    <3>2. QED
      BY <1>1, <2>1, <3>1 DEF Shows, n
  <2>5. QED
    BY <1>1, <2>2, <2>3, <2>4
<1>3. ASSUME NEW w, NEW v, Shows(q, w, v) PROVE Shows(r, w, v)
  <2>1. PICK j \in 1..n : Puts(q[j], w, v)
    BY <1>3 DEF Shows, n
  <2>2. CASE j <= p
    <3>1. j \in 1..p /\ j \in 1..(n + 1)
      BY <1>1, <2>2
    <3>2. QED
      BY <1>1, <2>1, <3>1 DEF Shows
  <2>3. CASE j > p
    <3>1. j + 1 \in (p + 2)..(n + 1) /\ j + 1 \in 1..(n + 1) /\ (j + 1) - 1 = j
      BY <1>1, <2>3
    <3>2. r[j + 1] = q[j]
      BY <1>1, <3>1
    <3>3. QED
      BY <1>1, <2>1, <3>1, <3>2 DEF Shows
  <2>4. QED
    BY <1>1, <2>2, <2>3
<1>4. ASSUME NEW w, NEW v, Puts(e, w, v) PROVE Shows(r, w, v)
  BY <1>1, <1>4 DEF Shows
<1>5. QED
  BY <1>2, <1>3, <1>4

\* merge_bb() leaves everything where it is.
LEMMA MergeShows ==
    ASSUME NEW cells, IsOrdered(cells), NEW top \in Nat, Within(cells, top),
           top <= MaxBlocks, NEW i \in Nat
    PROVE  \A w, v : Shows(MergeAt(cells, i), w, v) <=> Shows(cells, w, v)
<1>1. Len(cells) \in Nat
  BY DEF IsOrdered, IsCells, IsSeq
<1>2. MergeAt(cells, i) = cells \/ Joins(cells, i, MergeAt(cells, i))
  BY MergeIs
<1>3. QED
  BY <1>1, <1>2, JoinsShow, Zenon

\* queue_bb() adds what the new cell holds, and nothing else; or the cell is
\* lost, and nothing else is.
LEMMA QueuedShows ==
    ASSUME NEW l, IsList(l), NEW bb, IsCell(bb), IsFree(l.cells, bb),
           NEW top \in Nat, Within(l.cells, top), EndBlock(bb) <= top, top <= MaxBlocks,
           NEW q \in Queued(l, bb)
    PROVE  \/ \A w, v : Shows(q.cells, w, v) <=> Shows(l.cells, w, v) \/ Puts(bb, w, v)
           \/ ~ReusesCells /\ q = l
<1>1. /\ Len(l.cells) \in Nat /\ IsSeq(l.cells)
      /\ \A i \in 1..Len(l.cells) : l.cells[i].block \in Nat
  BY ListParts
<1>2. bb.block \in Nat
  BY DEF IsCell
<1> DEFINE o == <<bb>>
<1>3. IsSeq(o) /\ Len(o) = 1 /\ o[1] = bb
  BY Single
<1> HIDE DEF o
<1>4. \A w, v : Shows(o, w, v) <=> Puts(bb, w, v)
  <2>1. 1..1 = {1}
    OBVIOUS
  <2>2. QED
    BY <1>3, <2>1 DEF Shows
<1>5. CASE l.cells = << >>
  <2>1. q = [l EXCEPT !.cells = <<bb>>]
    BY <1>5 DEF Queued
  <2>2. Len(l.cells) = 0
    BY <1>1, <1>5, Empty
  <2>3. q = [cells |-> o, hint |-> l.hint, dangling |-> l.dangling]
    BY <2>1 DEF IsList, o
  <2>4. q.cells = o
    BY <2>3
  <2>5. \A w, v : ~Shows(l.cells, w, v)
    BY <2>2 DEF Shows
  <2>6. QED
    BY <1>4, <2>4, <2>5
<1>6. CASE l.cells # << >>
  <2>1. Head(l.cells) = l.cells[1] /\ 1 \in 1..Len(l.cells) /\ Len(l.cells) # 0
    BY <1>1, <1>6, Empty, HeadIs
  <2>2. CASE l.cells[1].block > bb.block
    <3> DEFINE r == o \o l.cells
    <3>1. q = Prepended(l, bb)
      BY <1>6, <2>1, <2>2 DEF Queued
    <3>2. q.cells = r
      BY <3>1 DEF Prepended, o
    <3>3. /\ IsSeq(r) /\ Len(r) = 1 + Len(l.cells)
          /\ \A i \in 1..1 : r[i] = o[i]
          /\ \A i \in (1 + 1)..(1 + Len(l.cells)) : r[i] = l.cells[i - 1]
      <4>1. /\ IsSeq(r) /\ Len(r) = Len(o) + Len(l.cells)
            /\ \A i \in 1..Len(o) : r[i] = o[i]
            /\ \A i \in (Len(o) + 1)..(Len(o) + Len(l.cells)) : r[i] = l.cells[i - Len(o)]
        <5>1. AreJoined(o, l.cells, r)
          BY <1>1, <1>3, JoinedAs
        <5> HIDE DEF r
        <5>2. QED
          BY <5>1 DEF AreJoined
      <4> HIDE DEF r
      <4>2. QED
        BY <1>3, <4>1
    <3> HIDE DEF r
    <3>4. IsInserted(l.cells, 0, bb, r)
      BY <1>1, <1>3, <3>3 DEF IsInserted
    <3>5. 0 \in 0..Len(l.cells)
      BY <1>1
    <3>6. \A w, v : Shows(r, w, v) <=> Shows(l.cells, w, v) \/ Puts(bb, w, v)
      BY <1>1, <3>4, <3>5, InsertShows
    <3>7. QED
      BY <3>2, <3>6
  <2>3. CASE ~(l.cells[1].block > bb.block)
    <3> DEFINE start == StartOf(l, bb)
               p == Before(l.cells, start, bb.block)
               t == InsertAt(l.cells, p + 1, bb)
               inserted == MergeAt(t, p + 1)
               merged == MergeAt(inserted, p)
    <3>1. q = InsertFrom(l, start, bb) \/ (q = l /\ MayBeLost(l, bb))
      BY <1>6, <2>1, <2>3 DEF Queued
    <3> SUFFICES ASSUME q = InsertFrom(l, start, bb)
                 PROVE  \A w, v : Shows(q.cells, w, v) <=> Shows(l.cells, w, v) \/ Puts(bb, w, v)
      BY <3>1 DEF MayBeLost
    <3>2. q = InsertFrom(l, start, bb)
      OBVIOUS
    <3>3. start \in 1..Len(l.cells) /\ l.cells[start].block <= bb.block
      BY <2>1, <2>3, StartIs
    <3>4. q.cells = merged
      BY <3>2 DEF InsertFrom
    <3> HIDE DEF start
    <3>5. /\ p \in 0..Len(l.cells) /\ p \in Nat /\ IsOrdered(t) /\ Within(t, top)
      BY <3>3, PlaceKeeps
    <3> HIDE DEF p
    <3>6. IsInserted(l.cells, p, bb, t)
      BY <1>1, <3>5, InsertedAs
    <3> HIDE DEF t
    <3>7. \A w, v : Shows(t, w, v) <=> Shows(l.cells, w, v) \/ Puts(bb, w, v)
      BY <1>1, <3>5, <3>6, InsertShows
    <3>8. p + 1 \in Nat
      BY <3>5
    <3>9. /\ \A w, v : Shows(inserted, w, v) <=> Shows(t, w, v)
          /\ IsOrdered(inserted) /\ Within(inserted, top)
      BY <3>5, <3>8, MergeShows, MergeKeeps
    <3> HIDE DEF inserted
    <3>10. \A w, v : Shows(merged, w, v) <=> Shows(inserted, w, v)
      BY <3>5, <3>9, MergeShows
    <3> HIDE DEF merged
    <3>11. QED
      BY <3>4, <3>7, <3>9, <3>10
  <2>4. QED
    BY <2>2, <2>3
<1>7. QED
  BY <1>5, <1>6

\* One cell of QueuedAll.
QueuedNext(lists, bb) ==
    IF bb.type = "none" THEN lists ELSE UNION { Queued(l, bb) : l \in lists }

\* The fold of QueuedAll.
LEMMA QueueingExists ==
    ASSUME NEW n \in Nat, NEW cells
    PROVE  \E g : g = [x \in SUBSET (1..n) |->
                          IF x = {} THEN {EmptyList}
                          ELSE QueuedNext(g[x \ {Max(x)}], cells[Max(x)])]
<1> DEFINE Is(g, k) == g = [x \in SUBSET (1..k) |->
                          IF x = {} THEN {EmptyList}
                          ELSE QueuedNext(g[x \ {Max(x)}], cells[Max(x)])]
           T == { k \in Nat : \E g : Is(g, k) }
<1>1. 0 \in T
  <2> DEFINE g == [x \in SUBSET (1..0) |-> {EmptyList}]
  <2>1. g = [x \in SUBSET (1..0) |->
                IF x = {} THEN {EmptyList}
                ELSE QueuedNext(g[x \ {Max(x)}], cells[Max(x)])]
    <3>1. \A x \in SUBSET (1..0) : x = {}
      BY Beginnings
    <3>2. QED
      BY <3>1
  <2>2. QED
    BY <2>1
<1>2. ASSUME NEW k \in Nat, k \in T PROVE k + 1 \in T
  <2>1. PICK g : Is(g, k)
    BY <1>2
  <2> DEFINE h == [x \in SUBSET (1..(k + 1)) |->
                      IF x \in SUBSET (1..k) THEN g[x]
                      ELSE QueuedNext(g[x \ {Max(x)}], cells[Max(x)])]
  <2>2. \A x \in SUBSET (1..(k + 1)) :
            h[x] = IF x = {} THEN {EmptyList}
                   ELSE QueuedNext(h[x \ {Max(x)}], cells[Max(x)])
    <3> TAKE x \in SUBSET (1..(k + 1))
    <3>0. \A y \in SUBSET (1..k) : y \in SUBSET (1..(k + 1)) /\ h[y] = g[y]
      OBVIOUS
    <3> HIDE DEF h
    <3>1. CASE x \in SUBSET (1..k)
      <4>1. h[x] = g[x] /\ g[x] = IF x = {} THEN {EmptyList}
                                  ELSE QueuedNext(g[x \ {Max(x)}], cells[Max(x)])
        BY <2>1, <3>0, <3>1
      <4>2. x # {} => h[x \ {Max(x)}] = g[x \ {Max(x)}]
        BY <3>0, <3>1, Beginnings
      <4>3. QED
        BY <4>1, <4>2
    <3>2. CASE x \notin SUBSET (1..k)
      <4>1. Max(x) = k + 1 /\ x # {} /\ x \ {Max(x)} \in SUBSET (1..k)
        BY <3>2, Beginnings
      <4>2. h[x] = QueuedNext(g[x \ {Max(x)}], cells[Max(x)])
        BY <3>2 DEF h
      <4>3. h[x \ {Max(x)}] = g[x \ {Max(x)}]
        BY <3>0, <4>1
      <4>4. QED
        BY <4>1, <4>2, <4>3
    <3>3. QED
      BY <3>1, <3>2
  <2>3. h = [x \in SUBSET (1..(k + 1)) |-> h[x]]
    OBVIOUS
  <2> HIDE DEF h
  <2>4. Is(h, k + 1)
    BY <2>2, <2>3, Zenon
  <2>5. k + 1 \in Nat
    OBVIOUS
  <2> HIDE DEF Is
  <2>6. QED
    BY <2>4, <2>5
<1>3. n \in T
  <2> HIDE DEF T
  <2>1. Nat \subseteq T
    BY <1>1, <1>2, FromZero
  <2>2. QED
    BY <2>1
<1>4. QED
  BY <1>3

\* Cells, and chunks that are none, in order.
InLine(cells, top) ==
    /\ IsSeq(cells)
    /\ \A i \in 1..Len(cells) : cells[i].type # "none" =>
          /\ IsCell(cells[i]) /\ EndBlock(cells[i]) <= top
          /\ \A j \in 1..Len(cells) : i < j /\ cells[j].type # "none" =>
                EndBlock(cells[i]) <= cells[j].block

\* An empty list.
LEMMA EmptyIsList ==
    IsList(EmptyList) /\ \A b : Within(EmptyList.cells, b) /\ From(EmptyList.cells, b)
<1>1. /\ EmptyList.cells = << >> /\ EmptyList.hint = 0 /\ EmptyList.dangling = FALSE
      /\ EmptyList = [cells |-> EmptyList.cells, hint |-> EmptyList.hint,
                      dangling |-> EmptyList.dangling]
  BY DEF EmptyList
<1>2. IsSeq(EmptyList.cells) /\ Len(EmptyList.cells) = 0
  BY <1>1, Empty
<1>3. 1..0 = {} /\ 0 \in 0..0
  OBVIOUS
<1>4. QED
  BY <1>1, <1>2, <1>3 DEF IsList, IsOrdered, IsCells, Disjoint, Within, From

\* What is shown was put there, and if no cell is lost all of that is shown.
Tells(shown, put) == (shown => put) /\ (ReusesCells /\ put => shown)

\* The list tells of what the first k cells put there.
HasQueued(l, cells, k) ==
    \A w, v : Tells(Shows(l.cells, w, v),
                    \E j \in 1..k : cells[j].type # "none" /\ Puts(cells[j], w, v))

LEMMA QueuedAllSound ==
    ASSUME NEW cells, NEW top \in Nat, InLine(cells, top), top <= MaxBlocks,
           NEW q \in QueuedAll(cells)
    PROVE  /\ IsList(q) /\ Within(q.cells, top)
           /\ HasQueued(q, cells, Len(cells))
<1> DEFINE n == Len(cells)
           E(g) == g = [x \in SUBSET DOMAIN cells |->
                          IF x = {} THEN {EmptyList}
                          ELSE QueuedNext(g[x \ {Max(x)}], cells[Max(x)])]
           h == CHOOSE g : E(g)
<1>1. n \in Nat /\ DOMAIN cells = 1..n
  BY DEF InLine, IsSeq
<1>2. QueuedAll(cells) = h[DOMAIN cells]
  BY Zenon DEF QueuedAll, FoldLeft, MapThenFoldSet, QueuedNext
<1> HIDE DEF n
<1>3. \E g : E(g)
  <2>1. \E g : g = [x \in SUBSET (1..n) |->
                       IF x = {} THEN {EmptyList}
                       ELSE QueuedNext(g[x \ {Max(x)}], cells[Max(x)])]
    BY <1>1, QueueingExists, Zenon
  <2>2. QED
    BY <1>1, <2>1, Zenon
<1>4. E(h)
  BY <1>3, Zenon
<1> HIDE DEF h
<1> DEFINE Good(l, k) ==
               /\ IsList(l) /\ Within(l.cells, top)
               /\ \A j \in (k + 1)..n : cells[j].type # "none" =>
                     Within(l.cells, cells[j].block)
               /\ HasQueued(l, cells, k)
           T == { k \in Nat : k <= n => \A l \in h[1..k] : Good(l, k) }
<1>5. 0 \in T
  <2>1. 1..0 = {} /\ {} \in SUBSET (1..n)
    OBVIOUS
  <2>2. h[1..0] = {EmptyList}
    BY <1>1, <1>4, <2>1
  <2>3. Good(EmptyList, 0)
    <3>1. EmptyList.cells = << >>
      BY DEF EmptyList
    <3>2. HasQueued(EmptyList, cells, 0)
      BY <2>1, <3>1, Empty DEF HasQueued, Tells, Shows
    <3>3. QED
      BY <3>2, EmptyIsList
  <2> HIDE DEF Good
  <2>4. QED
    BY <2>2, <2>3
<1>6. ASSUME NEW k \in Nat, k \in T PROVE k + 1 \in T
  <2>1. SUFFICES ASSUME k + 1 <= n, NEW m \in h[1..(k + 1)] PROVE Good(m, k + 1)
    <3>1. k + 1 \in Nat
      OBVIOUS
    <3> HIDE DEF Good
    <3>2. QED
      BY <3>1
  <2> DEFINE bb == cells[k + 1]
  <2>2. k + 1 \in 1..n /\ (k + 1) - 1 = k /\ k <= n /\ k + 1 \in (k + 1)..n
    BY <1>1, <2>1
  <2>3. \A l \in h[1..k] : Good(l, k)
    <3> HIDE DEF Good
    <3>1. QED
      BY <1>6, <2>2
  <2>4. /\ 1..(k + 1) \in SUBSET (1..n) /\ 1..(k + 1) # {} /\ Max(1..(k + 1)) = k + 1
        /\ (1..(k + 1)) \ {Max(1..(k + 1))} = 1..((k + 1) - 1)
    BY <1>1, <2>2, AtBeginnings
  <2>5. h[1..(k + 1)] = QueuedNext(h[1..k], bb)
    BY <1>1, <1>4, <2>2, <2>4
  <2>6. \A j \in ((k + 1) + 1)..n : j \in (k + 1)..n /\ j \in 1..n /\ k + 1 < j
    OBVIOUS
  <2>7. CASE bb.type = "none"
    <3>1. m \in h[1..k]
      BY <2>1, <2>5, <2>7 DEF QueuedNext
    <3>2. Good(m, k)
      BY <2>3, <3>1
    <3>3. HasQueued(m, cells, k + 1)
      <4>1. \A j \in 1..(k + 1) : j \in 1..k \/ j = k + 1
        OBVIOUS
      <4>2. \A j \in 1..k : j \in 1..(k + 1)
        OBVIOUS
      <4>3. HasQueued(m, cells, k)
        BY <3>2
      <4>4. QED
        BY <2>7, <4>1, <4>2, <4>3 DEF HasQueued, Tells
    <3>4. QED
      BY <2>6, <3>2, <3>3
  <2>8. CASE bb.type # "none"
    <3>1. PICK l \in h[1..k] : m \in Queued(l, bb)
      BY <2>1, <2>5, <2>8 DEF QueuedNext
    <3>2. IsList(l) /\ Within(l.cells, top) /\ Within(l.cells, bb.block)
      BY <2>2, <2>3, <2>8, <3>1
    <3>3. IsCell(bb) /\ EndBlock(bb) <= top
      BY <2>2, <2>8 DEF InLine, n
    <3>4. IsFree(l.cells, bb)
      BY <3>2 DEF IsFree, Within
    <3>5. IsList(m) /\ Within(m.cells, top)
      BY <3>1, <3>2, <3>3, <3>4, QueuedKeeps
    <3>6. ASSUME NEW j \in ((k + 1) + 1)..n, cells[j].type # "none"
          PROVE  Within(m.cells, cells[j].block)
      <4>1. EndBlock(bb) <= cells[j].block /\ IsCell(cells[j]) /\ EndBlock(cells[j]) <= top
        BY <2>2, <2>6, <2>8, <3>6 DEF InLine, n
      <4>2. /\ cells[j].block \in Nat /\ EndBlock(cells[j]) \in Nat
            /\ cells[j].block < EndBlock(cells[j])
        BY <4>1, EndNat DEF IsCell
      <4>3. cells[j].block <= MaxBlocks
        BY <4>1, <4>2, SizesAssumption
      <4>4. Within(l.cells, cells[j].block)
        BY <2>3, <2>6, <3>1, <3>6
      <4>5. QED
        BY <3>1, <3>2, <3>3, <3>4, <4>1, <4>2, <4>3, <4>4, QueuedKeeps
    <3>7. HasQueued(m, cells, k + 1)
      <4>1. \/ \A w, v : Shows(m.cells, w, v) <=> Shows(l.cells, w, v) \/ Puts(bb, w, v)
            \/ ~ReusesCells /\ m = l
        BY <3>1, <3>2, <3>3, <3>4, QueuedShows
      <4>2. HasQueued(l, cells, k)
        BY <2>3, <3>1
      <4>3. \A j \in 1..(k + 1) : j \in 1..k \/ j = k + 1
        OBVIOUS
      <4>4. k + 1 \in 1..(k + 1) /\ \A j \in 1..k : j \in 1..(k + 1)
        OBVIOUS
      <4>5. QED
        BY <2>8, <4>1, <4>2, <4>3, <4>4 DEF HasQueued, Tells
    <3>8. QED
      BY <3>5, <3>6, <3>7
  <2>9. QED
    BY <2>7, <2>8
<1>7. n \in T
  <2> HIDE DEF T
  <2>1. Nat \subseteq T
    BY <1>5, <1>6, FromZero
  <2>2. QED
    BY <1>1, <2>1
<1>8. n <= n /\ q \in h[1..n]
  <2>1. n <= n
    BY <1>1
  <2>2. h[DOMAIN cells] = h[1..n]
    BY <1>1
  <2>3. QED
    BY <1>2, <2>1, <2>2
<1>9. QED
  BY <1>7, <1>8 DEF n

-----------------------------------------------------------------------------
(* Reading: chunks become cells again. *)

\* Words that fit so many blocks need no more of them.
LEMMA UpAtMost ==
    ASSUME NEW n \in Nat, NEW k \in Nat, n <= k * BlockSize
    PROVE  DivUp(n) <= k
<1> BlockSize \in Nat \ {0}
  BY BlockSizeAssumption
<1>1. PICK q \in Nat, r \in 0..(BlockSize - 1) : n = q * BlockSize + r
  BY Parts
<1>2. DivUp(n) = IF r = 0 THEN q ELSE q + 1
  <2>1. DivUp(q * BlockSize + r) = IF r = 0 THEN q ELSE q + 1
    BY UpIs
  <2>2. QED
    BY <1>1, <2>1
<1> DEFINE x == q * BlockSize
           y == k * BlockSize
<1>3. x \in Nat /\ y \in Nat /\ n = x + r /\ n <= y
  BY <1>1, Product
<1>4. ASSUME q > k PROVE FALSE
  <2>1. k + 1 <= q /\ k + 1 \in Nat
    BY <1>4
  <2>2. (k + 1) * BlockSize <= x /\ (k + 1) * BlockSize = y + BlockSize
    BY <2>1, TimesMonotone, Product
  <2> HIDE DEF x, y
  <2>3. QED
    BY <1>3, <2>2
<1>5. ASSUME q = k, r # 0 PROVE FALSE
  <2>1. x = y
    BY <1>5
  <2> HIDE DEF x, y
  <2>2. QED
    BY <1>3, <1>5, <2>1
<1>6. QED
  BY <1>2, <1>4, <1>5

\* Blocks only go up.
LEMMA SumsGrow ==
    ASSUME NEW n \in Nat, NEW w, \A i \in 1..n : w[i] \in Nat, NEW S, Sums(w, n, S),
           NEW i \in 0..n, NEW j \in 0..n, i <= j
    PROVE  S[i] <= S[j]
<1> DEFINE T == { d \in Nat : i + d <= n => S[i] <= S[i + d] }
<1>0. S \in [0..n -> Nat] /\ \A k \in 1..n : S[k] = S[k - 1] + w[k]
  BY DEF Sums
<1>1. 0 \in T
  <2>1. i + 0 = i /\ S[i] \in Nat
    BY <1>0
  <2>2. QED
    BY <2>1
<1>2. ASSUME NEW d \in Nat, d \in T PROVE d + 1 \in T
  <2>1. SUFFICES ASSUME i + (d + 1) <= n PROVE S[i] <= S[i + (d + 1)]
    <3>1. d + 1 \in Nat
      OBVIOUS
    <3>2. QED
      BY <3>1
  <2>2. i + d <= n /\ i + d \in 0..n /\ i + (d + 1) \in 1..n /\ (i + (d + 1)) - 1 = i + d
    BY <2>1
  <2>3. S[i] <= S[i + d] /\ S[i] \in Nat /\ S[i + d] \in Nat
    BY <1>0, <1>2, <2>2
  <2>4. S[i + (d + 1)] = S[i + d] + w[i + (d + 1)] /\ w[i + (d + 1)] \in Nat
    BY <1>0, <2>2
  <2>5. QED
    BY <2>3, <2>4
<1>3. j - i \in T
  <2> HIDE DEF T
  <2>1. Nat \subseteq T
    BY <1>1, <1>2, FromZero
  <2>2. QED
    BY <2>1
<1>4. i + (j - i) = j /\ j <= n
  OBVIOUS
<1>5. S[i] <= S[i + (j - i)]
  BY <1>3, <1>4
<1>6. QED
  BY <1>4, <1>5

\* What is read of a file is in line.
LEMMA CellsOfInLine ==
    ASSUME NEW chunks, IsSeq(chunks), \A i \in 1..Len(chunks) : IsChunk(chunks[i])
    PROVE  /\ CurBlock(chunks, Len(chunks) + 1) \in Nat
           /\ InLine(CellsOf(chunks), CurBlock(chunks, Len(chunks) + 1))
<1> DEFINE n == Len(chunks)
           w == BlocksOf(chunks)
           cells == CellsOf(chunks)
<1>1. n \in Nat /\ \A i \in 1..n : chunks[i].blocks \in Nat
  BY DEF IsSeq, IsChunk
<1>2. \A i \in 1..n : w[i] \in Nat /\ w[i] = chunks[i].blocks
  BY <1>1 DEF BlocksOf
<1> HIDE DEF w
<1>3. PICK S : Sums(w, n, S)
  BY <1>1, <1>2, SumsExist
<1>4. S \in [0..n -> Nat] /\ \A i \in 1..n : S[i] = S[i - 1] + w[i]
  BY <1>3 DEF Sums
<1>5. \A m \in 0..n : CurBlock(chunks, m + 1) = S[m]
  BY <1>1, <1>3, CurBlockIs DEF w
<1> DEFINE top == CurBlock(chunks, n + 1)
<1>6. top = S[n] /\ top \in Nat
  BY <1>1, <1>4, <1>5
<1>7. IsSeq(cells) /\ Len(cells) = n /\ \A i \in 1..n : cells[i] = CellOf(chunks, i)
  <2>1. cells = [i \in 1..n |-> cells[i]]
    BY DEF CellsOf
  <2>2. \A i \in 1..n : cells[i] = CellOf(chunks, i)
    BY DEF CellsOf
  <2> HIDE DEF cells
  <2>3. QED
    BY <1>1, <2>1, <2>2, Made
<1> HIDE DEF n, cells, top
<1>8. ASSUME NEW i \in 1..n, cells[i].type # "none"
      PROVE  /\ IsCell(cells[i]) /\ cells[i].block = S[i - 1] /\ EndBlock(cells[i]) = S[i]
  <2> DEFINE k == chunks[i]
             len == k.blocks * BlockSize
             bb == CellOf(chunks, i)
  <2>1. i - 1 \in 0..n /\ (i - 1) + 1 = i
    BY <1>1
  <2>2. CurBlock(chunks, i) = S[i - 1] /\ S[i - 1] \in Nat /\ S[i] = S[i - 1] + k.blocks
    BY <1>2, <1>4, <1>5, <2>1
  <2>3. k.kind \in {"fill", "raw"}
    <3>1. CASE k.kind \notin {"fill", "raw"}
      <4>1. bb = NoCell
        BY <3>1 DEF CellOf
      <4>2. bb.type = "none"
        BY <4>1 DEF NoCell, Cell
      <4>3. QED
        BY <1>7, <1>8, <4>2
    <3>2. QED
      BY <3>1
  <2>4. k.blocks \in Nat /\ k.blocks > 0
    BY <2>3 DEF IsChunk, n
  <2>5. len \in Nat \ {0} /\ DivUp(len) = k.blocks
    <3>1. DivUp(len) = k.blocks /\ len \in Nat
      BY <2>4, UpWhole
    <3>2. len # 0
      BY <2>4, <3>1, UpNat
    <3>3. QED
      BY <3>1, <3>2
  <2>6. \E t \in CellTypes : \E src : bb = Cell(t, src, 0, len, CurBlock(chunks, i))
    BY <2>3 DEF CellOf, CellTypes
  <2>51. len % BlockSize = 0
    BY <2>4, WholeTimes, BlockSizeAssumption
  <2> HIDE DEF len, k
  <2>60. PICK t \in CellTypes : \E src : bb = Cell(t, src, 0, len, CurBlock(chunks, i))
    BY <2>6
  <2>7. PICK src : bb = Cell(t, src, 0, len, CurBlock(chunks, i))
    BY <2>60
  <2>8. /\ bb.type = t /\ bb.src = src /\ bb.off = 0 /\ bb.len = len
        /\ bb.block = CurBlock(chunks, i)
    BY <2>7 DEF Cell
  <2> HIDE DEF bb
  <2>9. IsCell(bb)
    BY <2>2, <2>5, <2>51, <2>7, <2>8 DEF IsCell
  <2>10. EndBlock(bb) = S[i]
    BY <2>2, <2>5, <2>8 DEF EndBlock
  <2>11. QED
    BY <1>7, <2>2, <2>8, <2>9, <2>10 DEF bb
<1>9. \A i \in 1..n, j \in 0..n : i <= j => S[i] <= S[j]
  BY <1>1, <1>2, <1>3, SumsGrow
<1>10. ASSUME NEW i \in 1..n, cells[i].type # "none" PROVE EndBlock(cells[i]) <= top
  <2>1. n \in 0..n /\ i <= n
    BY <1>1
  <2>2. QED
    BY <1>6, <1>8, <1>9, <1>10, <2>1
<1>11. ASSUME NEW i \in 1..n, cells[i].type # "none", NEW j \in 1..n, i < j, cells[j].type # "none"
       PROVE  EndBlock(cells[i]) <= cells[j].block
  <2>1. j - 1 \in 0..n /\ i <= j - 1
    BY <1>1, <1>11
  <2>2. QED
    BY <1>8, <1>9, <1>11, <2>1
<1>12. InLine(cells, top)
  BY <1>7, <1>8, <1>10, <1>11 DEF InLine
<1>13. QED
  BY <1>6, <1>12 DEF n, cells, top

\* And so is a raw image.
LEMMA RawCellsInLine ==
    ASSUME NEW img \in RawImages
    PROVE  /\ Len(img) \in Nat
           /\ DivUp(Len(img)) \in Nat /\ DivUp(Len(img)) <= MaxBlocks
           /\ InLine(RawCells(img), DivUp(Len(img)))
<1> DEFINE l == Len(img)
           n == DivUp(l)
           cells == RawCells(img)
<1>1. /\ BlockSize \in Nat \ {0} /\ MaxBlocks \in Nat /\ MaxBlocks * BlockSize \in Nat
      /\ l \in Nat /\ l <= MaxBlocks * BlockSize /\ IsSeq(img)
  <2>1. BlockSize \in Nat \ {0} /\ MaxBlocks \in Nat
    BY BlockSizeAssumption, SizesAssumption
  <2>2. MaxBlocks * BlockSize \in Nat
    BY <2>1, Product
  <2> DEFINE x == MaxBlocks * BlockSize
  <2>3. img \in Seq(Nat) /\ l <= x
    BY RawImagesAssumption
  <2>4. IsSeq(img)
    BY <2>3, SeqIs
  <2>5. QED
    BY <2>1, <2>2, <2>3, <2>4 DEF x, IsSeq
<1>2. n \in Nat /\ n <= MaxBlocks
  BY <1>1, UpNat, UpAtMost
<1> HIDE DEF l, n
<1>3. ASSUME NEW i \in 1..n
      PROVE  IsCell(cells[i]) /\ cells[i].block = i - 1 /\ EndBlock(cells[i]) = i
                /\ cells[i].type # "none"
  <2> DEFINE b == i - 1
             from == b * BlockSize
             upto == Min({from + BlockSize, l})
             words == SubSeq(img, from + 1, upto)
             bb == IF Len(words) = BlockSize /\ Cardinality(Range(words)) = 1
                   THEN Cell("fill", words[1], 0, BlockSize, b)
                   ELSE Cell("fd", [name |-> "raw", data |-> img], from, Len(words), b)
  <2>1. b \in Nat /\ b + 1 = i /\ from \in Nat
    <3>1. b \in Nat /\ b + 1 = i
      BY <1>2
    <3>2. QED
      BY <1>1, <3>1, Product
  <2>2. from < l
    <3>1. CASE l <= from
      <4>1. n <= b
        BY <1>1, <2>1, <3>1, UpAtMost DEF n
      <4>2. QED
        BY <1>2, <2>1, <4>1
    <3>2. QED
      BY <1>1, <2>1, <3>1
  <2>3. cells[i] = bb
    BY DEF RawCells, n, l
  <2> HIDE DEF b, from, cells
  <2>4. upto \in Nat /\ from < upto /\ upto <= from + BlockSize /\ upto <= l
    <3>1. {from + BlockSize, l} \in SUBSET Nat
      BY <1>1, <2>1
    <3>2. upto \in {from + BlockSize, l} /\ upto <= from + BlockSize /\ upto <= l
      BY <3>1, MinIs
    <3>3. QED
      BY <1>1, <2>1, <2>2, <3>2
  <2> HIDE DEF upto
  <2>5. Len(words) = upto - from
    <3> DEFINE T == { img[j] : j \in 1..Len(img) }
    <3>1. img \in Seq(T)
      BY <1>1, IsIn
    <3> HIDE DEF T
    <3>2. from + 1 \in 1..Len(img) /\ upto \in 1..Len(img) /\ from + 1 <= upto
      BY <1>1, <2>1, <2>4 DEF l
    <3>3. Len(SubSeq(img, from + 1, upto)) = upto - (from + 1) + 1
      BY <3>1, <3>2
    <3>4. upto - (from + 1) + 1 = upto - from
      BY <2>1, <2>4
    <3>5. QED
      BY <3>3, <3>4
  <2> HIDE DEF words
  <2>6. Len(words) \in 1..BlockSize
    BY <1>1, <2>1, <2>4, <2>5
  <2>7. \E t \in CellTypes, len \in 1..BlockSize :
            \E src : \E off \in Nat :
               bb = Cell(t, src, off, len, b) /\ (t = "fill" => len = BlockSize)
    <3>1. BlockSize \in 1..BlockSize /\ 0 \in Nat
      BY <1>1
    <3> DEFINE data == [name |-> "raw", data |-> img]
               whole == Len(words) = BlockSize /\ Cardinality(Range(words)) = 1
    <3>2. CASE whole
      <4>1. bb = Cell("fill", words[1], 0, BlockSize, b)
        BY <3>2
      <4>2. "fill" \in CellTypes
        BY DEF CellTypes
      <4> HIDE DEF bb
      <4>3. QED
        BY <3>1, <4>1, <4>2, Zenon
    <3>3. CASE ~whole
      <4>1. bb = Cell("fd", data, from, Len(words), b)
        BY <3>3
      <4>2. "fd" \in CellTypes /\ "fd" # "fill"
        BY DEF CellTypes
      <4> HIDE DEF bb, data
      <4>3. QED
        BY <2>1, <2>6, <4>1, <4>2, Zenon
    <3>4. QED
      BY <3>2, <3>3
  <2> HIDE DEF bb
  <2>70. PICK t \in CellTypes, len \in 1..BlockSize :
            \E src : \E off \in Nat :
               bb = Cell(t, src, off, len, b) /\ (t = "fill" => len = BlockSize)
    BY <2>7
  <2>71. PICK src : \E off \in Nat :
            bb = Cell(t, src, off, len, b) /\ (t = "fill" => len = BlockSize)
    BY <2>70
  <2>8. PICK off \in Nat : bb = Cell(t, src, off, len, b) /\ (t = "fill" => len = BlockSize)
    BY <2>71
  <2>9. bb.type = t /\ bb.src = src /\ bb.off = off /\ bb.len = len /\ bb.block = b
    BY <2>8 DEF Cell
  <2>10. DivUp(len) = 1
    <3>1. len \in Nat /\ len > 0 /\ len <= BlockSize
      BY <1>1
    <3>2. len <= 1 * BlockSize
      BY <1>1, <3>1
    <3>3. DivUp(len) <= 1 /\ DivUp(len) \in Nat /\ DivUp(len) > 0
      BY <3>1, <3>2, UpNat, UpAtMost
    <3>4. QED
      BY <3>3
  <2>11. IsCell(bb)
    <3>1. len \in Nat \ {0}
      BY <1>1
    <3>2. (1 * BlockSize) % BlockSize = 0 /\ 1 * BlockSize = BlockSize
      BY <1>1, WholeTimes
    <3>3. t = "fill" => len % BlockSize = 0
      BY <2>8, <3>2
    <3>4. QED
      BY <2>1, <2>8, <2>9, <3>1, <3>3 DEF IsCell
  <2>12. EndBlock(bb) = i /\ bb.type # "none"
    BY <2>1, <2>9, <2>10 DEF EndBlock, CellTypes
  <2>13. QED
    BY <2>3, <2>9, <2>11, <2>12 DEF b
<1>4. IsSeq(cells) /\ Len(cells) = n
  <2>1. cells = [i \in 1..n |-> cells[i]]
    BY DEF RawCells, n, l
  <2> HIDE DEF cells
  <2>2. QED
    BY <1>2, <2>1, Made
<1> HIDE DEF cells
<1>5. InLine(cells, n)
  <2>1. ASSUME NEW i \in 1..n
        PROVE  /\ IsCell(cells[i]) /\ EndBlock(cells[i]) <= n
               /\ \A j \in 1..n : i < j => EndBlock(cells[i]) <= cells[j].block
    BY <1>2, <1>3
  <2>2. QED
    BY <1>4, <2>1 DEF InLine
<1>6. QED
  BY <1>1, <1>2, <1>5 DEF l, n, cells

-----------------------------------------------------------------------------
(* Cutting and moving. *)

Altered(r, l2, b2, o2) == [r EXCEPT !.len = l2, !.block = b2, !.off = o2]

\* A cell with another length, first block and offset.
LEMMA Changed ==
    ASSUME NEW ty, NEW sr, NEW o, NEW l, NEW b, NEW l2, NEW b2, NEW o2
    PROVE  Altered(Cell(ty, sr, o, l, b), l2, b2, o2) = Cell(ty, sr, o2, l2, b2)
<1> DEFINE r == Cell(ty, sr, o, l, b)
           r1 == [r EXCEPT !.len = l2]
           r2 == [r1 EXCEPT !.block = b2]
<1>1. r1 = Cell(ty, sr, o, l2, b)
  BY DEF Cell
<1>2. [Cell(ty, sr, o, l2, b) EXCEPT !.block = b2] = Cell(ty, sr, o, l2, b2)
  BY DEF Cell
<1>3. [Cell(ty, sr, o, l2, b2) EXCEPT !.off = o2] = Cell(ty, sr, o2, l2, b2)
  BY DEF Cell
<1>4. Altered(r, l2, b2, o2) = [r2 EXCEPT !.off = o2]
  BY DEF Altered
<1> HIDE DEF r
<1>5. [r2 EXCEPT !.off = o2] = Cell(ty, sr, o2, l2, b2)
  BY <1>1, <1>2, <1>3, Zenon
<1>6. QED
  BY <1>4, <1>5 DEF r

\* A cell cut in two leaves a list in order, at the same place.
LEMMA SplitKeeps ==
    ASSUME NEW cells, IsOrdered(cells), NEW i \in 1..Len(cells), NEW max \in Nat,
           max >= BlockSize, NEW top \in Nat, Within(cells, top)
    PROVE  LET t == Split(cells, i, max)
           IN  /\ IsOrdered(t) /\ Within(t, top)
               /\ Len(t) \in Nat /\ Len(cells) <= Len(t)
               /\ \A b \in Nat : From(cells, b) => From(t, b)
<1> DEFINE n == Len(cells)
           bb == cells[i]
           cut == AlignDown(max)
           q == max \div BlockSize
           t == Split(cells, i, max)
<1>1. /\ n \in Nat /\ IsSeq(cells) /\ i \in 1..n /\ BlockSize \in Nat \ {0}
      /\ \A j \in 1..n : /\ IsCell(cells[j]) /\ EndBlock(cells[j]) \in Nat
                         /\ cells[j].block \in Nat /\ EndBlock(cells[j]) <= top
      /\ \A j, k \in 1..n : j < k => EndBlock(cells[j]) <= cells[k].block
  <2>1. n \in Nat /\ IsSeq(cells) /\ BlockSize \in Nat \ {0} /\ \A j \in 1..n : IsCell(cells[j])
    BY BlockSizeAssumption DEF IsOrdered, IsCells, IsSeq
  <2>2. \A j \in 1..n : EndBlock(cells[j]) \in Nat /\ cells[j].block \in Nat
    BY <2>1, EndNat DEF IsCell
  <2>3. QED
    BY <2>1, <2>2 DEF IsOrdered, Disjoint, Within
<1>2. q \in Nat /\ cut = q * BlockSize /\ cut \in Nat /\ q > 0 /\ cut \div BlockSize = q
  <2>1. q \in Nat /\ max % BlockSize \in 0..(BlockSize - 1)
        /\ max = q * BlockSize + (max % BlockSize)
        /\ max - (max % BlockSize) = q * BlockSize
    BY <1>1, Parts
  <2>2. cut = q * BlockSize
    BY <2>1 DEF AlignDown
  <2>3. q * BlockSize \in Nat
    BY <1>1, <2>1, Product
  <2>4. q # 0
    <3>1. SUFFICES ASSUME q = 0 PROVE FALSE
      OBVIOUS
    <3>2. q * BlockSize = 0
      BY <1>1, <3>1
    <3> HIDE DEF q
    <3>3. max = max % BlockSize
      BY <2>1, <3>2
    <3>4. QED
      BY <1>1, <2>1, <3>3
  <2> HIDE DEF q, cut
  <2>5. (q * BlockSize + 0) \div BlockSize = q
    BY <1>1, <2>1, Quotient
  <2>6. QED
    BY <2>1, <2>2, <2>3, <2>4, <2>5
<1> HIDE DEF q, cut
<1>21. cut % BlockSize = 0
  BY <1>1, <1>2, WholeTimes
<1>3. CASE bb.len <= cut
  <2>1. t = cells
    BY <1>3 DEF Split, cut
  <2>2. QED
    BY <1>1, <2>1
<1>4. CASE ~(bb.len <= cut)
  <2> DEFINE d == [bb EXCEPT !.len = cut]
             u == [cells EXCEPT ![i] = d]
             off == IF bb.type = "fill" THEN 0 ELSE bb.off + cut
             block == bb.block + cut \div BlockSize
             e == [bb EXCEPT !.len = bb.len - cut, !.block = block, !.off = off]
  <2>1. t = InsertAt(u, i + 1, e)
    BY <1>4 DEF Split, cut
  <2>2. IsCell(bb) /\ bb.len \in Nat /\ bb.len - cut \in Nat \ {0} /\ bb.block \in Nat
    <3>1. IsCell(bb) /\ bb.len \in Nat /\ bb.block \in Nat
      BY <1>1 DEF IsCell
    <3> HIDE DEF bb
    <3>2. QED
      BY <1>2, <1>4, <3>1
  <2>3. IsCell(d) /\ d.block = bb.block /\ EndBlock(d) = bb.block + q
    <3> HIDE DEF bb
    <3>1. d = Cell(bb.type, bb.src, bb.off, cut, bb.block)
      BY <2>2 DEF IsCell, Cell
    <3> HIDE DEF d
    <3>2. cut \in Nat \ {0}
      <4>1. DivUp(cut) = q
        BY <1>2, UpWhole
      <4>2. QED
        BY <1>2, <4>1, UpNat
    <3>3. IsCell(d) /\ d.block = bb.block /\ d.len = cut
      BY <1>21, <2>2, <3>1, <3>2 DEF IsCell, Cell
    <3>4. QED
      BY <1>2, <3>3, UpWhole DEF EndBlock
  <2>4. IsCell(e) /\ e.block = bb.block + q /\ EndBlock(e) = EndBlock(bb)
    <3> HIDE DEF bb
    <3>0. block = bb.block + q
      BY <1>2
    <3>00. off \in Nat
      <4>1. bb.off \in Nat /\ bb.off + cut \in Nat
        BY <1>2, <2>2 DEF IsCell
      <4>2. QED
        BY <4>1
    <3> HIDE DEF off, block
    <3>1. e = Cell(bb.type, bb.src, off, bb.len - cut, block)
      <4>1. bb = Cell(bb.type, bb.src, bb.off, bb.len, bb.block)
        BY <2>2 DEF IsCell
      <4> DEFINE l2 == bb.len - cut
      <4> HIDE DEF l2
      <4>2. Altered(Cell(bb.type, bb.src, bb.off, bb.len, bb.block), l2, block, off)
              = Cell(bb.type, bb.src, off, l2, block)
        BY Changed
      <4>3. e = Altered(bb, l2, block, off)
        BY DEF Altered, l2
      <4> HIDE DEF e
      <4> USE DEF l2
      <4>4. QED
        BY <4>1, <4>2, <4>3, Zenon
    <3> HIDE DEF e
    <3>10. bb.type = "fill" => (bb.len - cut) % BlockSize = 0
      <4>1. SUFFICES ASSUME bb.type = "fill" PROVE (bb.len - cut) % BlockSize = 0
        OBVIOUS
      <4>2. bb.len % BlockSize = 0 /\ cut <= bb.len
        BY <1>2, <1>4, <2>2, <4>1 DEF IsCell
      <4>3. QED
        BY <1>1, <1>2, <1>21, <2>2, <4>2, WholeSum
    <3>2. IsCell(e) /\ e.block = bb.block + q /\ e.len = bb.len - cut
      BY <1>2, <2>2, <3>0, <3>00, <3>1, <3>10 DEF IsCell, Cell
    <3>3. DivUp(bb.len) = q + DivUp(bb.len - cut)
      <4>1. DivUp(q * BlockSize + (bb.len - cut)) = q + DivUp(bb.len - cut)
        BY <1>2, <2>2, UpBehind
      <4>2. q * BlockSize + (bb.len - cut) = bb.len
        BY <1>2, <2>2
      <4>3. QED
        BY <4>1, <4>2
    <3>4. DivUp(bb.len - cut) \in Nat
      BY <2>2, UpNat
    <3>5. QED
      BY <1>2, <2>2, <3>2, <3>3, <3>4 DEF EndBlock
  <2> HIDE DEF d, e, off, block
  <2>5. u = [j \in 1..n |-> u[j]] /\ u[i] = d /\ \A j \in 1..n : j # i => u[j] = cells[j]
    <3>1. DOMAIN cells = 1..n
      BY <1>1 DEF IsSeq
    <3>2. QED
      BY <1>1, <3>1
  <2> HIDE DEF u
  <2>6. IsSeq(u) /\ Len(u) = n
    BY <1>1, <2>5, Made
  <2>7. EndBlock(e) \in Nat /\ e.block <= EndBlock(e) /\ EndBlock(d) = e.block
        /\ EndBlock(d) \in Nat /\ EndBlock(d) <= EndBlock(bb)
    BY <2>2, <2>3, <2>4, EndNat
  <2>8. \A j \in 1..n : /\ IsCell(u[j]) /\ u[j].block = cells[j].block
                        /\ EndBlock(u[j]) \in Nat /\ EndBlock(u[j]) <= EndBlock(cells[j])
    <3> TAKE j \in 1..n
    <3>1. CASE j = i
      BY <2>3, <2>5, <2>7, <3>1
    <3>2. CASE j # i
      BY <1>1, <2>5, <3>2
    <3>3. QED
      BY <3>1, <3>2
  <2>9. IsOrdered(u) /\ Within(u, top)
    <3>1. ASSUME NEW j \in 1..n, NEW k \in 1..n, j < k PROVE EndBlock(u[j]) <= u[k].block
      <4>1. EndBlock(cells[j]) <= cells[k].block /\ EndBlock(cells[j]) \in Nat
            /\ cells[k].block \in Nat
        BY <1>1, <3>1
      <4>2. EndBlock(u[j]) <= EndBlock(cells[j]) /\ EndBlock(u[j]) \in Nat
            /\ u[k].block = cells[k].block
        BY <2>8
      <4>3. QED
        BY <4>1, <4>2
    <3>2. \A j \in 1..n : EndBlock(u[j]) <= top
      BY <1>1, <2>8
    <3>3. QED
      BY <2>6, <2>8, <3>1, <3>2 DEF IsOrdered, IsCells, Disjoint, Within
  <2>10. /\ \A j \in 1..i : EndBlock(u[j]) <= e.block
         /\ \A j \in (i + 1)..n : EndBlock(e) <= u[j].block
    <3>1. ASSUME NEW j \in 1..i PROVE EndBlock(u[j]) <= e.block
      <4>1. CASE j = i
        BY <2>5, <2>7, <4>1
      <4>2. CASE j # i
        <5>1. j \in 1..n /\ j < i
          BY <1>1, <4>2
        <5>2. EndBlock(cells[j]) <= bb.block /\ u[j] = cells[j]
          BY <1>1, <2>5, <5>1
        <5> HIDE DEF bb
        <5>3. QED
          BY <1>1, <1>2, <2>2, <2>4, <5>1, <5>2
      <4>3. QED
        BY <4>1, <4>2
    <3>2. ASSUME NEW j \in (i + 1)..n PROVE EndBlock(e) <= u[j].block
      <4>1. j \in 1..n /\ i < j
        BY <1>1
      <4>2. EndBlock(bb) <= cells[j].block /\ u[j].block = cells[j].block
        BY <1>1, <2>8, <4>1
      <4>3. QED
        BY <2>4, <4>2
    <3>3. QED
      BY <3>1, <3>2
  <2>11. EndBlock(e) <= top
    BY <1>1, <2>4
  <2> DEFINE v == InsertAt(u, i + 1, e)
  <2>12. IsOrdered(v) /\ Within(v, top) /\ Len(v) = n + 1
    <3>1. i \in 0..Len(u)
      BY <1>1, <2>6
    <3> HIDE DEF v, bb
    <3>2. QED
      BY <2>4, <2>6, <2>9, <2>10, <2>11, <3>1, InsertKeeps DEF v
  <2>13. ASSUME NEW b \in Nat, From(cells, b) PROVE From(v, b)
    <3>1. /\ \A j \in 1..i : v[j] = u[j]
          /\ v[i + 1] = e
          /\ \A j \in (i + 2)..(n + 1) : v[j] = u[j - 1]
      <4>1. i \in 0..Len(u) /\ IsSeq(u)
        BY <1>1, <2>6
      <4> HIDE DEF v
      <4>2. QED
        BY <2>6, <4>1, Inserted DEF v
    <3> HIDE DEF v
    <3>2. \A j \in 1..n : b <= u[j].block
      BY <2>8, <2>13 DEF From
    <3>3. b <= e.block
      <4>1. b <= bb.block
        BY <1>1, <2>13 DEF From
      <4> HIDE DEF bb
      <4>2. QED
        BY <1>2, <2>2, <2>4, <4>1
    <3>4. ASSUME NEW j \in 1..(n + 1) PROVE b <= v[j].block
      <4>1. CASE j <= i
        BY <1>1, <3>1, <3>2, <4>1
      <4>2. CASE j = i + 1
        BY <3>1, <3>3, <4>2
      <4>3. CASE j > i + 1
        <5>1. j \in (i + 2)..(n + 1) /\ j - 1 \in 1..n
          BY <1>1, <4>3
        <5>2. QED
          BY <3>1, <3>2, <5>1
      <4>4. QED
        BY <1>1, <4>1, <4>2, <4>3
    <3>5. QED
      BY <2>12, <3>4 DEF From
  <2>14. n + 1 \in Nat /\ n <= n + 1
    BY <1>1
  <2> HIDE DEF v, t
  <2>15. t = v
    BY <2>1 DEF v
  <2>16. QED
    BY <2>12, <2>13, <2>14, <2>15 DEF t, n
<1>5. QED
  BY <1>3, <1>4

\* Two lists, one before the other.
LEMMA JoinedInOrder ==
    ASSUME NEW p, IsOrdered(p), NEW q, IsOrdered(q), NEW b \in Nat, Within(p, b), From(q, b)
    PROVE  /\ IsOrdered(p \o q)
           /\ \A top \in Nat : Within(p, top) /\ Within(q, top) => Within(p \o q, top)
           /\ \A c \in Nat : From(p, c) /\ From(q, c) => From(p \o q, c)
<1> DEFINE n == Len(p)
           m == Len(q)
           t == p \o q
<1>1. /\ n \in Nat /\ m \in Nat /\ IsSeq(p) /\ IsSeq(q)
      /\ \A i \in 1..n : IsCell(p[i]) /\ EndBlock(p[i]) \in Nat /\ p[i].block \in Nat
      /\ \A i \in 1..m : IsCell(q[i]) /\ EndBlock(q[i]) \in Nat /\ q[i].block \in Nat
  <2>1. /\ n \in Nat /\ m \in Nat /\ IsSeq(p) /\ IsSeq(q)
        /\ \A i \in 1..n : IsCell(p[i])
        /\ \A i \in 1..m : IsCell(q[i])
    BY DEF IsOrdered, IsCells, IsSeq
  <2>2. QED
    BY <2>1, EndNat DEF IsCell
<1>2. /\ IsSeq(t) /\ Len(t) = n + m
      /\ \A i \in 1..n : t[i] = p[i]
      /\ \A i \in (n + 1)..(n + m) : t[i] = q[i - n]
  <2>1. IsSeq(p) /\ IsSeq(q)
    BY <1>1
  <2> HIDE DEF t
  <2>2. QED
    BY <2>1, Joined DEF t
<1>3. /\ \A i, j \in 1..n : i < j => EndBlock(p[i]) <= p[j].block
      /\ \A i, j \in 1..m : i < j => EndBlock(q[i]) <= q[j].block
      /\ \A i \in 1..n : EndBlock(p[i]) <= b
      /\ \A i \in 1..m : b <= q[i].block
  BY DEF IsOrdered, Disjoint, Within, From
<1> HIDE DEF t, n, m
<1>4. ASSUME NEW i \in 1..(n + m)
      PROVE  \/ i \in 1..n /\ t[i] = p[i]
             \/ i \in (n + 1)..(n + m) /\ i - n \in 1..m /\ t[i] = q[i - n]
  <2>1. CASE i <= n
    BY <1>1, <1>2, <2>1
  <2>2. CASE i > n
    <3>1. i \in (n + 1)..(n + m) /\ i - n \in 1..m
      BY <1>1, <2>2
    <3>2. QED
      BY <1>2, <3>1
  <2>3. QED
    BY <1>1, <2>1, <2>2
<1>5. ASSUME NEW i \in 1..(n + m), NEW j \in 1..(n + m), i < j
      PROVE  EndBlock(t[i]) <= t[j].block
  <2>1. CASE i \in 1..n /\ t[i] = p[i]
    <3>1. CASE j \in 1..n /\ t[j] = p[j]
      BY <1>3, <1>5, <2>1, <3>1
    <3>2. CASE j \in (n + 1)..(n + m) /\ j - n \in 1..m /\ t[j] = q[j - n]
      <4>1. EndBlock(p[i]) <= b /\ b <= q[j - n].block /\ EndBlock(p[i]) \in Nat
            /\ q[j - n].block \in Nat
        BY <1>1, <1>3, <2>1, <3>2
      <4>2. QED
        BY <2>1, <3>2, <4>1
    <3>3. QED
      BY <1>4, <3>1, <3>2
  <2>2. CASE i \in (n + 1)..(n + m) /\ i - n \in 1..m /\ t[i] = q[i - n]
    <3>1. j \in (n + 1)..(n + m) /\ j - n \in 1..m /\ t[j] = q[j - n]
      <4>1. ~(j \in 1..n)
        BY <1>1, <1>5, <2>2
      <4>2. QED
        BY <1>4, <4>1
    <3>2. i - n < j - n
      BY <1>1, <1>5
    <3>3. QED
      BY <1>3, <2>2, <3>1, <3>2
  <2>3. QED
    BY <1>4, <2>1, <2>2
<1>6. \A i \in 1..(n + m) : IsCell(t[i])
  BY <1>1, <1>4
<1>7. IsOrdered(t)
  BY <1>2, <1>5, <1>6 DEF IsOrdered, IsCells, Disjoint
<1>8. ASSUME NEW top \in Nat, Within(p, top), Within(q, top) PROVE Within(t, top)
  <2>1. /\ \A i \in 1..n : EndBlock(p[i]) <= top
        /\ \A i \in 1..m : EndBlock(q[i]) <= top
    BY <1>8 DEF Within, n, m
  <2>2. QED
    BY <1>2, <1>4, <2>1 DEF Within
<1>9. ASSUME NEW c \in Nat, From(p, c), From(q, c) PROVE From(t, c)
  <2>1. /\ \A i \in 1..n : c <= p[i].block
        /\ \A i \in 1..m : c <= q[i].block
    BY <1>9 DEF From, n, m
  <2>2. QED
    BY <1>2, <1>4, <2>1 DEF From
<1>10. QED
  BY <1>7, <1>8, <1>9 DEF t

\* A list cut between two cells: the first part ends where the rest may begin.
LEMMA CutInOrder ==
    ASSUME NEW q, IsOrdered(q), NEW n \in 0..Len(q)
    PROVE  LET p == SubSeq(q, 1, n)
               r == SubSeq(q, n + 1, Len(q))
           IN  /\ IsOrdered(p) /\ IsOrdered(r)
               /\ Len(p) = n /\ Len(r) = Len(q) - n
               /\ \A top \in Nat : Within(q, top) => Within(p, top) /\ Within(r, top)
               /\ \A b \in Nat : From(q, b) =>
                     /\ From(p, b)
                     /\ \E c \in Nat : b <= c /\ Within(p, c) /\ From(r, c)
<1> DEFINE l == Len(q)
           p == SubSeq(q, 1, n)
           r == SubSeq(q, n + 1, l)
<1>1. /\ l \in Nat /\ IsSeq(q) /\ n \in Nat /\ n <= l
      /\ \A i \in 1..l : /\ IsCell(q[i]) /\ EndBlock(q[i]) \in Nat /\ q[i].block \in Nat
                         /\ q[i].block < EndBlock(q[i])
      /\ \A i, j \in 1..l : i < j => EndBlock(q[i]) <= q[j].block
  <2>1. l \in Nat /\ IsSeq(q) /\ \A i \in 1..l : IsCell(q[i])
    BY DEF IsOrdered, IsCells, IsSeq
  <2>2. \A i \in 1..l : EndBlock(q[i]) \in Nat /\ q[i].block \in Nat /\ q[i].block < EndBlock(q[i])
    BY <2>1, EndNat DEF IsCell
  <2>3. \A i, j \in 1..l : i < j => EndBlock(q[i]) <= q[j].block
    BY DEF IsOrdered, Disjoint
  <2>4. n \in Nat /\ n <= l
    BY <2>1
  <2> HIDE DEF l
  <2>5. QED
    BY <2>1, <2>2, <2>3, <2>4
<1>2. IsSeq(p) /\ Len(p) = n /\ \A i \in 1..n : p[i] = q[i]
  BY <1>1, Begun
<1>3. IsSeq(r) /\ Len(r) = l - n /\ \A i \in 1..(l - n) : r[i] = q[n + i]
  BY <1>1, Rest
<1> HIDE DEF p, r, l
<1>4. \A i \in 1..n : i \in 1..l
  BY <1>1
<1>5. \A i \in 1..(l - n) : n + i \in 1..l
  BY <1>1
<1>6. IsOrdered(p)
  <2>1. \A i, j \in 1..n : i < j => EndBlock(p[i]) <= p[j].block
    BY <1>1, <1>2, <1>4
  <2>2. \A i \in 1..n : IsCell(p[i])
    BY <1>1, <1>2, <1>4
  <2>3. QED
    BY <1>2, <2>1, <2>2 DEF IsOrdered, IsCells, Disjoint
<1>7. IsOrdered(r)
  <2>1. ASSUME NEW i \in 1..(l - n), NEW j \in 1..(l - n), i < j
        PROVE  EndBlock(r[i]) <= r[j].block
    <3>1. n + i < n + j
      BY <1>1, <2>1
    <3>2. QED
      BY <1>1, <1>3, <1>5, <3>1
  <2>2. \A i \in 1..(l - n) : IsCell(r[i])
    BY <1>1, <1>3, <1>5
  <2>3. QED
    BY <1>3, <2>1, <2>2 DEF IsOrdered, IsCells, Disjoint
<1>8. ASSUME NEW top \in Nat, Within(q, top) PROVE Within(p, top) /\ Within(r, top)
  <2>1. \A i \in 1..l : EndBlock(q[i]) <= top
    BY <1>8 DEF Within, l
  <2>2. QED
    BY <1>2, <1>3, <1>4, <1>5, <2>1 DEF Within
<1>9. ASSUME NEW b \in Nat, From(q, b)
      PROVE  From(p, b) /\ \E c \in Nat : b <= c /\ Within(p, c) /\ From(r, c)
  <2>1. \A i \in 1..l : b <= q[i].block
    BY <1>9 DEF From, l
  <2>2. From(p, b)
    BY <1>2, <1>4, <2>1 DEF From
  <2>3. CASE n = 0
    <3>1. Within(p, b) /\ From(r, b)
      BY <1>2, <1>3, <1>5, <2>1, <2>3 DEF Within, From
    <3>2. QED
      BY <2>2, <3>1
  <2>4. CASE n # 0
    <3> DEFINE c == EndBlock(q[n])
    <3>1. n \in 1..l /\ n \in 1..n
      BY <1>1, <2>4
    <3>2. c \in Nat /\ b <= c
      BY <1>1, <2>1, <3>1
    <3>3. Within(p, c)
      <4>1. ASSUME NEW i \in 1..n PROVE EndBlock(p[i]) <= c
        <5>1. CASE i = n
          BY <1>2, <3>1, <3>2, <5>1
        <5>2. CASE i # n
          <6>1. i < n /\ i \in 1..l
            BY <1>1, <5>2
          <6>2. EndBlock(q[i]) <= q[n].block /\ q[n].block < c /\ q[n].block \in Nat
                /\ EndBlock(q[i]) \in Nat /\ p[i] = q[i]
            BY <1>1, <1>2, <3>1, <6>1
          <6> HIDE DEF c
          <6>3. QED
            BY <3>2, <6>2
        <5>3. QED
          BY <5>1, <5>2
      <4>2. QED
        BY <1>2, <4>1 DEF Within
    <3>4. From(r, c)
      <4>1. ASSUME NEW i \in 1..(l - n) PROVE c <= r[i].block
        <5>1. n < n + i /\ n + i \in 1..l
          BY <1>1, <1>5
        <5>2. QED
          BY <1>1, <1>3, <3>1, <5>1
      <4>2. QED
        BY <1>3, <4>1 DEF From
    <3> HIDE DEF c
    <3>5. QED
      BY <2>2, <3>2, <3>3, <3>4
  <2>5. QED
    BY <2>3, <2>4
<1>10. QED
  BY <1>2, <1>3, <1>6, <1>7, <1>8, <1>9 DEF p, r, l

\* What the list a round takes its part from is like.
IsTaken(cells, t) ==
    /\ t = [cells |-> t.cells, n |-> t.n, more |-> t.more]
    /\ IsOrdered(t.cells)
    /\ Len(t.cells) \in Nat /\ Len(cells) <= Len(t.cells)
    /\ t.n \in 0..Len(t.cells) /\ t.more \in BOOLEAN
    /\ \A top \in Nat : Within(cells, top) => Within(t.cells, top)
    /\ \A b \in Nat : From(cells, b) => From(t.cells, b)
    /\ t.more => t.n # 0
    /\ ~t.more => t.n = Len(t.cells)

\* Costs are numbers.
LEMMA CostNat == ASSUME NEW bb, IsCell(bb) PROVE CellCost(bb) \in Nat
<1>1. DivUp(bb.len) \in Nat /\ BlockSize \in Nat
  BY UpNat, BlockSizeAssumption DEF IsCell
<1>2. DivUp(bb.len) * BlockSize \in Nat
  BY <1>1, Product
<1> DEFINE a == AlignUp(bb.len)
<1>3. a \in Nat
  BY <1>2 DEF AlignUp
<1> HIDE DEF a
<1>4. CellCost(bb) = ChunkHeader + (IF bb.type = "fill" THEN OneWord ELSE a)
  BY DEF CellCost, a
<1>5. QED
  BY <1>3, <1>4 DEF ChunkHeader, OneWord

\* Cells end somewhere.
LEMMA WithinSome ==
    ASSUME NEW cells, IsOrdered(cells)
    PROVE  \E top \in Nat : Within(cells, top)
<1> DEFINE n == Len(cells)
<1>1. /\ n \in Nat
      /\ \A i \in 1..n : EndBlock(cells[i]) \in Nat /\ cells[i].block < EndBlock(cells[i])
                         /\ cells[i].block \in Nat
      /\ \A i, j \in 1..n : i < j => EndBlock(cells[i]) <= cells[j].block
  <2>1. n \in Nat /\ \A i \in 1..n : IsCell(cells[i])
    BY DEF IsOrdered, IsCells, IsSeq
  <2>2. \A i \in 1..n : EndBlock(cells[i]) \in Nat /\ cells[i].block < EndBlock(cells[i])
                         /\ cells[i].block \in Nat
    BY <2>1, EndNat DEF IsCell
  <2>3. \A i, j \in 1..n : i < j => EndBlock(cells[i]) <= cells[j].block
    BY DEF IsOrdered, Disjoint
  <2> HIDE DEF n
  <2>4. QED
    BY <2>1, <2>2, <2>3
<1> HIDE DEF n
<1>2. CASE n = 0
  BY <1>2 DEF Within, n
<1>3. CASE n # 0
  <2>1. n \in 1..n
    BY <1>1, <1>3
  <2>2. ASSUME NEW i \in 1..n PROVE EndBlock(cells[i]) <= EndBlock(cells[n])
    <3>1. CASE i = n
      BY <1>1, <2>1, <3>1
    <3>2. CASE i # n
      <4>1. i < n
        BY <1>1, <3>2
      <4>2. EndBlock(cells[i]) <= cells[n].block /\ cells[n].block < EndBlock(cells[n])
            /\ cells[n].block \in Nat /\ EndBlock(cells[n]) \in Nat /\ EndBlock(cells[i]) \in Nat
        BY <1>1, <2>1, <4>1
      <4>3. QED
        BY <4>2
    <3>3. QED
      BY <3>1, <3>2
  <2>3. QED
    BY <1>1, <2>1, <2>2 DEF Within, n
<1>4. QED
  BY <1>2, <1>3

\* move_chunks_up_to_len() finds what to move, and cuts a cell if it must.
LEMMA TakenKeeps ==
    ASSUME NEW cells, IsOrdered(cells), NEW max \in MaxLens
    PROVE  IsTaken(cells, Taken(cells, max))
<1> DEFINE l == Len(cells)
           len == max - Overhead
           S == { n \in 0..l : Used(cells, n) <= len }
           fit == Max(S)
           room == len - Used(cells, fit)
           t == Taken(cells, max)
           uncut == [cells |-> cells, n |-> fit, more |-> FALSE]
           cut == [cells |-> Split(cells, fit + 1, room), n |-> fit + 1, more |-> TRUE]
           some == [cells |-> cells, n |-> fit, more |-> TRUE]
<1>1. l \in Nat /\ IsSeq(cells) /\ \A i \in 1..l : IsCell(cells[i])
  BY DEF IsOrdered, IsCells, IsSeq
<1>2. /\ BlockSize \in Nat \ {0} /\ len \in Nat /\ len >= BlockSize
      /\ len \div 8 \in Nat /\ len \div 8 + 1 >= BlockSize
  <2>1. BlockSize \in Nat \ {0}
    BY BlockSizeAssumption
  <2>2. max \in Nat /\ max >= Overhead + BlockSize /\ len \div 8 + 1 >= BlockSize
    BY MaxLensAssumption
  <2>3. Overhead \in Nat
    BY DEF Overhead, FileHeader, ChunkHeader, OneWord
  <2>4. len \in Nat /\ len >= BlockSize
    BY <2>1, <2>2, <2>3
  <2> HIDE DEF len
  <2>5. len \div 8 \in Nat
    BY <2>4
  <2>6. QED
    BY <2>1, <2>2, <2>4, <2>5
<1>3. \A n \in 0..l : Used(cells, n) \in Nat
  <2>1. \A i \in 1..l : CellCost(cells[i]) \in Nat
    BY <1>1, CostNat
  <2> DEFINE w == CostsOf(cells)
  <2>2. \A i \in 1..l : w[i] \in Nat
    BY <2>1 DEF CostsOf
  <2> HIDE DEF w
  <2>3. PICK R : Sums(w, l, R)
    BY <1>1, <2>2, SumsExist
  <2>4. R \in [0..l -> Nat]
    BY <2>3 DEF Sums
  <2>5. \A n \in 0..l : Used(cells, n) = R[n]
    BY <1>1, <2>1, <2>3, UsedIs DEF w
  <2>6. QED
    BY <2>4, <2>5
<1>4. Used(cells, 0) = 0
  <2>1. \A i \in 1..l : CellCost(cells[i]) \in Nat
    BY <1>1, CostNat
  <2> DEFINE w == CostsOf(cells)
  <2>2. \A i \in 1..l : w[i] \in Nat
    BY <2>1 DEF CostsOf
  <2> HIDE DEF w
  <2>3. PICK R : Sums(w, l, R)
    BY <1>1, <2>2, SumsExist
  <2>4. R[0] = 0
    BY <2>3 DEF Sums
  <2>5. Used(cells, 0) = R[0]
    BY <1>1, <2>1, <2>3, UsedIs DEF w
  <2>6. QED
    BY <2>4, <2>5
<1>5. t = IF fit = l THEN uncut
          ELSE IF fit = 0 \/ room > len \div 8 THEN cut ELSE some
  BY DEF Taken, Used
<1> HIDE DEF t, len, l
<1>6. fit \in 0..l /\ Used(cells, fit) <= len
  <2>1. S \in SUBSET (0..l) /\ 0 \in S
    BY <1>1, <1>2, <1>4
  <2>2. fit \in S
    BY <1>1, <2>1, MaxIs
  <2>3. QED
    BY <2>2
<1> HIDE DEF fit
<1>7. room \in Nat
  BY <1>2, <1>3, <1>6
<1>8. CASE fit = l
  <2>1. t = uncut
    BY <1>5, <1>8
  <2>2. QED
    BY <1>1, <1>8, <2>1 DEF IsTaken, t, l
<1>9. CASE fit # l /\ (fit = 0 \/ room > len \div 8)
  <2>1. t = cut
    BY <1>5, <1>9
  <2>2. room >= BlockSize
    <3>1. CASE fit = 0
      BY <1>2, <1>4, <3>1
    <3>2. CASE room > len \div 8
      <4> DEFINE e == len \div 8
      <4>1. e \in Nat /\ e + 1 >= BlockSize /\ room > e
        BY <1>2, <3>2
      <4> HIDE DEF e, room
      <4>2. QED
        BY <1>2, <1>7, <4>1
    <3>3. QED
      BY <1>9, <3>1, <3>2
  <2>3. fit + 1 \in 1..Len(cells) /\ fit + 1 \in Nat \ {0} /\ fit + 1 <= l
    BY <1>1, <1>6, <1>9 DEF l
  <2> HIDE DEF room
  <2> DEFINE u == Split(cells, fit + 1, room)
  <2>4. PICK top0 \in Nat : Within(cells, top0)
    BY WithinSome
  <2>5. /\ IsOrdered(u) /\ Len(u) \in Nat /\ l <= Len(u)
        /\ \A b \in Nat : From(cells, b) => From(u, b)
    BY <1>7, <2>2, <2>3, <2>4, SplitKeeps DEF l
  <2>6. \A top \in Nat : Within(cells, top) => Within(u, top)
    BY <1>7, <2>2, <2>3, SplitKeeps
  <2> HIDE DEF u
  <2>7. t.cells = u /\ t.n = fit + 1 /\ t.more = TRUE
        /\ t = [cells |-> u, n |-> fit + 1, more |-> TRUE]
    BY <2>1 DEF u
  <2>8. fit + 1 \in 0..Len(u)
    BY <1>1, <2>3, <2>5
  <2>9. QED
    BY <2>3, <2>5, <2>6, <2>7, <2>8 DEF IsTaken, t, l
<1>10. CASE fit # l /\ ~(fit = 0 \/ room > len \div 8)
  <2>1. t = some
    BY <1>5, <1>10
  <2>2. QED
    BY <1>1, <1>6, <1>10, <2>1 DEF IsTaken, t, l
<1>11. QED
  BY <1>8, <1>9, <1>10

\* A list of moved cells has no hint.
LEMMA EmptyWith == ASSUME NEW x
    PROVE [EmptyList EXCEPT !.cells = x] = [cells |-> x, hint |-> 0, dangling |-> FALSE]
<1>1. \A a, h, d : [[cells |-> a, hint |-> h, dangling |-> d] EXCEPT !.cells = x]
                     = [cells |-> x, hint |-> h, dangling |-> d]
  OBVIOUS
<1>2. EmptyList = [cells |-> << >>, hint |-> 0, dangling |-> FALSE]
  BY DEF EmptyList
<1>3. QED
  BY <1>1, <1>2, Zenon

\* No cells lie anywhere.
LEMMA NoneThere ==
    ASSUME NEW q, Len(q) = 0
    PROVE  \A b : Within(q, b) /\ From(q, b)
BY DEF Within, From

\* What is left of a list, and where the rest goes.
LEMMA MovedFromKeeps ==
    ASSUME NEW from, IsList(from), NEW n \in 0..Len(from.cells)
    PROVE  /\ IsList(MovedFrom(from, n))
           /\ n # 0 => MovedFrom(from, n).cells = SubSeq(from.cells, n + 1, Len(from.cells))
           /\ n = 0 => MovedFrom(from, n).cells = from.cells
<1> DEFINE r == SubSeq(from.cells, n + 1, Len(from.cells))
           m == [cells |-> r, hint |-> 0, dangling |-> FALSE]
<1>1. CASE n = 0
  <2>1. MovedFrom(from, n) = from
    BY <1>1 DEF MovedFrom
  <2>2. QED
    BY <1>1, <2>1
<1>2. CASE n # 0
  <2>1. MovedFrom(from, n) = m
    BY <1>2, EmptyWith DEF MovedFrom
  <2>2. IsOrdered(from.cells)
    BY DEF IsList
  <2>3. IsOrdered(r)
    BY <2>2, CutInOrder
  <2>4. 0 \in 0..Len(r)
    <3>1. Len(r) \in Nat
      BY <2>3 DEF IsOrdered, IsCells, IsSeq
    <3> HIDE DEF r
    <3>2. QED
      BY <3>1
  <2> HIDE DEF r
  <2>5. IsList(m)
    BY <2>3, <2>4, ListOf
  <2>6. m.cells = r
    OBVIOUS
  <2> HIDE DEF m
  <2>7. QED
    BY <1>2, <2>1, <2>5, <2>6 DEF r
<1>3. QED
  BY <1>1, <1>2

\* Cells moved behind the cells of another list leave it in order.
LEMMA MovedToKeeps ==
    ASSUME NEW from, IsList(from), NEW n \in 0..Len(from.cells), NEW to, IsList(to),
           NEW b \in Nat, From(from.cells, b), Within(to.cells, b),
           NEW top \in Nat, Within(from.cells, top), Within(to.cells, top),
           NEW c \in Nat, b <= c, Within(SubSeq(from.cells, 1, n), c)
    PROVE  /\ IsList(MovedTo(from, n, to))
           /\ Within(MovedTo(from, n, to).cells, top)
           /\ Within(MovedTo(from, n, to).cells, c)
<1>1. CASE n = 0
  <2>1. MovedTo(from, n, to) = to
    BY <1>1 DEF MovedTo
  <2>2. Within(to.cells, c)
    <3>1. \A i \in 1..Len(to.cells) : EndBlock(to.cells[i]) <= b /\ EndBlock(to.cells[i]) \in Nat
      BY ListParts DEF Within
    <3>2. \A i \in 1..Len(to.cells) : EndBlock(to.cells[i]) <= c
      BY <3>1
    <3>3. QED
      BY <3>2 DEF Within
  <2>3. QED
    BY <2>1, <2>2
<1>2. CASE n # 0
  <2> DEFINE q == from.cells
             run == SubSeq(q, 1, n)
             l == Len(to.cells)
             at == IF to.cells = << >> THEN 0 ELSE Before(to.cells, 1, Head(run).block + 1)
             a == SubSeq(to.cells, 1, at)
             z == SubSeq(to.cells, at + 1, l)
             t == a \o run \o z
             m == [cells |-> t, hint |-> 0, dangling |-> FALSE]
  <2>1. MovedTo(from, n, to) = m
    BY <1>2, EmptyWith DEF MovedTo
  <2>2. IsOrdered(q) /\ IsOrdered(to.cells)
    BY DEF IsList
  <2>3. /\ l \in Nat /\ IsSeq(to.cells) /\ IsCells(to.cells)
        /\ \A i \in 1..l : to.cells[i].block \in Nat /\ EndBlock(to.cells[i]) \in Nat
                           /\ to.cells[i].block < EndBlock(to.cells[i])
                           /\ EndBlock(to.cells[i]) <= b
    <3>1. \A i \in 1..l : EndBlock(to.cells[i]) <= b
      BY DEF Within
    <3>2. l \in Nat /\ IsSeq(to.cells) /\ IsCells(to.cells)
      BY <2>2 DEF IsOrdered, IsCells, IsSeq
    <3>3. QED
      BY <3>1, <3>2, ListParts
  <2>4. /\ IsOrdered(run) /\ Len(run) = n /\ From(run, b)
        /\ Within(q, top) => Within(run, top)
    BY <2>2, CutInOrder
  <2> HIDE DEF q, l, at
  <2>5. n \in Nat \ {0} /\ IsSeq(run)
    <3>1. Len(run) \in Nat /\ IsSeq(run)
      BY <2>4 DEF IsOrdered, IsCells, IsSeq
    <3> HIDE DEF run
    <3>2. QED
      BY <1>2, <2>4, <3>1
  <2>6. Head(run).block \in Nat /\ b <= Head(run).block
    <3> HIDE DEF run
    <3>1. Head(run) = run[1] /\ 1 \in 1..Len(run)
      BY <2>4, <2>5, HeadIs
    <3>2. IsCell(run[1]) /\ b <= run[1].block
      BY <2>4, <3>1 DEF IsOrdered, IsCells, From
    <3>3. QED
      BY <3>1, <3>2 DEF IsCell
  <2>7. at = l
    <3>1. CASE to.cells = << >>
      <4>1. l = 0
        BY <2>3, <3>1, Empty DEF l
      <4>2. QED
        BY <3>1, <4>1 DEF at
    <3>2. CASE to.cells # << >>
      <4> DEFINE h == Head(run).block + 1
      <4>1. l # 0 /\ 1 \in 1..l
        <5>1. l # 0
          BY <2>3, <3>2, Empty DEF l
        <5>2. QED
          BY <2>3, <5>1
      <4> HIDE DEF run
      <4>2. h \in Nat /\ b < h
        BY <2>6
      <4>3. at = Before(to.cells, 1, h)
        BY <3>2 DEF at
      <4> HIDE DEF h
      <4>4. at \in 1..l /\ (at = l \/ to.cells[at + 1].block >= h)
        BY <2>3, <4>1, <4>2, <4>3, BeforeIs DEF l
      <4>5. ASSUME at # l PROVE FALSE
        <5>1. at + 1 \in 1..l
          BY <2>3, <4>4, <4>5
        <5>2. QED
          BY <2>3, <4>2, <4>4, <4>5, <5>1
      <4>6. QED
        BY <4>5
    <3>3. QED
      BY <3>1, <3>2
  <2>8. /\ IsOrdered(a) /\ Within(a, b) /\ Within(a, top)
        /\ IsOrdered(z) /\ Len(z) = 0
    <3>1. at \in 0..Len(to.cells) /\ Len(to.cells) - at = 0
      BY <2>3, <2>7 DEF l
    <3>2. /\ IsOrdered(a) /\ IsOrdered(z) /\ Len(z) = Len(to.cells) - at
          /\ \A u \in Nat : Within(to.cells, u) => Within(a, u)
      BY <2>2, <3>1, CutInOrder DEF l
    <3> HIDE DEF a, z
    <3>3. QED
      BY <3>1, <3>2
  <2> HIDE DEF run, a, z
  <2> DEFINE ar == a \o run
  <2>9. IsOrdered(ar) /\ Within(ar, top) /\ Within(ar, c)
    <3>1. Within(a, c)
      <4>1. \A i \in 1..Len(a) : EndBlock(a[i]) <= b /\ EndBlock(a[i]) \in Nat
        BY <2>8, EndNat DEF Within, IsOrdered, IsCells
      <4>2. \A i \in 1..Len(a) : EndBlock(a[i]) <= c
        BY <4>1
      <4>3. QED
        BY <4>2 DEF Within
    <3>2. Within(run, c) /\ Within(run, top)
      BY <2>4 DEF run, q
    <3>3. /\ IsOrdered(ar)
          /\ \A u \in Nat : Within(a, u) /\ Within(run, u) => Within(ar, u)
      BY <2>4, <2>8, JoinedInOrder
    <3> HIDE DEF ar
    <3>4. QED
      BY <2>8, <3>1, <3>2, <3>3
  <2>10. IsOrdered(t) /\ Within(t, top) /\ Within(t, c)
    <3>1. \A u : Within(z, u) /\ From(z, u)
      BY <2>8, NoneThere
    <3>2. t = ar \o z
      OBVIOUS
    <3> HIDE DEF ar, t
    <3>3. /\ IsOrdered(ar \o z)
          /\ \A u \in Nat : Within(ar, u) /\ Within(z, u) => Within(ar \o z, u)
      BY <2>8, <2>9, <3>1, JoinedInOrder
    <3>4. QED
      BY <2>9, <3>1, <3>2, <3>3
  <2> HIDE DEF t
  <2>11. 0 \in 0..Len(t)
    <3>1. Len(t) \in Nat
      BY <2>10 DEF IsOrdered, IsCells, IsSeq
    <3>2. QED
      BY <3>1
  <2>12. IsList(m) /\ m.cells = t
    BY <2>10, <2>11, ListOf
  <2> HIDE DEF m
  <2>13. QED
    BY <2>1, <2>10, <2>12
<1>3. QED
  BY <1>1, <1>2

\* A round of simg2simg: both lists stay in order, and what is moved lies
\* before what is left.
Moved(l, t, to, b, top) ==
    LET from == [l EXCEPT !.cells = t.cells]
        left == MovedFrom(from, t.n)
        kept == MovedTo(from, t.n, to)
    IN  /\ IsList(left) /\ Within(left.cells, top)
        /\ IsList(kept) /\ Within(kept.cells, top)
        /\ \E c \in Nat : b <= c /\ Within(kept.cells, c) /\ From(left.cells, c)
        /\ ~t.more => Len(left.cells) = 0

LEMMA RoundKeeps ==
    ASSUME NEW l, IsList(l), NEW t, IsTaken(l.cells, t), NEW to, IsList(to),
           NEW b \in Nat, From(l.cells, b), Within(to.cells, b),
           NEW top \in Nat, Within(l.cells, top), Within(to.cells, top)
    PROVE  Moved(l, t, to, b, top)
<1> DEFINE from == [l EXCEPT !.cells = t.cells]
           n == t.n
           p == SubSeq(t.cells, 1, n)
           r == SubSeq(t.cells, n + 1, Len(t.cells))
           left == MovedFrom(from, n)
           kept == MovedTo(from, n, to)
<1>1. /\ IsOrdered(t.cells) /\ Len(t.cells) \in Nat /\ n \in 0..Len(t.cells)
      /\ Within(t.cells, top) /\ From(t.cells, b)
      /\ t.more \in BOOLEAN
      /\ t.more => n # 0
      /\ ~t.more => n = Len(t.cells)
      /\ Len(l.cells) <= Len(t.cells)
  BY DEF IsTaken
<1>2. IsList(from) /\ from.cells = t.cells
  <2>1. from = [cells |-> t.cells, hint |-> l.hint, dangling |-> l.dangling]
    BY DEF IsList
  <2>2. l.hint \in 0..Len(t.cells) /\ l.dangling \in BOOLEAN
    <3>1. l.hint \in 0..Len(l.cells) /\ Len(l.cells) \in Nat /\ l.dangling \in BOOLEAN
      BY ListParts DEF IsList
    <3>2. QED
      BY <1>1, <3>1
  <2> HIDE DEF from
  <2>3. QED
    BY <1>1, <2>1, <2>2, ListOf
<1> HIDE DEF from, n
<1>3. /\ IsOrdered(p) /\ IsOrdered(r) /\ Len(r) = Len(t.cells) - n
      /\ Within(r, top)
      /\ \E c \in Nat : b <= c /\ Within(p, c) /\ From(r, c)
  BY <1>1, CutInOrder
<1>4. PICK c \in Nat : b <= c /\ Within(p, c) /\ From(r, c)
  BY <1>3
<1> HIDE DEF p, r
<1>5. /\ IsList(left)
      /\ n # 0 => left.cells = r
      /\ n = 0 => left.cells = t.cells
  BY <1>1, <1>2, MovedFromKeeps DEF r
<1>6. IsList(kept) /\ Within(kept.cells, top) /\ Within(kept.cells, c)
  BY <1>1, <1>2, <1>4, MovedToKeeps DEF p
<1> HIDE DEF left, kept
<1>7. CASE n # 0
  <2>1. left.cells = r
    BY <1>5, <1>7
  <2>2. ~t.more => Len(left.cells) = 0
    <3>1. ASSUME ~t.more PROVE Len(left.cells) = 0
      BY <1>1, <1>3, <2>1, <3>1
    <3>2. QED
      BY <3>1
  <2>3. QED
    BY <1>3, <1>4, <1>5, <1>6, <2>1, <2>2 DEF Moved, left, kept, from, n
<1>8. CASE n = 0
  <2>1. left.cells = t.cells /\ Len(t.cells) = 0
    BY <1>1, <1>5, <1>8
  <2>2. \A u : Within(left.cells, u) /\ From(left.cells, u)
    BY <2>1, NoneThere
  <2>3. QED
    BY <1>4, <1>5, <1>6, <2>1, <2>2 DEF Moved, left, kept, from, n
<1>9. QED
  BY <1>7, <1>8

-----------------------------------------------------------------------------
(* Files and images. *)

\* Whole blocks of an image.
LEMMA WholeAtMost ==
    ASSUME NEW n \in Nat, NEW k \in Nat, n <= k * BlockSize
    PROVE  n \div BlockSize \in Nat /\ n \div BlockSize <= k
<1> DEFINE q == n \div BlockSize
           x == q * BlockSize
           y == k * BlockSize
<1>1. /\ BlockSize \in Nat \ {0} /\ q \in Nat /\ n % BlockSize \in 0..(BlockSize - 1)
      /\ n = x + (n % BlockSize)
  BY BlockSizeAssumption, Parts
<1> HIDE DEF q
<1>2. x \in Nat /\ y \in Nat
  BY <1>1, Product
<1>3. ASSUME q > k PROVE FALSE
  <2>1. k + 1 <= q /\ k + 1 \in Nat
    BY <1>1, <1>3
  <2>2. (k + 1) * BlockSize <= x /\ (k + 1) * BlockSize = y + BlockSize
    BY <1>1, <2>1, TimesMonotone, Product
  <2>3. n <= y
    OBVIOUS
  <2> HIDE DEF x, y
  <2>4. QED
    BY <1>1, <1>2, <2>2, <2>3
<1>4. QED
  BY <1>1, <1>3 DEF q

IsFile(f) ==
    /\ f.total \in Nat /\ IsSeq(f.chunks)
    /\ \A i \in 1..Len(f.chunks) : IsChunk(f.chunks[i])

\* What is written is a file, however far the writing gets.
LEMMA FileOfSound ==
    ASSUME NEW c, IsCells(c.list.cells), c.len \in Nat, NEW top \in Nat,
           c.len <= top * BlockSize, NEW crc \in BOOLEAN, NEW torn \in BOOLEAN,
           NEW n \in 0..Wanted(c, crc), torn => n < Wanted(c, crc)
    PROVE  IsFile(FileOf(c, crc, n, torn)) /\ FileOf(c, crc, n, torn).total <= top
<1> DEFINE chunks == ChunksOf(c)
           sum == IF crc THEN <<CrcChunk(chunks)>> ELSE << >>
           all == chunks \o sum
           m == n + (IF torn THEN 1 ELSE 0)
           f == FileOf(c, crc, n, torn)
<1>1. IsSeq(chunks) /\ \A i \in 1..Len(chunks) : IsChunk(chunks[i])
  BY ChunksAre
<1>2. IsSeq(sum) /\ Len(sum) = (IF crc THEN 1 ELSE 0) /\ \A i \in 1..Len(sum) : IsChunk(sum[i])
  <2>1. CASE crc
    <3> DEFINE k == CrcChunk(chunks)
    <3>1. IsChunk(k)
      BY DEF CrcChunk, IsChunk
    <3> HIDE DEF k
    <3>2. IsSeq(<<k>>) /\ Len(<<k>>) = 1 /\ <<k>>[1] = k
      BY Single
    <3>3. sum = <<k>>
      BY <2>1 DEF k
    <3> HIDE DEF sum
    <3>4. \A i \in 1..Len(sum) : i = 1
      BY <3>2, <3>3
    <3>5. sum[1] = k
      BY <3>2, <3>3
    <3>6. \A i \in 1..Len(sum) : IsChunk(sum[i])
      BY <3>1, <3>4, <3>5
    <3>7. QED
      BY <2>1, <3>2, <3>3, <3>6
  <2>2. CASE ~crc
    <3>1. sum = << >>
      BY <2>2
    <3>2. IsSeq(sum) /\ Len(sum) = 0
      BY <3>1, Empty
    <3> HIDE DEF sum
    <3>3. QED
      BY <2>2, <3>2
  <2>3. QED
    BY <2>1, <2>2
<1>3. Wanted(c, crc) = Len(chunks) + (IF crc THEN 1 ELSE 0)
  BY DEF Wanted
<1>4. f.total = c.len \div BlockSize /\ f.chunks = SubSeq(all, 1, m)
  BY DEF FileOf
<1> HIDE DEF chunks, sum, f
<1>5. /\ IsSeq(all) /\ Len(all) = Len(chunks) + Len(sum)
      /\ \A i \in 1..Len(chunks) : all[i] = chunks[i]
      /\ \A i \in (Len(chunks) + 1)..(Len(chunks) + Len(sum)) : all[i] = sum[i - Len(chunks)]
  <2>1. IsSeq(chunks) /\ IsSeq(sum)
    BY <1>1, <1>2
  <2> HIDE DEF all
  <2>2. QED
    BY <2>1, Joined, Zenon DEF all
<1>6. Len(chunks) \in Nat /\ Len(sum) \in Nat
  BY <1>1, <1>2 DEF IsSeq
<1>7. \A i \in 1..Len(all) : IsChunk(all[i])
  <2> TAKE i \in 1..Len(all)
  <2>1. CASE i <= Len(chunks)
    BY <1>1, <1>5, <1>6, <2>1
  <2>2. CASE i > Len(chunks)
    <3>1. i \in (Len(chunks) + 1)..(Len(chunks) + Len(sum)) /\ i - Len(chunks) \in 1..Len(sum)
      BY <1>5, <1>6, <2>2
    <3>2. QED
      BY <1>2, <1>5, <3>1
  <2>3. QED
    BY <1>5, <1>6, <2>1, <2>2
<1>8. m \in 0..Len(all)
  <2>1. Len(all) = Wanted(c, crc) /\ Len(all) \in Nat
    BY <1>2, <1>3, <1>5, <1>6
  <2> HIDE DEF all
  <2>2. CASE torn
    <3>1. m = n + 1 /\ n < Len(all) /\ n \in Nat
      BY <2>1, <2>2
    <3>2. QED
      BY <2>1, <3>1
  <2>3. CASE ~torn
    <3>1. m = n + 0 /\ n \in 0..Len(all)
      BY <2>1, <2>3
    <3>2. QED
      BY <2>1, <3>1
  <2>4. QED
    BY <2>2, <2>3
<1> HIDE DEF all, m
<1>9. /\ IsSeq(f.chunks) /\ Len(f.chunks) = m
      /\ \A i \in 1..m : f.chunks[i] = all[i]
  BY <1>4, <1>5, <1>8, Begun
<1>10. \A i \in 1..m : i \in 1..Len(all)
  BY <1>5, <1>6, <1>8
<1>11. f.total \in Nat /\ f.total <= top
  BY <1>4, WholeAtMost
<1>12. IsFile(f)
  BY <1>7, <1>9, <1>10, <1>11 DEF IsFile
<1>13. QED
  BY <1>11, <1>12 DEF f

\* What is imported is a list that ends where the file says.
LEMMA ImportSound ==
    ASSUME NEW f, IsFile(f), NEW crc \in BOOLEAN, Outcome(f, crc) = "imported",
           f.total <= MaxBlocks, NEW l \in QueuedAll(CellsOf(f.chunks))
    PROVE  IsList(l) /\ Within(l.cells, f.total)
<1> DEFINE n == Len(f.chunks)
<1>1. CurBlock(f.chunks, n + 1) = f.total
  <2> DEFINE whole == n = f.nchunks /\ CurBlock(f.chunks, n + 1) = f.total
             summed == n > 0 /\ f.chunks[n].kind = "crc"
  <2>1. SUFFICES ASSUME ~whole PROVE FALSE
    OBVIOUS
  <2>2. Outcome(f, crc) = IF summed /\ ~crc THEN "crashed" ELSE "rejected"
    BY <2>1 DEF Outcome
  <2> HIDE DEF summed, whole
  <2>3. QED
    BY <2>2
<1>2. IsSeq(f.chunks) /\ (\A i \in 1..Len(f.chunks) : IsChunk(f.chunks[i])) /\ f.total \in Nat
  BY DEF IsFile
<1>3. InLine(CellsOf(f.chunks), f.total)
  BY <1>1, <1>2, CellsOfInLine
<1>4. QED
  BY <1>2, <1>3, QueuedAllSound

\* How reading may end.
LEMMA OutcomeIs ==
    ASSUME NEW f, NEW crc
    PROVE  Outcome(f, crc) \in {"crashed", "rejected", "truncated", "imported"}
<1> DEFINE n == Len(f.chunks)
           whole == n = f.nchunks /\ CurBlock(f.chunks, n + 1) = f.total
           summed == n > 0 /\ f.chunks[n].kind = "crc"
           raw1 == f.chunks[n].kind = "raw" /\ ~crc
           ok == summed => f.chunks[n].data = ReaderCrc(f.chunks)
<1>1. Outcome(f, crc) =
        CASE summed /\ ~crc -> "crashed"
          [] ~(summed /\ ~crc) /\ ~whole -> "rejected"
          [] ~(summed /\ ~crc) /\ whole /\ f.torn ->
                IF raw1 THEN "truncated" ELSE "rejected"
          [] OTHER -> IF ok THEN "imported" ELSE "rejected"
  BY DEF Outcome
<1> HIDE DEF whole, summed, raw1, ok
<1>2. QED
  BY <1>1

\* What is laid over an image within its size leaves it as long as it is.
LEMMA LaidWithin ==
    ASSUME NEW image, DOMAIN image = Words, NEW bb, IsCell(bb), EndBlock(bb) <= MaxBlocks
    PROVE  DOMAIN Lay(image, bb) = Words
<1> DEFINE x == bb.block * BlockSize
           y == EndBlock(bb) * BlockSize
<1>1. /\ BlockSize \in Nat /\ MaxBlocks \in Nat /\ bb.block \in Nat /\ EndBlock(bb) \in Nat
      /\ bb.block <= EndBlock(bb)
  BY BlockSizeAssumption, SizesAssumption, EndNat DEF IsCell
<1>2. x \in Nat /\ y \in Nat /\ Size \in Nat /\ y <= Size
  BY <1>1, Product, TimesMonotone DEF Size
<1>3. Covered(bb) = x..(y - 1)
  BY DEF Covered
<1> HIDE DEF x, y
<1>4. Covered(bb) \subseteq Words
  BY <1>2, <1>3 DEF Words
<1>5. DOMAIN Lay(image, bb) = Covered(bb) \cup DOMAIN image
  BY DEF Lay, Placed
<1>6. QED
  BY <1>4, <1>5

-----------------------------------------------------------------------------
(* The invariant. *)

IsCookie(c) ==
    /\ c = [len |-> c.len, list |-> c.list]
    /\ c.len \in Nat /\ c.len <= MaxBlocks * BlockSize
    /\ IsList(c.list) /\ Within(c.list.cells, MaxBlocks)

\* What has been moved lies before what is left.
Behind(to, from) == \E b \in Nat : Within(to.cells, b) /\ From(from.cells, b)

CookieOK  == IsCookie(s)
FileOK    == IsFile(file) /\ file.total <= MaxBlocks
TmpOK     ==
    /\ IsList(tmp) /\ Within(tmp.cells, MaxBlocks)
    /\ phase \notin {"first", "second"} => tmp = EmptyList
    /\ phase \in {"first", "second"} => limit \in MaxLens /\ Behind(tmp, s.list)
PartsOK   == IsSeq(parts) /\ \A i \in 1..Len(parts) : IsList(parts[i].list)
RestOK    ==
    /\ phase \in Phases \cup GivenUp
    /\ added \in 0..MaxAdds
    /\ asked \in BOOLEAN /\ lost \in BOOLEAN
    /\ ret \in {"none", "ok", "error"}
    /\ DOMAIN wanted = Words
    /\ limit \in {0} \cup MaxLens
    /\ rounds \in Nat /\ count \in Nat
SparseInv == CookieOK /\ FileOK /\ TmpOK /\ PartsOK /\ RestOK

\* The invariant holds of every list what ListsSound says of it.
LEMMA ListHolds ==
    ASSUME NEW l, IsList(l)
    PROVE  /\ l.hint \in 0..Len(l.cells) /\ l.dangling \in BOOLEAN
           /\ \A i \in 1..Len(l.cells) :
                /\ l.cells[i].type \in {"fill", "data", "file", "fd"}
                /\ l.cells[i].block \in Nat /\ l.cells[i].len \in Nat
           /\ \A i \in 1..(Len(l.cells) - 1) : EndBlock(l.cells[i]) <= l.cells[i + 1].block
<1>1. l.hint \in 0..Len(l.cells) /\ l.dangling \in BOOLEAN
  BY DEF IsList
<1>2. Len(l.cells) \in Nat /\ \A i \in 1..Len(l.cells) : IsCell(l.cells[i])
  BY ListParts
<1>3. \A i \in 1..(Len(l.cells) - 1) :
          i \in 1..Len(l.cells) /\ i + 1 \in 1..Len(l.cells) /\ i < i + 1
  BY <1>2
<1>4. \A i \in 1..(Len(l.cells) - 1) : EndBlock(l.cells[i]) <= l.cells[i + 1].block
  BY <1>3, ListParts
<1>5. QED
  BY <1>1, <1>2, <1>4 DEF IsCell, CellTypes

\* The invariant says no less than ListsSound.
LEMMA InvIsSound == SparseInv => ListsSound
<1> SUFFICES ASSUME SparseInv PROVE ListsSound
  OBVIOUS
<1> DEFINE L == {s.list, tmp} \cup { parts[i].list : i \in 1..Len(parts) }
<1>1. \A l \in L : IsList(l)
  BY DEF SparseInv, CookieOK, IsCookie, TmpOK, PartsOK
<1>2. Ordered
  <2> HIDE DEF L
  <2>1. \A l \in L : \A i \in 1..(Len(l.cells) - 1) : EndBlock(l.cells[i]) <= l.cells[i + 1].block
    BY <1>1, ListHolds
  <2>2. QED
    BY <2>1 DEF Ordered, L
<1>3. TypeOK
  <2> HIDE DEF L
  <2>1. \A l \in L :
           /\ l.hint \in 0..Len(l.cells) /\ l.dangling \in BOOLEAN
           /\ \A i \in 1..Len(l.cells) :
                /\ l.cells[i].type \in {"fill", "data", "file", "fd"}
                /\ l.cells[i].block \in Nat /\ l.cells[i].len \in Nat
    BY <1>1, ListHolds
  <2>2. s.len \in Nat
    BY DEF SparseInv, CookieOK, IsCookie
  <2>3. RestOK
    BY DEF SparseInv
  <2>4. QED
    BY <2>1, <2>2, <2>3, Zenon DEF TypeOK, RestOK, L
<1>4. QED
  BY <1>2, <1>3 DEF ListsSound

\* The size of the largest image.
LEMMA SizeNat == MaxBlocks * BlockSize \in Nat /\ ImageBlocks * BlockSize \in Nat
                 /\ ImageBlocks * BlockSize <= MaxBlocks * BlockSize
BY BlockSizeAssumption, SizesAssumption, Product, TimesMonotone

\* make_ext4fs, ext2simg, img2simg: a new cookie.
LEMMA Begins == Init => SparseInv
<1> SUFFICES ASSUME Init PROVE SparseInv
  OBVIOUS
<1>1. CookieOK
  <2> DEFINE w == ImageBlocks * BlockSize
  <2>1. s = [len |-> w, list |-> EmptyList]
    BY DEF Init, NewCookie
  <2>2. w \in Nat /\ w <= MaxBlocks * BlockSize
    BY SizeNat
  <2>3. IsList(EmptyList) /\ Within(EmptyList.cells, MaxBlocks)
    BY EmptyIsList
  <2> HIDE DEF w
  <2>4. QED
    BY <2>1, <2>2, <2>3 DEF CookieOK, IsCookie
<1>2. FileOK
  <2>1. file.total = 0 /\ file.chunks = << >>
    BY DEF Init, NoFile
  <2>2. IsSeq(file.chunks) /\ Len(file.chunks) = 0
    BY <2>1, Empty
  <2>3. QED
    BY <2>1, <2>2, SizesAssumption DEF FileOK, IsFile
<1>3. TmpOK
  <2>1. tmp = EmptyList /\ phase = "queue"
    BY DEF Init
  <2>2. QED
    BY <2>1, EmptyIsList DEF TmpOK
<1>4. PartsOK
  <2>1. parts = << >>
    BY DEF Init
  <2>2. IsSeq(parts) /\ Len(parts) = 0
    BY <2>1, Empty
  <2>3. QED
    BY <2>2 DEF PartsOK
<1>5. RestOK
  <2>1. MaxAdds \in Nat
    BY SizesAssumption
  <2>2. /\ phase = "queue" /\ added = 0 /\ asked = FALSE /\ ret = "none" /\ lost = FALSE
        /\ limit = 0 /\ rounds = 0 /\ count = 0
    BY DEF Init
  <2>3. DOMAIN wanted = Words
    <3> DEFINE w == [x \in Words |-> Hole]
    <3>1. wanted = w
      BY DEF Init
    <3>2. DOMAIN w = Words
      OBVIOUS
    <3>3. QED
      BY <3>1, <3>2, Zenon
  <2>4. phase \in Phases \cup GivenUp
    BY <2>2 DEF Phases
  <2>5. asked \in BOOLEAN /\ lost \in BOOLEAN
    BY <2>2, Zenon
  <2>6. added \in 0..MaxAdds /\ limit \in {0} \cup MaxLens /\ rounds \in Nat /\ count \in Nat
    BY <2>1, <2>2
  <2>7. ret \in {"none", "ok", "error"}
    BY <2>2
  <2>8. QED
    BY <2>3, <2>4, <2>5, <2>6, <2>7, Zenon DEF RestOK
<1>6. QED
  BY <1>1, <1>2, <1>3, <1>4, <1>5 DEF SparseInv

\* sparse_file_add_*().
LEMMA AddKeeps ==
    ASSUME SparseInv, NEW bb, IsCell(bb), Add(bb)
    PROVE  SparseInv'
<1>1. /\ phase = "queue" /\ phase' = phase /\ added < MaxAdds /\ added' = added + 1
      /\ EndBlock(bb) <= ImageBlocks
      /\ wanted' = Lay(wanted, bb)
      /\ UNCHANGED <<file, asked, ret, lost, limit, tmp, rounds, count, parts>>
      /\ IsFree(s.list.cells, bb)
  BY DEF Add, written, cutting, IsFree
<1>2. PICK q \in Queued(s.list, bb) : s' = [s EXCEPT !.list = q]
  BY DEF Add
<1>3. IsCookie(s)
  BY DEF SparseInv, CookieOK
<1>4. MaxBlocks \in Nat /\ EndBlock(bb) <= MaxBlocks /\ MaxBlocks <= MaxBlocks
  <2>1. EndBlock(bb) \in Nat
    BY EndNat
  <2>2. QED
    BY <1>1, <2>1, SizesAssumption
<1>5. IsList(q) /\ Within(q.cells, MaxBlocks)
  BY <1>1, <1>3, <1>4, QueuedKeeps DEF IsCookie
<1>6. CookieOK'
  <2>1. s' = [len |-> s.len, list |-> q]
    BY <1>2, <1>3 DEF IsCookie
  <2>2. QED
    BY <1>3, <1>5, <2>1 DEF CookieOK, IsCookie
<1>7. FileOK'
  BY <1>1 DEF SparseInv, FileOK
<1>8. TmpOK'
  BY <1>1 DEF SparseInv, TmpOK
<1>9. PartsOK'
  BY <1>1 DEF SparseInv, PartsOK
<1>10. RestOK'
  <2>1. DOMAIN wanted' = Words
    BY <1>1, <1>4, LaidWithin DEF SparseInv, RestOK
  <2>2. added' \in 0..MaxAdds
    BY <1>1, SizesAssumption DEF SparseInv, RestOK
  <2>3. QED
    BY <1>1, <2>1, <2>2 DEF SparseInv, RestOK
<1>11. QED
  BY <1>6, <1>7, <1>8, <1>9, <1>10 DEF SparseInv

\* What is added is a cell.
LEMMA AddedIsCell ==
    ASSUME NEW type \in CellTypes, NEW src, NEW len \in Lens, NEW off \in {0, len},
           NEW b \in 0..(ImageBlocks - 1), type = "fill" => len % BlockSize = 0
    PROVE  IsCell(Cell(type, src, off, len, b))
<1>1. len \in Nat \ {0} /\ b \in Nat /\ off \in Nat
  BY LensAssumption, SizesAssumption
<1>2. QED
  BY <1>1 DEF IsCell, Cell

LEMMA AddFillKeeps == SparseInv /\ AddFill => SparseInv'
<1> SUFFICES ASSUME SparseInv, AddFill PROVE SparseInv'
  OBVIOUS
<1>1. PICK v \in FillVals, len \in Lens, b \in 0..(ImageBlocks - 1) :
         len % BlockSize = 0 /\ Add(Cell("fill", v, 0, len, b))
  BY DEF AddFill
<1>2. IsCell(Cell("fill", v, 0, len, b))
  BY <1>1, AddedIsCell DEF CellTypes
<1>3. QED
  BY <1>1, <1>2, AddKeeps

LEMMA AddFromKeeps ==
    ASSUME SparseInv, NEW type \in CellTypes, type # "fill", AddFrom(type)
    PROVE  SparseInv'
<1> DEFINE src(f, b) == [name |-> f, at |-> IF type = "file" THEN b ELSE 0,
                         data |-> Sources[f].data]
<1>1. PICK f \in DOMAIN Sources, len \in Lens, b \in 0..(ImageBlocks - 1) :
         \E off \in {0, len} : Add(Cell(type, src(f, b), off, len, b))
  BY DEF AddFrom
<1>2. PICK off \in {0, len} : Add(Cell(type, src(f, b), off, len, b))
  BY <1>1
<1> HIDE DEF src
<1>3. IsCell(Cell(type, src(f, b), off, len, b))
  BY AddedIsCell
<1>4. QED
  BY <1>2, <1>3, AddKeeps

-----------------------------------------------------------------------------
(* The calls of the library, one after the other. *)

\* Bounds may be widened.
LEMMA WithinMore ==
    ASSUME NEW cells, IsOrdered(cells), NEW a \in Nat, NEW b \in Nat, a <= b, Within(cells, a)
    PROVE  Within(cells, b)
<1>1. \A i \in 1..Len(cells) : EndBlock(cells[i]) \in Nat /\ EndBlock(cells[i]) <= a
  BY EndNat DEF IsOrdered, IsCells, Within
<1>2. \A i \in 1..Len(cells) : EndBlock(cells[i]) <= b
  BY <1>1
<1>3. QED
  BY <1>2 DEF Within

LEMMA FromLess ==
    ASSUME NEW cells, IsOrdered(cells), NEW a \in Nat, NEW b \in Nat, b <= a, From(cells, a)
    PROVE  From(cells, b)
<1>1. \A i \in 1..Len(cells) : cells[i].block \in Nat /\ a <= cells[i].block
  BY DEF IsOrdered, IsCells, IsCell, From
<1>2. \A i \in 1..Len(cells) : b <= cells[i].block
  BY <1>1
<1>3. QED
  BY <1>2 DEF From

LEMMA FromNought == ASSUME NEW cells, IsOrdered(cells) PROVE From(cells, 0)
<1>1. \A i \in 1..Len(cells) : cells[i].block \in Nat
  BY DEF IsOrdered, IsCells, IsCell
<1>2. \A i \in 1..Len(cells) : 0 <= cells[i].block
  BY <1>1
<1>3. QED
  BY <1>2 DEF From

\* Where simg2simg's loop does not run there is nothing in tmp.
LEMMA TmpStays ==
    ASSUME SparseInv, phase \notin {"first", "second"}, phase' \notin {"first", "second"},
           tmp' = tmp
    PROVE  TmpOK'
BY DEF SparseInv, TmpOK

\* img2simg.
LEMMA ReadRawKeeps == SparseInv /\ ReadRaw => SparseInv'
<1> SUFFICES ASSUME SparseInv, ReadRaw PROVE SparseInv'
  OBVIOUS
<1>1. /\ phase = "queue" /\ phase' = phase /\ added' = MaxAdds
      /\ UNCHANGED <<file, asked, ret, lost, limit, tmp, rounds, count, parts>>
  BY DEF ReadRaw, written, cutting
<1> DEFINE w(img) == [x \in Words |-> CASE x < Len(img) -> img[x + 1]
                                         [] x \in Len(img)..(AlignUp(Len(img)) - 1) -> 0
                                         [] OTHER -> Hole]
<1>2. PICK img \in RawImages :
        /\ \E l \in QueuedAll(RawCells(img)) : s' = [len |-> Len(img), list |-> l]
        /\ wanted' = w(img)
  BY DEF ReadRaw
<1>3. PICK l \in QueuedAll(RawCells(img)) : s' = [len |-> Len(img), list |-> l]
  BY <1>2
<1>4. DOMAIN wanted' = Words
  <2>1. DOMAIN w(img) = Words
    OBVIOUS
  <2>2. QED
    BY <1>2, <2>1, Zenon
<1> HIDE DEF w
<1>5. /\ Len(img) \in Nat /\ DivUp(Len(img)) \in Nat /\ DivUp(Len(img)) <= MaxBlocks
      /\ InLine(RawCells(img), DivUp(Len(img)))
  BY RawCellsInLine
<1>6. IsList(l) /\ Within(l.cells, DivUp(Len(img)))
  BY <1>5, QueuedAllSound
<1>7. Within(l.cells, MaxBlocks)
  BY <1>5, <1>6, WithinMore, SizesAssumption DEF IsList
<1>8. Len(img) <= MaxBlocks * BlockSize
  BY RawImagesAssumption
<1>9. CookieOK'
  <2> DEFINE n == Len(img)
  <2>1. s' = [len |-> n, list |-> l] /\ n \in Nat /\ n <= MaxBlocks * BlockSize
    BY <1>3, <1>5, <1>8
  <2> HIDE DEF n
  <2>2. QED
    BY <1>6, <1>7, <2>1 DEF CookieOK, IsCookie
<1>10. FileOK'
  BY <1>1 DEF SparseInv, FileOK
<1>11. TmpOK'
  BY <1>1, TmpStays
<1>12. PartsOK'
  BY <1>1 DEF SparseInv, PartsOK
<1>13. RestOK'
  <2>1. added' \in 0..MaxAdds
    BY <1>1, SizesAssumption
  <2>2. QED
    BY <1>1, <1>4, <2>1 DEF SparseInv, RestOK
<1>14. QED
  BY <1>9, <1>10, <1>11, <1>12, <1>13 DEF SparseInv

\* sparse_file_write(), to a sparse file.
LEMMA WriteKeeps == SparseInv /\ Write => SparseInv'
<1> SUFFICES ASSUME SparseInv, Write PROVE SparseInv'
  OBVIOUS
<1>1. /\ phase \in {"queue", "appended"} /\ phase' = "written" /\ ret' = "ok"
      /\ UNCHANGED <<s, added, wanted, limit, tmp, rounds, count, parts>>
  BY DEF Write, cutting
<1>2. PICK crc \in (IF phase = "queue" THEN CrcAsked ELSE {FALSE}), torn \in BOOLEAN :
        \E n \in 0..Wanted(s, crc) :
            /\ torn => /\ n < Wanted(s, crc)
                       /\ FileOf(s, crc, n + 1, FALSE).chunks[n + 1].kind # "skip"
            /\ file' = FileOf(s, crc, n, torn)
            /\ asked' = crc
            /\ lost' = (n < Wanted(s, crc))
  BY DEF Write
<1>3. PICK n \in 0..Wanted(s, crc) :
            /\ torn => n < Wanted(s, crc)
            /\ file' = FileOf(s, crc, n, torn)
            /\ asked' = crc
            /\ lost' = (n < Wanted(s, crc))
  BY <1>2
<1>4. crc \in BOOLEAN
  BY CrcAssumption
<1>5. IsCookie(s)
  BY DEF SparseInv, CookieOK
<1>6. IsCells(s.list.cells) /\ s.len \in Nat /\ s.len <= MaxBlocks * BlockSize /\ MaxBlocks \in Nat
  BY <1>5, SizesAssumption DEF IsCookie, IsList, IsOrdered
<1>7. FileOK'
  <2>1. torn => n < Wanted(s, crc)
    BY <1>3
  <2>2. IsFile(FileOf(s, crc, n, torn)) /\ FileOf(s, crc, n, torn).total <= MaxBlocks
    BY <1>4, <1>6, <2>1, FileOfSound
  <2>3. QED
    BY <1>3, <2>2 DEF FileOK
<1>8. CookieOK'
  BY <1>1 DEF SparseInv, CookieOK
<1>9. TmpOK'
  BY <1>1, TmpStays
<1>10. PartsOK'
  BY <1>1 DEF SparseInv, PartsOK
<1>11. RestOK'
  <2>1. asked' \in BOOLEAN
    BY <1>3, <1>4
  <2>2. lost' \in BOOLEAN
    BY <1>3
  <2>3. ret' \in {"none", "ok", "error"} /\ phase' \in Phases \cup GivenUp
    BY <1>1 DEF Phases
  <2>4. QED
    BY <1>1, <2>1, <2>2, <2>3 DEF SparseInv, RestOK
<1>12. QED
  BY <1>7, <1>8, <1>9, <1>10, <1>11 DEF SparseInv

\* The calls that leave the cookies and the file alone.
LEMMA QuietKeeps ==
    ASSUME SparseInv, UNCHANGED <<s, added, wanted, file, asked, limit, tmp, rounds, count, parts>>,
           phase \notin {"first", "second"}, phase' \notin {"first", "second"},
           phase' \in Phases \cup GivenUp, ret' \in {"none", "ok", "error"}, lost' \in BOOLEAN
    PROVE  SparseInv'
<1>1. TmpOK'
  BY TmpStays
<1>2. CookieOK' /\ FileOK' /\ PartsOK'
  BY DEF SparseInv, CookieOK, FileOK, PartsOK
<1>3. RestOK'
  BY DEF SparseInv, RestOK
<1>4. QED
  BY <1>1, <1>2, <1>3 DEF SparseInv

LEMMA WriteFailsKeeps == SparseInv /\ WriteFails => SparseInv'
<1> SUFFICES ASSUME SparseInv, WriteFails PROVE SparseInv'
  OBVIOUS
<1>1. lost' \in BOOLEAN
  BY DEF WriteFails, SparseInv, RestOK
<1>2. QED
  BY <1>1, QuietKeeps DEF WriteFails, cutting, GivenUp

LEMMA WriteAbortsKeeps == SparseInv /\ WriteAborts => SparseInv'
<1> SUFFICES ASSUME SparseInv, WriteAborts PROVE SparseInv'
  OBVIOUS
<1>1. lost' \in BOOLEAN /\ ret' \in {"none", "ok", "error"}
  BY DEF WriteAborts, written, SparseInv, RestOK
<1>2. QED
  BY <1>1, QuietKeeps DEF WriteAborts, written, cutting, GivenUp

LEMMA WriteRawKeeps == SparseInv /\ WriteRaw => SparseInv'
<1> SUFFICES ASSUME SparseInv, WriteRaw PROVE SparseInv'
  OBVIOUS
<1>1. /\ phase \in {"queue", "imported"} /\ phase' = "expanded" /\ ret' = "ok"
      /\ UNCHANGED <<s, added, wanted, file, asked, limit, tmp, rounds, count, parts>>
      /\ \E n \in 0..Len(s.list.cells) : lost' = (lost \/ n < Len(s.list.cells))
  BY DEF WriteRaw, cutting
<1>2. lost' \in BOOLEAN
  BY <1>1
<1>3. QED
  BY <1>1, <1>2, QuietKeeps DEF Phases

LEMMA WritePartsKeeps == SparseInv /\ WriteParts => SparseInv'
<1> SUFFICES ASSUME SparseInv, WriteParts PROVE SparseInv'
  OBVIOUS
<1>1. /\ phase = "parts" /\ phase' = "expanding"
      /\ UNCHANGED <<s, added, wanted, file, asked, ret, lost, limit, tmp, rounds, count, parts>>
  BY DEF WriteParts, written, cutting
<1>2. lost' \in BOOLEAN /\ ret' \in {"none", "ok", "error"}
  BY <1>1 DEF SparseInv, RestOK
<1>3. QED
  BY <1>1, <1>2, QuietKeeps DEF Phases

LEMMA ExpandNextKeeps == SparseInv /\ ExpandNext => SparseInv'
<1> SUFFICES ASSUME SparseInv, ExpandNext PROVE SparseInv'
  OBVIOUS
<1>1. /\ phase = "expanding" /\ phase' \in {"expanding", "expanded", "rejected"}
      /\ UNCHANGED <<s, added, wanted, file, asked, ret, lost, limit, tmp, rounds, count, parts>>
  <2>1. phase' \in {"expanded", phase, "rejected"}
    BY DEF ExpandNext
  <2>2. QED
    BY <2>1 DEF ExpandNext, written, cutting
<1>2. lost' \in BOOLEAN /\ ret' \in {"none", "ok", "error"}
  BY <1>1 DEF SparseInv, RestOK
<1>3. QED
  BY <1>1, <1>2, QuietKeeps DEF Phases, GivenUp

\* simg2img, simg2simg.
LEMMA ImportKeeps == SparseInv /\ Import => SparseInv'
<1> SUFFICES ASSUME SparseInv, Import PROVE SparseInv'
  OBVIOUS
<1>1. /\ phase = "written" /\ phase' = Outcome(file, FALSE)
      /\ UNCHANGED <<added, wanted, file, asked, ret, lost, limit, tmp, rounds, count, parts>>
  BY DEF Import, written, cutting
<1>2. phase' \in {"crashed", "rejected", "truncated", "imported"}
  BY <1>1, OutcomeIs
<1>3. /\ IsFile(file) /\ file.total \in Nat /\ file.total <= MaxBlocks /\ MaxBlocks \in Nat
      /\ MaxBlocks * BlockSize \in Nat
  BY SizesAssumption, SizeNat DEF SparseInv, FileOK, IsFile
<1>4. CookieOK'
  <2>1. CASE phase' = "imported"
    <3> DEFINE w == file.total * BlockSize
    <3>1. PICK l \in QueuedAll(CellsOf(file.chunks)) : s' = [len |-> w, list |-> l]
      BY <2>1 DEF Import
    <3>2. w \in Nat /\ w <= MaxBlocks * BlockSize
      BY <1>3, BlockSizeAssumption, Product, TimesMonotone
    <3> HIDE DEF w
    <3>3. IsList(l) /\ Within(l.cells, file.total)
      BY <1>1, <1>3, <2>1, ImportSound
    <3>4. Within(l.cells, MaxBlocks)
      BY <1>3, <3>3, WithinMore DEF IsList
    <3>5. QED
      BY <3>1, <3>2, <3>3, <3>4 DEF CookieOK, IsCookie
  <2>2. CASE phase' # "imported"
    <3>1. s' = s
      BY <2>2 DEF Import
    <3>2. QED
      BY <3>1 DEF SparseInv, CookieOK
  <2>3. QED
    BY <2>1, <2>2
<1>5. FileOK' /\ PartsOK'
  BY <1>1 DEF SparseInv, FileOK, PartsOK
<1>6. TmpOK'
  BY <1>1, <1>2, TmpStays
<1>7. RestOK'
  BY <1>1, <1>2 DEF SparseInv, RestOK, Phases, GivenUp
<1>8. QED
  BY <1>4, <1>5, <1>6, <1>7 DEF SparseInv

\* append2simg.
LEMMA Append2simgKeeps == SparseInv /\ Append2simg => SparseInv'
<1> SUFFICES ASSUME SparseInv, Append2simg PROVE SparseInv'
  OBVIOUS
<1>1. /\ phase = "written" /\ file.total <= ImageBlocks
      /\ UNCHANGED <<added, file, asked, ret, lost, limit, tmp, rounds, count, parts>>
  BY DEF Append2simg, written, cutting
<1>2. /\ IsFile(file) /\ file.total \in Nat /\ file.total <= MaxBlocks /\ MaxBlocks \in Nat
      /\ MaxBlocks * BlockSize \in Nat /\ BlockSize \in Nat \ {0} /\ Appendix \in Nat \ {0}
      /\ file.total + Appendix <= MaxBlocks
  <2>1. /\ IsFile(file) /\ file.total \in Nat /\ file.total <= MaxBlocks /\ MaxBlocks \in Nat
        /\ BlockSize \in Nat \ {0} /\ Appendix \in Nat \ {0}
        /\ ImageBlocks \in Nat /\ ImageBlocks + Appendix <= MaxBlocks
    BY SizesAssumption, BlockSizeAssumption DEF SparseInv, FileOK, IsFile
  <2>2. MaxBlocks * BlockSize \in Nat
    BY SizeNat
  <2> DEFINE y == MaxBlocks * BlockSize
  <2> HIDE DEF y
  <2>3. file.total + Appendix <= MaxBlocks
    BY <1>1, <2>1
  <2>4. QED
    BY <2>1, <2>2, <2>3
<1>3. CASE Outcome(file, TRUE) = "imported"
  <2> DEFINE len == Appendix * BlockSize
             input == [name |-> "input", at |-> 0, data |-> [i \in 1..len |-> 1]]
             bb == Cell("fd", input, 0, len, file.total)
             w == file.total * BlockSize + len
  <2>1. PICK l \in QueuedAll(CellsOf(file.chunks)) :
           /\ \E q \in Queued(l, bb) : s' = [len |-> w, list |-> q]
           /\ wanted' = Lay(wanted, bb)
           /\ phase' = "appended"
    BY <1>3 DEF Append2simg
  <2>2. PICK q \in Queued(l, bb) : s' = [len |-> w, list |-> q]
    BY <2>1
  <2>3. len \in Nat /\ DivUp(len) = Appendix /\ len \in Nat \ {0}
    <3>1. len \in Nat /\ DivUp(len) = Appendix
      BY <1>2, UpWhole
    <3>2. len # 0
      BY <1>2, <3>1, UpNat
    <3>3. QED
      BY <3>1, <3>2
  <2>4. w \in Nat /\ w <= MaxBlocks * BlockSize
    <3>1. (file.total + Appendix) * BlockSize = file.total * BlockSize + Appendix * BlockSize
      BY <1>2, SumTimes
    <3>2. (file.total + Appendix) * BlockSize <= MaxBlocks * BlockSize
      BY <1>2, TimesMonotone
    <3>3. (file.total + Appendix) * BlockSize \in Nat
      BY <1>2, Product
    <3>4. w = (file.total + Appendix) * BlockSize
      BY <3>1
    <3> HIDE DEF w
    <3>5. QED
      BY <3>2, <3>3, <3>4
  <2> HIDE DEF len, input, w
  <2>5. bb.len = len /\ bb.block = file.total /\ IsCell(bb)
    BY <1>2, <2>3 DEF Cell, IsCell, CellTypes
  <2> HIDE DEF bb
  <2>6. EndBlock(bb) = file.total + Appendix /\ EndBlock(bb) <= MaxBlocks
    BY <1>2, <2>3, <2>5 DEF EndBlock
  <2>7. IsList(l) /\ Within(l.cells, file.total)
    BY <1>2, <1>3, ImportSound
  <2>8. IsFree(l.cells, bb)
    BY <2>5, <2>7 DEF IsFree, Within
  <2>9. Within(l.cells, MaxBlocks)
    BY <1>2, <2>7, WithinMore DEF IsList
  <2>10. IsList(q) /\ Within(q.cells, MaxBlocks)
    <3>1. MaxBlocks <= MaxBlocks
      BY <1>2
    <3>2. QED
      BY <1>2, <2>5, <2>6, <2>7, <2>8, <2>9, <3>1, QueuedKeeps
  <2>11. CookieOK'
    BY <2>2, <2>4, <2>10 DEF CookieOK, IsCookie
  <2>12. DOMAIN wanted' = Words
    BY <2>1, <2>5, <2>6, LaidWithin DEF SparseInv, RestOK
  <2>13. FileOK' /\ PartsOK'
    BY <1>1 DEF SparseInv, FileOK, PartsOK
  <2>14. TmpOK'
    BY <1>1, <2>1, TmpStays
  <2>15. RestOK'
    BY <1>1, <2>1, <2>12 DEF SparseInv, RestOK, Phases
  <2>16. QED
    BY <2>11, <2>13, <2>14, <2>15 DEF SparseInv
<1>4. CASE Outcome(file, TRUE) # "imported"
  <2>1. phase' = "misread" /\ UNCHANGED <<s, wanted>>
    BY <1>4 DEF Append2simg
  <2>2. lost' \in BOOLEAN /\ ret' \in {"none", "ok", "error"}
    BY <1>1 DEF SparseInv, RestOK
  <2>3. QED
    BY <1>1, <2>1, <2>2, QuietKeeps DEF GivenUp
<1>5. QED
  BY <1>3, <1>4

\* simg2simg begins with the count.
LEMMA StartCuttingKeeps == SparseInv /\ StartCutting => SparseInv'
<1> SUFFICES ASSUME SparseInv, StartCutting PROVE SparseInv'
  OBVIOUS
<1>1. /\ phase = "imported" /\ phase' = "first" /\ limit' \in MaxLens
      /\ UNCHANGED <<s, added, wanted, file, asked, ret, lost, tmp, rounds, count, parts>>
  BY DEF StartCutting, written
<1>2. CookieOK' /\ FileOK' /\ PartsOK'
  BY <1>1 DEF SparseInv, CookieOK, FileOK, PartsOK
<1>3. TmpOK'
  <2>1. tmp = EmptyList
    BY <1>1 DEF SparseInv, TmpOK
  <2>2. Within(tmp.cells, 0) /\ From(s.list.cells, 0)
    BY <2>1, EmptyIsList, FromNought DEF SparseInv, CookieOK, IsCookie, IsList
  <2>3. 0 \in Nat
    OBVIOUS
  <2>4. Behind(tmp, s.list)
    BY <2>2, <2>3 DEF Behind
  <2>5. QED
    BY <1>1, <2>4 DEF SparseInv, TmpOK
<1>4. RestOK'
  BY <1>1 DEF SparseInv, RestOK, Phases
<1>5. QED
  BY <1>2, <1>3, <1>4 DEF SparseInv

\* At the end of a count the cookie gets everything back.
LEMMA BackKeeps ==
    ASSUME NEW kept, IsList(kept), Within(kept.cells, MaxBlocks),
           NEW left, IsList(left), Len(left.cells) = 0
    PROVE  /\ IsList(MovedTo(kept, Len(kept.cells), left))
           /\ Within(MovedTo(kept, Len(kept.cells), left).cells, MaxBlocks)
<1> DEFINE n == Len(kept.cells)
           run == SubSeq(kept.cells, 1, n)
<1>1. /\ MaxBlocks \in Nat /\ n \in 0..n /\ IsOrdered(kept.cells) /\ 0 <= MaxBlocks /\ 0 \in Nat
  <2>1. n \in Nat
    BY ListParts
  <2> HIDE DEF n
  <2>2. n \in 0..n
    BY <2>1
  <2>3. QED
    BY <2>2, SizesAssumption DEF IsList
<1>2. Within(run, MaxBlocks)
  BY <1>1, CutInOrder
<1>3. \A b : Within(left.cells, b)
  BY NoneThere
<1>4. From(kept.cells, 0)
  BY <1>1, FromNought
<1> HIDE DEF n, run
<1>5. n \in 0..Len(kept.cells) /\ Within(SubSeq(kept.cells, 1, n), MaxBlocks)
  BY <1>1, <1>2 DEF n, run
<1>6. /\ IsList(MovedTo(kept, n, left))
      /\ Within(MovedTo(kept, n, left).cells, MaxBlocks)
  BY <1>1, <1>3, <1>4, <1>5, MovedToKeeps
<1>7. QED
  BY <1>6 DEF n

\* What a round finds.
LEMMA RoundBegins ==
    ASSUME SparseInv, phase \in {"first", "second"}
    PROVE  /\ IsTaken(s.list.cells, Taken(s.list.cells, limit))
           /\ IsCookie(s) /\ IsList(tmp) /\ Within(tmp.cells, MaxBlocks) /\ MaxBlocks \in Nat
           /\ \E b \in Nat : Within(tmp.cells, b) /\ From(s.list.cells, b)
<1>1. limit \in MaxLens /\ Behind(tmp, s.list)
  BY DEF SparseInv, TmpOK
<1>2. IsOrdered(s.list.cells) /\ IsCookie(s)
  BY DEF SparseInv, CookieOK, IsCookie, IsList
<1>3. IsTaken(s.list.cells, Taken(s.list.cells, limit))
  BY <1>1, <1>2, TakenKeeps
<1>4. QED
  BY <1>1, <1>2, <1>3, SizesAssumption DEF SparseInv, TmpOK, Behind

-----------------------------------------------------------------------------
(* The rounds of simg2simg's loop. *)

\* The count.
LEMMA FirstRoundKeeps == SparseInv /\ FirstRound => SparseInv'
<1> SUFFICES ASSUME SparseInv, FirstRound PROVE SparseInv'
  OBVIOUS
<1> DEFINE t == Taken(s.list.cells, limit)
           from == [s.list EXCEPT !.cells = t.cells]
           left == MovedFrom(from, t.n)
           kept == MovedTo(from, t.n, tmp)
           back == MovedTo(kept, Len(kept.cells), left)
<1>1. /\ phase = "first"
      /\ UNCHANGED <<added, wanted, file, asked, ret, lost, limit, parts>>
      /\ \/ /\ t.more
            /\ s' = [s EXCEPT !.list = left] /\ tmp' = kept /\ rounds' = rounds + 1
            /\ phase' = phase /\ count' = count
         \/ /\ ~t.more
            /\ s' = [s EXCEPT !.list = back] /\ tmp' = EmptyList
            /\ count' = rounds + 1 /\ rounds' = 0 /\ phase' = "second"
  BY DEF FirstRound, written
<1>2. /\ IsTaken(s.list.cells, t)
      /\ IsCookie(s) /\ IsList(tmp) /\ Within(tmp.cells, MaxBlocks) /\ MaxBlocks \in Nat
      /\ \E b \in Nat : Within(tmp.cells, b) /\ From(s.list.cells, b)
  BY <1>1, RoundBegins
<1>3. PICK b \in Nat : Within(tmp.cells, b) /\ From(s.list.cells, b)
  BY <1>2
<1> HIDE DEF t
<1>4. /\ IsList(left) /\ Within(left.cells, MaxBlocks)
      /\ IsList(kept) /\ Within(kept.cells, MaxBlocks)
      /\ \E c \in Nat : b <= c /\ Within(kept.cells, c) /\ From(left.cells, c)
      /\ ~t.more => Len(left.cells) = 0
  <2>1. Moved(s.list, t, tmp, b, MaxBlocks)
    BY <1>2, <1>3, RoundKeeps DEF IsCookie
  <2>2. QED
    BY <2>1 DEF Moved
<1> HIDE DEF left, kept
<1>5. FileOK' /\ PartsOK'
  BY <1>1 DEF SparseInv, FileOK, PartsOK
<1>6. CASE t.more
  <2>1. /\ s' = [s EXCEPT !.list = left] /\ tmp' = kept /\ rounds' = rounds + 1
        /\ phase' = phase /\ count' = count
    BY <1>1, <1>6
  <2>2. s' = [len |-> s.len, list |-> left]
    BY <1>2, <2>1 DEF IsCookie
  <2>3. CookieOK'
    BY <1>2, <1>4, <2>2 DEF CookieOK, IsCookie
  <2>4. TmpOK'
    <3>1. Behind(tmp', s'.list)
      BY <1>4, <2>1, <2>2 DEF Behind
    <3>2. limit' \in MaxLens
      BY <1>1 DEF SparseInv, TmpOK
    <3>3. QED
      BY <1>1, <1>4, <2>1, <3>1, <3>2 DEF TmpOK
  <2>5. RestOK'
    BY <1>1, <2>1 DEF SparseInv, RestOK
  <2>6. QED
    BY <1>5, <2>3, <2>4, <2>5 DEF SparseInv
<1>7. CASE ~t.more
  <2>1. /\ s' = [s EXCEPT !.list = back] /\ tmp' = EmptyList
        /\ count' = rounds + 1 /\ rounds' = 0 /\ phase' = "second"
    BY <1>1, <1>7
  <2>2. IsList(back) /\ Within(back.cells, MaxBlocks)
    BY <1>4, <1>7, BackKeeps
  <2> HIDE DEF back
  <2>3. s' = [len |-> s.len, list |-> back]
    BY <1>2, <2>1 DEF IsCookie
  <2>4. CookieOK'
    BY <1>2, <2>2, <2>3 DEF CookieOK, IsCookie
  <2>5. TmpOK'
    <3>1. Within(EmptyList.cells, 0) /\ From(back.cells, 0)
      BY <2>2, EmptyIsList, FromNought DEF IsList
    <3>2. 0 \in Nat /\ s'.list = back
      BY <2>3
    <3>3. Behind(tmp', s'.list)
      BY <2>1, <3>1, <3>2 DEF Behind
    <3>4. limit' \in MaxLens
      BY <1>1 DEF SparseInv, TmpOK
    <3>5. QED
      BY <2>1, <3>3, <3>4, EmptyIsList DEF TmpOK
  <2>6. RestOK'
    BY <1>1, <2>1 DEF SparseInv, RestOK, Phases
  <2>7. QED
    BY <1>5, <2>4, <2>5, <2>6 DEF SparseInv
<1>8. QED
  BY <1>6, <1>7

\* One more at the end.
LEMMA Appended ==
    ASSUME NEW q, IsSeq(q), NEW e
    PROVE  /\ IsSeq(Append(q, e)) /\ Len(Append(q, e)) = Len(q) + 1
           /\ Append(q, e)[Len(q) + 1] = e
           /\ \A i \in 1..Len(q) : Append(q, e)[i] = q[i]
<1> DEFINE T == { q[i] : i \in 1..Len(q) } \cup {e}
<1>1. q \in Seq(T)
  BY IsIn
<1>2. e \in T /\ Len(q) \in Nat
  BY DEF IsSeq
<1> HIDE DEF T
<1>3. Append(q, e) \in Seq(T)
  BY <1>1, <1>2
<1>4. IsSeq(Append(q, e))
  BY <1>3, SeqIs
<1>5. QED
  BY <1>1, <1>2, <1>4

\* The parts.
LEMMA SecondRoundKeeps == SparseInv /\ SecondRound => SparseInv'
<1> SUFFICES ASSUME SparseInv, SecondRound PROVE SparseInv'
  OBVIOUS
<1> DEFINE t == Taken(s.list.cells, limit)
           from == [s.list EXCEPT !.cells = t.cells]
           left == MovedFrom(from, t.n)
           moved == MovedTo(from, t.n, tmp)
           own == MovedTo(from, t.n, EmptyList)
           fits == rounds < count
           kept == IF fits THEN tmp ELSE moved
           back == MovedTo(kept, Len(kept.cells), left)
           part == [len |-> s.len, list |-> own]
<1>1. /\ phase = "second"
      /\ UNCHANGED <<added, wanted, file, asked, ret, lost, limit, count>>
      /\ parts' = IF fits THEN Append(parts, part) ELSE parts
      /\ rounds' = rounds + 1
      /\ \/ /\ t.more
            /\ s' = [s EXCEPT !.list = left] /\ tmp' = kept /\ phase' = phase
         \/ /\ ~t.more
            /\ s' = [s EXCEPT !.list = back] /\ tmp' = EmptyList /\ phase' = "parts"
  BY DEF SecondRound, written
<1>2. /\ IsTaken(s.list.cells, t)
      /\ IsCookie(s) /\ IsList(tmp) /\ Within(tmp.cells, MaxBlocks) /\ MaxBlocks \in Nat
      /\ \E b \in Nat : Within(tmp.cells, b) /\ From(s.list.cells, b)
  BY <1>1, RoundBegins
<1>3. PICK b \in Nat : Within(tmp.cells, b) /\ From(s.list.cells, b)
  BY <1>2
<1> HIDE DEF t
<1>4. /\ IsList(left) /\ Within(left.cells, MaxBlocks)
      /\ IsList(moved) /\ Within(moved.cells, MaxBlocks)
      /\ \E c \in Nat : b <= c /\ Within(moved.cells, c) /\ From(left.cells, c)
      /\ ~t.more => Len(left.cells) = 0
  <2>1. Moved(s.list, t, tmp, b, MaxBlocks)
    BY <1>2, <1>3, RoundKeeps DEF IsCookie
  <2>2. QED
    BY <2>1 DEF Moved
<1>5. IsList(own)
  <2>1. /\ IsList(EmptyList) /\ Within(EmptyList.cells, b)
        /\ Within(EmptyList.cells, MaxBlocks)
    BY EmptyIsList
  <2>2. Moved(s.list, t, EmptyList, b, MaxBlocks)
    BY <1>2, <1>3, <2>1, RoundKeeps DEF IsCookie
  <2>3. QED
    BY <2>2 DEF Moved
<1> HIDE DEF left, moved, own
<1>6. /\ IsList(kept) /\ Within(kept.cells, MaxBlocks)
      /\ \E c \in Nat : Within(kept.cells, c) /\ From(left.cells, c)
  <2>1. CASE fits
    <3>1. kept = tmp
      BY <2>1
    <3>2. From(left.cells, b)
      BY <1>4, FromLess DEF IsList
    <3>3. QED
      BY <1>2, <1>3, <3>1, <3>2
  <2>2. CASE ~fits
    <3>1. kept = moved
      BY <2>2
    <3>2. QED
      BY <1>4, <3>1
  <2>3. QED
    BY <2>1, <2>2
<1> HIDE DEF kept
<1>7. PartsOK'
  <2>1. PartsOK
    BY DEF SparseInv
  <2>2. CASE fits
    <3>1. parts' = Append(parts, part) /\ part.list = own
      BY <1>1, <2>2
    <3> HIDE DEF part
    <3>2. IsSeq(parts) /\ Len(parts) \in Nat
      BY <2>1 DEF PartsOK, IsSeq
    <3>3. /\ IsSeq(parts') /\ Len(parts') = Len(parts) + 1
          /\ parts'[Len(parts) + 1] = part
          /\ \A i \in 1..Len(parts) : parts'[i] = parts[i]
      BY <3>1, <3>2, Appended
    <3>4. ASSUME NEW i \in 1..Len(parts') PROVE IsList(parts'[i].list)
      <4>1. CASE i = Len(parts) + 1
        BY <1>5, <3>1, <3>3, <4>1
      <4>2. CASE i # Len(parts) + 1
        <5>1. i \in 1..Len(parts)
          BY <3>2, <3>3, <4>2
        <5>2. QED
          BY <2>1, <3>3, <5>1 DEF PartsOK
      <4>3. QED
        BY <4>1, <4>2
    <3>5. QED
      BY <3>3, <3>4 DEF PartsOK
  <2>3. CASE ~fits
    BY <1>1, <2>1, <2>3 DEF PartsOK
  <2>4. QED
    BY <2>2, <2>3
<1> HIDE DEF fits, part
<1>8. FileOK'
  BY <1>1 DEF SparseInv, FileOK
<1>9. CASE t.more
  <2>1. s' = [s EXCEPT !.list = left] /\ tmp' = kept /\ phase' = phase
    BY <1>1, <1>9
  <2>2. s' = [len |-> s.len, list |-> left]
    BY <1>2, <2>1 DEF IsCookie
  <2>3. CookieOK'
    BY <1>2, <1>4, <2>2 DEF CookieOK, IsCookie
  <2>4. TmpOK'
    <3>1. Behind(tmp', s'.list)
      BY <1>6, <2>1, <2>2 DEF Behind
    <3>2. limit' \in MaxLens
      BY <1>1 DEF SparseInv, TmpOK
    <3>3. QED
      BY <1>1, <1>6, <2>1, <3>1, <3>2 DEF TmpOK
  <2>5. RestOK'
    BY <1>1, <2>1 DEF SparseInv, RestOK
  <2>6. QED
    BY <1>7, <1>8, <2>3, <2>4, <2>5 DEF SparseInv
<1>10. CASE ~t.more
  <2>1. s' = [s EXCEPT !.list = back] /\ tmp' = EmptyList /\ phase' = "parts"
    BY <1>1, <1>10
  <2>2. IsList(back) /\ Within(back.cells, MaxBlocks)
    BY <1>4, <1>6, <1>10, BackKeeps
  <2> HIDE DEF back
  <2>3. s' = [len |-> s.len, list |-> back]
    BY <1>2, <2>1 DEF IsCookie
  <2>4. CookieOK'
    BY <1>2, <2>2, <2>3 DEF CookieOK, IsCookie
  <2>5. TmpOK'
    BY <2>1, EmptyIsList DEF TmpOK
  <2>6. RestOK'
    BY <1>1, <2>1 DEF SparseInv, RestOK, Phases
  <2>7. QED
    BY <1>7, <1>8, <2>4, <2>5, <2>6 DEF SparseInv
<1>11. QED
  BY <1>9, <1>10

LEMMA StandsStill == SparseInv /\ UNCHANGED vars => SparseInv'
BY DEF vars, written, cutting, SparseInv, CookieOK, FileOK, TmpOK, PartsOK, RestOK

\* Every call keeps the invariant.
LEMMA SparseInductive == Spec => []SparseInv
<1>1. Init => SparseInv
  BY Begins
<1>2. SparseInv /\ [Next]_vars => SparseInv'
  <2> SUFFICES ASSUME SparseInv, [Next]_vars PROVE SparseInv'
    OBVIOUS
  <2>1. CASE AddFill
    BY <2>1, AddFillKeeps
  <2>2. CASE AddData
    BY <2>2, AddFromKeeps DEF AddData, CellTypes
  <2>3. CASE AddFd
    BY <2>3, AddFromKeeps DEF AddFd, CellTypes
  <2>4. CASE AddFile
    BY <2>4, AddFromKeeps DEF AddFile, CellTypes
  <2>5. CASE ReadRaw
    BY <2>5, ReadRawKeeps
  <2>6. CASE Write
    BY <2>6, WriteKeeps
  <2>7. CASE WriteFails
    BY <2>7, WriteFailsKeeps
  <2>8. CASE WriteAborts
    BY <2>8, WriteAbortsKeeps
  <2>9. CASE WriteRaw
    BY <2>9, WriteRawKeeps
  <2>10. CASE Import
    BY <2>10, ImportKeeps
  <2>11. CASE Append2simg
    BY <2>11, Append2simgKeeps
  <2>12. CASE StartCutting
    BY <2>12, StartCuttingKeeps
  <2>13. CASE FirstRound
    BY <2>13, FirstRoundKeeps
  <2>14. CASE SecondRound
    BY <2>14, SecondRoundKeeps
  <2>15. CASE WriteParts
    BY <2>15, WritePartsKeeps
  <2>16. CASE ExpandNext
    BY <2>16, ExpandNextKeeps
  <2>17. CASE UNCHANGED vars
    BY <2>17, StandsStill
  <2>18. QED
    BY <2>1, <2>2, <2>3, <2>4, <2>5, <2>6, <2>7, <2>8, <2>9, <2>10, <2>11, <2>12,
       <2>13, <2>14, <2>15, <2>16, <2>17 DEF Next
<1>3. QED
  BY <1>1, <1>2, PTL DEF Spec

\* Whatever is queued, merged, written, imported, appended to and cut, every
\* list of a cookie is in order, without overlaps, and its last_used hint
\* leads into it (backed_block.c:260-330).
THEOREM SparseListsSound == Spec => []ListsSound
<1>1. SparseInv => ListsSound
  BY InvIsSound
<1>2. QED
  BY <1>1, SparseInductive, PTL
-----------------------------------------------------------------------------
(* Sums. *)

\* The sum of the first n numbers.
Upto(w, n) == (CHOOSE S : Sums(w, n, S))[n]

LEMMA UptoIs ==
    ASSUME NEW n \in Nat, NEW w, \A i \in 1..n : w[i] \in Nat
    PROVE  \E S : Sums(w, n, S) /\ \A m \in 0..n : Upto(w, m) = S[m]
<1>1. PICK S : Sums(w, n, S)
  BY SumsExist
<1>2. S \in [0..n -> Nat] /\ S[0] = 0 /\ \A k \in 1..n : S[k] = S[k - 1] + w[k]
  BY <1>1 DEF Sums
<1>3. ASSUME NEW m \in 0..n PROVE Upto(w, m) = S[m]
  <2>1. m \in Nat /\ m <= n /\ \A i \in 1..m : w[i] \in Nat
    OBVIOUS
  <2> DEFINE R == CHOOSE R : Sums(w, m, R)
  <2>2. Sums(w, m, R)
    <3>1. \E Q : Sums(w, m, Q)
      BY <2>1, SumsExist
    <3>2. QED
      BY <3>1, Zenon
  <2>3. Upto(w, m) = R[m]
    BY DEF Upto
  <2> HIDE DEF R
  <2>4. R \in [0..m -> Nat] /\ R[0] = 0 /\ \A k \in 1..m : R[k] = R[k - 1] + w[k]
    BY <2>2 DEF Sums
  <2> DEFINE T == { k \in Nat : k <= m => R[k] = S[k] }
  <2>5. 0 \in T
    BY <1>2, <2>4
  <2>6. ASSUME NEW k \in Nat, k \in T PROVE k + 1 \in T
    <3>1. SUFFICES ASSUME k + 1 <= m PROVE R[k + 1] = S[k + 1]
      OBVIOUS
    <3>2. R[k] = S[k]
      BY <2>1, <2>6, <3>1
    <3>3. k + 1 \in 1..m /\ k + 1 \in 1..n /\ (k + 1) - 1 = k
      BY <2>1, <3>1
    <3>4. R[k + 1] = R[k] + w[k + 1] /\ S[k + 1] = S[k] + w[k + 1]
      <4>1. R[k + 1] = R[(k + 1) - 1] + w[k + 1]
        BY <2>4, <3>3
      <4>2. S[k + 1] = S[(k + 1) - 1] + w[k + 1]
        BY <1>2, <3>3
      <4>3. QED
        BY <3>3, <4>1, <4>2
    <3>5. QED
      BY <3>2, <3>4
  <2>7. m \in T
    <3> HIDE DEF T
    <3>1. Nat \subseteq T
      BY <2>5, <2>6, FromZero
    <3>2. QED
      BY <2>1, <3>1
  <2>8. R[m] = S[m]
    BY <2>1, <2>7
  <2>9. QED
    BY <2>3, <2>8
<1>4. QED
  BY <1>1, <1>3

\* One number more; only the numbers count.
LEMMA UptoSteps ==
    ASSUME NEW n \in Nat, NEW w, \A i \in 1..n : w[i] \in Nat
    PROVE  /\ Upto(w, 0) = 0
           /\ \A m \in 0..n : Upto(w, m) \in Nat
           /\ \A m \in 1..n : Upto(w, m) = Upto(w, m - 1) + w[m]
<1>1. PICK S : Sums(w, n, S) /\ \A m \in 0..n : Upto(w, m) = S[m]
  BY UptoIs
<1>2. S \in [0..n -> Nat] /\ S[0] = 0 /\ \A k \in 1..n : S[k] = S[k - 1] + w[k]
  BY <1>1 DEF Sums
<1>3. \A m \in 1..n : m \in 0..n /\ m - 1 \in 0..n
  OBVIOUS
<1>4. 0 \in 0..n
  OBVIOUS
<1>5. QED
  BY <1>1, <1>2, <1>3, <1>4

\* The sum of the first numbers depends on these alone.
LEMMA UptoSame ==
    ASSUME NEW n \in Nat, NEW w, \A i \in 1..n : w[i] \in Nat,
           NEW v, \A i \in 1..n : v[i] = w[i]
    PROVE  \A m \in 0..n : Upto(v, m) = Upto(w, m)
<1>1. /\ Upto(w, 0) = 0 /\ \A m \in 1..n : Upto(w, m) = Upto(w, m - 1) + w[m]
  BY UptoSteps
<1>2. \A i \in 1..n : v[i] \in Nat
  OBVIOUS
<1>3. /\ Upto(v, 0) = 0 /\ \A m \in 1..n : Upto(v, m) = Upto(v, m - 1) + v[m]
  BY <1>2, UptoSteps
<1> DEFINE T == { k \in Nat : k <= n => Upto(v, k) = Upto(w, k) }
<1>4. 0 \in T
  BY <1>1, <1>3
<1>5. ASSUME NEW k \in Nat, k \in T PROVE k + 1 \in T
  <2>1. SUFFICES ASSUME k + 1 <= n PROVE Upto(v, k + 1) = Upto(w, k + 1)
    OBVIOUS
  <2>2. k + 1 \in 1..n /\ (k + 1) - 1 = k /\ Upto(v, k) = Upto(w, k)
    BY <1>5, <2>1
  <2>3. Upto(w, k + 1) = Upto(w, (k + 1) - 1) + w[k + 1]
    BY <1>1, <2>2
  <2>4. Upto(v, k + 1) = Upto(v, (k + 1) - 1) + v[k + 1]
    BY <1>3, <2>2
  <2>5. v[k + 1] = w[k + 1]
    BY <2>2
  <2>6. QED
    BY <2>2, <2>3, <2>4, <2>5
<1>6. Nat \subseteq T
  <2> HIDE DEF T
  <2>1. QED
    BY <1>4, <1>5, FromZero
<1>7. QED
  BY <1>6

\* From some place on.
AreNats(w, n) == \A i \in 1..n : w[i] \in Nat
IsFrom(v, w, b, d) == \A i \in 1..d : v[i] = w[b + i]

\* A sum is the sum up to some place and the sum from there on.
LEMMA UptoFrom ==
    ASSUME NEW b \in Nat, NEW d \in Nat, NEW w, AreNats(w, b + d), NEW v, IsFrom(v, w, b, d)
    PROVE  \A m \in 0..d : Upto(w, b + m) = Upto(w, b) + Upto(v, m)
<1> DEFINE n == b + d
<1>1. n \in Nat /\ b \in 0..n /\ (\A i \in 1..n : w[i] \in Nat)
      /\ \A i \in 1..d : v[i] = w[b + i] /\ b + i \in 1..n
  BY DEF AreNats, IsFrom
<1> HIDE DEF n
<1>2. /\ Upto(w, b) \in Nat /\ \A m \in 1..n : Upto(w, m) = Upto(w, m - 1) + w[m]
  BY <1>1, UptoSteps
<1>3. \A i \in 1..d : v[i] \in Nat
  BY <1>1
<1>4. /\ Upto(v, 0) = 0 /\ (\A m \in 0..d : Upto(v, m) \in Nat)
      /\ \A m \in 1..d : Upto(v, m) = Upto(v, m - 1) + v[m]
  BY <1>3, UptoSteps
<1> DEFINE T == { k \in Nat : k <= d => Upto(w, b + k) = Upto(w, b) + Upto(v, k) }
<1>5. 0 \in T
  BY <1>2, <1>4
<1>6. ASSUME NEW k \in Nat, k \in T PROVE k + 1 \in T
  <2>1. SUFFICES ASSUME k + 1 <= d PROVE Upto(w, b + (k + 1)) = Upto(w, b) + Upto(v, k + 1)
    OBVIOUS
  <2>2. k + 1 \in 1..d /\ (k + 1) - 1 = k /\ Upto(w, b + k) = Upto(w, b) + Upto(v, k)
        /\ k \in 0..d
    BY <1>1, <1>6, <2>1
  <2>3. b + (k + 1) \in 1..n /\ (b + (k + 1)) - 1 = b + k
    BY <1>1, <2>2
  <2>4. Upto(w, b + (k + 1)) = Upto(w, (b + (k + 1)) - 1) + w[b + (k + 1)]
    BY <1>2, <2>3
  <2>5. Upto(v, k + 1) = Upto(v, (k + 1) - 1) + v[k + 1]
    BY <1>4, <2>2
  <2>6. v[k + 1] = w[b + (k + 1)] /\ v[k + 1] \in Nat /\ Upto(v, k) \in Nat
    BY <1>1, <1>3, <1>4, <2>2
  <2>7. QED
    BY <1>2, <2>2, <2>3, <2>4, <2>5, <2>6
<1>7. Nat \subseteq T
  <2> HIDE DEF T
  <2>1. QED
    BY <1>5, <1>6, FromZero
<1>8. QED
  BY <1>7

\* Sums only grow.
LEMMA UptoGrows ==
    ASSUME NEW b \in Nat, NEW d \in Nat, NEW w, AreNats(w, b + d)
    PROVE  Upto(w, b) <= Upto(w, b + d)
<1> DEFINE u == [i \in 1..d |-> w[b + i]]
<1>1. IsFrom(u, w, b, d)
  BY DEF IsFrom
<1>2. \A i \in 1..d : b + i \in 1..(b + d)
  OBVIOUS
<1>3. \A i \in 1..d : u[i] \in Nat
  BY <1>2 DEF AreNats
<1> HIDE DEF u
<1>4. \A m \in 0..d : Upto(w, b + m) = Upto(w, b) + Upto(u, m)
  BY <1>1, UptoFrom
<1>5. d \in 0..d /\ b \in 0..(b + d) /\ b + d \in Nat
  OBVIOUS
<1>6. Upto(w, b + d) = Upto(w, b) + Upto(u, d)
  BY <1>4, <1>5
<1>7. Upto(u, d) \in Nat
  BY <1>3, <1>5, UptoSteps
<1>8. Upto(w, b) \in Nat
  BY <1>5, UptoSteps DEF AreNats
<1>9. QED
  BY <1>6, <1>7, <1>8

\* The folds of the model are such sums.
LEMMA CurBlockUpto ==
    ASSUME NEW chunks, IsSeq(chunks), \A i \in 1..Len(chunks) : chunks[i].blocks \in Nat
    PROVE  \A m \in 0..Len(chunks) : CurBlock(chunks, m + 1) = Upto(BlocksOf(chunks), m)
<1> DEFINE n == Len(chunks)
           w == BlocksOf(chunks)
<1>1. n \in Nat /\ \A i \in 1..n : w[i] \in Nat
  BY DEF IsSeq, BlocksOf
<1> HIDE DEF n, w
<1>2. PICK S : Sums(w, n, S) /\ \A m \in 0..n : Upto(w, m) = S[m]
  BY <1>1, UptoIs
<1>3. \A m \in 0..n : CurBlock(chunks, m + 1) = S[m]
  BY <1>2, CurBlockIs DEF n, w
<1>4. QED
  BY <1>2, <1>3 DEF n, w

\* Costs are natural numbers.
LEMMA CostsNat ==
    ASSUME NEW cells, IsCells(cells)
    PROVE  /\ Len(cells) \in Nat /\ \A i \in 1..Len(cells) : CostsOf(cells)[i] \in Nat
           /\ \A i \in 1..Len(cells) : CostsOf(cells)[i] = CellCost(cells[i])
BY CostNat DEF IsCells, IsSeq, CostsOf

\* The fold of move_chunks_up_to_len() is the sum of what cells cost.
LEMMA UsedUpto ==
    ASSUME NEW cells, IsCells(cells)
    PROVE  \A m \in 0..Len(cells) : Used(cells, m) = Upto(CostsOf(cells), m)
<1> DEFINE n == Len(cells)
           w == CostsOf(cells)
<1>1. n \in Nat /\ IsSeq(cells)
      /\ \A i \in 1..n : w[i] \in Nat /\ CellCost(cells[i]) \in Nat
  BY CostsNat DEF IsCells
<1> HIDE DEF n, w
<1>2. PICK S : Sums(w, n, S) /\ \A m \in 0..n : Upto(w, m) = S[m]
  BY <1>1, UptoIs
<1>3. \A m \in 0..n : Used(cells, m) = S[m]
  BY <1>1, <1>2, UsedIs DEF n, w
<1>4. QED
  BY <1>2, <1>3 DEF n, w

-----------------------------------------------------------------------------
(* Where the chunks of a list are in the file. *)

\* Where what lies in front of a cell ends, and whether there is a gap.
EndOf(cells, k) == IF k = 0 THEN 0 ELSE EndBlock(cells[k])
IsGap(cells, k) == cells[k].block > EndOf(cells, k - 1)
GapOf(cells, k) == cells[k].block - EndOf(cells, k - 1)
Pad(c) == c.len - EndOf(c.list.cells, Len(c.list.cells)) * BlockSize
IsPad(c) == Pad(c) > 0 /\ Pad(c) % BlockSize = 0

\* A cell takes one chunk, or two.
Widths(cells) == [k \in 1..Len(cells) |-> IF IsGap(cells, k) THEN 2 ELSE 1]
Place(cells, k) == Upto(Widths(cells), k)

\* The first k cells as chunks.
Laid(q, cells, k) ==
    /\ IsSeq(q) /\ Len(q) = Place(cells, k)
    /\ \A j \in 1..k : /\ q[Place(cells, j)] = ChunkOf(cells[j])
                       /\ IsGap(cells, j) =>
                             q[Place(cells, j) - 1] = Skip(GapOf(cells, j))

\* Where in the file the chunk of a cell stands.
LEMMA Places ==
    ASSUME NEW cells, IsCells(cells)
    PROVE  /\ Place(cells, 0) = 0
           /\ \A k \in 0..Len(cells) : Place(cells, k) \in Nat
           /\ \A k \in 1..Len(cells) :
                 /\ k - 1 \in 0..Len(cells)
                 /\ IsGap(cells, k) => Place(cells, k) = Place(cells, k - 1) + 2
                 /\ ~IsGap(cells, k) => Place(cells, k) = Place(cells, k - 1) + 1
           /\ \A k \in 0..Len(cells) : \A j \in 0..k : Place(cells, j) <= Place(cells, k)
<1> DEFINE n == Len(cells)
           w == Widths(cells)
<1>1. n \in Nat /\ \A k \in 1..n : /\ w[k] \in Nat
                                   /\ IsGap(cells, k) => w[k] = 2
                                   /\ ~IsGap(cells, k) => w[k] = 1
  BY DEF IsCells, IsSeq, Widths
<1> HIDE DEF n, w
<1>2. /\ Upto(w, 0) = 0 /\ (\A m \in 0..n : Upto(w, m) \in Nat)
      /\ \A m \in 1..n : Upto(w, m) = Upto(w, m - 1) + w[m]
  BY <1>1, UptoSteps
<1>3. \A k \in 0..n : \A j \in 0..k : Upto(w, j) <= Upto(w, k)
  <2> TAKE k \in 0..n
  <2> TAKE j \in 0..k
  <2>1. j \in Nat /\ k - j \in Nat /\ j + (k - j) = k /\ k <= n /\ k \in Nat
    BY <1>1
  <2> DEFINE d == k - j
  <2>2. d \in Nat /\ j + d = k
    BY <2>1
  <2> HIDE DEF d
  <2>3. AreNats(w, j + d)
    BY <1>1, <2>1, <2>2 DEF AreNats
  <2>4. Upto(w, j) <= Upto(w, j + d)
    BY <2>1, <2>2, <2>3, UptoGrows
  <2>5. QED
    BY <2>2, <2>4
<1>4. \A k \in 1..n : k - 1 \in 0..n /\ Upto(w, k - 1) \in Nat
  BY <1>1, <1>2
<1>5. QED
  BY <1>1, <1>2, <1>3, <1>4 DEF Place, n, w

\* A list of cells ends at a block.
LEMMA EndOfNat ==
    ASSUME NEW cells, IsCells(cells)
    PROVE  /\ \A k \in 0..Len(cells) : EndOf(cells, k) \in Nat
           /\ \A k \in 1..Len(cells) : /\ EndOf(cells, k) = EndBlock(cells[k])
                                       /\ cells[k].block \in Nat
                                       /\ IsGap(cells, k) => GapOf(cells, k) \in Nat \ {0}
<1>1. Len(cells) \in Nat /\ \A k \in 1..Len(cells) : IsCell(cells[k])
  BY DEF IsCells, IsSeq
<1>2. \A k \in 0..Len(cells) : EndOf(cells, k) \in Nat
  BY <1>1, EndNat DEF EndOf
<1>3. ASSUME NEW k \in 1..Len(cells)
      PROVE  /\ EndOf(cells, k) = EndBlock(cells[k]) /\ cells[k].block \in Nat
             /\ IsGap(cells, k) => GapOf(cells, k) \in Nat \ {0}
  <2>1. k # 0 /\ k - 1 \in 0..Len(cells)
    BY <1>1
  <2>2. EndOf(cells, k) = EndBlock(cells[k]) /\ cells[k].block \in Nat
    BY <1>1, <2>1 DEF EndOf, IsCell
  <2>3. EndOf(cells, k - 1) \in Nat
    BY <1>2, <2>1
  <2>4. QED
    BY <2>2, <2>3 DEF IsGap, GapOf
<1>4. QED
  BY <1>2, <1>3

\* A chunk more, or two.
LEMMA LaidMore ==
    ASSUME NEW cells, IsCells(cells), NEW k \in 1..Len(cells),
           NEW q, Laid(q, cells, k - 1)
    PROVE  Laid(q \o (IF IsGap(cells, k) THEN <<Skip(GapOf(cells, k))>> ELSE << >>)
                  \o <<ChunkOf(cells[k])>>, cells, k)
<1> DEFINE g == IF IsGap(cells, k) THEN <<Skip(GapOf(cells, k))>> ELSE << >>
           o == <<ChunkOf(cells[k])>>
           p == q \o g
           r == p \o o
           x == Place(cells, k - 1)
           y == Place(cells, k)
<1>1. /\ k \in Nat \ {0} /\ k - 1 \in Nat /\ x \in Nat /\ y \in Nat
      /\ IsGap(cells, k) => y = x + 2
      /\ ~IsGap(cells, k) => y = x + 1
      /\ \A j \in 1..k : Place(cells, j) \in Nat
      /\ \A j \in 1..(k - 1) : /\ Place(cells, j) <= x /\ Place(cells, j) >= 1
                               /\ IsGap(cells, j) => Place(cells, j) >= 2
  <2>1. Len(cells) \in Nat
    BY DEF IsCells, IsSeq
  <2>2. k \in Nat \ {0} /\ k - 1 \in Nat /\ k - 1 \in 0..Len(cells) /\ k \in 0..Len(cells)
    BY <2>1
  <2>3. x \in Nat /\ y \in Nat
        /\ (IsGap(cells, k) => y = x + 2) /\ (~IsGap(cells, k) => y = x + 1)
        /\ \A j \in 1..k : Place(cells, j) \in Nat
    BY <2>2, Places
  <2>4. ASSUME NEW j \in 1..(k - 1)
        PROVE  /\ Place(cells, j) <= x /\ Place(cells, j) >= 1
               /\ IsGap(cells, j) => Place(cells, j) >= 2
    <3>1. j \in 1..Len(cells) /\ j \in 0..(k - 1) /\ j \in 0..Len(cells)
      BY <2>1
    <3>2. j - 1 \in 0..Len(cells)
      BY <2>1
    <3>3. Place(cells, j) <= x /\ Place(cells, j - 1) \in Nat
      BY <2>2, <3>1, <3>2, Places
    <3>4. /\ IsGap(cells, j) => Place(cells, j) = Place(cells, j - 1) + 2
          /\ ~IsGap(cells, j) => Place(cells, j) = Place(cells, j - 1) + 1
      BY <3>1, Places
    <3> DEFINE u == Place(cells, j)
               z == Place(cells, j - 1)
    <3>5. u <= x /\ z \in Nat /\ (IsGap(cells, j) => u = z + 2) /\ (~IsGap(cells, j) => u = z + 1)
      BY <3>3, <3>4
    <3> HIDE DEF u, z
    <3>6. u <= x /\ u >= 1 /\ (IsGap(cells, j) => u >= 2)
      BY <3>5
    <3>7. QED
      BY <3>6 DEF u
  <2>5. QED
    BY <2>2, <2>3, <2>4
<1>2. IsSeq(q) /\ Len(q) = x
  BY DEF Laid
<1>3. IsSeq(o) /\ Len(o) = 1 /\ o[1] = ChunkOf(cells[k])
  BY Single
<1>4. /\ IsSeq(g)
      /\ IsGap(cells, k) => Len(g) = 1 /\ g[1] = Skip(GapOf(cells, k))
      /\ ~IsGap(cells, k) => Len(g) = 0
  <2>1. CASE IsGap(cells, k)
    <3>1. g = <<Skip(GapOf(cells, k))>>
      BY <2>1
    <3>2. QED
      BY <2>1, <3>1, Single
  <2>2. CASE ~IsGap(cells, k)
    <3>1. g = << >>
      BY <2>2
    <3>2. QED
      BY <2>2, <3>1, Empty
  <2>3. QED
    BY <2>1, <2>2
<1> HIDE DEF g, o, x, y
<1>5. /\ IsSeq(p) /\ Len(p) = x + Len(g) /\ (\A i \in 1..x : p[i] = q[i])
      /\ \A i \in 1..Len(g) : p[x + i] = g[i]
  <2>1. AreJoined(q, g, p)
    BY <1>2, <1>4, JoinedAs, Zenon
  <2> HIDE DEF p
  <2>2. QED
    BY <1>2, <2>1 DEF AreJoined
<1> HIDE DEF p
<1>6. /\ IsSeq(r) /\ Len(r) = Len(p) + 1 /\ (\A i \in 1..Len(p) : r[i] = p[i])
      /\ r[Len(p) + 1] = o[1]
  <2>1. /\ IsSeq(r) /\ Len(r) = Len(p) + Len(o) /\ (\A i \in 1..Len(p) : r[i] = p[i])
        /\ \A i \in 1..Len(o) : r[Len(p) + i] = o[i]
    <3>1. AreJoined(p, o, r)
      BY <1>3, <1>5, JoinedAs, Zenon
    <3> HIDE DEF r
    <3>2. QED
      BY <3>1 DEF AreJoined
  <2>2. 1 \in 1..Len(o)
    BY <1>3
  <2>3. QED
    BY <1>3, <2>1, <2>2
<1> HIDE DEF r
<1>7. /\ Len(g) \in Nat /\ Len(p) \in Nat /\ Len(p) + 1 = y /\ Len(r) = y /\ x <= Len(p)
      /\ IsGap(cells, k) => Len(p) = x + 1
  <2>0. x \in Nat /\ y \in Nat /\ Len(p) = x + Len(g) /\ Len(r) = Len(p) + 1
    BY <1>1, <1>5, <1>6
  <2>1. CASE IsGap(cells, k)
    <3>1. Len(g) = 1 /\ y = x + 2
      BY <1>1, <1>4, <2>1
    <3>2. QED
      BY <2>0, <3>1
  <2>2. CASE ~IsGap(cells, k)
    <3>1. Len(g) = 0 /\ y = x + 1
      BY <1>1, <1>4, <2>2
    <3>2. QED
      BY <2>0, <2>2, <3>1
  <2>3. QED
    BY <2>1, <2>2
<1>8. \A i \in 1..x : r[i] = q[i]
  <2> TAKE i \in 1..x
  <2>1. i \in 1..Len(p)
    BY <1>1, <1>5, <1>7
  <2>2. QED
    BY <1>5, <1>6, <2>1
<1>9. ASSUME NEW j \in 1..k
      PROVE  /\ r[Place(cells, j)] = ChunkOf(cells[j])
             /\ IsGap(cells, j) => r[Place(cells, j) - 1] = Skip(GapOf(cells, j))
  <2>1. CASE j = k
    <3>1. r[y] = ChunkOf(cells[k])
      BY <1>3, <1>6, <1>7
    <3>2. ASSUME IsGap(cells, k) PROVE r[y - 1] = Skip(GapOf(cells, k))
      <4>1. Len(g) = 1 /\ g[1] = Skip(GapOf(cells, k)) /\ y - 1 = x + 1 /\ x + 1 \in 1..Len(p)
            /\ 1 \in 1..Len(g)
        <5>1. Len(g) = 1 /\ g[1] = Skip(GapOf(cells, k))
          BY <1>4, <3>2
        <5>2. x \in Nat /\ y = x + 2 /\ Len(p) = x + 1
          BY <1>1, <1>7, <3>2
        <5>3. QED
          BY <5>1, <5>2
      <4>2. r[x + 1] = p[x + 1] /\ p[x + 1] = g[1]
        BY <1>5, <1>6, <4>1
      <4>3. QED
        BY <4>1, <4>2
    <3>3. QED
      BY <2>1, <3>1, <3>2 DEF y
  <2>2. CASE j # k
    <3>1. j \in 1..(k - 1)
      BY <1>1, <2>2
    <3>2. Place(cells, j) \in 1..x /\ (IsGap(cells, j) => Place(cells, j) - 1 \in 1..x)
      <4> DEFINE u == Place(cells, j)
      <4>1. u \in Nat /\ u <= x /\ u >= 1 /\ (IsGap(cells, j) => u >= 2)
        <5>1. u \in Nat
          BY <1>1
        <5>2. u <= x /\ u >= 1 /\ (IsGap(cells, j) => u >= 2)
          BY <1>1, <3>1
        <5>3. QED
          BY <5>1, <5>2
      <4> HIDE DEF u
      <4>2. u \in 1..x /\ (IsGap(cells, j) => u - 1 \in 1..x)
        BY <1>1, <4>1
      <4>3. QED
        BY <4>2 DEF u
    <3>3. /\ q[Place(cells, j)] = ChunkOf(cells[j])
          /\ IsGap(cells, j) => q[Place(cells, j) - 1] = Skip(GapOf(cells, j))
      BY <3>1 DEF Laid
    <3>4. QED
      BY <1>8, <3>2, <3>3
  <2>3. QED
    BY <2>1, <2>2
<1>10. Laid(r, cells, k)
  BY <1>6, <1>7, <1>9 DEF Laid, y
<1>11. QED
  BY <1>10 DEF r, p, g, o

\* The fold of write_all_blocks(), cell by cell.
NothingLaid == [next |-> 0, out |-> << >>]
EndOfFile(c, all) ==
    LET pad == c.len - all.next * BlockSize
    IN  IF pad > 0 /\ pad % BlockSize = 0 THEN <<Skip(pad \div BlockSize)>> ELSE << >>

\* After k steps of the fold, the chunks of the first k cells are laid.
LEMMA ChunksFold ==
    ASSUME NEW c, IsCells(c.list.cells)
    PROVE  \E h : /\ h[0] = NothingLaid
                  /\ \A k \in 1..Len(c.list.cells) :
                        h[k] = Grown(h[k - 1], c.list.cells[k])
                  /\ ChunksOf(c) = h[Len(c.list.cells)].out \o EndOfFile(c, h[Len(c.list.cells)])
<1> DEFINE cells == c.list.cells
           n == Len(cells)
           K == { Skip(b) : b \in Nat } \cup { ChunkOf(cells[i]) : i \in 1..n }
           A == [next : Nat, out : Seq(K)]
           base == [next |-> 0, out |-> << >>]
           step == [p \in (1..n) \X A |-> Grown(p[2], cells[p[1]])]
<1>1. n \in Nat /\ DOMAIN cells = 1..n /\ \A i \in 1..n : IsCell(cells[i])
  BY DEF IsCells, IsSeq
<1>3. (\A b \in Nat : Skip(b) \in K) /\ \A i \in 1..n : ChunkOf(cells[i]) \in K
  OBVIOUS
<1>4. \A i \in 1..n, a \in A : Grown(a, cells[i]) \in A
  <2> HIDE DEF cells, n, K
  <2>1. QED
    BY <1>1, <1>3, GrownIn
<1>5. base \in A
  <2> HIDE DEF K
  <2>1. << >> \in Seq(K)
    OBVIOUS
  <2>2. QED
    BY <2>1
<1> HIDE DEF cells, n, K, A, base
<1>6. step \in [(1..n) \X A -> A] /\ \A i \in 1..n, a \in A : step[<<i, a>>] = Grown(a, cells[i])
  BY <1>4
<1> HIDE DEF step
<1> DEFINE E(g) == g = [x \in SUBSET DOMAIN cells |->
                          IF x = {} THEN base ELSE Grown(g[x \ {Max(x)}], cells[Max(x)])]
           h == CHOOSE g : E(g)
<1>7. \A x \in SUBSET (1..n) : x # {} => Max(x) \in 1..n /\ x \ {Max(x)} \in SUBSET (1..n)
  BY <1>1, Beginnings
<1>8. \E g : E(g)
  <2>1. PICK g \in [SUBSET (1..n) -> A] : Folding(g, n, base, step)
    BY <1>1, <1>5, <1>6, RecursionIn
  <2>2. g = [x \in SUBSET (1..n) |->
                IF x = {} THEN base ELSE step[<<Max(x), g[x \ {Max(x)}]>>]]
    BY <2>1 DEF Folding
  <2>3. \A x \in SUBSET (1..n) :
            (IF x = {} THEN base ELSE step[<<Max(x), g[x \ {Max(x)}]>>])
              = (IF x = {} THEN base ELSE Grown(g[x \ {Max(x)}], cells[Max(x)]))
    BY <1>6, <1>7
  <2>4. E(g)
    BY <1>1, <2>2, <2>3, Zenon
  <2>5. QED
    BY <2>4
<1>9. E(h)
  BY <1>8, Zenon
<1> DEFINE all == h[1..n]
<1>10. ChunksOf(c) = all.out \o EndOfFile(c, all)
  <2>1. ChunksOf(c) = LET a == h[DOMAIN cells]
                          p == c.len - a.next * BlockSize
                      IN  a.out \o (IF p > 0 /\ p % BlockSize = 0
                                    THEN <<Skip(p \div BlockSize)>> ELSE << >>)
    BY Zenon DEF ChunksOf, FoldLeft, MapThenFoldSet, cells, base, Grown
  <2> HIDE DEF h
  <2>2. h[DOMAIN cells] = h[1..n]
    BY <1>1
  <2>3. QED
    BY <2>1, <2>2, Zenon DEF EndOfFile
<1> HIDE DEF h
<1> DEFINE f == [k \in 0..n |-> h[1..k]]
<1>11. f[0] = NothingLaid
  <2>1. 1..0 = {} /\ {} \in SUBSET (1..n) /\ 0 \in 0..n
    BY <1>1
  <2>2. h[{}] = base
    BY <1>1, <1>9, <2>1
  <2>3. QED
    BY <2>1, <2>2 DEF base, NothingLaid
<1>12. ASSUME NEW k \in 1..n PROVE f[k] = Grown(f[k - 1], cells[k])
  <2>1. /\ 1..k \in SUBSET (1..n) /\ 1..k # {} /\ Max(1..k) = k
        /\ (1..k) \ {Max(1..k)} = 1..(k - 1)
    BY <1>1, AtBeginnings
  <2>2. k \in 0..n /\ k - 1 \in 0..n
    BY <1>1
  <2>3. h[1..k] = Grown(h[1..(k - 1)], cells[k])
    BY <1>1, <1>9, <2>1
  <2>4. QED
    BY <2>2, <2>3
<1>13. n \in 0..n
  BY <1>1
<1>14. f[n] = all
  BY <1>13
<1> HIDE DEF f, all
<1>15. QED
  BY <1>10, <1>11, <1>12, <1>14 DEF cells, n

\* All that is written of a cookie.
Written(q, c) ==
    /\ IsSeq(q)
    /\ Len(q) = Place(c.list.cells, Len(c.list.cells)) + (IF IsPad(c) THEN 1 ELSE 0)
    /\ \A j \in 1..Len(c.list.cells) :
          /\ q[Place(c.list.cells, j)] = ChunkOf(c.list.cells[j])
          /\ IsGap(c.list.cells, j) =>
                q[Place(c.list.cells, j) - 1] = Skip(GapOf(c.list.cells, j))
    /\ IsPad(c) => q[Len(q)] = Skip(Pad(c) \div BlockSize)

\* A cookie is written as the chunks of its cells, and one for what lacks at
\* the end.
LEMMA ChunksWritten ==
    ASSUME NEW c, IsCells(c.list.cells)
    PROVE  Written(ChunksOf(c), c)
<1> DEFINE cells == c.list.cells
           n == Len(cells)
<1>1. n \in Nat /\ IsCells(cells)
  BY DEF IsCells, IsSeq
<1>2. PICK h : /\ h[0] = NothingLaid
               /\ \A k \in 1..n : h[k] = Grown(h[k - 1], cells[k])
               /\ ChunksOf(c) = h[n].out \o EndOfFile(c, h[n])
  BY ChunksFold
<1> HIDE DEF cells, n
<1> DEFINE T == { k \in Nat : k <= n => h[k].next = EndOf(cells, k) /\ Laid(h[k].out, cells, k) }
<1>3. 0 \in T
  <2>1. h[0].next = 0 /\ h[0].out = << >>
    BY <1>2 DEF NothingLaid
  <2>2. IsSeq(<< >>) /\ Len(<< >>) = 0
    BY Empty
  <2>3. Place(cells, 0) = 0
    BY <1>1, Places
  <2>4. QED
    BY <2>1, <2>2, <2>3 DEF Laid, EndOf
<1>4. ASSUME NEW k \in Nat, k \in T PROVE k + 1 \in T
  <2>1. SUFFICES ASSUME k + 1 <= n
                 PROVE h[k + 1].next = EndOf(cells, k + 1) /\ Laid(h[k + 1].out, cells, k + 1)
    OBVIOUS
  <2>2. k + 1 \in 1..n /\ (k + 1) - 1 = k /\ h[k].next = EndOf(cells, k) /\ Laid(h[k].out, cells, k)
    BY <1>1, <1>4, <2>1
  <2>3. h[k + 1] = Grown(h[k], cells[k + 1])
    BY <1>2, <2>2
  <2> DEFINE m == k + 1
             g == IF IsGap(cells, m) THEN <<Skip(GapOf(cells, m))>> ELSE << >>
  <2>4. h[m].next = EndBlock(cells[m]) /\ h[m].out = h[k].out \o g \o <<ChunkOf(cells[m])>>
    <3>1. IsGap(cells, m) <=> cells[m].block > h[k].next
      BY <2>2 DEF IsGap
    <3>2. GapOf(cells, m) = cells[m].block - h[k].next
      BY <2>2 DEF GapOf
    <3>3. g = IF cells[m].block > h[k].next THEN <<Skip(cells[m].block - h[k].next)>> ELSE << >>
      BY <3>1, <3>2, Zenon
    <3>4. Grown(h[k], cells[m]) =
            [next |-> EndBlock(cells[m]),
             out |-> h[k].out \o (IF cells[m].block > h[k].next
                                  THEN <<Skip(cells[m].block - h[k].next)>> ELSE << >>)
                              \o <<ChunkOf(cells[m])>>]
      BY Zenon DEF Grown
    <3> HIDE DEF g
    <3>5. Grown(h[k], cells[m]) = [next |-> EndBlock(cells[m]),
                                   out |-> h[k].out \o g \o <<ChunkOf(cells[m])>>]
      BY <3>3, <3>4, Zenon
    <3> HIDE DEF m
    <3>6. h[m] = Grown(h[k], cells[m])
      BY <2>3 DEF m
    <3>7. QED
      BY <3>5, <3>6
  <2>5. EndBlock(cells[m]) = EndOf(cells, m)
    BY <2>2 DEF EndOf
  <2>6. Laid(h[k].out \o g \o <<ChunkOf(cells[m])>>, cells, m)
    <3>1. m \in 1..Len(cells) /\ Laid(h[k].out, cells, m - 1)
      BY <2>2 DEF n
    <3> HIDE DEF m
    <3>2. QED
      BY <1>1, <3>1, LaidMore, Zenon
  <2>7. QED
    BY <2>4, <2>5, <2>6, Zenon
<1>5. h[n].next = EndOf(cells, n) /\ Laid(h[n].out, cells, n)
  <2>1. Nat \subseteq T
    <3> HIDE DEF T
    <3>1. QED
      BY <1>3, <1>4, FromZero
  <2>2. n \in T /\ n <= n
    BY <1>1, <2>1
  <2>3. QED
    BY <2>2
<1> HIDE DEF T
<1> DEFINE o == h[n].out
           r == EndOfFile(c, h[n])
           q == ChunksOf(c)
<1>6. r = IF IsPad(c) THEN <<Skip(Pad(c) \div BlockSize)>> ELSE << >>
  <2>1. c.len - h[n].next * BlockSize = Pad(c)
    BY <1>5 DEF Pad, n, cells
  <2>2. QED
    BY <2>1, Zenon DEF EndOfFile, IsPad
<1>7. /\ IsSeq(r) /\ Len(r) = IF IsPad(c) THEN 1 ELSE 0
      /\ IsPad(c) => r[1] = Skip(Pad(c) \div BlockSize)
  <2>1. CASE IsPad(c)
    <3>1. r = <<Skip(Pad(c) \div BlockSize)>>
      BY <1>6, <2>1
    <3> HIDE DEF r
    <3>2. QED
      BY <2>1, <3>1, Single
  <2>2. CASE ~IsPad(c)
    <3>1. r = << >>
      BY <1>6, <2>2
    <3> HIDE DEF r
    <3>2. QED
      BY <2>2, <3>1, Empty
  <2>3. QED
    BY <2>1, <2>2
<1>8. IsSeq(o) /\ Len(o) = Place(cells, n)
  BY <1>5 DEF Laid
<1>9. AreJoined(o, r, q)
  <2>1. q = o \o r
    BY <1>2
  <2> HIDE DEF o, r, q
  <2>2. QED
    BY <1>7, <1>8, <2>1, JoinedAs
<1> HIDE DEF o, r, q
<1>10. Place(cells, n) \in Nat /\ n \in 0..Len(cells) /\ n = Len(cells)
  <2>1. n \in 0..Len(cells) /\ n = Len(cells)
    BY <1>1 DEF n
  <2>2. QED
    BY <1>1, <2>1, Places
<1>11. IsSeq(q) /\ Len(q) = Place(cells, n) + (IF IsPad(c) THEN 1 ELSE 0)
  BY <1>7, <1>8, <1>9 DEF AreJoined
<1>12. ASSUME NEW j \in 1..n
       PROVE  /\ q[Place(cells, j)] = ChunkOf(cells[j])
              /\ IsGap(cells, j) => q[Place(cells, j) - 1] = Skip(GapOf(cells, j))
  <2>1. /\ o[Place(cells, j)] = ChunkOf(cells[j])
        /\ IsGap(cells, j) => o[Place(cells, j) - 1] = Skip(GapOf(cells, j))
    BY <1>5 DEF Laid, o
  <2>2. Place(cells, j) \in 1..Len(o) /\ (IsGap(cells, j) => Place(cells, j) - 1 \in 1..Len(o))
    <3> DEFINE u == Place(cells, j)
               z == Place(cells, j - 1)
               x == Place(cells, n)
    <3>1. j \in 1..Len(cells) /\ j \in 0..n /\ j - 1 \in 0..Len(cells) /\ j \in 0..Len(cells)
      BY <1>1, <1>10
    <3>2. /\ u \in Nat /\ z \in Nat /\ u <= x
          /\ IsGap(cells, j) => u = z + 2
          /\ ~IsGap(cells, j) => u = z + 1
      BY <1>1, <1>10, <3>1, Places
    <3>3. Len(o) = x /\ x \in Nat
      BY <1>8, <1>10
    <3> HIDE DEF u, z, x
    <3>4. u \in 1..x /\ (IsGap(cells, j) => u - 1 \in 1..x)
      BY <3>2, <3>3
    <3>5. QED
      BY <3>3, <3>4 DEF u
  <2>3. \A i \in 1..Len(o) : q[i] = o[i]
    BY <1>9 DEF AreJoined
  <2>4. QED
    BY <2>1, <2>2, <2>3
<1>13. IsPad(c) => q[Len(q)] = Skip(Pad(c) \div BlockSize)
  <2>1. SUFFICES ASSUME IsPad(c) PROVE q[Len(q)] = r[1]
    BY <1>7
  <2>2. Len(r) = 1 /\ Len(q) = Len(o) + 1 /\ 1 \in 1..Len(r)
    BY <1>7, <1>8, <1>11, <2>1
  <2>3. q[Len(o) + 1] = r[1]
    BY <1>9, <2>2 DEF AreJoined
  <2>4. QED
    BY <2>2, <2>3
<1>14. Written(q, c)
  BY <1>11, <1>12, <1>13 DEF Written, cells, n
<1>15. QED
  BY <1>14 DEF q

\* Every chunk is that of a cell, or a gap.
LEMMA PlacesCover ==
    ASSUME NEW cells, IsCells(cells)
    PROVE  \A i \in 1..Place(cells, Len(cells)) :
               \E j \in 1..Len(cells) :
                   \/ i = Place(cells, j)
                   \/ IsGap(cells, j) /\ i = Place(cells, j) - 1
<1> DEFINE n == Len(cells)
           By(i, k) == \E j \in 1..k : \/ i = Place(cells, j)
                                       \/ IsGap(cells, j) /\ i = Place(cells, j) - 1
           T == { k \in Nat : k <= n => \A i \in 1..Place(cells, k) : By(i, k) }
<1>1. n \in Nat
  BY DEF IsCells, IsSeq
<1>2. 0 \in T
  <2>1. Place(cells, 0) = 0
    BY Places
  <2>2. QED
    BY <2>1
<1>3. ASSUME NEW k \in Nat, k \in T PROVE k + 1 \in T
  <2>1. SUFFICES ASSUME k + 1 <= n, NEW i \in 1..Place(cells, k + 1) PROVE By(i, k + 1)
    <3> HIDE DEF By
    <3>1. QED
      OBVIOUS
  <2>2. /\ k + 1 \in 1..n /\ (k + 1) - 1 = k /\ k <= n /\ k \in 0..n
        /\ \A m \in 1..k : m \in 1..(k + 1)
    BY <1>1, <2>1
  <2>3. \A m \in 1..Place(cells, k) : By(m, k)
    BY <1>3, <2>2
  <2>4. /\ Place(cells, k) \in Nat
        /\ IsGap(cells, k + 1) => Place(cells, k + 1) = Place(cells, k) + 2
        /\ ~IsGap(cells, k + 1) => Place(cells, k + 1) = Place(cells, k) + 1
    BY <2>2, Places
  <2> DEFINE x == Place(cells, k)
             y == Place(cells, k + 1)
  <2>5. i \in 1..x \/ i = y \/ (IsGap(cells, k + 1) /\ i = y - 1)
    <3>1. /\ x \in Nat /\ i \in 1..y
          /\ (IsGap(cells, k + 1) => y = x + 2) /\ (~IsGap(cells, k + 1) => y = x + 1)
      BY <2>4
    <3> HIDE DEF x, y
    <3>2. QED
      BY <3>1
  <2>6. CASE i \in 1..x
    <3>1. By(i, k)
      BY <2>3, <2>6
    <3>2. QED
      BY <2>2, <3>1
  <2>7. CASE i = y \/ (IsGap(cells, k + 1) /\ i = y - 1)
    <3>1. k + 1 \in 1..(k + 1)
      BY <2>2
    <3>2. QED
      BY <2>7, <3>1
  <2>8. QED
    BY <2>5, <2>6, <2>7
<1>4. n \in T /\ n <= n
  <2> HIDE DEF T
  <2>1. Nat \subseteq T
    BY <1>2, <1>3, FromZero
  <2>2. QED
    BY <1>1, <2>1
<1>5. QED
  BY <1>4

\* Each chunk before the end is the one of a cell or the gap in front of it.
LEMMA ChunkAt ==
    ASSUME NEW c, IsCells(c.list.cells), c.len \in Nat, NEW q, Written(q, c),
           NEW i \in 1..Len(q)
    PROVE  \/ \E j \in 1..Len(c.list.cells) : i = Place(c.list.cells, j)
                                              /\ q[i] = ChunkOf(c.list.cells[j])
           \/ \E b \in Nat \ {0} : q[i] = Skip(b)
<1> DEFINE cells == c.list.cells
           n == Len(cells)
           x == Place(cells, n)
<1>0. n \in Nat /\ n \in 0..n
  <2>1. n \in Nat
    BY DEF IsCells, IsSeq
  <2> HIDE DEF n
  <2>2. QED
    BY <2>1
<1>1. x \in Nat /\ Len(q) = x + (IF IsPad(c) THEN 1 ELSE 0)
  BY <1>0, Places DEF Written
<1>2. i \in 1..x \/ (IsPad(c) /\ i = Len(q))
  <2> HIDE DEF x
  <2>1. QED
    BY <1>1
<1>3. CASE i \in 1..x
  <2>1. PICK j \in 1..n : i = Place(cells, j) \/ (IsGap(cells, j) /\ i = Place(cells, j) - 1)
    BY <1>3, PlacesCover
  <2>2. CASE i = Place(cells, j)
    BY <2>2 DEF Written
  <2>3. CASE IsGap(cells, j) /\ i = Place(cells, j) - 1
    <3>1. q[i] = Skip(GapOf(cells, j)) /\ GapOf(cells, j) \in Nat \ {0}
      BY <2>3, EndOfNat DEF Written
    <3>2. QED
      BY <3>1
  <2>4. QED
    BY <2>1, <2>2, <2>3
<1>4. CASE IsPad(c) /\ i = Len(q)
  <2> DEFINE p == Pad(c)
             e == EndOf(cells, n) * BlockSize
             d == p \div BlockSize
  <2>1. e \in Nat /\ BlockSize \in Nat \ {0}
    BY <1>0, EndOfNat, BlockSizeAssumption, Product
  <2>2. p = c.len - e /\ p > 0 /\ p % BlockSize = 0
    BY <1>4 DEF IsPad, Pad
  <2> HIDE DEF e, p
  <2>3. p \in Nat
    BY <2>1, <2>2
  <2>4. d \in Nat /\ p = d * BlockSize + (p % BlockSize)
    BY <2>1, <2>3, Parts
  <2> HIDE DEF d
  <2>5. d # 0
    BY <2>1, <2>2, <2>3, <2>4
  <2>6. q[i] = Skip(d)
    BY <1>4 DEF Written, d, p
  <2>7. QED
    BY <2>4, <2>5, <2>6
<1>5. QED
  BY <1>2, <1>3, <1>4

-----------------------------------------------------------------------------
(* The length of a file. *)

ChunkCost(k) ==
    ChunkHeader + (CASE k.kind = "fill" -> OneWord
                     [] k.kind = "raw" -> Len(k.data)
                     [] OTHER -> 0)
ChunkCosts(q) == [i \in 1..Len(q) |-> ChunkCost(q[i])]

\* A chunk costs what its cell does.
LEMMA CostOfChunk ==
    ASSUME NEW bb, IsCell(bb)
    PROVE  ChunkCost(ChunkOf(bb)) = CellCost(bb)
<1> DEFINE a == AlignUp(bb.len)
           f == [i \in 1..a |-> CellWord(bb, i - 1)]
<1>1. a \in Nat
  <2>1. DivUp(bb.len) \in Nat /\ BlockSize \in Nat
    BY UpNat, BlockSizeAssumption DEF IsCell
  <2>2. QED
    BY <2>1, Product DEF AlignUp
<1>2. CASE bb.type = "fill"
  <2>1. ChunkOf(bb).kind = "fill"
    BY <1>2 DEF ChunkOf
  <2>2. ChunkCost(ChunkOf(bb)) = ChunkHeader + OneWord
    BY <2>1 DEF ChunkCost
  <2>3. QED
    BY <1>2, <2>2 DEF CellCost
<1>3. CASE bb.type # "fill"
  <2>1. ChunkOf(bb) = [kind |-> "raw", blocks |-> DivUp(bb.len), val |-> 0, data |-> f]
    BY <1>3, Zenon DEF ChunkOf
  <2>2. Len(f) = a
    <3>1. f = [i \in 1..a |-> f[i]]
      OBVIOUS
    <3> HIDE DEF f, a
    <3>2. QED
      BY <1>1, <3>1, Made
  <2> HIDE DEF f, a
  <2>3. ChunkOf(bb).kind = "raw" /\ Len(ChunkOf(bb).data) = a
    BY <2>1, <2>2
  <2>4. ChunkCost(ChunkOf(bb)) = ChunkHeader + a
    BY <2>3 DEF ChunkCost
  <2>5. CellCost(bb) = ChunkHeader + a
    BY <1>3 DEF CellCost, a
  <2>6. QED
    BY <2>4, <2>5
<1>4. QED
  BY <1>2, <1>3

\* A skip chunk is its header.
LEMMA CostOfSkip == ASSUME NEW b PROVE ChunkCost(Skip(b)) = ChunkHeader
<1>1. Skip(b).kind = "skip"
  BY DEF Skip
<1>2. QED
  BY <1>1 DEF ChunkCost, ChunkHeader

\* The fold of sparse_file_len().
LEMMA LengthIs ==
    ASSUME NEW q, IsSeq(q), AreNats(ChunkCosts(q), Len(q))
    PROVE  FoldLeft(LAMBDA n, k : n + ChunkHeader + CASE k.kind = "fill" -> OneWord
                                                     [] k.kind = "raw" -> Len(k.data)
                                                     [] OTHER -> 0,
                    0, q) = Upto(ChunkCosts(q), Len(q))
<1> DEFINE n == Len(q)
           w == ChunkCosts(q)
           v(k) == CASE k.kind = "fill" -> OneWord
                     [] k.kind = "raw" -> Len(k.data)
                     [] OTHER -> 0
           E(g) == g = [x \in SUBSET DOMAIN q |->
                          IF x = {} THEN 0
                          ELSE g[x \ {Max(x)}] + ChunkHeader + v(q[Max(x)])]
           h == CHOOSE g : E(g)
<1>1. n \in Nat /\ DOMAIN q = 1..n
  BY DEF IsSeq
<1>2. FoldLeft(LAMBDA m, k : m + ChunkHeader + CASE k.kind = "fill" -> OneWord
                                                     [] k.kind = "raw" -> Len(k.data)
                                                     [] OTHER -> 0,
                    0, q) = h[DOMAIN q]
  BY Zenon DEF FoldLeft, MapThenFoldSet
<1>3. \A i \in 1..n : w[i] \in Nat /\ w[i] = ChunkHeader + v(q[i])
  BY DEF AreNats, ChunkCosts, ChunkCost
<1>4. \A i \in 1..n : v(q[i]) \in Int
  <2>2. ASSUME NEW i \in 1..n PROVE v(q[i]) \in Int
    <3>1. CASE q[i].kind = "raw"
      <4>1. v(q[i]) = Len(q[i].data)
        BY <3>1
      <4>2. QED
        BY <4>1
    <3>2. CASE q[i].kind # "raw"
      BY <3>2 DEF OneWord
    <3>3. QED
      BY <3>1, <3>2
  <2>3. QED
    BY <2>2
<1> HIDE DEF v, w, n
<1> DEFINE step == [p \in (1..n) \X Nat |-> p[2] + ChunkHeader + v(q[p[1]])]
<1>5. \A k \in 1..n, a \in Nat : a + ChunkHeader + v(q[k]) = a + w[k] /\ a + w[k] \in Nat
  BY <1>3, <1>4 DEF ChunkHeader
<1>6. step \in [(1..n) \X Nat -> Nat] /\ 0 \in Nat
  BY <1>5
<1>7. \A k \in 1..n, a \in Nat : step[<<k, a>>] = a + ChunkHeader + v(q[k])
  OBVIOUS
<1> HIDE DEF step
<1>8. \A x \in SUBSET (1..n) : x # {} => Max(x) \in 1..n /\ x \ {Max(x)} \in SUBSET (1..n)
  BY <1>1, Beginnings
<1>9. \E g : E(g)
  <2>1. PICK g \in [SUBSET (1..n) -> Nat] : Folding(g, n, 0, step)
    BY <1>1, <1>6, RecursionIn
  <2>2. g = [x \in SUBSET (1..n) |->
                IF x = {} THEN 0 ELSE step[<<Max(x), g[x \ {Max(x)}]>>]]
    BY <2>1 DEF Folding
  <2>3. \A x \in SUBSET (1..n) :
            (IF x = {} THEN 0 ELSE step[<<Max(x), g[x \ {Max(x)}]>>])
              = (IF x = {} THEN 0 ELSE g[x \ {Max(x)}] + ChunkHeader + v(q[Max(x)]))
    <3> TAKE x \in SUBSET (1..n)
    <3>1. CASE x = {}
      BY <3>1
    <3>2. CASE x # {}
      <4>1. Max(x) \in 1..n /\ g[x \ {Max(x)}] \in Nat
        BY <1>8, <3>2
      <4>2. step[<<Max(x), g[x \ {Max(x)}]>>] = g[x \ {Max(x)}] + ChunkHeader + v(q[Max(x)])
        BY <1>7, <4>1
      <4>3. QED
        BY <3>2, <4>2
    <3>3. QED
      BY <3>1, <3>2
  <2>4. E(g)
    BY <1>1, <2>2, <2>3, Zenon
  <2>5. QED
    BY <2>4
<1>10. E(h)
  BY <1>9, Zenon
<1> HIDE DEF h
<1>11. /\ Upto(w, 0) = 0 /\ (\A m \in 0..n : Upto(w, m) \in Nat)
       /\ \A m \in 1..n : Upto(w, m) = Upto(w, m - 1) + w[m]
  BY <1>1, <1>3, UptoSteps
<1> DEFINE T == { k \in Nat : k <= n => h[1..k] = Upto(w, k) }
<1>12. 0 \in T
  <2>1. 1..0 = {} /\ {} \in SUBSET (1..n)
    OBVIOUS
  <2>2. h[1..0] = 0
    BY <1>1, <1>10, <2>1
  <2>3. QED
    BY <1>11, <2>2
<1>13. ASSUME NEW k \in Nat, k \in T PROVE k + 1 \in T
  <2>1. SUFFICES ASSUME k + 1 <= n PROVE h[1..(k + 1)] = Upto(w, k + 1)
    OBVIOUS
  <2>2. k + 1 \in 1..n /\ (k + 1) - 1 = k /\ h[1..k] = Upto(w, k) /\ k \in 0..n
    BY <1>1, <1>13, <2>1
  <2>3. /\ 1..(k + 1) \in SUBSET (1..n) /\ 1..(k + 1) # {} /\ Max(1..(k + 1)) = k + 1
        /\ (1..(k + 1)) \ {Max(1..(k + 1))} = 1..((k + 1) - 1)
    BY <1>1, <2>2, AtBeginnings
  <2>4. h[1..(k + 1)] = h[1..k] + ChunkHeader + v(q[k + 1])
    BY <1>1, <1>10, <2>2, <2>3
  <2>5. Upto(w, k + 1) = Upto(w, k) + w[k + 1] /\ Upto(w, k) \in Nat
    BY <1>11, <2>2
  <2>6. QED
    BY <1>5, <2>2, <2>4, <2>5
<1>14. h[1..n] = Upto(w, n)
  <2>1. Nat \subseteq T
    <3> HIDE DEF T
    <3>1. QED
      BY <1>12, <1>13, FromZero
  <2>2. n \in T /\ n <= n
    BY <1>1, <2>1
  <2>3. QED
    BY <2>2
<1>15. QED
  BY <1>1, <1>2, <1>14, Zenon DEF n, w

-----------------------------------------------------------------------------
(* What a cut makes of a cell. *)

FirstPiece(bb, max) == Cell(bb.type, bb.src, bb.off, AlignDown(max), bb.block)
OtherPiece(bb, max) ==
    Cell(bb.type, bb.src, IF bb.type = "fill" THEN 0 ELSE bb.off + AlignDown(max),
         bb.len - AlignDown(max), bb.block + AlignDown(max) \div BlockSize)

\* Cell i in two pieces.
InTwo(cells, i, max, u) ==
    /\ IsSeq(u) /\ Len(u) = Len(cells) + 1
    /\ \A j \in 1..(i - 1) : u[j] = cells[j]
    /\ u[i] = FirstPiece(cells[i], max)
    /\ u[i + 1] = OtherPiece(cells[i], max)
    /\ \A j \in (i + 2)..(Len(cells) + 1) : u[j] = cells[j - 1]

\* backed_block_split() makes two cells of one, or leaves it alone.
LEMMA SplitIs ==
    ASSUME NEW cells, IsCells(cells), NEW i \in 1..Len(cells), NEW max \in Nat
    PROVE  /\ cells[i].len <= AlignDown(max) => Split(cells, i, max) = cells
           /\ ~(cells[i].len <= AlignDown(max)) => InTwo(cells, i, max, Split(cells, i, max))
<1> DEFINE bb == cells[i]
           n == Len(cells)
           cut == AlignDown(max)
           t == Split(cells, i, max)
<1>1. n \in Nat /\ IsSeq(cells) /\ i \in 1..n /\ i \in Nat /\ IsCell(bb)
  BY DEF IsCells, IsSeq
<1>2. bb.len <= cut => t = cells
  BY DEF Split
<1>3. ASSUME ~(bb.len <= cut) PROVE InTwo(cells, i, max, t)
  <2> DEFINE d == [bb EXCEPT !.len = cut]
             u == [cells EXCEPT ![i] = d]
             off == IF bb.type = "fill" THEN 0 ELSE bb.off + cut
             block == bb.block + cut \div BlockSize
             l2 == bb.len - cut
             e == [bb EXCEPT !.len = l2, !.block = block, !.off = off]
  <2>1. t = InsertAt(u, i + 1, e)
    BY <1>3 DEF Split
  <2> HIDE DEF n, t
  <2>2. d = FirstPiece(bb, max)
    <3>1. bb = Cell(bb.type, bb.src, bb.off, bb.len, bb.block)
      BY <1>1 DEF IsCell
    <3> HIDE DEF bb, cut
    <3>2. d = Cell(bb.type, bb.src, bb.off, cut, bb.block)
      BY <3>1 DEF Cell
    <3> USE DEF cut
    <3>3. QED
      BY <3>2 DEF FirstPiece
  <2>3. e = OtherPiece(bb, max)
    <3>1. bb = Cell(bb.type, bb.src, bb.off, bb.len, bb.block)
      BY <1>1 DEF IsCell
    <3>2. OtherPiece(bb, max) = Cell(bb.type, bb.src, off, l2, block)
      BY DEF OtherPiece
    <3> HIDE DEF bb, cut, off, block, l2
    <3>3. Altered(Cell(bb.type, bb.src, bb.off, bb.len, bb.block), l2, block, off)
            = Cell(bb.type, bb.src, off, l2, block)
      BY Changed
    <3>4. e = Altered(bb, l2, block, off)
      BY DEF Altered
    <3> HIDE DEF e
    <3>5. QED
      BY <3>1, <3>2, <3>3, <3>4, Zenon
  <2> HIDE DEF d, e
  <2>4. u = [j \in 1..n |-> u[j]] /\ u[i] = d /\ \A j \in 1..n : j # i => u[j] = cells[j]
    <3>1. DOMAIN cells = 1..n
      BY <1>1 DEF IsSeq, n
    <3>2. QED
      BY <1>1, <3>1
  <2> HIDE DEF u
  <2>5. IsSeq(u) /\ Len(u) = n
    BY <1>1, <2>4, Made
  <2>6. /\ IsSeq(t) /\ Len(t) = n + 1
        /\ \A j \in 1..i : t[j] = u[j]
        /\ t[i + 1] = e
        /\ \A j \in (i + 2)..(n + 1) : t[j] = u[j - 1]
    <3>1. i \in 0..Len(u)
      BY <1>1, <2>5
    <3>2. IsInserted(u, i, e, t)
      BY <2>1, <2>5, <3>1, InsertedAs
    <3>3. QED
      BY <2>5, <3>2 DEF IsInserted
  <2>7. \A j \in 1..(i - 1) : t[j] = cells[j]
    <3> TAKE j \in 1..(i - 1)
    <3>1. j \in 1..n /\ j # i /\ j \in 1..i
      BY <1>1
    <3>2. QED
      BY <2>4, <2>6, <3>1
  <2>8. t[i] = d
    <3>1. i \in 1..i
      BY <1>1
    <3>2. QED
      BY <2>4, <2>6, <3>1
  <2>9. \A j \in (i + 2)..(n + 1) : t[j] = cells[j - 1]
    <3> TAKE j \in (i + 2)..(n + 1)
    <3>1. j - 1 \in 1..n /\ j - 1 # i
      BY <1>1
    <3>2. QED
      BY <2>4, <2>6, <3>1
  <2>10. QED
    BY <2>2, <2>3, <2>6, <2>7, <2>8, <2>9 DEF InTwo, n
<1>4. QED
  BY <1>2, <1>3

\* So many whole blocks.
LEMMA DownIs ==
    ASSUME NEW max \in Nat
    PROVE  /\ AlignDown(max) \in Nat /\ AlignDown(max) <= max
           /\ max - AlignDown(max) \in 0..(BlockSize - 1)
           /\ AlignDown(max) = (max \div BlockSize) * BlockSize /\ max \div BlockSize \in Nat
           /\ AlignUp(AlignDown(max)) = AlignDown(max)
<1> DEFINE q == max \div BlockSize
           r == max % BlockSize
           d == AlignDown(max)
<1>1. BlockSize \in Nat \ {0}
  BY BlockSizeAssumption
<1>2. q \in Nat /\ r \in 0..(BlockSize - 1) /\ max = q * BlockSize + r
  BY <1>1, Parts
<1>3. d = q * BlockSize
  BY <1>1, Parts DEF AlignDown
<1>4. d \in Nat
  BY <1>1, <1>2, <1>3, Product
<1>5. DivUp(q * BlockSize) = q
  BY <1>2, UpWhole
<1>6. AlignUp(d) = d
  BY <1>3, <1>5 DEF AlignUp
<1>7. max = d + r
  BY <1>2, <1>3
<1> HIDE DEF d, q, r
<1>8. d <= max /\ max - d \in 0..(BlockSize - 1)
  BY <1>1, <1>2, <1>4, <1>7
<1>9. QED
  BY <1>2, <1>3, <1>4, <1>6, <1>8 DEF d, q

\* More words, no fewer blocks.
LEMMA UpMonotone ==
    ASSUME NEW a \in Nat, NEW q \in Nat, a <= q * BlockSize
    PROVE  AlignUp(a) <= q * BlockSize /\ AlignUp(a) \in Nat
<1>1. BlockSize \in Nat \ {0}
  BY BlockSizeAssumption
<1>2. DivUp(a) \in Nat /\ DivUp(a) <= q
  BY UpNat, UpAtMost
<1>3. DivUp(a) * BlockSize <= q * BlockSize
  BY <1>1, <1>2, TimesMonotone
<1>4. DivUp(a) * BlockSize \in Nat
  BY <1>1, <1>2, Product
<1>5. QED
  BY <1>3, <1>4 DEF AlignUp

-----------------------------------------------------------------------------
(* How much move_chunks_up_to_len() takes. *)

\* What the first n cells cost.
CostUpto(cells, n) == Upto(CostsOf(cells), n)

\* As many as fit into len words.
IsFit(cells, len, fit) ==
    /\ fit \in 0..Len(cells) /\ CostUpto(cells, fit) <= len
    /\ fit # Len(cells) => CostUpto(cells, fit + 1) > len

\* The three ends of a round.
TakesAll(cells, len, fit, t) ==
    /\ fit = Len(cells)
    /\ t = [cells |-> cells, n |-> fit, more |-> FALSE]

TakesSome(cells, len, fit, t) ==
    /\ fit # Len(cells) /\ fit # 0
    /\ len - CostUpto(cells, fit) <= len \div 8
    /\ t = [cells |-> cells, n |-> fit, more |-> TRUE]

TakesCut(cells, len, fit, t) ==
    /\ fit # Len(cells)
    /\ fit = 0 \/ len - CostUpto(cells, fit) > len \div 8
    /\ t = [cells |-> Split(cells, fit + 1, len - CostUpto(cells, fit)),
            n |-> fit + 1, more |-> TRUE]

Takes(cells, len, fit, t) ==
    /\ IsFit(cells, len, fit)
    /\ \/ TakesAll(cells, len, fit, t)
       \/ TakesSome(cells, len, fit, t)
       \/ TakesCut(cells, len, fit, t)

\* A part has room.
IsRoom(len) ==
    /\ len \in Nat /\ len >= BlockSize
    /\ len \div 8 \in Nat /\ len \div 8 + 1 >= BlockSize
    /\ 8 * (len \div 8) <= len

\* A part has room for a block, and for one wherever a chunk is cut.
LEMMA RoomIs ==
    ASSUME NEW max \in MaxLens
    PROVE  IsRoom(max - Overhead) /\ max \in Nat
<1> DEFINE len == max - Overhead
<1>1. BlockSize \in Nat \ {0}
  BY BlockSizeAssumption
<1>2. max \in Nat /\ max >= Overhead + BlockSize /\ len \div 8 + 1 >= BlockSize
  BY MaxLensAssumption
<1>3. Overhead \in Nat
  BY DEF Overhead, FileHeader, ChunkHeader, OneWord
<1>4. len \in Nat /\ len >= BlockSize
  BY <1>1, <1>2, <1>3
<1> HIDE DEF len
<1>5. len \div 8 \in Nat /\ 8 * (len \div 8) <= len
  BY <1>4
<1>6. IsRoom(len)
  BY <1>2, <1>4, <1>5 DEF IsRoom
<1>7. QED
  BY <1>2, <1>6 DEF len

\* One cell more costs what that cell does.
LEMMA CostSteps ==
    ASSUME NEW cells, IsCells(cells)
    PROVE  /\ Len(cells) \in Nat /\ CostUpto(cells, 0) = 0
           /\ \A k \in 0..Len(cells) : CostUpto(cells, k) \in Nat
           /\ \A k \in 1..Len(cells) : /\ CellCost(cells[k]) \in Nat /\ IsCell(cells[k])
                                       /\ CostUpto(cells, k) = CostUpto(cells, k - 1) + CellCost(cells[k])
<1> DEFINE n == Len(cells)
           w == CostsOf(cells)
<1>1. n \in Nat /\ \A i \in 1..n : w[i] \in Nat /\ w[i] = CellCost(cells[i]) /\ IsCell(cells[i])
  BY CostsNat DEF IsCells
<1> HIDE DEF n, w
<1>2. /\ Upto(w, 0) = 0 /\ (\A m \in 0..n : Upto(w, m) \in Nat)
      /\ \A m \in 1..n : Upto(w, m) = Upto(w, m - 1) + w[m]
  BY <1>1, UptoSteps
<1>3. QED
  BY <1>1, <1>2 DEF CostUpto, n, w

\* More cells cost no less.
LEMMA CostGrows ==
    ASSUME NEW cells, IsCells(cells), NEW k \in 0..Len(cells), NEW j \in 0..k
    PROVE  CostUpto(cells, j) <= CostUpto(cells, k)
<1> DEFINE w == CostsOf(cells)
           d == k - j
<1>1. Len(cells) \in Nat /\ \A i \in 1..Len(cells) : w[i] \in Nat
  BY CostsNat
<1>2. d \in Nat /\ j \in Nat /\ j + d = k /\ k <= Len(cells)
  BY <1>1
<1> HIDE DEF w, d
<1>3. AreNats(w, j + d)
  BY <1>1, <1>2 DEF AreNats
<1>4. Upto(w, j) <= Upto(w, j + d)
  BY <1>2, <1>3, UptoGrows
<1>5. QED
  BY <1>2, <1>4 DEF CostUpto, w

\* There is one such number.
LEMMA FitIs ==
    ASSUME NEW cells, IsCells(cells), NEW len \in Nat, NEW fit, IsFit(cells, len, fit),
           NEW k \in 0..Len(cells)
    PROVE  CostUpto(cells, k) <= len <=> k <= fit
<1>1. Len(cells) \in Nat /\ fit \in 0..Len(cells) /\ fit \in Nat
  BY CostSteps DEF IsFit
<1>2. CASE k <= fit
  <2>1. k \in 0..fit
    BY <1>1, <1>2
  <2>2. CostUpto(cells, k) <= CostUpto(cells, fit) /\ CostUpto(cells, fit) <= len
    BY <1>1, <2>1, CostGrows DEF IsFit
  <2>3. CostUpto(cells, k) \in Nat /\ CostUpto(cells, fit) \in Nat
    BY <1>1, CostSteps
  <2>4. QED
    BY <1>2, <2>2, <2>3
<1>3. CASE ~(k <= fit)
  <2>1. fit # Len(cells) /\ fit + 1 \in 0..k /\ fit + 1 \in 0..Len(cells)
    BY <1>1, <1>3
  <2>2. CostUpto(cells, fit + 1) <= CostUpto(cells, k) /\ CostUpto(cells, fit + 1) > len
    BY <2>1, CostGrows DEF IsFit
  <2>3. CostUpto(cells, k) \in Nat /\ CostUpto(cells, fit + 1) \in Nat
    BY <2>1, CostSteps
  <2>4. QED
    BY <1>3, <2>2, <2>3
<1>4. QED
  BY <1>2, <1>3

\* There is no other such number.
LEMMA FitOne ==
    ASSUME NEW cells, IsCells(cells), NEW len \in Nat, NEW a, IsFit(cells, len, a),
           NEW b, IsFit(cells, len, b)
    PROVE  a = b
<1>1. Len(cells) \in Nat /\ a \in 0..Len(cells) /\ b \in 0..Len(cells)
  BY CostSteps DEF IsFit
<1>2. (CostUpto(cells, a) <= len <=> a <= b) /\ (CostUpto(cells, b) <= len <=> b <= a)
  BY <1>1, FitIs
<1>3. a <= b /\ b <= a
  BY <1>2 DEF IsFit
<1>4. QED
  BY <1>1, <1>3

\* A round takes all, some, or some and a piece of the next.
LEMMA TakenIs ==
    ASSUME NEW cells, IsCells(cells), NEW max, IsRoom(max - Overhead)
    PROVE  \E fit : Takes(cells, max - Overhead, fit, Taken(cells, max))
<1> DEFINE l == Len(cells)
           len == max - Overhead
           S == { n \in 0..l : Used(cells, n) <= len }
           fit == Max(S)
           room == len - Used(cells, fit)
           t == Taken(cells, max)
           all == [cells |-> cells, n |-> fit, more |-> FALSE]
           cut == [cells |-> Split(cells, fit + 1, room), n |-> fit + 1, more |-> TRUE]
           some == [cells |-> cells, n |-> fit, more |-> TRUE]
<1>1. t = IF fit = l THEN all
          ELSE IF fit = 0 \/ room > len \div 8 THEN cut ELSE some
  BY DEF Taken, Used
<1>2. l \in Nat /\ \A k \in 0..l : Used(cells, k) = CostUpto(cells, k) /\ CostUpto(cells, k) \in Nat
  BY CostSteps, UsedUpto DEF CostUpto
<1>3. CostUpto(cells, 0) = 0 /\ len \in Nat /\ len \div 8 \in Nat
  BY CostSteps DEF IsRoom
<1> HIDE DEF t, len, l
<1>4. fit \in S /\ \A y \in S : fit >= y
  <2>1. S \in SUBSET (0..l) /\ 0 \in S
    BY <1>2, <1>3
  <2>2. S # {}
    BY <2>1
  <2> HIDE DEF S
  <2>3. QED
    BY <1>2, <2>1, <2>2, MaxIs
<1> HIDE DEF fit
<1>5. fit \in 0..l /\ CostUpto(cells, fit) <= len /\ CostUpto(cells, fit) \in Nat
      /\ Used(cells, fit) = CostUpto(cells, fit)
  BY <1>2, <1>4
<1>6. fit # l => CostUpto(cells, fit + 1) > len
  <2>1. SUFFICES ASSUME fit # l PROVE CostUpto(cells, fit + 1) > len
    OBVIOUS
  <2>2. fit + 1 \in 0..l /\ ~(fit >= fit + 1)
    BY <1>2, <1>5, <2>1
  <2>3. fit + 1 \notin S
    BY <1>4, <2>2
  <2>4. ~(CostUpto(cells, fit + 1) <= len) /\ CostUpto(cells, fit + 1) \in Nat
    BY <1>2, <2>2, <2>3
  <2>5. QED
    BY <1>3, <2>4
<1>7. IsFit(cells, len, fit)
  BY <1>5, <1>6 DEF IsFit, l
<1>8. room = len - CostUpto(cells, fit) /\ room \in Nat
  BY <1>3, <1>5
<1>9. CASE fit = l
  <2>1. t = all
    BY <1>1, <1>9
  <2>2. TakesAll(cells, len, fit, t)
    BY <1>9, <2>1 DEF TakesAll, l
  <2>3. QED
    BY <1>7, <2>2 DEF Takes, len, t
<1>10. CASE fit # l /\ (fit = 0 \/ room > len \div 8)
  <2>1. t = cut
    BY <1>1, <1>10
  <2>2. t = [cells |-> Split(cells, fit + 1, len - CostUpto(cells, fit)), n |-> fit + 1, more |-> TRUE]
    BY <1>8, <2>1
  <2>3. fit = 0 \/ len - CostUpto(cells, fit) > len \div 8
    BY <1>8, <1>10
  <2>4. TakesCut(cells, len, fit, t)
    BY <1>10, <2>2, <2>3 DEF TakesCut, l
  <2>5. QED
    BY <1>7, <2>4 DEF Takes, len, t
<1>11. CASE fit # l /\ ~(fit = 0 \/ room > len \div 8)
  <2>1. t = some
    BY <1>1, <1>11
  <2>2. fit # 0 /\ len - CostUpto(cells, fit) <= len \div 8
    BY <1>3, <1>8, <1>11
  <2>3. TakesSome(cells, len, fit, t)
    BY <1>11, <2>1, <2>2 DEF TakesSome, l
  <2>4. QED
    BY <1>7, <2>3 DEF Takes, len, t
<1>12. QED
  BY <1>9, <1>10, <1>11

\* The first n cells of two lists.
Alike(a, b, n) == \A i \in 1..n : a[i] = b[i]

\* Lists that begin alike cost alike.
LEMMA CostSame ==
    ASSUME NEW a, IsCells(a), NEW b, IsCells(b), NEW n \in Nat,
           n <= Len(a), n <= Len(b), Alike(a, b, n)
    PROVE  \A m \in 0..n : CostUpto(a, m) = CostUpto(b, m)
<1> DEFINE v == CostsOf(a)
           w == CostsOf(b)
<1>1. Len(a) \in Nat /\ Len(b) \in Nat
  BY DEF IsCells, IsSeq
<1>2. \A i \in 1..n : /\ v[i] = CellCost(a[i]) /\ w[i] = CellCost(b[i]) /\ w[i] \in Nat
                      /\ a[i] = b[i]
  <2> TAKE i \in 1..n
  <2>1. i \in 1..Len(a) /\ i \in 1..Len(b)
    BY <1>1
  <2>2. QED
    BY <2>1, CostsNat DEF Alike
<1>3. \A i \in 1..n : w[i] \in Nat
  BY <1>2
<1>4. \A i \in 1..n : v[i] = w[i]
  BY <1>2
<1> HIDE DEF v, w
<1>5. \A m \in 0..n : Upto(v, m) = Upto(w, m)
  BY <1>3, <1>4, UptoSame
<1>6. QED
  BY <1>5 DEF CostUpto, v, w

\* A cell cut to what is left of a part costs no more than that, and a chunk
\* header.
LEMMA PieceCost ==
    ASSUME NEW bb, IsCell(bb), NEW room \in Nat, room >= BlockSize
    PROVE  /\ bb.len <= AlignDown(room) => CellCost(bb) <= ChunkHeader + room
           /\ CellCost(FirstPiece(bb, room)) <= ChunkHeader + room
           /\ bb.type = "fill" => CellCost(FirstPiece(bb, room)) = CellCost(bb)
           /\ bb.type # "fill" =>
                 CellCost(FirstPiece(bb, room)) = ChunkHeader + AlignDown(room)
           /\ CellCost(bb) >= ChunkHeader + OneWord
           /\ FirstPiece(bb, room).len = AlignDown(room)
<1> DEFINE d == AlignDown(room)
           p == FirstPiece(bb, room)
           q == room \div BlockSize
           a == AlignUp(bb.len)
<1>1. BlockSize \in Nat \ {0} /\ ChunkHeader = 3 /\ OneWord = 1
  BY BlockSizeAssumption DEF ChunkHeader, OneWord
<1>2. d \in Nat /\ d <= room /\ d = q * BlockSize /\ q \in Nat /\ AlignUp(d) = d
  BY DownIs
<1>3. p.type = bb.type /\ p.len = d
  BY DEF FirstPiece, Cell
<1>4. bb.len \in Nat /\ bb.len # 0
  BY DEF IsCell
<1>5. a \in Nat /\ a >= 1
  <2>1. DivUp(bb.len) \in Nat /\ DivUp(bb.len) > 0
    BY <1>4, UpNat
  <2>2. a \in Nat
    BY <1>1, <2>1, Product DEF AlignUp
  <2>3. bb.len <= a
    BY <1>4, UpCovers DEF AlignUp
  <2> HIDE DEF a
  <2>4. QED
    BY <1>4, <2>2, <2>3
<1>6. bb.len <= d => a <= d
  <2>1. SUFFICES ASSUME bb.len <= d PROVE a <= d
    OBVIOUS
  <2>2. bb.len <= q * BlockSize
    BY <1>2, <2>1
  <2>3. AlignUp(bb.len) <= q * BlockSize
    BY <1>2, <1>4, <2>2, UpMonotone
  <2>4. QED
    BY <1>2, <2>3
<1> HIDE DEF d, p, q
<1>7. /\ bb.type = "fill" => CellCost(bb) = ChunkHeader + OneWord /\ CellCost(p) = ChunkHeader + OneWord
      /\ bb.type # "fill" => CellCost(bb) = ChunkHeader + a /\ CellCost(p) = ChunkHeader + d
  BY <1>2, <1>3 DEF CellCost
<1> HIDE DEF a
<1>8. CASE bb.type = "fill"
  BY <1>1, <1>2, <1>3, <1>7, <1>8 DEF p, d
<1>9. CASE bb.type # "fill"
  BY <1>1, <1>2, <1>3, <1>5, <1>6, <1>7, <1>9 DEF p, d
<1>10. QED
  BY <1>8, <1>9

\* What is cut, cell by cell.
LEMMA CutIs ==
    ASSUME NEW cells, IsCells(cells), NEW len, IsRoom(len), NEW fit, NEW t,
           IsFit(cells, len, fit), TakesCut(cells, len, fit, t), IsCells(t.cells)
    PROVE  /\ fit + 1 \in 1..Len(cells) /\ fit \in 0..Len(cells) /\ fit \in Nat
           /\ fit + 1 \in 1..Len(t.cells)
           /\ len - CostUpto(cells, fit) \in Nat /\ len - CostUpto(cells, fit) >= BlockSize
           /\ Alike(t.cells, cells, fit)
           /\ CostUpto(t.cells, fit) = CostUpto(cells, fit)
           /\ CostUpto(t.cells, fit + 1) = CostUpto(cells, fit) + CellCost(t.cells[fit + 1])
           /\ IF cells[fit + 1].len <= AlignDown(len - CostUpto(cells, fit))
              THEN t.cells = cells
              ELSE InTwo(cells, fit + 1, len - CostUpto(cells, fit), t.cells)
<1> DEFINE room == len - CostUpto(cells, fit)
           u == t.cells
<1>1. Len(cells) \in Nat /\ fit \in 0..Len(cells) /\ fit # Len(cells)
  BY CostSteps DEF IsFit, TakesCut
<1>2. fit + 1 \in 1..Len(cells) /\ fit \in Nat
  BY <1>1
<1>3. room \in Nat
  <2>1. CostUpto(cells, fit) \in Nat /\ CostUpto(cells, fit) <= len /\ len \in Nat
    BY <1>1, CostSteps DEF IsFit, IsRoom
  <2>2. QED
    BY <2>1
<1>4. room >= BlockSize
  <2>1. BlockSize \in Nat
    BY BlockSizeAssumption
  <2>2. CASE fit = 0
    <3>1. CostUpto(cells, fit) = 0
      BY <2>2, CostSteps
    <3>2. QED
      BY <2>1, <3>1 DEF IsRoom
  <2>3. CASE room > len \div 8
    <3>1. len \div 8 \in Nat /\ len \div 8 + 1 >= BlockSize
      BY DEF IsRoom
    <3> DEFINE e == len \div 8
    <3> HIDE DEF e, room
    <3>2. e \in Nat /\ e + 1 >= BlockSize /\ room > e
      BY <2>3, <3>1 DEF e
    <3>3. QED
      BY <1>3, <2>1, <3>2
  <2>4. QED
    BY <2>2, <2>3 DEF TakesCut
<1>5. u = Split(cells, fit + 1, room)
  BY DEF TakesCut
<1> HIDE DEF room, u
<1>6. /\ cells[fit + 1].len <= AlignDown(room) => u = cells
      /\ ~(cells[fit + 1].len <= AlignDown(room)) => InTwo(cells, fit + 1, room, u)
  BY <1>2, <1>3, <1>5, SplitIs
<1>7. fit + 1 \in 1..Len(u) /\ Alike(u, cells, fit)
  <2>1. CASE u = cells
    BY <1>2, <2>1 DEF Alike
  <2>2. CASE InTwo(cells, fit + 1, room, u)
    <3>1. (fit + 1) - 1 = fit
      BY <1>2
    <3>2. QED
      BY <1>1, <1>2, <2>2, <3>1 DEF InTwo, Alike
  <2>3. QED
    BY <1>6, <2>1, <2>2
<1>8. CostUpto(u, fit) = CostUpto(cells, fit)
  <2>1. IsCells(u) /\ fit <= Len(u) /\ fit <= Len(cells) /\ fit \in 0..fit
    <3>1. IsCells(u)
      BY DEF u
    <3>2. Len(u) \in Nat
      BY <3>1, CostSteps
    <3>3. QED
      BY <1>1, <1>2, <1>7, <3>1, <3>2
  <2>2. \A m \in 0..fit : CostUpto(u, m) = CostUpto(cells, m)
    BY <1>2, <1>7, <2>1, CostSame
  <2>3. QED
    BY <2>1, <2>2
<1>9. CostUpto(u, fit + 1) = CostUpto(u, fit) + CellCost(u[fit + 1])
  <2>1. IsCells(u) /\ (fit + 1) - 1 = fit
    BY <1>2 DEF u
  <2>2. CostUpto(u, fit + 1) = CostUpto(u, (fit + 1) - 1) + CellCost(u[fit + 1])
    BY <1>7, <2>1, CostSteps
  <2>3. QED
    BY <2>1, <2>2
<1>10. QED
  BY <1>1, <1>2, <1>3, <1>4, <1>6, <1>7, <1>8, <1>9 DEF room, u

\* A part costs no more than there is room for, and a chunk header.
LEMMA TakenCost ==
    ASSUME NEW cells, IsCells(cells), NEW len, IsRoom(len), NEW fit, NEW t,
           Takes(cells, len, fit, t), IsCells(t.cells)
    PROVE  CostUpto(t.cells, t.n) <= len + ChunkHeader
<1>1. len \in Nat /\ ChunkHeader \in Nat /\ IsFit(cells, len, fit)
  BY DEF IsRoom, ChunkHeader, Takes
<1>2. fit \in 0..Len(cells) /\ CostUpto(cells, fit) <= len /\ CostUpto(cells, fit) \in Nat
  BY <1>1, CostSteps DEF IsFit
<1>3. CASE TakesAll(cells, len, fit, t) \/ TakesSome(cells, len, fit, t)
  <2>1. t.cells = cells /\ t.n = fit
    BY <1>3 DEF TakesAll, TakesSome
  <2>2. QED
    BY <1>1, <1>2, <2>1
<1>4. CASE TakesCut(cells, len, fit, t)
  <2> DEFINE room == len - CostUpto(cells, fit)
             u == t.cells
             bb == cells[fit + 1]
  <2>1. /\ fit + 1 \in 1..Len(cells) /\ room \in Nat /\ room >= BlockSize
        /\ CostUpto(u, fit + 1) = CostUpto(cells, fit) + CellCost(u[fit + 1])
        /\ bb.len <= AlignDown(room) => u = cells
        /\ ~(bb.len <= AlignDown(room)) => InTwo(cells, fit + 1, room, u)
        /\ fit + 1 \in 1..Len(u)
    BY <1>1, <1>4, CutIs
  <2>2. t.n = fit + 1
    BY <1>4 DEF TakesCut
  <2>3. IsCell(bb)
    BY <2>1 DEF IsCells
  <2>4. CellCost(u[fit + 1]) \in Nat
    BY <2>1, CostSteps
  <2> HIDE DEF room, u
  <2>5. CellCost(u[fit + 1]) <= ChunkHeader + room
    <3>1. CASE bb.len <= AlignDown(room)
      <4>1. u[fit + 1] = bb
        BY <2>1, <3>1
      <4> HIDE DEF bb
      <4>2. QED
        BY <2>1, <2>3, <3>1, <4>1, PieceCost
    <3>2. CASE ~(bb.len <= AlignDown(room))
      <4>1. u[fit + 1] = FirstPiece(bb, room)
        BY <2>1, <3>2 DEF InTwo
      <4> HIDE DEF bb
      <4>2. QED
        BY <2>1, <2>3, <4>1, PieceCost
    <3>3. QED
      BY <3>1, <3>2
  <2>6. CostUpto(u, t.n) = CostUpto(cells, fit) + CellCost(u[fit + 1])
    BY <2>1, <2>2
  <2>7. room = len - CostUpto(cells, fit)
    BY DEF room
  <2>8. CostUpto(u, t.n) <= len + ChunkHeader
    BY <1>1, <1>2, <2>1, <2>4, <2>5, <2>6, <2>7
  <2>9. QED
    BY <2>8 DEF u
<1>5. QED
  BY <1>3, <1>4 DEF Takes

-----------------------------------------------------------------------------
(* The length of a part. *)

\* The gaps between the first k cells.
GapsIn(cells, k) == { j \in 2..k : EndBlock(cells[j - 1]) < cells[j].block }
Gaps(cells, k) == Cardinality(GapsIn(cells, k))

\* One cell more is one gap more or none.
LEMMA GapSteps ==
    ASSUME NEW cells, IsCells(cells)
    PROVE  /\ \A k \in 0..Len(cells) : Gaps(cells, k) \in Nat
           /\ Gaps(cells, 0) = 0 /\ Gaps(cells, 1) = 0
           /\ \A k \in 2..Len(cells) :
                 Gaps(cells, k) = Gaps(cells, k - 1) + (IF IsGap(cells, k) THEN 1 ELSE 0)
<1>1. Len(cells) \in Nat
  BY DEF IsCells, IsSeq
<1>2. ASSUME NEW k \in Nat PROVE IsFiniteSet(GapsIn(cells, k)) /\ Gaps(cells, k) \in Nat
  <2>1. 2 \in Int /\ k \in Int /\ GapsIn(cells, k) \in SUBSET (2..k)
    BY DEF GapsIn
  <2>2. IsFiniteSet(2..k)
    BY <2>1, FS_Interval
  <2>3. IsFiniteSet(GapsIn(cells, k))
    BY <2>1, <2>2, FS_Subset
  <2>4. QED
    BY <2>3, FS_CardinalityType DEF Gaps
<1>3. GapsIn(cells, 0) = {} /\ GapsIn(cells, 1) = {}
  BY DEF GapsIn
<1>4. Gaps(cells, 0) = 0 /\ Gaps(cells, 1) = 0
  BY <1>3, FS_EmptySet DEF Gaps
<1>5. ASSUME NEW k \in 2..Len(cells)
      PROVE  Gaps(cells, k) = Gaps(cells, k - 1) + (IF IsGap(cells, k) THEN 1 ELSE 0)
  <2>1. k \in Nat /\ k - 1 \in Nat /\ k - 1 # 0 /\ k \in 1..Len(cells) /\ k - 1 \in 1..Len(cells)
        /\ k \notin 2..(k - 1) /\ 2..k = (2..(k - 1)) \cup {k}
    BY <1>1
  <2>2. IsGap(cells, k) <=> cells[k].block > EndBlock(cells[k - 1])
    BY <2>1 DEF IsGap, EndOf
  <2>3. cells[k].block \in Nat /\ EndBlock(cells[k - 1]) \in Nat
    <3>1. IsCell(cells[k]) /\ IsCell(cells[k - 1])
      BY <2>1 DEF IsCells
    <3>2. QED
      BY <3>1, EndNat DEF IsCell
  <2>4. IsGap(cells, k) <=> EndBlock(cells[k - 1]) < cells[k].block
    BY <2>2, <2>3
  <2>5. CASE IsGap(cells, k)
    <3>1. GapsIn(cells, k) = GapsIn(cells, k - 1) \cup {k} /\ k \notin GapsIn(cells, k - 1)
      BY <2>1, <2>4, <2>5 DEF GapsIn
    <3>2. Cardinality(GapsIn(cells, k - 1) \cup {k}) = Cardinality(GapsIn(cells, k - 1)) + 1
      BY <1>2, <2>1, <3>1, FS_AddElement
    <3>3. QED
      BY <2>5, <3>1, <3>2 DEF Gaps
  <2>6. CASE ~IsGap(cells, k)
    <3>1. GapsIn(cells, k) = GapsIn(cells, k - 1)
      BY <2>1, <2>4, <2>6 DEF GapsIn
    <3>2. Gaps(cells, k) = Gaps(cells, k - 1) /\ Gaps(cells, k - 1) \in Nat
      BY <1>2, <2>1, <3>1 DEF Gaps
    <3>3. QED
      BY <2>6, <3>2
  <2>7. QED
    BY <2>5, <2>6
<1>6. QED
  BY <1>1, <1>2, <1>4, <1>5

\* The chunks of a list of cells have costs.
LEMMA ChunkCostsNat ==
    ASSUME NEW c, IsCells(c.list.cells), c.len \in Nat, NEW q, Written(q, c)
    PROVE  AreNats(ChunkCosts(q), Len(q)) /\ Len(q) \in Nat
<1>1. \A i \in 1..Len(q) : ChunkCosts(q)[i] = ChunkCost(q[i])
  BY DEF ChunkCosts
<1>2. ASSUME NEW i \in 1..Len(q) PROVE ChunkCost(q[i]) \in Nat
  <2>1. CASE \E j \in 1..Len(c.list.cells) : q[i] = ChunkOf(c.list.cells[j])
    <3>1. PICK j \in 1..Len(c.list.cells) : q[i] = ChunkOf(c.list.cells[j])
      BY <2>1
    <3>2. IsCell(c.list.cells[j])
      BY DEF IsCells
    <3>3. QED
      BY <3>1, <3>2, CostOfChunk, CostNat
  <2>2. CASE \E b \in Nat \ {0} : q[i] = Skip(b)
    BY <2>2, CostOfSkip DEF ChunkHeader
  <2>3. QED
    BY <2>1, <2>2, ChunkAt
<1>3. QED
  BY <1>1, <1>2 DEF AreNats, Written, IsSeq

\* Cell by cell: what it costs, and a chunk header for the gap before it.
LEMMA LengthUpto ==
    ASSUME NEW c, IsCells(c.list.cells), c.len \in Nat, NEW q, Written(q, c)
    PROVE  /\ Upto(ChunkCosts(q), Len(q)) \in Nat
           /\ Upto(ChunkCosts(q), Len(q))
                <= CostUpto(c.list.cells, Len(c.list.cells))
                   + 3 * Gaps(c.list.cells, Len(c.list.cells)) + 6
<1> DEFINE cells == c.list.cells
           n == Len(cells)
           w == ChunkCosts(q)
           l == Len(q)
           U(m) == Upto(w, m)
           P(k) == Place(cells, k)
           C(k) == CostUpto(cells, k)
           G(k) == Gaps(cells, k)
<1>1. /\ n \in Nat /\ l \in Nat /\ IsCells(cells)
      /\ \A i \in 1..l : w[i] \in Nat
  BY ChunkCostsNat, CostSteps DEF AreNats
<1>2. /\ U(0) = 0 /\ \A m \in 0..l : U(m) \in Nat
      /\ \A m \in 1..l : U(m) = U(m - 1) + w[m]
  <2> HIDE DEF w, l
  <2>1. QED
    BY <1>1, UptoSteps
<1>3. /\ P(0) = 0 /\ \A k \in 0..n : P(k) \in Nat /\ P(k) <= P(n)
      /\ \A k \in 1..n : /\ IsGap(cells, k) => P(k) = P(k - 1) + 2
                         /\ ~IsGap(cells, k) => P(k) = P(k - 1) + 1
  <2> HIDE DEF n
  <2>0. n = Len(cells) /\ n \in 0..n
    BY <1>1 DEF n
  <2> HIDE DEF cells
  <2>1. QED
    BY <1>1, <2>0, Places
<1>4. l = P(n) + (IF IsPad(c) THEN 1 ELSE 0)
  BY DEF Written
<1>5. ASSUME NEW k \in 1..n
      PROVE  w[P(k)] = CellCost(cells[k]) /\ (IsGap(cells, k) => w[P(k) - 1] = 3)
  <2>0. k \in Nat /\ k - 1 \in 0..n /\ k \in 0..n /\ n \in 0..n
    BY <1>1
  <2>1. /\ q[P(k)] = ChunkOf(cells[k]) /\ IsCell(cells[k])
        /\ IsGap(cells, k) => q[P(k) - 1] = Skip(GapOf(cells, k))
    BY DEF Written, IsCells
  <2>2. P(k) \in 1..l /\ (IsGap(cells, k) => P(k) - 1 \in 1..l)
    <3> HIDE DEF P, l, n
    <3>1. P(k) \in Nat /\ P(k - 1) \in Nat /\ P(n) \in Nat /\ P(k) <= P(n)
          /\ (IsGap(cells, k) => P(k) = P(k - 1) + 2)
          /\ (~IsGap(cells, k) => P(k) = P(k - 1) + 1)
      BY <1>3, <2>0
    <3>2. l >= P(n) /\ l \in Nat
      BY <1>1, <1>4, <3>1
    <3>3. QED
      BY <3>1, <3>2
  <2>3. \A i \in 1..l : w[i] = ChunkCost(q[i])
    BY DEF ChunkCosts
  <2>4. w[P(k)] = CellCost(cells[k])
    <3> HIDE DEF P, l, w
    <3>1. QED
      BY <2>1, <2>2, <2>3, CostOfChunk
  <2>5. ASSUME IsGap(cells, k) PROVE w[P(k) - 1] = 3
    <3> HIDE DEF P, l, w
    <3>1. QED
      BY <2>1, <2>2, <2>3, <2>5, CostOfSkip DEF ChunkHeader
  <2>6. QED
    BY <2>4, <2>5
<1>6. /\ C(0) = 0 /\ \A k \in 0..n : C(k) \in Nat
      /\ \A k \in 1..n : C(k) = C(k - 1) + CellCost(cells[k]) /\ CellCost(cells[k]) \in Nat
  BY CostSteps
<1>7. /\ G(0) = 0 /\ G(1) = 0 /\ \A k \in 0..n : G(k) \in Nat
      /\ \A k \in 2..n : G(k) = G(k - 1) + (IF IsGap(cells, k) THEN 1 ELSE 0)
  BY GapSteps
<1>8. IsPad(c) => w[l] = 3
  <2>1. SUFFICES ASSUME IsPad(c) PROVE w[l] = 3
    OBVIOUS
  <2>2. q[l] = Skip(Pad(c) \div BlockSize)
    BY <2>1 DEF Written
  <2>3. l \in 1..l
    <3> HIDE DEF P, l, n
    <3>1. n \in 0..n
      BY <1>1
    <3>2. P(n) \in Nat
      BY <1>3, <3>1
    <3>3. QED
      BY <1>4, <2>1, <3>2
  <2>4. \A i \in 1..l : w[i] = ChunkCost(q[i])
    BY DEF ChunkCosts
  <2> HIDE DEF w, l
  <2>5. QED
    BY <2>2, <2>3, <2>4, CostOfSkip DEF ChunkHeader
<1> HIDE DEF cells, n, w, l, U, P, C, G
<1> DEFINE T == { k \in Nat : k <= n => U(P(k)) <= C(k) + 3 * G(k) + (IF k = 0 THEN 0 ELSE 3) }
<1>9. 0 \in T
  BY <1>2, <1>3, <1>6, <1>7
<1>10. ASSUME NEW k \in Nat, k \in T PROVE k + 1 \in T
  <2>1. SUFFICES ASSUME k + 1 <= n PROVE U(P(k + 1)) <= C(k + 1) + 3 * G(k + 1) + 3
    OBVIOUS
  <2> DEFINE m == k + 1
  <2>2. /\ m \in 1..n /\ m - 1 = k /\ k \in 0..n /\ m \in 0..n /\ n \in 0..n
        /\ U(P(k)) <= C(k) + 3 * G(k) + (IF k = 0 THEN 0 ELSE 3)
    BY <1>1, <1>10, <2>1
  <2> HIDE DEF m
  <2>3. /\ P(m) \in Nat /\ P(k) \in Nat /\ P(n) \in Nat /\ P(m) <= P(n)
        /\ IsGap(cells, m) => P(m) = P(k) + 2
        /\ ~IsGap(cells, m) => P(m) = P(k) + 1
    BY <1>3, <2>2
  <2>4. l >= P(n) /\ l \in Nat
    BY <1>1, <1>4, <2>3
  <2>5. /\ P(m) \in 1..l /\ P(k) \in 0..l /\ P(m) - 1 \in 0..l
        /\ IsGap(cells, m) => P(m) - 1 \in 1..l /\ (P(m) - 1) - 1 = P(k)
        /\ ~IsGap(cells, m) => P(m) - 1 = P(k)
    BY <2>3, <2>4
  <2>6. /\ U(P(m)) = U(P(m) - 1) + CellCost(cells[m])
        /\ U(P(k)) \in Nat /\ U(P(m)) \in Nat /\ U(P(m) - 1) \in Nat
    BY <1>2, <1>5, <2>2, <2>5
  <2>7. IsGap(cells, m) => U(P(m) - 1) = U(P(k)) + 3
    BY <1>2, <1>5, <2>2, <2>5
  <2>8. ~IsGap(cells, m) => U(P(m) - 1) = U(P(k))
    BY <2>5
  <2>9. C(m) = C(k) + CellCost(cells[m]) /\ C(k) \in Nat /\ CellCost(cells[m]) \in Nat
    BY <1>6, <2>2
  <2>10. /\ G(m) \in Nat /\ G(k) \in Nat
         /\ k = 0 => G(m) = 0 /\ G(k) = 0
         /\ k # 0 => G(m) = G(k) + (IF IsGap(cells, m) THEN 1 ELSE 0)
    <3>1. k = 0 => m = 1
      BY DEF m
    <3>2. k # 0 => m \in 2..n
      BY <2>2 DEF m
    <3>3. QED
      BY <1>7, <2>2, <3>1, <3>2
  <2>11. U(P(m)) <= C(m) + 3 * G(m) + 3
    <3> DEFINE um == U(P(m))
               uk == U(P(k))
               ul == U(P(m) - 1)
               gm == G(m)
               gk == G(k)
               cm == C(m)
               ck == C(k)
               cc == CellCost(cells[m])
    <3>1. /\ um = ul + cc /\ uk \in Nat /\ um \in Nat /\ ul \in Nat /\ cm = ck + cc
          /\ ck \in Nat /\ cc \in Nat /\ gm \in Nat /\ gk \in Nat
          /\ uk <= ck + 3 * gk + (IF k = 0 THEN 0 ELSE 3)
          /\ k = 0 => gm = 0 /\ gk = 0
      BY <2>2, <2>6, <2>9, <2>10
    <3>2. CASE IsGap(cells, m)
      <4>1. ul = uk + 3 /\ (k # 0 => gm = gk + 1)
        BY <2>7, <2>10, <3>2
      <4> HIDE DEF um, uk, ul, gm, gk, cm, ck, cc
      <4>2. um <= cm + 3 * gm + 3
        BY <3>1, <4>1
      <4>3. QED
        BY <4>2 DEF um, cm, gm
    <3>3. CASE ~IsGap(cells, m)
      <4>1. ul = uk /\ (k # 0 => gm = gk)
        BY <2>8, <2>10, <3>3
      <4> HIDE DEF um, uk, ul, gm, gk, cm, ck, cc
      <4>2. um <= cm + 3 * gm + 3
        BY <3>1, <4>1
      <4>3. QED
        BY <4>2 DEF um, cm, gm
    <3>4. QED
      BY <3>2, <3>3
  <2>12. QED
    BY <2>11 DEF m
<1>11. U(P(n)) <= C(n) + 3 * G(n) + 3
  <2>1. n \in T
    <3> HIDE DEF T
    <3>1. Nat \subseteq T
      BY <1>9, <1>10, FromZero
    <3>2. QED
      BY <1>1, <3>1
  <2>2. n \in 0..n
    BY <1>1
  <2>3. C(n) \in Nat /\ G(n) \in Nat /\ P(n) \in Nat
    BY <1>3, <1>6, <1>7, <2>2
  <2>4. P(n) \in 0..l
    BY <1>1, <1>4, <2>3
  <2>5. U(P(n)) \in Nat
    BY <1>2, <2>4
  <2>6. QED
    BY <2>1, <2>3, <2>5
<1>12. U(l) \in Nat /\ U(l) <= C(n) + 3 * G(n) + 6
  <2>1. C(n) \in Nat /\ G(n) \in Nat /\ P(n) \in Nat /\ P(n) \in 0..l
    <3>1. n \in 0..n
      BY <1>1
    <3>2. C(n) \in Nat /\ G(n) \in Nat /\ P(n) \in Nat
      BY <1>3, <1>6, <1>7, <3>1
    <3>3. QED
      BY <1>1, <1>4, <3>2
  <2>2. U(P(n)) \in Nat /\ U(l) \in Nat
    BY <1>1, <1>2, <2>1
  <2>3. CASE ~IsPad(c)
    BY <1>4, <1>11, <2>1, <2>2, <2>3
  <2>4. CASE IsPad(c)
    <3>1. l \in 1..l /\ l - 1 = P(n) /\ w[l] = 3
      BY <1>4, <1>8, <2>1, <2>4
    <3>2. U(l) = U(P(n)) + 3
      BY <1>2, <3>1
    <3>3. QED
      BY <1>11, <2>1, <2>2, <3>2
  <2>5. QED
    BY <2>3, <2>4
<1>13. QED
  BY <1>12 DEF cells, n, w, l, U, C, G

\* A sparse file is not much longer than its cells cost.
LEMMA LengthBound ==
    ASSUME NEW c, IsCells(c.list.cells), c.len \in Nat
    PROVE  /\ SparseLen(c) \in Nat
           /\ SparseLen(c) <= CostUpto(c.list.cells, Len(c.list.cells))
                              + 3 * Gaps(c.list.cells, Len(c.list.cells)) + 13
<1> DEFINE q == ChunksOf(c)
           u == Upto(ChunkCosts(q), Len(q))
<1>1. Written(q, c)
  BY ChunksWritten
<1>2. IsSeq(q) /\ AreNats(ChunkCosts(q), Len(q))
  <2>1. IsSeq(q)
    BY <1>1 DEF Written
  <2> HIDE DEF q
  <2>2. QED
    BY <1>1, <2>1, ChunkCostsNat
<1>3. SparseLen(c) = FileHeader + u
  <2>1. FoldLeft(LAMBDA n, k : n + ChunkHeader + CASE k.kind = "fill" -> OneWord
                                                     [] k.kind = "raw" -> Len(k.data)
                                                     [] OTHER -> 0,
                 0, q) = u
    <3> HIDE DEF q
    <3>1. QED
      BY <1>2, LengthIs
  <2>2. QED
    BY <2>1, Zenon DEF SparseLen
<1>4. /\ u \in Nat
      /\ u <= CostUpto(c.list.cells, Len(c.list.cells))
              + 3 * Gaps(c.list.cells, Len(c.list.cells)) + 6
  <2> HIDE DEF q
  <2>1. QED
    BY <1>1, LengthUpto
<1> HIDE DEF u
<1>5. /\ CostUpto(c.list.cells, Len(c.list.cells)) \in Nat
      /\ Gaps(c.list.cells, Len(c.list.cells)) \in Nat
  <2>1. Len(c.list.cells) \in 0..Len(c.list.cells)
    BY CostSteps
  <2>2. QED
    BY <2>1, CostSteps, GapSteps
<1>6. QED
  BY <1>3, <1>4, <1>5 DEF FileHeader

-----------------------------------------------------------------------------
(* Where a round's cells go. *)

\* The first n of q behind p; the others of q.
PutBehind(p, q, n, r) ==
    /\ IsSeq(r) /\ Len(r) = Len(p) + n
    /\ \A i \in 1..Len(p) : r[i] = p[i]
    /\ \A i \in 1..n : r[Len(p) + i] = q[i]
LeftOf(q, n, r) ==
    /\ IsSeq(r) /\ Len(r) = Len(q) - n
    /\ \A i \in 1..(Len(q) - n) : r[i] = q[n + i]

\* What lies behind all cells of a list is put behind them.
LEMMA MovedBehind ==
    ASSUME NEW from, IsList(from), NEW n \in 0..Len(from.cells), NEW to, IsList(to),
           NEW b \in Nat, From(from.cells, b), Within(to.cells, b)
    PROVE  PutBehind(to.cells, from.cells, n, MovedTo(from, n, to).cells)
<1> DEFINE q == from.cells
           p == to.cells
           l == Len(p)
<1>1. /\ l \in Nat /\ IsSeq(p) /\ IsSeq(q) /\ Len(q) \in Nat /\ n \in Nat
      /\ \A i \in 1..l : /\ p[i].block \in Nat /\ EndBlock(p[i]) \in Nat
                         /\ p[i].block < EndBlock(p[i]) /\ EndBlock(p[i]) <= b
  <2>1. \A i \in 1..l : EndBlock(p[i]) <= b
    BY DEF Within
  <2>2. Len(q) \in Nat
    BY ListParts
  <2>3. n \in Nat
    BY <2>2
  <2>4. QED
    BY <2>1, <2>2, <2>3, ListParts
<1>2. CASE n = 0
  <2>1. MovedTo(from, n, to) = to
    BY <1>2 DEF MovedTo
  <2> HIDE DEF q, p
  <2>2. PutBehind(p, q, n, p)
    BY <1>1, <1>2 DEF PutBehind
  <2>3. QED
    BY <2>1, <2>2 DEF p, q
<1>3. CASE n # 0
  <2> DEFINE run == SubSeq(q, 1, n)
             at == IF p = << >> THEN 0 ELSE Before(p, 1, Head(run).block + 1)
             a == SubSeq(p, 1, at)
             z == SubSeq(p, at + 1, l)
             m == [cells |-> a \o run \o z, hint |-> 0, dangling |-> FALSE]
  <2>1. MovedTo(from, n, to) = m
    BY <1>3, EmptyWith DEF MovedTo
  <2> HIDE DEF run, at, a, z
  <2>1a. m.cells = a \o run \o z
    OBVIOUS
  <2> HIDE DEF m
  <2>2. MovedTo(from, n, to).cells = a \o run \o z
    BY <2>1, <2>1a, Zenon
  <2> USE DEF run, at, a, z
  <2>3. IsSeq(run) /\ Len(run) = n /\ \A i \in 1..n : run[i] = q[i]
    <3>1. n \in 0..Len(q)
      OBVIOUS
    <3> HIDE DEF q
    <3>2. QED
      BY <1>1, <3>1, Begun
  <2>4. Head(run).block \in Nat /\ b <= Head(run).block
    <3>1. 1 \in 1..Len(q) /\ 1 \in 1..Len(run) /\ 1 \in 1..n
      BY <1>1, <1>3, <2>3
    <3>2. q[1].block \in Nat /\ b <= q[1].block
      BY <3>1, ListParts DEF From
    <3> HIDE DEF run, q
    <3>3. Head(run) = run[1]
      BY <2>3, <3>1, HeadIs
    <3>4. QED
      BY <2>3, <3>1, <3>2, <3>3
  <2>5. at = l
    <3>1. CASE p = << >>
      <4>1. l = 0
        BY <1>1, <3>1, Empty DEF l
      <4>2. QED
        BY <3>1, <4>1 DEF at
    <3>2. CASE p # << >>
      <4> DEFINE h == Head(run).block + 1
      <4>1. l # 0 /\ 1 \in 1..l
        <5>1. l # 0
          BY <1>1, <3>2, Empty DEF l
        <5>2. QED
          BY <1>1, <5>1
      <4> HIDE DEF run
      <4>2. h \in Nat /\ b < h
        BY <2>4
      <4>3. at = Before(p, 1, h)
        BY <3>2 DEF at
      <4>4. IsCells(p)
        BY DEF IsList, IsOrdered
      <4> HIDE DEF h, p
      <4>5. at \in 1..l /\ (at = l \/ p[at + 1].block >= h)
        BY <1>1, <4>1, <4>2, <4>3, <4>4, BeforeIs DEF l
      <4>6. ASSUME at # l PROVE FALSE
        <5>1. at + 1 \in 1..l
          BY <1>1, <4>5, <4>6
        <5>2. QED
          BY <1>1, <4>2, <4>5, <4>6, <5>1
      <4>7. QED
        BY <4>6
    <3>3. QED
      BY <3>1, <3>2
  <2> HIDE DEF run, at
  <2>6. /\ IsSeq(a) /\ Len(a) = l /\ (\A i \in 1..l : a[i] = p[i])
        /\ IsSeq(z) /\ Len(z) = 0
    <3>1. at \in 0..Len(p) /\ Len(p) - at = 0
      BY <1>1, <2>5
    <3> HIDE DEF p
    <3>2. /\ IsSeq(a) /\ Len(a) = at /\ (\A i \in 1..at : a[i] = p[i])
      BY <1>1, <3>1, Begun
    <3>3. IsSeq(z) /\ Len(z) = Len(p) - at
      BY <1>1, <3>1, Rest DEF l
    <3>4. QED
      BY <2>5, <3>1, <3>2, <3>3
  <2> HIDE DEF a, z
  <2> DEFINE ar == a \o run
             t == ar \o z
  <2>7. AreJoined(a, run, ar)
    BY <2>3, <2>6, JoinedAs
  <2>8. AreJoined(ar, z, t)
    <3>1. IsSeq(ar)
      BY <2>7 DEF AreJoined
    <3> HIDE DEF ar
    <3>2. QED
      BY <2>6, <3>1, JoinedAs
  <2>9. MovedTo(from, n, to).cells = t
    BY <2>2
  <2> HIDE DEF t, ar
  <2>10. /\ IsSeq(ar) /\ Len(ar) = l + n
         /\ (\A i \in 1..l : ar[i] = p[i])
         /\ (\A i \in 1..n : ar[l + i] = q[i])
    BY <2>3, <2>6, <2>7 DEF AreJoined
  <2>11. /\ IsSeq(t) /\ Len(t) = l + n /\ \A i \in 1..(l + n) : t[i] = ar[i]
    <3>1. Len(t) = (l + n) + 0 /\ IsSeq(t) /\ \A i \in 1..(l + n) : t[i] = ar[i]
      BY <2>6, <2>8, <2>10 DEF AreJoined
    <3>2. QED
      BY <1>1, <3>1
  <2>12. PutBehind(p, q, n, t)
    <3>1. \A i \in 1..l : i \in 1..(l + n)
      BY <1>1
    <3>2. \A i \in 1..n : l + i \in 1..(l + n)
      BY <1>1
    <3>3. QED
      BY <2>10, <2>11, <3>1, <3>2 DEF PutBehind
  <2>13. QED
    BY <2>9, <2>12
<1>4. QED
  BY <1>2, <1>3

\* A round of simg2simg, cell by cell.
LEMMA RoundMoves ==
    ASSUME NEW l, IsList(l), NEW t, IsTaken(l.cells, t), NEW to, IsList(to),
           NEW b \in Nat, From(l.cells, b), Within(to.cells, b)
    PROVE  LET from == [l EXCEPT !.cells = t.cells]
           IN  /\ LeftOf(t.cells, t.n, MovedFrom(from, t.n).cells)
               /\ PutBehind(to.cells, t.cells, t.n, MovedTo(from, t.n, to).cells)
               /\ IsCells(t.cells)
<1> DEFINE from == [l EXCEPT !.cells = t.cells]
           left == MovedFrom(from, t.n)
           kept == MovedTo(from, t.n, to)
<1>1. /\ IsOrdered(t.cells) /\ Len(t.cells) \in Nat /\ t.n \in 0..Len(t.cells)
      /\ From(t.cells, b) /\ Len(l.cells) <= Len(t.cells)
  BY DEF IsTaken
<1>2. IsList(from) /\ from.cells = t.cells
  <2>1. from = [cells |-> t.cells, hint |-> l.hint, dangling |-> l.dangling]
    BY DEF IsList
  <2>2. l.hint \in 0..Len(t.cells) /\ l.dangling \in BOOLEAN
    <3>1. l.hint \in 0..Len(l.cells) /\ Len(l.cells) \in Nat /\ l.dangling \in BOOLEAN
      BY ListParts DEF IsList
    <3>2. QED
      BY <1>1, <3>1
  <2> HIDE DEF from
  <2>3. QED
    BY <1>1, <2>1, <2>2, ListOf
<1>3. IsSeq(t.cells) /\ IsCells(t.cells)
  BY <1>1 DEF IsOrdered, IsCells
<1> HIDE DEF from
<1>4. PutBehind(to.cells, t.cells, t.n, kept.cells)
  BY <1>1, <1>2, MovedBehind
<1>5. LeftOf(t.cells, t.n, left.cells)
  <2> DEFINE q == t.cells
             n == t.n
             r == SubSeq(q, n + 1, Len(q))
  <2>1. /\ n # 0 => left.cells = r
        /\ n = 0 => left.cells = q
    BY <1>1, <1>2, MovedFromKeeps
  <2>2. n \in 0..Len(q) /\ Len(q) \in Nat /\ IsSeq(q)
    BY <1>1, <1>3
  <2> HIDE DEF q, n
  <2>3. LeftOf(q, n, r)
    BY <2>2, Rest DEF LeftOf
  <2>4. n = 0 => LeftOf(q, n, q)
    BY <2>2 DEF LeftOf
  <2> HIDE DEF r
  <2>5. LeftOf(q, n, left.cells)
    BY <2>1, <2>3, <2>4
  <2>6. QED
    BY <2>5 DEF q, n
<1>6. QED
  BY <1>3, <1>4, <1>5 DEF left, kept, from

-----------------------------------------------------------------------------
(* The parts fit. *)

\* What a part's cells cost.
Fits(p, max) ==
    /\ IsCells(p.list.cells) /\ p.len \in Nat
    /\ CostUpto(p.list.cells, Len(p.list.cells)) <= max - Overhead + ChunkHeader

Uncut == {"queue", "written", "imported", "appended", "first"}

FitInv ==
    /\ IsSeq(parts) /\ Len(parts) \in Nat
    /\ \A i \in 1..Len(parts) : Fits(parts[i], limit)
    /\ phase \in Uncut => Len(parts) = 0

\* A part that fits is shorter than it was asked to be, but for its gaps.
LEMMA FitsIs ==
    ASSUME NEW p, NEW max \in Nat, Fits(p, max)
    PROVE  SparseLen(p) + ChunkHeader < max + ChunkHeader * Cardinality(
               { j \in 2..Len(p.list.cells) :
                     EndBlock(p.list.cells[j - 1]) < p.list.cells[j].block })
<1> DEFINE cells == p.list.cells
           n == Len(cells)
           u == CostUpto(cells, n)
           g == Gaps(cells, n)
           x == SparseLen(p)
<1>1. x \in Nat /\ x <= u + 3 * g + 13 /\ u <= max - Overhead + ChunkHeader
  BY LengthBound DEF Fits
<1>2. u \in Nat /\ g \in Nat
  <2>1. IsCells(cells)
    BY DEF Fits
  <2>2. n \in 0..n
    BY <2>1, CostSteps
  <2> HIDE DEF cells
  <2>3. QED
    BY <2>1, <2>2, CostSteps, GapSteps DEF n
<1> HIDE DEF u, g, x
<1>3. x + 3 < max + 3 * g
  BY <1>1, <1>2 DEF Overhead, FileHeader, ChunkHeader, OneWord
<1>4. QED
  BY <1>3 DEF x, g, Gaps, GapsIn, n, cells, ChunkHeader

\* Parts whose cells fit are shorter than they were asked to be, but for their
\* gaps.
LEMMA FitInvFits == SparseInv /\ FitInv => PartsFitButForGaps
<1> SUFFICES ASSUME SparseInv, FitInv, NEW i \in 1..Len(parts)
             PROVE  LET cells == parts[i].list.cells
                        gaps == { j \in 2..Len(cells) : EndBlock(cells[j - 1]) < cells[j].block }
                    IN  SparseLen(parts[i]) + ChunkHeader < limit + ChunkHeader * Cardinality(gaps)
  BY DEF PartsFitButForGaps
<1>1. limit \in Nat
  <2>1. limit \in {0} \cup MaxLens
    BY DEF SparseInv, RestOK
  <2>2. QED
    BY <2>1, RoomIs
<1>2. Fits(parts[i], limit)
  BY DEF FitInv
<1> DEFINE p == parts[i]
<1>3. Fits(p, limit)
  BY <1>2
<1> HIDE DEF p
<1>4. SparseLen(p) + ChunkHeader < limit + ChunkHeader * Cardinality(
               { j \in 2..Len(p.list.cells) :
                     EndBlock(p.list.cells[j - 1]) < p.list.cells[j].block })
  BY <1>1, <1>3, FitsIs
<1>5. QED
  BY <1>4 DEF p

\* What a round gives a part.
LEMMA OwnFits ==
    ASSUME SparseInv, phase \in {"first", "second"}
    PROVE  LET t == Taken(s.list.cells, limit)
               from == [s.list EXCEPT !.cells = t.cells]
           IN  Fits([len |-> s.len, list |-> MovedTo(from, t.n, EmptyList)], limit)
<1> DEFINE t == Taken(s.list.cells, limit)
           from == [s.list EXCEPT !.cells = t.cells]
           own == MovedTo(from, t.n, EmptyList)
           p == [len |-> s.len, list |-> own]
           len == limit - Overhead
<1>1. /\ IsTaken(s.list.cells, t)
      /\ IsCookie(s)
      /\ \E b \in Nat : Within(tmp.cells, b) /\ From(s.list.cells, b)
  BY RoundBegins
<1>2. PICK b \in Nat : From(s.list.cells, b)
  BY <1>1
<1>3. limit \in MaxLens
  BY DEF SparseInv, TmpOK
<1>4. IsList(s.list) /\ IsCells(s.list.cells) /\ s.len \in Nat
  BY <1>1 DEF IsCookie, IsList, IsOrdered
<1>5. IsRoom(len) /\ limit \in Nat
  BY <1>3, RoomIs
<1>6. PICK fit : Takes(s.list.cells, len, fit, t)
  BY <1>4, <1>5, TakenIs
<1> HIDE DEF t
<1>7. PutBehind(EmptyList.cells, t.cells, t.n, own.cells) /\ IsCells(t.cells)
  <2>1. IsList(EmptyList) /\ Within(EmptyList.cells, b)
    BY EmptyIsList
  <2>2. QED
    BY <1>1, <1>2, <1>4, <2>1, RoundMoves
<1>8. t.n \in 0..Len(t.cells) /\ Len(t.cells) \in Nat /\ t.n \in Nat
  <2>1. t.n \in 0..Len(t.cells) /\ Len(t.cells) \in Nat
    BY <1>1 DEF IsTaken
  <2>2. QED
    BY <2>1
<1>9. CostUpto(t.cells, t.n) <= len + ChunkHeader
  <2> HIDE DEF len
  <2>1. QED
    BY <1>4, <1>5, <1>6, <1>7, TakenCost
<1>10. Len(EmptyList.cells) = 0
  BY Empty DEF EmptyList
<1> DEFINE q == own.cells
<1>11. p.list.cells = q /\ p.len = s.len
  OBVIOUS
<1>12. p = [len |-> s.len, list |-> MovedTo(from, t.n, EmptyList)]
  OBVIOUS
<1> HIDE DEF q, p
<1>13. IsSeq(q) /\ Len(q) = t.n /\ \A i \in 1..t.n : q[i] = t.cells[i]
  <2>1. IsSeq(q) /\ Len(q) = 0 + t.n /\ \A i \in 1..t.n : q[0 + i] = t.cells[i]
    BY <1>7, <1>10 DEF PutBehind, q
  <2> DEFINE n == t.n
             c == t.cells
  <2>2. n \in Nat /\ Len(q) = 0 + n /\ \A i \in 1..n : q[0 + i] = c[i]
    BY <1>8, <2>1
  <2> HIDE DEF n, c
  <2>3. Len(q) = n /\ \A i \in 1..n : q[i] = c[i]
    <3>1. \A i \in 1..n : 0 + i = i
      BY <2>2
    <3>2. 0 + n = n
      BY <2>2
    <3>3. QED
      BY <2>2, <3>1, <3>2
  <2>4. QED
    BY <2>1, <2>3 DEF n, c
<1>14. IsCells(q)
  <2>1. \A i \in 1..t.n : i \in 1..Len(t.cells)
    BY <1>8
  <2>2. QED
    BY <1>7, <1>13, <2>1 DEF IsCells
<1>15. CostUpto(q, Len(q)) = CostUpto(t.cells, t.n)
  <2>1. Alike(q, t.cells, t.n) /\ t.n <= Len(q) /\ t.n <= Len(t.cells) /\ t.n \in 0..t.n
    BY <1>8, <1>13 DEF Alike
  <2>2. CostUpto(q, t.n) = CostUpto(t.cells, t.n)
    BY <1>7, <1>8, <1>14, <2>1, CostSame
  <2>3. QED
    BY <1>13, <2>2
<1>16. Fits(p, limit)
  BY <1>4, <1>9, <1>11, <1>14, <1>15 DEF Fits
<1>17. QED
  BY <1>12, <1>16, Zenon DEF t

\* The parts stay.
LEMMA FitStays ==
    ASSUME FitInv, UNCHANGED <<limit, parts>>, phase' \in Uncut => phase \in Uncut
    PROVE  FitInv'
BY DEF FitInv

\* A round gives the next part cells that fit.
LEMMA FitSecondRound == SparseInv /\ FitInv /\ SecondRound => FitInv'
<1> SUFFICES ASSUME SparseInv, FitInv, SecondRound PROVE FitInv'
  OBVIOUS
<1> DEFINE t == Taken(s.list.cells, limit)
           from == [s.list EXCEPT !.cells = t.cells]
           part == [len |-> s.len, list |-> MovedTo(from, t.n, EmptyList)]
           fits == rounds < count
<1>1. /\ phase = "second" /\ phase' \in {"second", "parts"} /\ limit' = limit
      /\ parts' = IF fits THEN Append(parts, part) ELSE parts
  BY DEF SecondRound
<1>2. Fits(part, limit)
  BY <1>1, OwnFits
<1> HIDE DEF part, fits
<1>3. phase' \notin Uncut
  BY <1>1 DEF Uncut
<1>4. CASE fits
  <2>1. parts' = Append(parts, part)
    BY <1>1, <1>4
  <2>2. IsSeq(parts) /\ Len(parts) \in Nat
    BY DEF FitInv
  <2>3. /\ IsSeq(parts') /\ Len(parts') = Len(parts) + 1
        /\ parts'[Len(parts) + 1] = part
        /\ \A i \in 1..Len(parts) : parts'[i] = parts[i]
    BY <2>1, <2>2, Appended
  <2>4. ASSUME NEW i \in 1..Len(parts') PROVE Fits(parts'[i], limit)
    <3>1. i \in 1..Len(parts) \/ i = Len(parts) + 1
      BY <2>2, <2>3
    <3>2. QED
      BY <1>2, <2>3, <3>1 DEF FitInv
  <2>5. Len(parts') \in Nat
    BY <2>2, <2>3
  <2>6. QED
    BY <1>1, <1>3, <2>3, <2>4, <2>5 DEF FitInv
<1>5. CASE ~fits
  <2>1. parts' = parts
    BY <1>1, <1>5
  <2>2. QED
    BY <1>1, <1>3, <2>1 DEF FitInv
<1>6. QED
  BY <1>4, <1>5

\* Every part has cells that fit, always.
LEMMA FitInductive == Spec => []FitInv
<1>1. Init => FitInv
  <2>1. ASSUME Init PROVE FitInv
    <3>1. parts = << >>
      BY <2>1 DEF Init
    <3>2. IsSeq(parts) /\ Len(parts) = 0
      BY <3>1, Empty
    <3>3. QED
      BY <3>2 DEF FitInv
  <2>2. QED
    BY <2>1
<1>2. SparseInv /\ FitInv /\ [Next]_vars => FitInv'
  <2> SUFFICES ASSUME SparseInv, FitInv, [Next]_vars PROVE FitInv'
    OBVIOUS
  <2>1. CASE AddFill
    BY <2>1, FitStays DEF AddFill, Add, cutting
  <2>2. CASE AddData \/ AddFd \/ AddFile
    <3>1. PICK type : AddFrom(type)
      BY <2>2 DEF AddData, AddFd, AddFile
    <3>2. \E bb : Add(bb)
      BY <3>1 DEF AddFrom
    <3>3. phase' = phase /\ limit' = limit /\ parts' = parts
      BY <3>2 DEF Add, cutting
    <3>4. QED
      BY <3>3, FitStays
  <2>3. CASE ReadRaw
    BY <2>3, FitStays DEF ReadRaw, cutting
  <2>4. CASE Write
    BY <2>4, FitStays DEF Write, cutting, Uncut
  <2>5. CASE WriteFails
    BY <2>5, FitStays DEF WriteFails, cutting, Uncut
  <2>6. CASE WriteAborts
    BY <2>6, FitStays DEF WriteAborts, cutting, Uncut
  <2>7. CASE WriteRaw
    BY <2>7, FitStays DEF WriteRaw, cutting, Uncut
  <2>8. CASE Import
    BY <2>8, FitStays DEF Import, cutting, Uncut
  <2>9. CASE Append2simg
    BY <2>9, FitStays DEF Append2simg, cutting, Uncut
  <2>10. CASE StartCutting
    <3>1. phase = "imported" /\ parts' = parts
      BY <2>10 DEF StartCutting
    <3>2. Len(parts') = 0 /\ IsSeq(parts')
      BY <3>1 DEF FitInv, Uncut
    <3>3. QED
      BY <3>2 DEF FitInv
  <2>11. CASE FirstRound
    <3>1. /\ phase = "first" /\ limit' = limit /\ parts' = parts
      BY <2>11 DEF FirstRound
    <3>2. QED
      BY <3>1, FitStays DEF Uncut
  <2>12. CASE SecondRound
    BY <2>12, FitSecondRound
  <2>13. CASE WriteParts
    BY <2>13, FitStays DEF WriteParts, cutting, Uncut
  <2>14. CASE ExpandNext
    <3>1. phase' \in {phase, "expanded", "rejected"} /\ limit' = limit /\ parts' = parts
      BY <2>14 DEF ExpandNext, cutting
    <3>2. QED
      BY <3>1, FitStays DEF Uncut
  <2>15. CASE UNCHANGED vars
    BY <2>15, FitStays DEF vars, cutting
  <2>16. QED
    BY <2>1, <2>2, <2>3, <2>4, <2>5, <2>6, <2>7, <2>8, <2>9, <2>10, <2>11, <2>12,
       <2>13, <2>14, <2>15 DEF Next
<1>3. QED
  BY <1>1, <1>2, SparseInductive, PTL DEF Spec

\* Every part of simg2simg with at most one gap between its chunks is shorter
\* than it was asked to be, and each further gap adds no more than the header of
\* a skip chunk, which move_chunks_up_to_len() does not count (sparse.c:224-276).
THEOREM PartsFit == Spec => []PartsFitButForGaps
<1>1. QED
  BY SparseInductive, FitInductive, FitInvFits, PTL

-----------------------------------------------------------------------------
(* Cutting again what has been cut. *)

\* The cells behind the first from, up to the to-th, are what a round takes of
\* these and all behind them: because no more of them fit, or because the last
\* one does not fit but is short enough already.
IsPlain(q, from, to, len) ==
    /\ CostUpto(q, to) <= CostUpto(q, from) + len
    /\ to # Len(q) /\ CostUpto(q, to + 1) > CostUpto(q, from) + len
    /\ CostUpto(q, from) + len <= CostUpto(q, to) + len \div 8

IsSoft(q, from, to, len) ==
    /\ CostUpto(q, to - 1) <= CostUpto(q, from) + len
    /\ CostUpto(q, to) > CostUpto(q, from) + len
    /\ to - 1 = from \/ CostUpto(q, from) + len > CostUpto(q, to - 1) + len \div 8
    /\ q[to].len <= AlignDown(CostUpto(q, from) + len - CostUpto(q, to - 1))

IsCut(q, from, to, len) ==
    /\ from \in 0..Len(q) /\ to \in 0..Len(q) /\ from < to
    /\ IsPlain(q, from, to, len) \/ IsSoft(q, from, to, len)

\* The cells behind some.
LEMMA CostLeft ==
    ASSUME NEW q, IsCells(q), NEW d \in 0..Len(q), NEW c, LeftOf(q, d, c)
    PROVE  /\ IsCells(c) /\ Len(c) = Len(q) - d /\ Len(c) \in Nat /\ d \in Nat
           /\ \A k \in 0..Len(c) : /\ d + k \in 0..Len(q)
                                   /\ CostUpto(q, d + k) = CostUpto(q, d) + CostUpto(c, k)
<1> DEFINE n == Len(q)
           m == Len(c)
           w == CostsOf(q)
           v == CostsOf(c)
<1>1. /\ n \in Nat /\ d \in Nat /\ IsSeq(c) /\ m = n - d /\ m \in Nat /\ d + m = n
      /\ \A i \in 1..m : c[i] = q[d + i] /\ d + i \in 1..n
  <2>1. n \in Nat
    BY CostSteps
  <2>2. IsSeq(c) /\ m = n - d /\ \A i \in 1..(n - d) : c[i] = q[d + i]
    BY DEF LeftOf
  <2>3. d \in 0..n
    OBVIOUS
  <2> HIDE DEF n, m
  <2>4. QED
    BY <2>1, <2>2, <2>3
<1>2. IsCells(c)
  <2> HIDE DEF n, m
  <2>1. \A i \in 1..m : IsCell(c[i])
    BY <1>1 DEF IsCells, n
  <2>2. QED
    BY <1>1, <2>1 DEF IsCells, m
<1>3. AreNats(w, d + m) /\ IsFrom(v, w, d, m)
  <2>1. \A i \in 1..n : w[i] \in Nat /\ w[i] = CellCost(q[i])
    BY CostsNat
  <2>2. \A i \in 1..m : v[i] = CellCost(c[i])
    BY <1>2, CostsNat
  <2> HIDE DEF w, v, n, m
  <2>3. QED
    BY <1>1, <2>1, <2>2 DEF AreNats, IsFrom
<1>4. \A k \in 0..m : Upto(w, d + k) = Upto(w, d) + Upto(v, k)
  <2> HIDE DEF w, v, n, m
  <2>1. QED
    BY <1>1, <1>3, UptoFrom
<1>5. \A k \in 0..m : d + k \in 0..n
  <2> HIDE DEF n, m
  <2>1. QED
    BY <1>1
<1>6. QED
  BY <1>1, <1>2, <1>4, <1>5 DEF CostUpto

\* What cuts a list cuts it with something in front.
LEMMA CutShifts ==
    ASSUME NEW q, IsCells(q), NEW d \in 0..Len(q), NEW c, LeftOf(q, d, c),
           NEW len \in Nat, NEW n \in 1..Len(c)
    PROVE  IsCut(q, d, d + n, len) <=> IsCut(c, 0, n, len)
<1> DEFINE x == CostUpto(q, d)
           C(k) == CostUpto(c, k)
           l == Len(q)
           m == Len(c)
           e == d + n
<1>1. /\ m \in Nat /\ d \in Nat /\ n \in Nat /\ n - 1 \in 0..m /\ n \in 0..m /\ m = l - d
      /\ e \in 0..l /\ d \in 0..l /\ d < e /\ 0 < n /\ l \in Nat /\ 0 \in 0..m
      /\ e # l <=> n # m
      /\ n # m => n + 1 \in 0..m
      /\ e - 1 = d + (n - 1) /\ e + 1 = d + (n + 1)
      /\ e - 1 = d <=> n - 1 = 0
      /\ e = d + n
  <2>1. m \in Nat /\ d \in Nat /\ m = l - d /\ l \in Nat /\ d \in 0..l /\ n \in 1..m
    BY CostLeft, CostSteps
  <2> HIDE DEF m, l
  <2>2. QED
    BY <2>1
<1>2. /\ \A k \in 0..m : CostUpto(q, d + k) = x + C(k)
      /\ IsCells(c)
  BY CostLeft
<1>3. C(0) = 0 /\ \A k \in 0..m : C(k) \in Nat
  BY <1>2, CostSteps
<1>4. x \in Nat
  BY CostSteps
<1>5. q[e] = c[n]
  <2>1. n \in 1..(l - d)
    BY <1>1
  <2>2. QED
    BY <2>1 DEF LeftOf
<1>6. /\ CostUpto(q, e) = x + C(n) /\ CostUpto(q, e - 1) = x + C(n - 1)
      /\ n # m => CostUpto(q, e + 1) = x + C(n + 1)
      /\ C(n) \in Nat /\ C(n - 1) \in Nat
      /\ n # m => C(n + 1) \in Nat
  BY <1>1, <1>2, <1>3
<1> HIDE DEF x, C, l, m, e
<1>7. IsPlain(q, d, e, len) <=> IsPlain(c, 0, n, len)
  <2>1. IsPlain(q, d, e, len) <=>
          /\ x + C(n) <= x + len
          /\ n # m /\ CostUpto(q, e + 1) > x + len
          /\ x + len <= x + C(n) + len \div 8
    BY <1>1, <1>6 DEF IsPlain, x, l
  <2>2. IsPlain(c, 0, n, len) <=>
          /\ C(n) <= 0 + len /\ n # m /\ C(n + 1) > 0 + len
          /\ 0 + len <= C(n) + len \div 8
    BY <1>3 DEF IsPlain, C, m
  <2>3. len \div 8 \in Nat
    OBVIOUS
  <2> DEFINE e8 == len \div 8
             y == CostUpto(q, e + 1)
             z == C(n + 1)
             u == C(n)
  <2>4. u \in Nat /\ (n # m => y = x + z /\ z \in Nat) /\ e8 \in Nat
    BY <1>6, <2>3
  <2> HIDE DEF e8, y, z, u
  <2>5. (/\ x + u <= x + len /\ n # m /\ y > x + len /\ x + len <= x + u + e8)
         <=> (/\ u <= 0 + len /\ n # m /\ z > 0 + len /\ 0 + len <= u + e8)
    BY <1>4, <2>4
  <2>6. QED
    BY <2>1, <2>2, <2>5 DEF e8, y, z, u
<1>8. IsSoft(q, d, e, len) <=> IsSoft(c, 0, n, len)
  <2> DEFINE e8 == len \div 8
             u == C(n)
             o == C(n - 1)
  <2>1. u \in Nat /\ o \in Nat /\ e8 \in Nat
    BY <1>6
  <2> DEFINE z == CostUpto(c, 0)
             y == CostUpto(q, e - 1)
             g == AlignDown(z + len - o)
  <2>2. AlignDown(x + len - y) = g
    <3>1. y = x + o /\ z = 0
      BY <1>3, <1>6 DEF C
    <3> HIDE DEF o, y, z
    <3>2. x + len - y = z + len - o
      BY <1>4, <2>1, <3>1
    <3>3. QED
      BY <3>2, Zenon
  <2>3. IsSoft(q, d, e, len) <=>
          /\ x + o <= x + len /\ x + u > x + len
          /\ n - 1 = 0 \/ x + len > x + o + e8
          /\ c[n].len <= g
    <3>1. IsSoft(q, d, e, len) <=>
            /\ y <= x + len
            /\ CostUpto(q, e) > x + len
            /\ e - 1 = d \/ x + len > y + e8
            /\ q[e].len <= AlignDown(x + len - y)
      BY Zenon DEF IsSoft, x
    <3>2. y = x + o /\ CostUpto(q, e) = x + u
      BY <1>6
    <3> HIDE DEF g, y, e8, u, o
    <3>3. QED
      BY <1>1, <1>5, <2>2, <3>1, <3>2
  <2>4. IsSoft(c, 0, n, len) <=>
          /\ o <= 0 + len /\ u > 0 + len
          /\ n - 1 = 0 \/ 0 + len > o + e8
          /\ c[n].len <= g
    <3>1. IsSoft(c, 0, n, len) <=>
            /\ o <= z + len /\ u > z + len
            /\ n - 1 = 0 \/ z + len > o + e8
            /\ c[n].len <= g
      BY Zenon DEF IsSoft, C
    <3>2. z = 0
      BY <1>3 DEF C
    <3> HIDE DEF g, z, e8, u, o
    <3>3. QED
      BY <3>1, <3>2
  <2> HIDE DEF g
  <2> DEFINE a == c[n].len <= g
  <2> HIDE DEF e8, u, o
  <2>5. /\ x + o <= x + len <=> o <= 0 + len
        /\ x + u > x + len <=> u > 0 + len
        /\ x + len > x + o + e8 <=> 0 + len > o + e8
    BY <1>4, <2>1
  <2> HIDE DEF a
  <2>6. QED
    BY <2>3, <2>4, <2>5 DEF a
<1>9. IsCut(q, d, e, len) <=> IsPlain(q, d, e, len) \/ IsSoft(q, d, e, len)
  BY <1>1 DEF IsCut, l
<1>10. IsCut(c, 0, n, len) <=> IsPlain(c, 0, n, len) \/ IsSoft(c, 0, n, len)
  BY <1>1 DEF IsCut, m
<1>11. QED
  BY <1>7, <1>8, <1>9, <1>10 DEF e

\* A round takes it as it is.
LEMMA CutIsTaken ==
    ASSUME NEW c, IsCells(c), NEW max, IsRoom(max - Overhead), NEW n,
           IsCut(c, 0, n, max - Overhead)
    PROVE  Taken(c, max) = [cells |-> c, n |-> n, more |-> TRUE]
<1> DEFINE len == max - Overhead
           t == Taken(c, max)
           C(k) == CostUpto(c, k)
<1>1. PICK fit : Takes(c, len, fit, t)
  BY TakenIs
<1>2. len \in Nat /\ len \div 8 \in Nat
  BY DEF IsRoom
<1>3. /\ Len(c) \in Nat /\ C(0) = 0 /\ \A k \in 0..Len(c) : C(k) \in Nat
  BY CostSteps
<1>4. n \in 0..Len(c) /\ 0 < n /\ (IsPlain(c, 0, n, len) \/ IsSoft(c, 0, n, len))
  BY DEF IsCut
<1> HIDE DEF len, t, C
<1>5. IsFit(c, len, fit) /\ (TakesAll(c, len, fit, t) \/ TakesSome(c, len, fit, t) \/ TakesCut(c, len, fit, t))
  BY <1>1 DEF Takes
<1>6. CASE IsPlain(c, 0, n, len)
  <2>1. /\ C(n) <= 0 + len /\ n # Len(c) /\ C(n + 1) > 0 + len
        /\ 0 + len <= C(n) + len \div 8
    BY <1>3, <1>6 DEF IsPlain, C
  <2>2. 0 + len = len /\ C(n) \in Nat
    BY <1>2, <1>3, <1>4
  <2>3. IsFit(c, len, n)
    BY <1>4, <2>1, <2>2 DEF IsFit, C
  <2>4. fit = n
    BY <1>2, <1>5, <2>3, FitOne
  <2>5. n # 0 /\ ~(len - C(n) > len \div 8)
    BY <1>2, <1>3, <1>4, <2>1, <2>2
  <2>6. TakesSome(c, len, fit, t)
    BY <1>5, <2>1, <2>4, <2>5 DEF TakesAll, TakesCut, C
  <2>7. QED
    BY <2>4, <2>6 DEF TakesSome, t
<1>7. CASE IsSoft(c, 0, n, len)
  <2> DEFINE p == n - 1
  <2>0. p \in Nat /\ p \in 0..Len(c) /\ p + 1 = n /\ p # Len(c) /\ n \in 1..Len(c)
    BY <1>3, <1>4
  <2>1. /\ C(p) <= 0 + len /\ C(n) > 0 + len
        /\ p = 0 \/ 0 + len > C(p) + len \div 8
        /\ c[n].len <= AlignDown(0 + len - C(p))
    BY <1>3, <1>7 DEF IsSoft, C
  <2> HIDE DEF p
  <2>2. 0 + len = len /\ C(n) \in Nat /\ C(p) \in Nat
    BY <1>2, <1>3, <1>4, <2>0
  <2>3. IsFit(c, len, p)
    BY <2>0, <2>1, <2>2 DEF IsFit, C
  <2>4. fit = p
    BY <1>2, <1>5, <2>3, FitOne
  <2>5. p = 0 \/ ~(len - C(p) <= len \div 8)
    BY <1>2, <2>1, <2>2
  <2>6. TakesCut(c, len, fit, t)
    BY <1>5, <2>0, <2>4, <2>5 DEF TakesAll, TakesSome, C
  <2>7. t = [cells |-> Split(c, n, len - C(p)), n |-> n, more |-> TRUE]
    BY <2>0, <2>4, <2>6 DEF TakesCut, C
  <2>8. len - C(p) \in Nat /\ c[n].len <= AlignDown(len - C(p))
    BY <1>2, <2>1, <2>2
  <2>9. Split(c, n, len - C(p)) = c
    BY <2>0, <2>8, SplitIs
  <2>10. QED
    BY <2>7, <2>9 DEF t
<1>8. QED
  BY <1>4, <1>6, <1>7

\* The cell behind at may change, if it does not become too cheap.
KeepsNext(p, r, at, len) ==
    at # Len(p) =>
        /\ at # Len(r)
        /\ \/ CellCost(r[at + 1]) >= CellCost(p[at + 1])
           \/ CellCost(r[at + 1]) > len \div 8

\* What has been cut stays so while the cells behind it are cut.
LEMMA CutStays ==
    ASSUME NEW p, IsCells(p), NEW r, IsCells(r), NEW at \in Nat, at <= Len(p), at <= Len(r),
           Alike(p, r, at), NEW len, IsRoom(len), KeepsNext(p, r, at, len),
           NEW from, NEW to, to <= at, IsCut(p, from, to, len)
    PROVE  IsCut(r, from, to, len)
<1> DEFINE P(k) == CostUpto(p, k)
           R(k) == CostUpto(r, k)
           x == len \div 8
<1>1. /\ Len(p) \in Nat /\ Len(r) \in Nat /\ len \in Nat /\ x \in Nat
      /\ (\A k \in 0..Len(p) : P(k) \in Nat) /\ \A k \in 0..Len(r) : R(k) \in Nat
  BY CostSteps DEF IsRoom
<1>2. /\ from \in 0..Len(p) /\ to \in 0..Len(p) /\ from < to
      /\ IsPlain(p, from, to, len) \/ IsSoft(p, from, to, len)
  BY DEF IsCut
<1>3. /\ from \in 0..at /\ to \in 0..at /\ to - 1 \in 0..at /\ to \in 1..at
      /\ from \in 0..Len(r) /\ to \in 0..Len(r) /\ to - 1 \in 0..Len(r)
  BY <1>1, <1>2
<1>4. \A m \in 0..at : R(m) = P(m)
  BY CostSame
<1> HIDE DEF P, R, x
<1>5. CASE IsPlain(p, from, to, len)
  <2>1. /\ P(to) <= P(from) + len /\ to # Len(p) /\ P(to + 1) > P(from) + len
        /\ P(from) + len <= P(to) + x
    BY <1>5 DEF IsPlain, P, x
  <2>2. to # Len(r) /\ R(to + 1) > P(from) + len
    <3>1. CASE to # at
      <4>1. to + 1 \in 0..at /\ to # Len(r)
        BY <1>1, <1>3, <3>1
      <4>2. R(to + 1) = P(to + 1)
        BY <1>4, <4>1
      <4>3. QED
        BY <2>1, <4>1, <4>2
    <3>2. CASE to = at
      <4> DEFINE m == at + 1
                 a == CellCost(p[m])
                 b == CellCost(r[m])
      <4>1. at # Len(p) /\ at # Len(r) /\ (b >= a \/ b > x)
        BY <2>1, <3>2 DEF KeepsNext, x
      <4>2. m \in 1..Len(p) /\ m \in 1..Len(r) /\ m - 1 = at
        BY <1>1, <4>1
      <4> HIDE DEF m
      <4>3. /\ P(m) = P(at) + a /\ a \in Nat /\ R(m) = R(at) + b /\ b \in Nat
        BY <4>2, CostSteps DEF P, R
      <4>4. R(at) = P(at) /\ P(at) \in Nat /\ P(from) \in Nat
        BY <1>1, <1>2, <1>3, <1>4, <3>2
      <4>5. P(m) > P(from) + len /\ P(from) + len <= P(at) + x
        BY <2>1, <3>2 DEF m
      <4> DEFINE pm == P(m)
                 rm == R(m)
                 pa == P(at)
                 pf == P(from)
      <4>6. pm = pa + a /\ rm = pa + b /\ pa \in Nat /\ pf \in Nat /\ pm > pf + len
            /\ pf + len <= pa + x
        BY <4>3, <4>4, <4>5
      <4> HIDE DEF pm, rm, pa, pf, a, b
      <4>7. rm > pf + len
        BY <1>1, <4>1, <4>3, <4>6
      <4>8. QED
        BY <3>2, <4>1, <4>7 DEF rm, pf, m
    <3>3. QED
      BY <3>1, <3>2
  <2>3. R(to) = P(to) /\ R(from) = P(from)
    BY <1>3, <1>4
  <2>4. IsPlain(r, from, to, len)
    BY <2>1, <2>2, <2>3 DEF IsPlain, R, x
  <2>5. QED
    BY <1>2, <1>3, <2>4 DEF IsCut
<1>6. CASE IsSoft(p, from, to, len)
  <2>1. /\ P(to - 1) <= P(from) + len /\ P(to) > P(from) + len
        /\ to - 1 = from \/ P(from) + len > P(to - 1) + x
        /\ p[to].len <= AlignDown(P(from) + len - P(to - 1))
    BY <1>6 DEF IsSoft, P, x
  <2>2. R(to) = P(to) /\ R(from) = P(from) /\ R(to - 1) = P(to - 1)
    BY <1>3, <1>4
  <2>3. r[to] = p[to]
    BY <1>3 DEF Alike
  <2>4. /\ R(to - 1) <= R(from) + len /\ R(to) > R(from) + len
        /\ to - 1 = from \/ R(from) + len > R(to - 1) + x
        /\ r[to].len <= AlignDown(R(from) + len - R(to - 1))
    BY <2>1, <2>2, <2>3
  <2>5. IsSoft(r, from, to, len)
    BY <2>4 DEF IsSoft, R, x
  <2>6. QED
    BY <1>2, <1>3, <2>5 DEF IsCut
<1>7. QED
  BY <1>2, <1>5, <1>6

\* A piece that is cut off to fill a part is not cheap.
LEMMA PieceNotCheap ==
    ASSUME NEW bb, IsCell(bb), NEW len, IsRoom(len)
    PROVE  \/ CellCost(FirstPiece(bb, len)) >= CellCost(bb)
           \/ CellCost(FirstPiece(bb, len)) > len \div 8
<1>1. /\ len \in Nat /\ len >= BlockSize /\ len \div 8 \in Nat
      /\ len \div 8 + 1 >= BlockSize /\ 8 * (len \div 8) <= len
  BY DEF IsRoom
<1>2. CASE bb.type = "fill"
  <2>1. CellCost(FirstPiece(bb, len)) = CellCost(bb) /\ CellCost(bb) \in Nat
    BY <1>1, <1>2, PieceCost, CostNat
  <2>2. QED
    BY <2>1
<1>3. CASE bb.type # "fill"
  <2> DEFINE d == AlignDown(len)
             x == len \div 8
             f == CellCost(FirstPiece(bb, len))
  <2>1. f = ChunkHeader + d
    BY <1>1, <1>3, PieceCost
  <2>2. d \in Nat /\ len - d \in 0..(BlockSize - 1) /\ BlockSize \in Nat \ {0}
    BY <1>1, DownIs, BlockSizeAssumption
  <2>3. len \in Nat /\ x \in Nat /\ x + 1 >= BlockSize /\ 8 * x <= len
    BY <1>1
  <2> HIDE DEF d, x, f
  <2>4. f > x
    BY <2>1, <2>2, <2>3 DEF ChunkHeader
  <2>5. QED
    BY <2>4 DEF f, x
<1>4. QED
  BY <1>2, <1>3

\* What a round makes of its list.
LEMMA NewCut ==
    ASSUME NEW c, IsCells(c), NEW len, IsRoom(len), NEW fit, NEW t,
           Takes(c, len, fit, t), t.more, IsCells(t.cells)
    PROVE  /\ IsCut(t.cells, 0, t.n, len) /\ t.n \in 1..Len(t.cells)
           /\ KeepsNext(c, t.cells, 0, len)
<1> DEFINE u == t.cells
           n == Len(c)
           x == len \div 8
           C(k) == CostUpto(c, k)
           D(k) == CostUpto(u, k)
<1>1. /\ n \in Nat /\ C(0) = 0 /\ (\A k \in 0..n : C(k) \in Nat)
      /\ Len(u) \in Nat /\ D(0) = 0 /\ (\A k \in 0..Len(u) : D(k) \in Nat)
  BY CostSteps
<1>2. len \in Nat /\ x \in Nat /\ x + 1 >= BlockSize /\ 8 * x <= len /\ len >= BlockSize
  BY DEF IsRoom
<1>3. /\ fit \in 0..n /\ C(fit) <= len /\ C(fit) \in Nat
      /\ fit # n => C(fit + 1) > len
  BY <1>1 DEF Takes, IsFit
<1>4. CASE TakesAll(c, len, fit, t)
  <2>1. t.more = FALSE
    BY <1>4 DEF TakesAll
  <2>2. QED
    BY <2>1
<1>5. CASE TakesSome(c, len, fit, t)
  <2>1. fit # n /\ fit # 0 /\ len - C(fit) <= x /\ u = c /\ t.n = fit
    BY <1>5 DEF TakesSome
  <2>2. fit \in 1..Len(u) /\ fit \in 0..Len(u) /\ 0 \in 0..Len(u) /\ 0 < fit
    BY <1>1, <1>3, <2>1
  <2>3. IsPlain(u, 0, fit, len)
    <3>1. C(fit) <= C(0) + len /\ C(fit + 1) > C(0) + len /\ C(0) + len <= C(fit) + x
      <4> HIDE DEF C, x
      <4>1. 0 + len = len /\ len <= C(fit) + x
        BY <1>2, <1>3, <2>1
      <4>2. QED
        BY <1>1, <1>3, <2>1, <4>1
    <3>2. QED
      BY <2>1, <3>1 DEF IsPlain
  <2>4. IsCut(u, 0, fit, len)
    BY <2>2, <2>3 DEF IsCut
  <2>5. KeepsNext(c, u, 0, len)
    <3>1. ASSUME 0 # Len(c) PROVE CellCost(c[0 + 1]) \in Nat
      <4>1. 0 + 1 \in 1..n
        BY <1>1, <3>1
      <4>2. QED
        BY <4>1, CostSteps
    <3>2. QED
      BY <2>1, <3>1 DEF KeepsNext
  <2>6. QED
    BY <2>1, <2>2, <2>4, <2>5
<1>6. CASE TakesCut(c, len, fit, t)
  <2> DEFINE room == len - C(fit)
             bb == c[fit + 1]
             m == fit + 1
  <2>1. /\ m \in 1..n /\ fit \in Nat /\ m \in 1..Len(u)
        /\ room \in Nat /\ room >= BlockSize
        /\ Alike(u, c, fit)
        /\ D(fit) = C(fit) /\ D(m) = C(fit) + CellCost(u[m])
        /\ bb.len <= AlignDown(room) => u = c
        /\ ~(bb.len <= AlignDown(room)) => InTwo(c, m, room, u)
    <3>1. IsFit(c, len, fit)
      BY DEF Takes
    <3>2. QED
      BY <1>6, <3>1, CutIs
  <2>2. /\ fit # n /\ (fit = 0 \/ room > x) /\ t.n = m
    BY <1>6 DEF TakesCut
  <2>3. IsCell(bb) /\ CellCost(bb) \in Nat /\ C(m) = C(fit) + CellCost(bb) /\ C(m) > len
    <3>1. m - 1 = fit
      BY <2>1
    <3>2. /\ IsCell(c[m]) /\ CellCost(c[m]) \in Nat /\ C(m) = C(m - 1) + CellCost(c[m])
      BY <2>1, CostSteps
    <3>3. QED
      BY <1>3, <2>2, <3>1, <3>2
  <2>4. /\ m - 1 = fit /\ 0 < m /\ m \in 0..Len(u) /\ 0 \in 0..Len(u) /\ fit \in 0..Len(u)
    BY <1>1, <2>1
  <2>5. KeepsNext(c, u, 0, len)
    <3>1. CASE fit # 0
      <4>1. u[1] = c[1] /\ 0 # Len(u)
        <5>1. 1 \in 1..fit
          BY <2>1, <3>1
        <5>2. QED
          BY <1>1, <2>1, <5>1 DEF Alike
      <4>2. CellCost(c[1]) \in Nat /\ 0 + 1 = 1
        <5>1. 1 \in 1..n
          BY <1>1, <2>1
        <5>2. QED
          BY <5>1, CostSteps
      <4>3. QED
        BY <4>1, <4>2 DEF KeepsNext
    <3>2. CASE fit = 0
      <4>1. room = len /\ m = 1 /\ 0 # Len(u) /\ 0 + 1 = 1
        BY <1>1, <1>2, <2>1, <3>2
      <4>2. CASE bb.len <= AlignDown(room)
        <5>1. u = c /\ c[1] = bb
          BY <2>1, <3>2, <4>2
        <5>2. QED
          BY <2>3, <4>1, <5>1 DEF KeepsNext
      <4>3. CASE ~(bb.len <= AlignDown(room))
        <5>1. u[m] = FirstPiece(bb, room)
          BY <2>1, <4>3 DEF InTwo
        <5>2. u[1] = FirstPiece(bb, len) /\ c[1] = bb
          BY <4>1, <5>1
        <5>3. QED
          BY <2>3, <4>1, <5>2, PieceNotCheap DEF KeepsNext
      <4>4. QED
        BY <4>2, <4>3
    <3>3. QED
      BY <3>1, <3>2
  <2>6. IsCut(u, 0, m, len)
    <3> DEFINE a == AlignDown(room)
               cu == CellCost(u[m])
    <3>1. /\ a \in Nat /\ a <= room /\ room - a \in 0..(BlockSize - 1) /\ BlockSize \in Nat \ {0}
      BY <2>1, DownIs, BlockSizeAssumption
    <3>2. cu \in Nat /\ u[m].len <= a
      <4>1. IsCell(u[m]) /\ CellCost(u[m]) \in Nat
        BY <2>1, CostSteps
      <4>2. CASE bb.len <= a
        BY <2>1, <4>1, <4>2
      <4>3. CASE ~(bb.len <= a)
        <5>1. u[m] = FirstPiece(bb, room)
          BY <2>1, <4>3 DEF InTwo
        <5>2. u[m].len = a
          BY <2>1, <2>3, <5>1, PieceCost
        <5>3. QED
          BY <3>1, <4>1, <5>2
      <4>4. QED
        BY <4>2, <4>3
    <3>3. AlignDown(D(0) + len - D(m - 1)) = a
      <4>1. D(0) + len - D(m - 1) = room
        <5>1. D(0) = 0 /\ D(m - 1) = C(fit)
          BY <1>1, <2>1, <2>4
        <5> HIDE DEF C, D, m
        <5>2. D(0) + len - D(m - 1) = len - C(fit)
          BY <1>2, <1>3, <5>1
        <5>3. QED
          BY <5>2
      <4>2. QED
        BY <4>1, Zenon
    <3>4. CASE D(m) > len
      <4>1. IsSoft(u, 0, m, len)
        <5>1. D(m - 1) = C(fit) /\ D(0) = 0
          BY <1>1, <2>1, <2>4
        <5>2. /\ D(m - 1) <= D(0) + len /\ D(m) > D(0) + len
              /\ m - 1 = 0 \/ D(0) + len > D(m - 1) + x
          <6> HIDE DEF C, D, m, x
          <6>1. 0 + len = len /\ (room > x => len > C(fit) + x)
            BY <1>2, <1>3, <2>1
          <6>2. QED
            BY <1>2, <1>3, <2>2, <2>4, <3>4, <5>1, <6>1
        <5>3. u[m].len <= AlignDown(D(0) + len - D(m - 1))
          BY <3>2, <3>3
        <5>4. QED
          BY <5>2, <5>3 DEF IsSoft
      <4>2. QED
        BY <2>4, <4>1 DEF IsCut
    <3>5. CASE ~(D(m) > len)
      \* All but a little of the room is filled.
      <4>1. ~(bb.len <= a)
        <5>1. SUFFICES ASSUME bb.len <= a PROVE FALSE
          OBVIOUS
        <5>2. u = c
          BY <2>1, <5>1
        <5>3. D(m) = C(m)
          BY <5>2
        <5>4. QED
          BY <2>3, <3>5, <5>3
      <4>2. InTwo(c, m, room, u)
        BY <2>1, <4>1
      <4>3. u[m] = FirstPiece(bb, room) /\ Len(u) = n + 1 /\ m + 1 \in 1..Len(u) /\ m # Len(u)
        <5>1. u[m] = FirstPiece(bb, room) /\ Len(u) = n + 1
          BY <4>2 DEF InTwo
        <5>2. QED
          BY <1>1, <2>1, <5>1
      <4>4. bb.type # "fill"
        <5>1. SUFFICES ASSUME bb.type = "fill" PROVE FALSE
          OBVIOUS
        <5>2. cu = CellCost(bb)
          BY <2>1, <2>3, <4>3, <5>1, PieceCost
        <5>3. D(m) = C(m)
          BY <2>1, <2>3, <5>2
        <5>4. QED
          BY <2>3, <3>5, <5>3
      <4>5. cu = ChunkHeader + a
        BY <2>1, <2>3, <4>3, <4>4, PieceCost
      <4>6. u[m + 1] = OtherPiece(bb, room)
        BY <4>2 DEF InTwo
      <4> DEFINE co == CellCost(u[m + 1])
      <4>7. co >= ChunkHeader + BlockSize /\ co \in Nat
        <5>1. IsCell(u[m + 1]) /\ co \in Nat
          BY <4>3, CostSteps
        <5>2. u[m + 1].type # "fill"
          BY <4>4, <4>6 DEF OtherPiece, Cell
        <5>3. co = ChunkHeader + AlignUp(u[m + 1].len)
          BY <5>2 DEF CellCost
        <5> DEFINE l == u[m + 1].len
        <5>4. l \in Nat \ {0}
          BY <5>1 DEF IsCell
        <5> HIDE DEF l
        <5>5. AlignUp(l) >= BlockSize
          <6>1. DivUp(l) \in Nat /\ DivUp(l) # 0
            BY <5>4, UpNat
          <6>2. 1 <= DivUp(l) /\ 1 \in Nat
            BY <6>1
          <6>3. 1 * BlockSize <= DivUp(l) * BlockSize
            BY <3>1, <6>1, <6>2, TimesMonotone
          <6>4. 1 * BlockSize = BlockSize
            BY <3>1
          <6>5. QED
            BY <6>3, <6>4 DEF AlignUp
        <5>6. AlignUp(l) \in Nat
          <6>1. DivUp(l) \in Nat
            BY <5>4, UpNat
          <6>2. QED
            BY <3>1, <6>1, Product DEF AlignUp
        <5>7. co = ChunkHeader + AlignUp(l)
          BY <5>3 DEF l
        <5> HIDE DEF co
        <5>8. co >= ChunkHeader + BlockSize
          BY <3>1, <5>5, <5>6, <5>7 DEF ChunkHeader
        <5>9. QED
          BY <5>1, <5>8
      <4>8. D(m + 1) = D(m) + co
        <5>1. (m + 1) - 1 = m
          BY <2>1
        <5>2. QED
          BY <4>3, <5>1, CostSteps
      <4>9. IsPlain(u, 0, m, len)
        <5> DEFINE dm == D(m)
                   dn == D(m + 1)
                   cf == C(fit)
        <5>1. dm = cf + cu /\ cu = 3 + a /\ dn = dm + co /\ co >= 3 + BlockSize
              /\ ~(dm > len) /\ cf <= len /\ cf \in Nat /\ room = len - cf /\ co \in Nat
              /\ room \in Nat
          BY <1>3, <2>1, <3>5, <4>5, <4>7, <4>8 DEF ChunkHeader
        <5> HIDE DEF dm, dn, cf, room, co, cu, a, x
        <5>2. dm <= 0 + len /\ dn > 0 + len /\ 0 + len <= dm + x
          <6>1. len = cf + room /\ dm = cf + 3 + a
            BY <1>2, <3>1, <5>1
          <6>2. dn = cf + 3 + a + co
            BY <5>1, <6>1
          <6>3. room <= a + x
            BY <1>2, <3>1, <5>1
          <6>4. room < a + 3 + co
            BY <3>1, <5>1
          <6>5. dm <= len
            BY <1>2, <3>1, <5>1, <6>1
          <6>6. dn > len /\ len <= dm + x /\ 0 + len = len
            BY <1>2, <3>1, <5>1, <6>1, <6>2, <6>3, <6>4
          <6>7. QED
            BY <6>5, <6>6
        <5>3. D(m) <= D(0) + len /\ D(m + 1) > D(0) + len /\ D(0) + len <= D(m) + x
          BY <1>1, <5>2 DEF dm, dn
        <5> HIDE DEF m
        <5>4. QED
          BY <4>3, <5>3 DEF IsPlain, x, m
      <4>10. QED
        BY <2>4, <4>9 DEF IsCut
    <3>6. QED
      BY <3>4, <3>5
  <2>7. QED
    BY <2>1, <2>2, <2>5, <2>6
<1>7. QED
  BY <1>4, <1>5, <1>6 DEF Takes

\* The places between the parts.
Cuts(q, b, m, at, len) ==
    /\ b[0] = 0 /\ b[m] = at
    /\ \A j \in 0..m : b[j] \in 0..at
    /\ \A j \in 1..m : IsCut(q, b[j - 1], b[j], len)

\* What is moved from one list to the end of another is still in both.
LEMMA Regrouped ==
    ASSUME NEW p, IsSeq(p), NEW u, IsSeq(u), NEW n \in 0..Len(u),
           NEW kept, PutBehind(p, u, n, kept), NEW left, LeftOf(u, n, left),
           NEW r, AreJoined(kept, left, r)
    PROVE  AreJoined(p, u, r)
<1> DEFINE a == Len(p)
           m == Len(u)
<1>1. a \in Nat /\ m \in Nat /\ n \in Nat /\ n <= m /\ m - n \in Nat
  <2>1. a \in Nat /\ m \in Nat
    BY DEF IsSeq
  <2>2. n \in 0..m
    OBVIOUS
  <2> HIDE DEF a, m
  <2>3. QED
    BY <2>1, <2>2
<1>2. /\ Len(kept) = a + n /\ Len(left) = m - n
      /\ (\A i \in 1..a : kept[i] = p[i]) /\ (\A i \in 1..n : kept[a + i] = u[i])
      /\ \A i \in 1..(m - n) : left[i] = u[n + i]
  BY DEF PutBehind, LeftOf
<1>3. /\ IsSeq(r) /\ Len(r) = (a + n) + (m - n)
      /\ (\A i \in 1..(a + n) : r[i] = kept[i])
      /\ \A i \in 1..(m - n) : r[(a + n) + i] = left[i]
  BY <1>2 DEF AreJoined
<1> HIDE DEF a, m
<1>4. Len(r) = a + m
  BY <1>1, <1>3
<1>5. \A i \in 1..a : r[i] = p[i]
  <2>1. \A i \in 1..a : i \in 1..(a + n)
    BY <1>1
  <2>2. QED
    BY <1>2, <1>3, <2>1
<1>6. ASSUME NEW i \in 1..m PROVE r[a + i] = u[i]
  <2>1. CASE i <= n
    <3>1. a + i \in 1..(a + n) /\ i \in 1..n
      BY <1>1, <2>1
    <3>2. QED
      BY <1>2, <1>3, <3>1
  <2>2. CASE ~(i <= n)
    <3> DEFINE j == i - n
    <3>1. j \in 1..(m - n) /\ (a + n) + j = a + i /\ n + j = i
      BY <1>1, <2>2
    <3> HIDE DEF j
    <3>2. r[(a + n) + j] = left[j] /\ left[j] = u[n + j]
      BY <1>2, <1>3, <3>1
    <3>3. QED
      BY <3>1, <3>2
  <2>3. QED
    BY <2>1, <2>2
<1>7. QED
  BY <1>3, <1>4, <1>5, <1>6 DEF AreJoined, a, m

\* Moving a list to the end of another keeps the cells of both.
LEMMA JoinedCells ==
    ASSUME NEW p, IsCells(p), NEW u, IsCells(u), NEW r, AreJoined(p, u, r)
    PROVE  /\ IsCells(r) /\ LeftOf(r, Len(p), u) /\ Alike(r, p, Len(p))
           /\ Len(p) \in Nat /\ Len(u) \in Nat /\ Len(r) = Len(p) + Len(u)
           /\ Len(p) \in 0..Len(r)
<1> DEFINE a == Len(p)
           m == Len(u)
           l == Len(r)
<1>1. /\ a \in Nat /\ m \in Nat /\ l = a + m /\ IsSeq(r) /\ IsSeq(u)
      /\ (\A i \in 1..a : r[i] = p[i] /\ IsCell(p[i]))
      /\ (\A i \in 1..m : r[a + i] = u[i] /\ IsCell(u[i]))
  BY DEF AreJoined, IsCells, IsSeq
<1> HIDE DEF a, m, l
<1>2. a \in 0..l /\ l - a = m
  BY <1>1
<1>3. ASSUME NEW i \in 1..l PROVE IsCell(r[i])
  <2>1. CASE i <= a
    <3>1. i \in 1..a
      BY <1>1, <2>1
    <3>2. QED
      BY <1>1, <3>1
  <2>2. CASE ~(i <= a)
    <3> DEFINE j == i - a
    <3>1. j \in 1..m /\ a + j = i
      BY <1>1, <2>2
    <3> HIDE DEF j
    <3>2. r[a + j] = u[j] /\ IsCell(u[j])
      BY <1>1, <3>1
    <3>3. QED
      BY <3>1, <3>2
  <2>3. QED
    BY <2>1, <2>2
<1>4. IsCells(r)
  BY <1>1, <1>3 DEF IsCells, l
<1>5. LeftOf(r, a, u)
  <2>1. m = Len(u) /\ l = Len(r)
    BY DEF m, l
  <2>2. \A i \in 1..(l - a) : u[i] = r[a + i]
    BY <1>1, <1>2
  <2>3. QED
    BY <1>1, <1>2, <2>1, <2>2 DEF LeftOf
<1>6. Alike(r, p, a)
  BY <1>1 DEF Alike
<1>7. QED
  BY <1>1, <1>2, <1>4, <1>5, <1>6 DEF a, m, l

\* A round of the count: one part more, and the others stay.
LEMMA CutsGrow ==
    ASSUME NEW p, IsCells(p), NEW c, IsCells(c), NEW q, AreJoined(p, c, q),
           NEW u, IsCells(u), NEW r, AreJoined(p, u, r), NEW len, IsRoom(len),
           NEW m \in Nat, NEW b, Cuts(q, b, m, Len(p), len),
           KeepsNext(c, u, 0, len), NEW n \in 1..Len(u), IsCut(u, 0, n, len)
    PROVE  \E d : Cuts(r, d, m + 1, Len(p) + n, len)
<1> DEFINE at == Len(p)
           e == at + n
           k == m + 1
           d == [j \in 0..k |-> IF j = k THEN e ELSE b[j]]
<1>1. /\ IsCells(q) /\ LeftOf(q, at, c) /\ Alike(q, p, at)
      /\ at \in Nat /\ Len(c) \in Nat /\ Len(q) = at + Len(c) /\ at \in 0..Len(q)
  BY JoinedCells
<1>2. /\ IsCells(r) /\ LeftOf(r, at, u) /\ Alike(r, p, at)
      /\ Len(u) \in Nat /\ Len(r) = at + Len(u) /\ at \in 0..Len(r)
  BY JoinedCells
<1>3. len \in Nat
  BY DEF IsRoom
<1>4. IsCut(r, at, e, len)
  BY <1>2, <1>3, CutShifts
<1>5. Alike(q, r, at)
  BY <1>1, <1>2 DEF Alike
<1>6. KeepsNext(q, r, at, len)
  <2>1. SUFFICES ASSUME at # Len(q)
                 PROVE  /\ at # Len(r)
                        /\ \/ CellCost(r[at + 1]) >= CellCost(q[at + 1])
                           \/ CellCost(r[at + 1]) > len \div 8
    BY DEF KeepsNext
  <2>2. 0 # Len(c) /\ 1 \in 1..Len(c)
    BY <1>1, <2>1
  <2>3. /\ 0 # Len(u)
        /\ CellCost(u[0 + 1]) >= CellCost(c[0 + 1]) \/ CellCost(u[0 + 1]) > len \div 8
    BY <2>2 DEF KeepsNext
  <2>4. at # Len(r) /\ 1 \in 1..Len(u) /\ 0 + 1 = 1
    BY <1>2, <2>3
  <2>5. q[at + 1] = c[1] /\ r[at + 1] = u[1]
    BY <2>2, <2>4 DEF AreJoined
  <2>6. QED
    BY <2>3, <2>4, <2>5
<1>7. /\ b[0] = 0 /\ b[m] = at
      /\ \A j \in 0..m : b[j] \in 0..at
      /\ \A j \in 1..m : IsCut(q, b[j - 1], b[j], len)
  BY DEF Cuts
<1>8. /\ at <= Len(q) /\ at <= Len(r) /\ n \in Nat /\ e \in Nat /\ at <= e
  <2>1. n \in Nat
    BY <1>2
  <2> HIDE DEF at
  <2>2. QED
    BY <1>1, <1>2, <2>1
<1> HIDE DEF at, e
<1>9. k \in Nat /\ k - 1 = m /\ k \in 0..k
  OBVIOUS
<1>10. \A j \in 0..m : j \in 0..k /\ j # k
  BY <1>9
<1>11. \A j \in 0..m : d[j] = b[j]
  BY <1>10
<1>12. d[k] = e
  BY <1>9
<1>13. \A j \in 0..k : j = k \/ j \in 0..m
  BY <1>9
<1> HIDE DEF k, d
<1>14. d[0] = 0
  <2>1. 0 \in 0..m
    OBVIOUS
  <2>2. QED
    BY <1>7, <1>11, <2>1
<1>15. \A j \in 0..k : d[j] \in 0..e
  <2>1. \A j \in 0..m : d[j] \in 0..at
    BY <1>7, <1>11
  <2>2. \A x \in 0..at : x \in 0..e
    BY <1>1, <1>8
  <2>3. e \in 0..e
    BY <1>8
  <2>4. QED
    BY <1>12, <1>13, <2>1, <2>2, <2>3
<1>16. ASSUME NEW j \in 1..k PROVE IsCut(r, d[j - 1], d[j], len)
  <2>1. CASE j = k
    <3>1. m \in 0..m
      OBVIOUS
    <3>2. d[j - 1] = at /\ d[j] = e
      BY <1>7, <1>9, <1>11, <1>12, <2>1, <3>1
    <3>3. QED
      BY <1>4, <3>2
  <2>2. CASE j # k
    <3>1. j \in 1..m /\ j \in 0..m /\ j - 1 \in 0..m
      BY <1>9, <2>2
    <3>2. d[j - 1] = b[j - 1] /\ d[j] = b[j] /\ IsCut(q, b[j - 1], b[j], len)
      BY <1>7, <1>11, <3>1
    <3> DEFINE x == b[j - 1]
               y == b[j]
    <3>3. y <= at /\ IsCut(q, x, y, len)
      <4>1. y \in 0..at /\ at \in Nat
        BY <1>1, <1>7, <3>1
      <4> HIDE DEF y
      <4>2. QED
        BY <3>2, <4>1 DEF y
    <3> HIDE DEF x, y
    <3>4. IsCut(r, x, y, len)
      BY <1>1, <1>2, <1>5, <1>6, <1>8, <3>3, CutStays
    <3>5. QED
      BY <3>2, <3>4 DEF x, y
  <2>3. QED
    BY <2>1, <2>2
<1>17. Cuts(r, d, k, e, len)
  BY <1>12, <1>14, <1>15, <1>16 DEF Cuts
<1>18. QED
  BY <1>17 DEF k, e, at

\* The cells behind some of the cells behind some.
LEMMA LeftAgain ==
    ASSUME NEW q, IsCells(q), NEW d \in 0..Len(q), NEW c, LeftOf(q, d, c),
           NEW n \in 0..Len(c), NEW r, LeftOf(c, n, r)
    PROVE  LeftOf(q, d + n, r)
<1> DEFINE l == Len(q)
           m == Len(c)
<1>1. /\ l \in Nat /\ d \in Nat /\ m = l - d /\ m \in Nat /\ n \in Nat /\ n <= m
  <2>1. l \in Nat /\ d \in Nat /\ m = l - d /\ m \in Nat
    BY CostLeft, CostSteps
  <2>2. n \in 0..m
    OBVIOUS
  <2> HIDE DEF l, m
  <2>3. QED
    BY <2>1, <2>2
<1>2. /\ \A i \in 1..(l - d) : c[i] = q[d + i]
      /\ IsSeq(r) /\ Len(r) = m - n /\ \A i \in 1..(m - n) : r[i] = c[n + i]
  BY DEF LeftOf
<1> HIDE DEF l, m
<1>3. m - n = l - (d + n)
  BY <1>1
<1>4. ASSUME NEW i \in 1..(l - (d + n)) PROVE r[i] = q[(d + n) + i]
  <2>1. i \in 1..(m - n)
    BY <1>3
  <2>2. n + i \in 1..(l - d) /\ (d + n) + i = d + (n + i)
    BY <1>1, <2>1
  <2>3. r[i] = c[n + i] /\ c[n + i] = q[d + (n + i)]
    BY <1>2, <2>1, <2>2
  <2>4. QED
    BY <2>2, <2>3
<1>5. QED
  BY <1>2, <1>3, <1>4 DEF LeftOf, l

\* While the parts are counted, everything in tmp is a part as it will be cut
\* again; while they are made, so are the cells that are left, and the last
\* part is all that is left then.
Uncounted == {"queue", "written", "imported", "appended"}
Room == limit - Overhead

CountInv ==
    phase = "first" =>
        \E b : Cuts(tmp.cells \o s.list.cells, b, rounds, Len(tmp.cells), Room)

Remains(q, b) ==
    /\ IsCells(q) /\ b[rounds] \in 0..Len(q) /\ b[count - 1] \in 0..Len(q)
    /\ Cuts(q, b, count - 1, b[count - 1], Room)
    /\ LeftOf(q, b[rounds], s.list.cells)
    /\ CostUpto(q, Len(q)) <= CostUpto(q, b[count - 1]) + Room

MakeInv ==
    phase = "second" =>
        /\ rounds < count /\ Len(parts) = rounds /\ Len(tmp.cells) = 0
        /\ \E q, b : Remains(q, b)

CutInv ==
    /\ phase \in Uncounted => rounds = 0
    /\ CountInv
    /\ MakeInv
    /\ phase = "parts" => Len(parts) = count /\ s.list.cells = << >>

\* What a round takes of the list, and where that goes.
LEMMA RoundTakes ==
    ASSUME SparseInv, phase \in {"first", "second"}
    PROVE  LET t == Taken(s.list.cells, limit)
               from == [s.list EXCEPT !.cells = t.cells]
               left == MovedFrom(from, t.n)
               kept == MovedTo(from, t.n, tmp)
           IN  /\ IsCells(s.list.cells) /\ IsCells(t.cells) /\ IsCells(tmp.cells)
               /\ IsRoom(Room) /\ t.n \in 0..Len(t.cells)
               /\ Len(s.list.cells) <= Len(t.cells)
               /\ t.more \in BOOLEAN
               /\ \E fit : Takes(s.list.cells, Room, fit, t)
               /\ LeftOf(t.cells, t.n, left.cells)
               /\ PutBehind(tmp.cells, t.cells, t.n, kept.cells)
               /\ IsList(left) /\ IsList(kept)
<1> DEFINE t == Taken(s.list.cells, limit)
           from == [s.list EXCEPT !.cells = t.cells]
           left == MovedFrom(from, t.n)
           kept == MovedTo(from, t.n, tmp)
<1>1. /\ IsTaken(s.list.cells, t)
      /\ IsCookie(s) /\ IsList(tmp) /\ Within(tmp.cells, MaxBlocks) /\ MaxBlocks \in Nat
      /\ \E b \in Nat : Within(tmp.cells, b) /\ From(s.list.cells, b)
  BY RoundBegins
<1>2. PICK b \in Nat : Within(tmp.cells, b) /\ From(s.list.cells, b)
  BY <1>1
<1>3. limit \in MaxLens
  BY DEF SparseInv, TmpOK
<1>4. /\ IsList(s.list) /\ IsCells(s.list.cells) /\ IsCells(tmp.cells)
      /\ Within(s.list.cells, MaxBlocks)
  BY <1>1 DEF IsCookie, IsList, IsOrdered
<1>5. IsRoom(limit - Overhead)
  BY <1>3, RoomIs
<1>6. \E fit : Takes(s.list.cells, limit - Overhead, fit, t)
  BY <1>4, <1>5, TakenIs
<1> HIDE DEF t
<1>7. Moved(s.list, t, tmp, b, MaxBlocks)
  BY <1>1, <1>2, <1>4, RoundKeeps
<1>8. IsList(left) /\ IsList(kept)
  BY <1>7 DEF Moved
<1>9. /\ LeftOf(t.cells, t.n, left.cells)
      /\ PutBehind(tmp.cells, t.cells, t.n, kept.cells)
      /\ IsCells(t.cells)
  BY <1>1, <1>2, <1>4, RoundMoves
<1>10. /\ t.n \in 0..Len(t.cells) /\ Len(s.list.cells) <= Len(t.cells) /\ t.more \in BOOLEAN
  BY <1>1 DEF IsTaken
<1>11. QED
  BY <1>4, <1>5, <1>6, <1>8, <1>9, <1>10 DEF Room, t

\* A list moved to an empty one.
LEMMA MovedBack ==
    ASSUME NEW kept, IsList(kept), NEW left, IsList(left), Len(left.cells) = 0
    PROVE  LeftOf(kept.cells, 0, MovedTo(kept, Len(kept.cells), left).cells)
<1> DEFINE n == Len(kept.cells)
           back == MovedTo(kept, n, left)
<1>1. n \in Nat
  BY ListParts
<1>2. n \in 0..Len(kept.cells) /\ 0 \in Nat
  <2> HIDE DEF n
  <2>1. n \in 0..n
    BY <1>1
  <2>2. QED
    BY <2>1 DEF n
<1>3. From(kept.cells, 0) /\ Within(left.cells, 0)
  BY NoneThere, FromNought DEF IsList
<1>4. PutBehind(left.cells, kept.cells, n, back.cells)
  <2> HIDE DEF n
  <2>1. QED
    BY <1>2, <1>3, MovedBehind
<1> DEFINE q == back.cells
           k == kept.cells
<1>5. IsSeq(q) /\ Len(q) = 0 + n /\ \A i \in 1..n : q[0 + i] = k[i]
  BY <1>4 DEF PutBehind
<1> HIDE DEF q, n, k
<1>6. Len(q) = n - 0 /\ \A i \in 1..(n - 0) : q[i] = k[0 + i]
  <2>1. \A i \in 1..n : 0 + i = i
    BY <1>1
  <2>2. n - 0 = n /\ 0 + n = n
    BY <1>1
  <2>3. QED
    BY <1>5, <2>1, <2>2
<1>7. QED
  BY <1>5, <1>6 DEF LeftOf, q, n, k

\* A round of the count puts one part more into tmp, and it would be cut again
\* as it is.
LEMMA CutFirstRound == SparseInv /\ FitInv /\ CutInv /\ FirstRound => CutInv'
<1> SUFFICES ASSUME SparseInv, FitInv, CutInv, FirstRound PROVE CutInv'
  OBVIOUS
<1> DEFINE t == Taken(s.list.cells, limit)
           from == [s.list EXCEPT !.cells = t.cells]
           left == MovedFrom(from, t.n)
           kept == MovedTo(from, t.n, tmp)
           back == MovedTo(kept, Len(kept.cells), left)
           c == s.list.cells
           p == tmp.cells
           q == p \o c
<1>1. /\ phase = "first" /\ limit' = limit /\ parts' = parts
      /\ \/ /\ t.more
            /\ s' = [s EXCEPT !.list = left] /\ tmp' = kept /\ rounds' = rounds + 1
            /\ phase' = phase /\ count' = count
         \/ /\ ~t.more
            /\ s' = [s EXCEPT !.list = back] /\ tmp' = EmptyList
            /\ count' = rounds + 1 /\ rounds' = 0 /\ phase' = "second"
  BY DEF FirstRound
<1>2. /\ IsCells(c) /\ IsCells(t.cells) /\ IsCells(p)
      /\ IsRoom(Room) /\ t.n \in 0..Len(t.cells)
      /\ Len(c) <= Len(t.cells)
      /\ \E fit : Takes(c, Room, fit, t)
      /\ LeftOf(t.cells, t.n, left.cells)
      /\ PutBehind(p, t.cells, t.n, kept.cells)
      /\ IsList(left) /\ IsList(kept)
  BY <1>1, RoundTakes
<1>3. PICK fit : Takes(c, Room, fit, t)
  BY <1>2
<1>4. PICK b : Cuts(q, b, rounds, Len(p), Room)
  BY <1>1 DEF CutInv, CountInv
<1>5. rounds \in Nat /\ s = [len |-> s.len, list |-> s.list] /\ Len(parts) = 0
  <2>1. rounds \in Nat /\ IsCookie(s)
    BY DEF SparseInv, RestOK, CookieOK
  <2>2. Len(parts) = 0
    BY <1>1 DEF FitInv, Uncut
  <2>3. QED
    BY <2>1, <2>2 DEF IsCookie
<1>6. Room' = Room
  BY <1>1 DEF Room
<1> HIDE DEF t, c, p
<1>7. IsSeq(p) /\ IsSeq(c) /\ IsSeq(t.cells)
  BY <1>2 DEF IsCells
<1>8. AreJoined(p, c, q)
  BY <1>7, JoinedAs
<1> HIDE DEF q, left, kept
<1>9. CASE t.more
  <2>1. /\ s' = [s EXCEPT !.list = left] /\ tmp' = kept /\ rounds' = rounds + 1
        /\ phase' = phase
    BY <1>1, <1>9
  <2>2. s'.list = left
    <3>1. s' = [len |-> s.len, list |-> left]
      BY <1>5, <2>1
    <3>2. QED
      BY <3>1
  <2> DEFINE r == tmp'.cells \o s'.list.cells
  <2>3. /\ IsCut(t.cells, 0, t.n, Room) /\ t.n \in 1..Len(t.cells)
        /\ KeepsNext(c, t.cells, 0, Room)
    BY <1>2, <1>3, <1>9, NewCut
  <2>4. AreJoined(kept.cells, left.cells, r)
    <3>1. IsSeq(kept.cells) /\ IsSeq(left.cells)
      BY <1>2 DEF IsList, IsOrdered, IsCells
    <3>2. r = kept.cells \o left.cells
      BY <2>1, <2>2
    <3>3. QED
      BY <3>1, <3>2, JoinedAs
  <2> HIDE DEF r
  <2>5. AreJoined(p, t.cells, r)
    BY <1>2, <1>7, <2>4, Regrouped
  <2>6. \E d : Cuts(r, d, rounds + 1, Len(p) + t.n, Room)
    BY <1>2, <1>4, <1>5, <1>8, <2>3, <2>5, CutsGrow
  <2>7. Len(tmp'.cells) = Len(p) + t.n
    BY <1>2, <2>1 DEF PutBehind
  <2>8. \E d : Cuts(tmp'.cells \o s'.list.cells, d, rounds', Len(tmp'.cells), Room')
    BY <1>6, <2>1, <2>6, <2>7 DEF r
  <2>9. phase' = "first"
    BY <1>1, <2>1
  <2>10. CountInv'
    BY <2>8 DEF CountInv
  <2>11. QED
    BY <2>9, <2>10 DEF CutInv, MakeInv, Uncounted
<1>10. CASE ~t.more
  <2>1. /\ s' = [s EXCEPT !.list = back] /\ tmp' = EmptyList
        /\ count' = rounds + 1 /\ rounds' = 0 /\ phase' = "second"
    BY <1>1, <1>10
  <2>2. s'.list = back
    <3>1. s' = [len |-> s.len, list |-> back]
      BY <1>5, <2>1
    <3>2. QED
      BY <3>1
  <2>3. fit = Len(c) /\ t.cells = c /\ t.n = Len(c) /\ IsFit(c, Room, fit)
    <3>1. TakesAll(c, Room, fit, t) /\ IsFit(c, Room, fit)
      <4>1. ~TakesSome(c, Room, fit, t) /\ ~TakesCut(c, Room, fit, t)
        BY <1>10 DEF TakesSome, TakesCut
      <4>2. QED
        BY <1>3, <4>1 DEF Takes
    <3>2. QED
      BY <3>1 DEF TakesAll
  <2>4. /\ IsCells(q) /\ LeftOf(q, Len(p), c) /\ Len(p) \in Nat /\ Len(c) \in Nat
        /\ Len(q) = Len(p) + Len(c) /\ Len(p) \in 0..Len(q)
    BY <1>2, <1>8, JoinedCells
  <2>5. Len(left.cells) = 0 /\ PutBehind(p, c, Len(c), kept.cells)
    <3>1. Len(left.cells) = Len(c) - Len(c)
      BY <1>2, <2>3 DEF LeftOf
    <3>2. QED
      BY <1>2, <2>3, <2>4, <3>1
  <2>6. LeftOf(kept.cells, 0, back.cells)
    BY <1>2, <2>5, MovedBack
  <2>7. LeftOf(q, 0, back.cells)
    <3> DEFINE k == kept.cells
               z == back.cells
               n == Len(q)
    <3>1. /\ Len(k) = n /\ \A i \in 1..Len(p) : k[i] = q[i]
      BY <1>8, <2>4, <2>5 DEF PutBehind, AreJoined
    <3>2. \A i \in 1..Len(c) : k[Len(p) + i] = q[Len(p) + i]
      BY <1>8, <2>5 DEF PutBehind, AreJoined
    <3>3. \A i \in 1..n : k[i] = q[i]
      <4> SUFFICES ASSUME NEW i \in 1..n PROVE k[i] = q[i]
        OBVIOUS
      <4>1. CASE i <= Len(p)
        <5>1. i \in 1..Len(p)
          BY <2>4, <4>1
        <5>2. QED
          BY <3>1, <5>1
      <4>2. CASE ~(i <= Len(p))
        <5> DEFINE j == i - Len(p)
        <5>1. j \in 1..Len(c) /\ Len(p) + j = i
          BY <2>4, <4>2
        <5> HIDE DEF j, k
        <5>2. k[Len(p) + j] = q[Len(p) + j]
          BY <3>2, <5>1
        <5>3. QED
          BY <5>1, <5>2
      <4>3. QED
        BY <4>1, <4>2
    <3>4. IsSeq(z) /\ Len(z) = Len(k) - 0 /\ \A i \in 1..(Len(k) - 0) : z[i] = k[0 + i]
      BY <2>6 DEF LeftOf
    <3>5. n \in Nat /\ \A i \in 1..(n - 0) : 0 + i \in 1..n
      BY <2>4
    <3> HIDE DEF k, z, n
    <3>6. IsSeq(z) /\ Len(z) = n - 0 /\ \A i \in 1..(n - 0) : z[i] = q[0 + i]
      BY <3>1, <3>3, <3>4, <3>5
    <3>7. QED
      BY <3>6 DEF LeftOf, n, z
  <2>8. CostUpto(q, Len(q)) <= CostUpto(q, Len(p)) + Room
    <3>1. Len(c) \in 0..Len(c)
      BY <2>4
    <3>2. CostUpto(q, Len(p) + Len(c)) = CostUpto(q, Len(p)) + CostUpto(c, Len(c))
      BY <2>4, <3>1, CostLeft
    <3>3. CostUpto(c, Len(c)) <= Room
      BY <2>3 DEF IsFit
    <3>4. CostUpto(c, Len(c)) \in Nat /\ CostUpto(q, Len(p)) \in Nat /\ Room \in Nat
      BY <1>2, <2>4, <3>1, CostSteps DEF IsRoom
    <3> DEFINE x == CostUpto(q, Len(q))
               y == CostUpto(q, Len(p))
               z == CostUpto(c, Len(c))
    <3>5. x = y + z /\ z <= Room /\ z \in Nat /\ y \in Nat /\ Room \in Nat
      BY <2>4, <3>2, <3>3, <3>4
    <3> HIDE DEF x, y, z
    <3>6. x <= y + Room
      BY <3>5
    <3>7. QED
      BY <3>6 DEF x, y
  <2>8a. PICK w : w = q
    OBVIOUS
  <2>9. Remains(w, b)'
    <3>1. count' - 1 = rounds /\ rounds' = 0
      BY <1>5, <2>1
    <3>2. b[0] = 0 /\ b[rounds] = Len(p)
      BY <1>4 DEF Cuts
    <3>3. 0 \in 0..Len(q)
      BY <2>4
    <3>4. /\ IsCells(w) /\ b[rounds'] \in 0..Len(w) /\ b[count' - 1] \in 0..Len(w)
          /\ Cuts(w, b, count' - 1, b[count' - 1], Room')
          /\ LeftOf(w, b[rounds'], s'.list.cells)
          /\ CostUpto(w, Len(w)) <= CostUpto(w, b[count' - 1]) + Room'
      BY <1>4, <1>6, <2>2, <2>8a, <2>4, <2>7, <2>8, <3>1, <3>2, <3>3
    <3>5. QED
      BY <3>4 DEF Remains
  <2>10. rounds' < count' /\ Len(parts') = rounds' /\ Len(tmp'.cells) = 0
    <3>1. Len(tmp'.cells) = 0
      BY <2>1, Empty DEF EmptyList
    <3>2. QED
      BY <1>1, <1>5, <2>1, <3>1
  <2>11. MakeInv'
    BY <2>9, <2>10 DEF MakeInv
  <2>12. QED
    BY <2>1, <2>11 DEF CutInv, CountInv, Uncounted
<1>11. QED
  BY <1>9, <1>10

\* A round of the second cut takes the part that the count made.
LEMMA CutSecondRound == SparseInv /\ FitInv /\ CutInv /\ SecondRound => CutInv'
<1> SUFFICES ASSUME SparseInv, FitInv, CutInv, SecondRound PROVE CutInv'
  OBVIOUS
<1> DEFINE t == Taken(s.list.cells, limit)
           from == [s.list EXCEPT !.cells = t.cells]
           left == MovedFrom(from, t.n)
           part == [len |-> s.len, list |-> MovedTo(from, t.n, EmptyList)]
           back == MovedTo(tmp, Len(tmp.cells), left)
           c == s.list.cells
<1>0. phase = "second"
  BY DEF SecondRound
<1>1. rounds < count /\ Len(parts) = rounds /\ Len(tmp.cells) = 0
  BY <1>0 DEF CutInv, MakeInv
<1>2. /\ limit' = limit /\ count' = count /\ rounds' = rounds + 1
      /\ parts' = Append(parts, part)
      /\ \/ t.more /\ s' = [s EXCEPT !.list = left] /\ tmp' = tmp /\ phase' = phase
         \/ ~t.more /\ s' = [s EXCEPT !.list = back] /\ tmp' = EmptyList /\ phase' = "parts"
  BY <1>1 DEF SecondRound
<1>3. /\ IsCells(c) /\ IsCells(t.cells)
      /\ IsRoom(Room) /\ t.n \in 0..Len(t.cells)
      /\ \E fit : Takes(c, Room, fit, t)
      /\ LeftOf(t.cells, t.n, left.cells)
      /\ IsList(left)
  BY <1>0, RoundTakes
<1>4. /\ rounds \in Nat /\ count \in Nat /\ s = [len |-> s.len, list |-> s.list]
      /\ Len(parts') = rounds + 1
  <2>1. rounds \in Nat /\ count \in Nat /\ IsCookie(s)
    BY DEF SparseInv, RestOK, CookieOK
  <2>2. IsSeq(parts)
    BY DEF FitInv
  <2> HIDE DEF part
  <2>3. Len(parts') = Len(parts) + 1
    BY <1>2, <2>2, Appended
  <2>4. QED
    BY <1>1, <2>1, <2>3 DEF IsCookie
<1>5. PICK q, b : Remains(q, b)
  BY <1>0 DEF CutInv, MakeInv
<1> DEFINE r == rounds
           m == count - 1
<1>6. /\ IsCells(q) /\ b[r] \in 0..Len(q) /\ b[m] \in 0..Len(q)
      /\ Cuts(q, b, m, b[m], Room)
      /\ LeftOf(q, b[r], c)
      /\ CostUpto(q, Len(q)) <= CostUpto(q, b[m]) + Room
  BY <1>5 DEF Remains
<1>7. /\ IsCells(c) /\ Len(c) = Len(q) - b[r] /\ Len(c) \in Nat /\ b[r] \in Nat /\ Len(q) \in Nat
  BY <1>6, CostLeft, CostSteps
<1>8. Room' = Room /\ Room = limit - Overhead /\ Room \in Nat
  BY <1>2, <1>3 DEF Room, IsRoom
<1> HIDE DEF c, left
<1>9. CASE r # m
  <2> DEFINE x == b[r]
             y == b[r + 1]
             n == y - x
  <2>1. r + 1 \in 1..m /\ (r + 1) - 1 = r /\ r + 1 \in 0..m
    BY <1>1, <1>4, <1>9
  <2>2. IsCut(q, x, y, Room)
    BY <1>6, <2>1 DEF Cuts
  <2>3. /\ x \in 0..Len(q) /\ y \in 0..Len(q) /\ x < y
    BY <2>2 DEF IsCut
  <2> HIDE DEF x, y
  <2>4. n \in 1..Len(c) /\ x + n = y /\ n \in 0..Len(c)
    BY <1>7, <2>3 DEF x
  <2> HIDE DEF n
  <2>5. IsCut(c, 0, n, Room)
    <3>1. LeftOf(q, x, c)
      BY <1>6 DEF x
    <3>2. IsCut(q, x, x + n, Room)
      BY <2>2, <2>4
    <3>3. QED
      BY <1>6, <1>8, <2>3, <2>4, <3>1, <3>2, CutShifts
  <2>6. t = [cells |-> c, n |-> n, more |-> TRUE]
    <3>1. IsRoom(limit - Overhead) /\ IsCut(c, 0, n, limit - Overhead)
      BY <1>3, <1>8, <2>5
    <3>2. Taken(c, limit) = [cells |-> c, n |-> n, more |-> TRUE]
      BY <1>3, <3>1, CutIsTaken
    <3>3. QED
      BY <3>2 DEF c
  <2> HIDE DEF t
  <2>7. /\ s' = [s EXCEPT !.list = left] /\ tmp' = tmp /\ phase' = phase
    BY <1>2, <2>6
  <2>8. s'.list = left
    <3>1. s' = [len |-> s.len, list |-> left]
      BY <1>4, <2>7
    <3>2. QED
      BY <3>1
  <2>9. LeftOf(q, y, left.cells)
    <3>1. LeftOf(c, n, left.cells)
      BY <1>3, <2>6
    <3>2. LeftOf(q, x, c)
      BY <1>6 DEF x
    <3>3. LeftOf(q, x + n, left.cells)
      BY <1>6, <2>3, <2>4, <3>1, <3>2, LeftAgain
    <3>4. QED
      BY <2>4, <3>3
  <2>10. Remains(q, b)'
    <3>1. /\ IsCells(q) /\ b[rounds'] \in 0..Len(q) /\ b[count' - 1] \in 0..Len(q)
          /\ Cuts(q, b, count' - 1, b[count' - 1], Room')
          /\ LeftOf(q, b[rounds'], s'.list.cells)
          /\ CostUpto(q, Len(q)) <= CostUpto(q, b[count' - 1]) + Room'
      BY <1>2, <1>6, <1>8, <2>3, <2>8, <2>9 DEF y
    <3>2. QED
      BY <3>1 DEF Remains
  <2>11. rounds' < count' /\ Len(parts') = rounds' /\ Len(tmp'.cells) = 0
    BY <1>1, <1>2, <1>4, <1>9, <2>7
  <2>12. phase' = "second"
    BY <1>0, <2>7
  <2>13. MakeInv'
    BY <2>10, <2>11 DEF MakeInv
  <2>14. QED
    BY <2>12, <2>13 DEF CutInv, CountInv, Uncounted
<1>10. CASE r = m
  <2>1. CostUpto(c, Len(c)) <= Room /\ Len(c) \in 0..Len(c)
    <3>1. Len(c) \in 0..Len(c) /\ b[r] + Len(c) = Len(q)
      BY <1>7
    <3>2. CostUpto(q, b[r] + Len(c)) = CostUpto(q, b[r]) + CostUpto(c, Len(c))
      BY <1>6, <3>1, CostLeft
    <3>3. CostUpto(c, Len(c)) \in Nat /\ CostUpto(q, b[r]) \in Nat
      BY <1>3, <1>6, <3>1, CostSteps
    <3> DEFINE u == CostUpto(q, Len(q))
               v == CostUpto(q, b[r])
               w == CostUpto(c, Len(c))
    <3>4. u = v + w /\ v \in Nat /\ w \in Nat /\ u <= v + Room
      BY <1>6, <1>10, <3>1, <3>2, <3>3
    <3> HIDE DEF u, v, w
    <3>5. w <= Room
      BY <1>8, <3>4
    <3>6. QED
      BY <3>1, <3>5 DEF w
  <2>2. PICK fit : Takes(c, Room, fit, t)
    BY <1>3
  <2>3. IsFit(c, Room, fit) /\ fit \in 0..Len(c)
    BY <2>2 DEF Takes, IsFit
  <2>4. fit = Len(c)
    <3>1. Len(c) <= fit
      BY <1>3, <1>8, <2>1, <2>3, FitIs
    <3>2. QED
      BY <1>7, <2>3, <3>1
  <2>5. t = [cells |-> c, n |-> fit, more |-> FALSE]
    BY <2>2, <2>4 DEF Takes, TakesAll, TakesSome, TakesCut
  <2> HIDE DEF t
  <2>6. s' = [s EXCEPT !.list = back] /\ phase' = "parts"
    BY <1>2, <2>5
  <2>7. LeftOf(c, Len(c), left.cells)
    BY <1>3, <2>4, <2>5
  <2>8. left.cells = << >>
    <3>1. IsSeq(left.cells) /\ Len(left.cells) = Len(c) - Len(c)
      BY <2>7 DEF LeftOf
    <3>2. Len(left.cells) = 0
      BY <1>7, <3>1
    <3>3. QED
      BY <3>1, <3>2, Empty
  <2>9. back = left
    BY <1>1 DEF MovedTo
  <2>10. s'.list.cells = << >>
    <3> HIDE DEF back
    <3>1. s' = [len |-> s.len, list |-> back]
      BY <1>4, <2>6
    <3>2. QED
      BY <2>8, <2>9, <3>1
  <2>11. Len(parts') = count'
    BY <1>2, <1>4, <1>10
  <2>12. QED
    BY <2>6, <2>10, <2>11 DEF CutInv, CountInv, MakeInv, Uncounted
<1>11. QED
  BY <1>9, <1>10

\* Nothing else cuts.
LEMMA CutIdle ==
    ASSUME CutInv, rounds' = rounds, phase' \notin {"first", "second", "parts"},
           phase' \in Uncounted => phase \in Uncounted
    PROVE  CutInv'
BY DEF CutInv, CountInv, MakeInv

\* Nothing is in tmp when the count starts.
LEMMA CutStart == SparseInv /\ CutInv /\ StartCutting => CutInv'
<1> SUFFICES ASSUME SparseInv, CutInv, StartCutting PROVE CutInv'
  OBVIOUS
<1>1. /\ phase = "imported" /\ phase' = "first" /\ rounds' = rounds /\ tmp' = tmp
  BY DEF StartCutting
<1>2. rounds = 0 /\ tmp = EmptyList
  BY <1>1 DEF CutInv, Uncounted, SparseInv, TmpOK
<1>3. Len(tmp.cells) = 0
  BY <1>2, Empty DEF EmptyList
<1> DEFINE b == [j \in {0} |-> 0]
<1>4. Cuts(tmp'.cells \o s'.list.cells, b, rounds', Len(tmp'.cells), Room')
  <2>1. b[0] = 0 /\ 0..0 = {0} /\ 1..0 = {}
    OBVIOUS
  <2> HIDE DEF b
  <2>2. rounds' = 0 /\ Len(tmp'.cells) = 0
    BY <1>1, <1>2, <1>3
  <2>3. QED
    BY <2>1, <2>2 DEF Cuts
<1>5. CountInv'
  BY <1>4 DEF CountInv
<1>6. QED
  BY <1>1, <1>5 DEF CutInv, MakeInv, Uncounted

\* What is counted is what will be cut, always.
LEMMA CutInductive == Spec => []CutInv
<1>1. Init => CutInv
  BY DEF Init, CutInv, CountInv, MakeInv
<1>2. SparseInv /\ FitInv /\ CutInv /\ [Next]_vars => CutInv'
  <2> SUFFICES ASSUME SparseInv, FitInv, CutInv, [Next]_vars PROVE CutInv'
    OBVIOUS
  <2>1. CASE AddFill \/ AddData \/ AddFd \/ AddFile
    <3>1. \E bb : Add(bb)
      <4>1. CASE AddFill
        BY <4>1 DEF AddFill
      <4>2. CASE AddData \/ AddFd \/ AddFile
        <5>1. PICK type : AddFrom(type)
          BY <4>2 DEF AddData, AddFd, AddFile
        <5>2. QED
          BY <5>1 DEF AddFrom
      <4>3. QED
        BY <2>1, <4>1, <4>2
    <3>2. phase = "queue" /\ phase' = phase /\ rounds' = rounds
      BY <3>1 DEF Add, cutting
    <3>3. QED
      BY <3>2, CutIdle
  <2>2. CASE ReadRaw
    BY <2>2, CutIdle DEF ReadRaw, cutting
  <2>3. CASE Write
    BY <2>3, CutIdle DEF Write, cutting, Uncounted
  <2>4. CASE WriteFails
    BY <2>4, CutIdle DEF WriteFails, cutting, Uncounted
  <2>5. CASE WriteAborts
    BY <2>5, CutIdle DEF WriteAborts, cutting, Uncounted
  <2>6. CASE WriteRaw
    BY <2>6, CutIdle DEF WriteRaw, cutting, Uncounted
  <2>7. CASE Import
    <3>1. phase = "written" /\ phase' = Outcome(file, FALSE) /\ rounds' = rounds
      BY <2>7 DEF Import, cutting
    <3>2. phase' \in {"crashed", "rejected", "truncated", "imported"}
      BY <3>1, OutcomeIs
    <3>3. QED
      BY <3>1, <3>2, CutIdle DEF Uncounted
  <2>8. CASE Append2simg
    <3>1. phase = "written" /\ phase' \in {"appended", "misread"} /\ rounds' = rounds
      BY <2>8 DEF Append2simg, cutting
    <3>2. QED
      BY <3>1, CutIdle DEF Uncounted
  <2>9. CASE StartCutting
    BY <2>9, CutStart
  <2>10. CASE FirstRound
    BY <2>10, CutFirstRound
  <2>11. CASE SecondRound
    BY <2>11, CutSecondRound
  <2>12. CASE WriteParts
    BY <2>12, CutIdle DEF WriteParts, cutting, Uncounted
  <2>13. CASE ExpandNext
    <3>1. /\ phase = "expanding" /\ phase' \in {"expanding", "expanded", "rejected"}
          /\ rounds' = rounds
      BY <2>13 DEF ExpandNext, cutting
    <3>2. QED
      BY <3>1, CutIdle DEF Uncounted
  <2>14. CASE UNCHANGED vars
    BY <2>14 DEF vars, cutting, CutInv, CountInv, MakeInv, Remains, Room
  <2>15. QED
    BY <2>1, <2>2, <2>3, <2>4, <2>5, <2>6, <2>7, <2>8, <2>9, <2>10, <2>11, <2>12,
       <2>13, <2>14 DEF Next
<1>3. QED
  BY <1>1, <1>2, SparseInductive, FitInductive, PTL DEF Spec

\* simg2simg counts the parts, makes room for as many cookies, and cuts again
\* (simg2simg.c:71-88, sparse.c:278-317): the second time gives exactly as
\* many parts.
THEOREM SecondCut == Spec => []SecondCutAgrees
<1>1. CutInv => SecondCutAgrees
  BY DEF CutInv, MakeInv, SecondCutAgrees
<1>2. QED
  BY <1>1, CutInductive, PTL
==============================================================================
