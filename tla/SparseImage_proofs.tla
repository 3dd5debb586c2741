-------------------------- MODULE SparseImage_proofs --------------------------
(***************************************************************************)
(* Proofs about what libsparse's lists and files hold, on the invariants of *)
(* SparseFile_proofs: what is put into an image stays there until a tool    *)
(* gives it up, so that the cookie implements SparseImage (ImageKept), and  *)
(* the tools read what the library writes (ToolsAgree).                     *)
(*                                                                         *)
(* The image is kept because no call changes which value the cells, in      *)
(* whatever list they are, show at which word (Shows), but by what it adds: *)
(* a merge joins what lies behind one another, a cut parts it again, a      *)
(* file has a chunk for each cell at its block (Carries).  That what is     *)
(* shown is what was asked for is the invariant (ImageInv).                 *)
(*                                                                         *)
(* Queueing may lose a cell if the allocator does not hand out again at     *)
(* once what was freed: then all that is shown is what was asked for, and   *)
(* not always the other way (Tells).                                        *)
(*                                                                         *)
(* The tools agree because images are of whole blocks (IsWhole), unless an  *)
(* end was lost: then the chunks counted are those written, and their       *)
(* blocks are the image's.  A raw file has what the parts laid over one     *)
(* another so far show, and else zeros (Expanded).                          *)
(***************************************************************************)
EXTENDS SparseFile_proofs

-----------------------------------------------------------------------------
(* What the lists show, moved and cut. *)

\* Cells in line show what each line shows.
LEMMA JoinedShow ==
    ASSUME NEW p, Len(p) \in Nat, NEW q, Len(q) \in Nat, NEW r, AreJoined(p, q, r)
    PROVE  \A w, v : Shows(r, w, v) <=> Shows(p, w, v) \/ Shows(q, w, v)
<1> DEFINE a == Len(p)
           b == Len(q)
<1>1. /\ a \in Nat /\ b \in Nat /\ Len(r) = a + b
      /\ \A i \in 1..a : r[i] = p[i]
      /\ \A i \in 1..b : r[a + i] = q[i]
  BY DEF AreJoined
<1> HIDE DEF a, b
<1>2. ASSUME NEW w, NEW v, Shows(r, w, v) PROVE Shows(p, w, v) \/ Shows(q, w, v)
  <2>1. PICK j \in 1..(a + b) : Puts(r[j], w, v)
    BY <1>1, <1>2 DEF Shows
  <2>2. CASE j <= a
    <3>1. j \in 1..a
      BY <1>1, <2>2
    <3>2. QED
      BY <1>1, <2>1, <3>1 DEF Shows, a
  <2>3. CASE j > a
    <3>1. j - a \in 1..b /\ a + (j - a) = j
      BY <1>1, <2>3
    <3>2. r[j] = q[j - a]
      BY <1>1, <3>1
    <3>3. QED
      BY <2>1, <3>1, <3>2 DEF Shows, b
  <2>4. QED
    BY <1>1, <2>2, <2>3
<1>3. ASSUME NEW w, NEW v, Shows(p, w, v) PROVE Shows(r, w, v)
  <2>1. PICK j \in 1..a : Puts(p[j], w, v)
    BY <1>3 DEF Shows, a
  <2>2. j \in 1..(a + b) /\ r[j] = p[j]
    BY <1>1
  <2>3. QED
    BY <1>1, <2>1, <2>2 DEF Shows
<1>4. ASSUME NEW w, NEW v, Shows(q, w, v) PROVE Shows(r, w, v)
  <2>1. PICK j \in 1..b : Puts(q[j], w, v)
    BY <1>4 DEF Shows, b
  <2>2. a + j \in 1..(a + b) /\ r[a + j] = q[j]
    BY <1>1
  <2>3. QED
    BY <1>1, <2>1, <2>2 DEF Shows
<1>5. QED
  BY <1>2, <1>3, <1>4

\* A list cut in two shows what its parts show.
LEMMA MovedShow ==
    ASSUME NEW p, IsSeq(p), NEW u, IsSeq(u), NEW n \in 0..Len(u),
           NEW kept, PutBehind(p, u, n, kept), NEW left, LeftOf(u, n, left)
    PROVE  \A w, v : Shows(kept, w, v) \/ Shows(left, w, v) <=> Shows(p, w, v) \/ Shows(u, w, v)
<1>1. Len(p) \in Nat /\ Len(u) \in Nat /\ IsSeq(kept) /\ IsSeq(left)
  BY DEF IsSeq, PutBehind, LeftOf
<1>2. Len(kept) \in Nat /\ Len(left) \in Nat
  BY <1>1 DEF IsSeq
<1>3. AreJoined(kept, left, kept \o left)
  BY <1>1, JoinedAs
<1>4. AreJoined(p, u, kept \o left)
  BY <1>3, Regrouped
<1> DEFINE r == kept \o left
<1> HIDE DEF r
<1>5. \A w, v : Shows(r, w, v) <=> Shows(kept, w, v) \/ Shows(left, w, v)
  BY <1>2, <1>3, JoinedShow DEF r
<1>6. \A w, v : Shows(r, w, v) <=> Shows(p, w, v) \/ Shows(u, w, v)
  BY <1>1, <1>4, JoinedShow DEF r
<1>7. QED
  BY <1>5, <1>6

\* backed_block_split() leaves everything where it is.
LEMMA SplitShows ==
    ASSUME NEW cells, IsCells(cells), NEW i \in 1..Len(cells), NEW max \in Nat,
           ~(cells[i].len <= AlignDown(max)), NEW u, InTwo(cells, i, max, u)
    PROVE  \A w, v : Shows(u, w, v) <=> Shows(cells, w, v)
<1> DEFINE bb == cells[i]
           k == max \div BlockSize
           cut == AlignDown(max)
           a == FirstPiece(bb, max)
           b == OtherPiece(bb, max)
<1>1. IsSeq(cells) /\ Len(cells) \in Nat /\ IsCell(bb)
  BY DEF IsCells, IsSeq
<1>2. cut \in Nat /\ cut = k * BlockSize /\ k \in Nat /\ cut \div BlockSize = k
  <2>1. cut \in Nat /\ cut = k * BlockSize /\ k \in Nat
    BY DownIs
  <2>2. BlockSize \in Nat \ {0}
    BY BlockSizeAssumption
  <2> HIDE DEF k, cut
  <2>3. 0 \in 0..(BlockSize - 1)
    BY <2>2
  <2>4. (k * BlockSize + 0) \div BlockSize = k
    BY <2>1, <2>2, <2>3, Quotient
  <2>5. k * BlockSize + 0 = k * BlockSize
    BY <2>1
  <2>6. QED
    BY <2>1, <2>4, <2>5
<1>3. /\ a.type = bb.type /\ a.src = bb.src /\ a.off = bb.off /\ a.len = cut /\ a.block = bb.block
      /\ b.type = bb.type /\ b.src = bb.src /\ b.len = bb.len - cut
      /\ b.block = bb.block + cut \div BlockSize
      /\ bb.type # "fill" => b.off = bb.off + cut
  BY DEF FirstPiece, OtherPiece, Cell
<1>4. bb.len \in Nat /\ bb.block \in Nat /\ bb.off \in Nat /\ cut < bb.len
  BY <1>1, <1>2 DEF IsCell
<1> HIDE DEF a, b, k, cut
<1>5. IsJoin(a, b, bb, k)
  <2>1. b.len \in Nat /\ bb.len = a.len + b.len
    BY <1>2, <1>3, <1>4
  <2>2. QED
    BY <1>2, <1>3, <1>4, <2>1 DEF IsJoin
<1>6. /\ Len(u) = Len(cells) + 1 /\ u[i] = a /\ u[i + 1] = b
      /\ \A j \in 1..(i - 1) : u[j] = cells[j]
      /\ \A j \in (i + 2)..(Len(cells) + 1) : u[j] = cells[j - 1]
  BY DEF InTwo, a, b
<1>7. Joins(u, i, cells)
  <2>1. i \in 1..(Len(u) - 1) /\ Len(cells) = Len(u) - 1
    BY <1>1, <1>6
  <2>2. \A j \in (i + 1)..(Len(u) - 1) : cells[j] = u[j + 1]
    <3> TAKE j \in (i + 1)..(Len(u) - 1)
    <3>1. j + 1 \in (i + 2)..(Len(cells) + 1) /\ (j + 1) - 1 = j
      BY <1>1, <1>6
    <3>2. QED
      BY <1>6, <3>1
  <2>3. \A j \in 1..(i - 1) : cells[j] = u[j]
    BY <1>6
  <2>4. IsJoin(u[i], u[i + 1], cells[i], k)
    BY <1>5, <1>6
  <2>5. QED
    BY <1>1, <2>1, <2>2, <2>3, <2>4 DEF Joins
<1>8. Len(u) \in Nat
  BY <1>1, <1>6
<1>9. QED
  BY <1>7, <1>8, JoinsShow

\* What is taken, and perhaps cut, shows what was there.
LEMMA TakenShows ==
    ASSUME NEW cells, IsOrdered(cells), NEW max \in MaxLens
    PROVE  \A w, v : Shows(Taken(cells, max).cells, w, v) <=> Shows(cells, w, v)
<1> DEFINE t == Taken(cells, max)
           len == max - Overhead
<1>1. IsCells(cells) /\ IsRoom(len) /\ IsTaken(cells, t)
  BY RoomIs, TakenKeeps DEF IsOrdered
<1>2. IsCells(t.cells)
  BY <1>1 DEF IsTaken, IsOrdered
<1>3. PICK fit : Takes(cells, len, fit, t)
  BY <1>1, TakenIs
<1> HIDE DEF t, len
<1>4. CASE TakesAll(cells, len, fit, t) \/ TakesSome(cells, len, fit, t)
  <2>1. t.cells = cells
    BY <1>4 DEF TakesAll, TakesSome
  <2>2. QED
    BY <2>1 DEF t
<1>5. CASE TakesCut(cells, len, fit, t)
  <2> DEFINE room == len - CostUpto(cells, fit)
  <2>1. IsFit(cells, len, fit)
    BY <1>3 DEF Takes
  <2>2. /\ fit + 1 \in 1..Len(cells) /\ room \in Nat
        /\ IF cells[fit + 1].len <= AlignDown(room) THEN t.cells = cells
           ELSE InTwo(cells, fit + 1, room, t.cells)
    BY <1>1, <1>2, <1>5, <2>1, CutIs
  <2> HIDE DEF room
  <2>3. CASE cells[fit + 1].len <= AlignDown(room)
    <3>1. t.cells = cells
      BY <2>2, <2>3
    <3>2. QED
      BY <3>1 DEF t
  <2>4. CASE ~(cells[fit + 1].len <= AlignDown(room))
    <3>1. InTwo(cells, fit + 1, room, t.cells)
      BY <2>2, <2>4
    <3>2. \A w, v : Shows(t.cells, w, v) <=> Shows(cells, w, v)
      BY <1>1, <2>2, <2>4, <3>1, SplitShows
    <3>3. QED
      BY <3>2 DEF t
  <2>5. QED
    BY <2>3, <2>4
<1>6. QED
  BY <1>3, <1>4, <1>5 DEF Takes

-----------------------------------------------------------------------------
(* What is imported. *)

\* The gaps in front of the first k cells.
Holes(cells, k) == { i \in 1..k : IsGap(cells, i) }

\* A chunk for each cell and one for each gap: the end of a cell's.
LEMMA PlaceCounts ==
    ASSUME NEW cells, IsCells(cells)
    PROVE  \A k \in 0..Len(cells) : /\ Cardinality(Holes(cells, k)) \in Nat
                                    /\ Place(cells, k) = k + Cardinality(Holes(cells, k))
<1> DEFINE c(k) == Cardinality(Holes(cells, k))
           T == { k \in Nat : k <= Len(cells) => Place(cells, k) = k + c(k) }
<1>1. Len(cells) \in Nat
  BY DEF IsCells, IsSeq
<1>2. ASSUME NEW k \in Nat PROVE IsFiniteSet(Holes(cells, k)) /\ c(k) \in Nat
  <2>1. 1 \in Int /\ k \in Int /\ Holes(cells, k) \in SUBSET (1..k)
    BY DEF Holes
  <2>2. IsFiniteSet(1..k)
    BY <2>1, FS_Interval
  <2>3. IsFiniteSet(Holes(cells, k))
    BY <2>1, <2>2, FS_Subset
  <2>4. QED
    BY <2>3, FS_CardinalityType
<1>3. 0 \in T
  <2>1. Holes(cells, 0) = {}
    BY DEF Holes
  <2>2. c(0) = 0
    BY <2>1, FS_EmptySet
  <2>3. Place(cells, 0) = 0
    BY Places
  <2> HIDE DEF c
  <2>4. QED
    BY <2>2, <2>3
<1>4. ASSUME NEW k \in Nat, k \in T PROVE k + 1 \in T
  <2>1. SUFFICES ASSUME k + 1 <= Len(cells) PROVE Place(cells, k + 1) = (k + 1) + c(k + 1)
    <3>1. k + 1 \in Nat
      OBVIOUS
    <3> HIDE DEF c
    <3>2. QED
      BY <3>1
  <2>2. /\ k + 1 \in 1..Len(cells) /\ (k + 1) - 1 = k /\ k <= Len(cells)
        /\ k + 1 \notin 1..k /\ 1..(k + 1) = (1..k) \cup {k + 1}
    BY <1>1, <2>1
  <2>3. Place(cells, k) = k + c(k)
    BY <1>4, <2>2
  <2>4. /\ IsGap(cells, k + 1) => Place(cells, k + 1) = Place(cells, k) + 2
        /\ ~IsGap(cells, k + 1) => Place(cells, k + 1) = Place(cells, k) + 1
    <3> DEFINE m == k + 1
    <3>1. m \in 1..Len(cells) /\ m - 1 = k
      BY <2>2
    <3> HIDE DEF m
    <3>2. /\ IsGap(cells, m) => Place(cells, m) = Place(cells, m - 1) + 2
          /\ ~IsGap(cells, m) => Place(cells, m) = Place(cells, m - 1) + 1
      BY <3>1, Places
    <3>3. QED
      BY <3>1, <3>2 DEF m
  <2>5. CASE IsGap(cells, k + 1)
    <3>1. Holes(cells, k + 1) = Holes(cells, k) \cup {k + 1} /\ k + 1 \notin Holes(cells, k)
      BY <2>2, <2>5 DEF Holes
    <3>2. Cardinality(Holes(cells, k) \cup {k + 1}) = Cardinality(Holes(cells, k)) + 1
      BY <1>2, <3>1, FS_AddElement
    <3>3. c(k + 1) = c(k) + 1 /\ c(k) \in Nat
      BY <1>2, <3>1, <3>2
    <3> HIDE DEF c
    <3>4. QED
      BY <2>3, <2>4, <2>5, <3>3
  <2>6. CASE ~IsGap(cells, k + 1)
    <3>1. Holes(cells, k + 1) = Holes(cells, k)
      BY <2>2, <2>6 DEF Holes
    <3>2. c(k + 1) = c(k) /\ c(k) \in Nat
      BY <1>2, <3>1
    <3> HIDE DEF c
    <3>3. QED
      BY <2>3, <2>4, <2>6, <3>2
  <2>7. QED
    BY <2>5, <2>6
<1>5. Nat \subseteq T
  <2> HIDE DEF T
  <2>1. QED
    BY <1>3, <1>4, FromZero
<1>6. \A k \in 0..Len(cells) : k \in Nat /\ k <= Len(cells)
  BY <1>1
<1>7. \A k \in 0..Len(cells) : Place(cells, k) = k + c(k)
  <2> HIDE DEF c
  <2>1. QED
    BY <1>5, <1>6
<1>8. QED
  BY <1>2, <1>6, <1>7

\* sparse_count_chunks() counts every chunk that is written, and perhaps one
\* for an end that gets none.
LEMMA CountCovers ==
    ASSUME NEW c, IsCells(c.list.cells), c.len \in Nat
    PROVE  /\ CountChunks(c) \in Nat /\ Len(ChunksOf(c)) \in Nat
           /\ Len(ChunksOf(c)) <= CountChunks(c)
           /\ CountChunks(c) = Len(ChunksOf(c)) =>
                 (EndOf(c.list.cells, Len(c.list.cells)) < DivUp(c.len) => IsPad(c))
<1> DEFINE cells == c.list.cells
           n == Len(cells)
           top == EndOf(cells, n)
           h == Cardinality(Holes(cells, n))
           rest == IF top < DivUp(c.len) THEN 1 ELSE 0
<1>1. n \in Nat /\ n \in 0..n
  BY DEF IsCells, IsSeq
<1>2. h \in Nat /\ Place(cells, n) = n + h
  BY <1>1, PlaceCounts
<1>3. top \in Nat /\ DivUp(c.len) \in Nat
  BY <1>1, EndOfNat, UpNat
<1>4. CountChunks(c) = n + h + rest
  <2> DEFINE endOf(i) == IF i = 0 THEN 0 ELSE EndBlock(cells[i])
             G == { i \in 1..n : cells[i].block > endOf(i - 1) }
  <2>1. CountChunks(c) = n + Cardinality(G) + (IF endOf(n) < DivUp(c.len) THEN 1 ELSE 0)
    BY Zenon DEF CountChunks
  <2>2. endOf(n) = top
    BY DEF EndOf
  <2>3. G = Holes(cells, n)
    BY DEF Holes, IsGap, EndOf
  <2> HIDE DEF endOf, G, top, n
  <2>4. QED
    BY <2>1, <2>2, <2>3
<1>5. IsPad(c) => top < DivUp(c.len)
  <2> SUFFICES ASSUME IsPad(c) PROVE top < DivUp(c.len)
    OBVIOUS
  <2> DEFINE u == DivUp(c.len) * BlockSize
  <2>1. c.len - top * BlockSize > 0
    BY DEF IsPad, Pad
  <2>2. c.len <= u
    BY UpCovers
  <2>3. BlockSize \in Nat
    BY BlockSizeAssumption
  <2>4. top * BlockSize \in Nat /\ u \in Nat
    BY <1>3, <2>3, Product
  <2>5. DivUp(c.len) <= top => u <= top * BlockSize
    BY <1>3, <2>3, TimesMonotone
  <2> HIDE DEF u, top
  <2> DEFINE t == top * BlockSize
  <2> HIDE DEF t
  <2>6. t \in Nat /\ c.len - t > 0 /\ (DivUp(c.len) <= top => u <= t) /\ u \in Nat
    BY <2>1, <2>4, <2>5 DEF t
  <2>7. QED
    BY <1>3, <2>2, <2>6
<1>6. Len(ChunksOf(c)) = Place(cells, n) + (IF IsPad(c) THEN 1 ELSE 0)
  BY ChunksWritten DEF Written
<1> HIDE DEF top, h, n, cells
<1>7. rest \in Nat /\ (IF IsPad(c) THEN 1 ELSE 0) \in Nat /\ (IF IsPad(c) THEN 1 ELSE 0) <= rest
  BY <1>5
<1>8. CountChunks(c) = Len(ChunksOf(c)) => (top < DivUp(c.len) => IsPad(c))
  <2>1. SUFFICES ASSUME CountChunks(c) = Len(ChunksOf(c)), top < DivUp(c.len) PROVE IsPad(c)
    OBVIOUS
  <2>2. rest = 1
    BY <2>1
  <2> HIDE DEF rest
  <2>3. (IF IsPad(c) THEN 1 ELSE 0) = 1
    BY <1>1, <1>2, <1>4, <1>6, <1>7, <2>1, <2>2
  <2>4. QED
    BY <2>3
<1> HIDE DEF rest
<1>9. CountChunks(c) \in Nat /\ Len(ChunksOf(c)) \in Nat /\ Len(ChunksOf(c)) <= CountChunks(c)
  BY <1>1, <1>2, <1>4, <1>6, <1>7
<1>10. QED
  BY <1>8, <1>9 DEF top, n, cells

\* q is p with checksums behind it.
Carries(q, p) ==
    /\ IsSeq(q) /\ Len(p) <= Len(q)
    /\ \A i \in 1..Len(p) : q[i] = p[i]
    /\ \A i \in (Len(p) + 1)..Len(q) : q[i].kind = "crc"

\* How reading ends well.
LEMMA ImportedIs ==
    ASSUME NEW f, NEW crc, Outcome(f, crc) = "imported"
    PROVE  Len(f.chunks) = f.nchunks /\ ~f.torn
<1> DEFINE n == Len(f.chunks)
           whole == n = f.nchunks /\ CurBlock(f.chunks, n + 1) = f.total
           summed == n > 0 /\ f.chunks[n].kind = "crc"
           raw1 == f.chunks[n].kind = "raw" /\ ~crc
           ok == summed => f.chunks[n].data = ReaderCrc(f.chunks)
<1>1. Outcome(f, crc) =
        CASE summed /\ ~crc -> "crashed"
          [] ~(summed /\ ~crc) /\ ~whole -> "rejected"
          [] ~(summed /\ ~crc) /\ whole /\ f.torn ->
                IF raw1 THEN "truncated" ELSE "rejected"
          [] OTHER -> IF ok THEN "imported" ELSE "rejected"
  BY DEF Outcome
<1> HIDE DEF whole, summed, raw1, ok
<1>2. whole /\ ~f.torn
  BY <1>1
<1>3. QED
  BY <1>2 DEF whole

\* A file that is imported is whole.
LEMMA ImportedWhole ==
    ASSUME NEW c, IsCells(c.list.cells), c.len \in Nat, NEW sum \in BOOLEAN, NEW torn \in BOOLEAN,
           NEW n \in 0..Wanted(c, sum), NEW crc,
           Outcome(FileOf(c, sum, n, torn), crc) = "imported"
    PROVE  /\ Carries(FileOf(c, sum, n, torn).chunks, ChunksOf(c))
           /\ CountChunks(c) = Len(ChunksOf(c)) /\ n = Wanted(c, sum) /\ ~torn
<1> DEFINE chunks == ChunksOf(c)
           f == FileOf(c, sum, n, torn)
           tail == IF sum THEN <<CrcChunk(chunks)>> ELSE << >>
           all == chunks \o tail
           one == IF sum THEN 1 ELSE 0
<1>1. IsSeq(chunks) /\ Len(chunks) \in Nat /\ CountChunks(c) \in Nat /\ Len(chunks) <= CountChunks(c)
  BY ChunksAre, CountCovers
<1>2. /\ f.nchunks = CountChunks(c) + one
      /\ f.chunks = SubSeq(all, 1, n + (IF torn THEN 1 ELSE 0)) /\ f.torn = torn
  BY DEF FileOf
<1>3. Len(f.chunks) = f.nchunks /\ ~torn
  BY <1>2, ImportedIs
<1>4. n \in 0..(Len(chunks) + one)
  BY DEF Wanted
<1>5. IsSeq(tail) /\ Len(tail) = one /\ (sum => tail[1].kind = "crc")
  <2>1. CASE sum
    <3> DEFINE k == CrcChunk(chunks)
    <3>1. k.kind = "crc"
      BY DEF CrcChunk
    <3> HIDE DEF k
    <3>2. IsSeq(<<k>>) /\ Len(<<k>>) = 1 /\ <<k>>[1] = k
      BY Single
    <3>3. tail = <<k>>
      BY <2>1 DEF k
    <3> HIDE DEF tail
    <3>4. QED
      BY <2>1, <3>1, <3>2, <3>3
  <2>2. CASE ~sum
    <3>1. tail = << >>
      BY <2>2
    <3> HIDE DEF tail
    <3>2. QED
      BY <2>2, <3>1, Empty
  <2>3. QED
    BY <2>1, <2>2
<1> HIDE DEF chunks, tail, f
<1>6. AreJoined(chunks, tail, all)
  BY <1>1, <1>5, JoinedAs
<1> HIDE DEF all
<1>7. /\ IsSeq(all) /\ Len(all) = Len(chunks) + one
      /\ \A i \in 1..Len(chunks) : all[i] = chunks[i]
      /\ \A i \in 1..one : all[Len(chunks) + i] = tail[i]
  BY <1>5, <1>6 DEF AreJoined
<1>8. f.chunks = SubSeq(all, 1, n) /\ n \in 0..Len(all)
  <2>1. n + (IF torn THEN 1 ELSE 0) = n
    BY <1>1, <1>3, <1>4
  <2>2. QED
    BY <1>2, <1>4, <1>7, <2>1
<1>9. IsSeq(f.chunks) /\ Len(f.chunks) = n /\ \A i \in 1..n : f.chunks[i] = all[i]
  BY <1>7, <1>8, Begun
<1>10. one \in Nat /\ one <= 1 /\ (one # 0 => sum)
  OBVIOUS
<1> HIDE DEF one
<1>11. n = Len(chunks) + one
  BY <1>1, <1>2, <1>3, <1>4, <1>9, <1>10
<1>12. ASSUME NEW i \in (Len(chunks) + 1)..n PROVE f.chunks[i].kind = "crc"
  <2>1. i \in 1..n /\ i = Len(chunks) + 1 /\ 1 \in 1..one
    BY <1>1, <1>10, <1>11
  <2>2. f.chunks[i] = tail[1] /\ sum
    BY <1>7, <1>9, <1>10, <2>1
  <2>3. QED
    BY <1>5, <2>2
<1>13. ASSUME NEW i \in 1..Len(chunks) PROVE f.chunks[i] = chunks[i]
  <2>1. i \in 1..n
    BY <1>1, <1>10, <1>11
  <2>2. QED
    BY <1>7, <1>9, <2>1
<1>14. Carries(f.chunks, chunks)
  BY <1>1, <1>9, <1>10, <1>11, <1>12, <1>13 DEF Carries
<1>15. CountChunks(c) = Len(chunks)
  BY <1>1, <1>2, <1>3, <1>9, <1>10, <1>11
<1>16. n = Wanted(c, sum)
  BY <1>11 DEF Wanted, chunks, one
<1>17. QED
  BY <1>3, <1>14, <1>15, <1>16 DEF f, chunks

\* And the image it was written from was of whole blocks: the end of any other
\* is counted as a chunk and not written.
LEMMA ImportedLen ==
    ASSUME NEW c, IsCells(c.list.cells), c.len \in Nat, NEW sum \in BOOLEAN, NEW torn \in BOOLEAN,
           NEW n \in 0..Wanted(c, sum), NEW crc, EndsWithin(c),
           Outcome(FileOf(c, sum, n, torn), crc) = "imported"
    PROVE  c.len % BlockSize = 0
<1> DEFINE cells == c.list.cells
           k == Len(cells)
           top == EndOf(cells, k)
           u == DivUp(c.len)
<1>1. k \in Nat /\ k \in 0..k /\ IsSeq(cells)
  BY DEF IsCells, IsSeq
<1>2. top \in Nat /\ u \in Nat /\ BlockSize \in Nat \ {0} /\ BlockSize \in Nat
  BY <1>1, EndOfNat, UpNat, BlockSizeAssumption
<1>3. top < u => IsPad(c)
  BY CountCovers, ImportedWhole
<1>4. top * BlockSize <= c.len
  <2>1. CASE k = 0
    <3>1. top = 0
      BY <2>1 DEF EndOf
    <3> HIDE DEF top
    <3>2. QED
      BY <1>2, <3>1
  <2>2. CASE k # 0
    <3>1. k \in 1..k /\ Last(cells) = cells[k] /\ cells # << >>
      BY <1>1, <2>2, Empty DEF Last
    <3>2. EndsWithin(c) => EndBlock(cells[k]) * BlockSize <= c.len
      BY <3>1 DEF EndsWithin
    <3>3. top = EndBlock(cells[k])
      BY <2>2 DEF EndOf
    <3> HIDE DEF top, cells
    <3>4. QED
      BY <3>2, <3>3
  <2>3. QED
    BY <2>1, <2>2
<1>5. CASE top < u
  <2>1. Pad(c) % BlockSize = 0 /\ Pad(c) > 0 /\ Pad(c) = c.len - top * BlockSize
    BY <1>3, <1>5 DEF IsPad, Pad
  <2> DEFINE t == top * BlockSize
             p == Pad(c)
             q == p \div BlockSize
  <2> HIDE DEF p, q, top
  <2>2. p \in Nat /\ p = c.len - t
    <3>1. t \in Nat
      BY <1>2, Product
    <3> HIDE DEF t
    <3>2. p > 0 /\ p = c.len - t
      BY <2>1 DEF p, t
    <3>3. QED
      BY <3>1, <3>2
  <2>3. q \in Nat /\ p = q * BlockSize
    <3>1. p % BlockSize = 0
      BY <2>1 DEF p
    <3>2. QED
      BY <1>2, <2>2, <3>1, WholeIs DEF q
  <2>4. c.len = (top + q) * BlockSize
    <3>1. (top + q) * BlockSize = top * BlockSize + q * BlockSize
      BY <1>2, <2>3, SumTimes
    <3>2. t \in Nat
      BY <1>2, Product
    <3> DEFINE x == q * BlockSize
    <3> HIDE DEF t, x
    <3>3. p = x /\ p = c.len - t
      BY <2>2, <2>3 DEF x
    <3>4. c.len = t + x
      BY <2>2, <3>2, <3>3
    <3>5. QED
      BY <3>1, <3>4 DEF t, x
  <2>5. top + q \in Nat
    BY <1>2, <2>3
  <2>6. ((top + q) * BlockSize) % BlockSize = 0
    BY <1>2, <2>5, WholeTimes
  <2>7. QED
    BY <2>4, <2>6
<1>6. CASE ~(top < u)
  <2>1. c.len <= u * BlockSize
    BY UpCovers
  <2>2. u * BlockSize <= top * BlockSize /\ u * BlockSize \in Nat /\ top * BlockSize \in Nat
    <3>1. u <= top
      BY <1>2, <1>6
    <3> HIDE DEF u, top
    <3>2. QED
      BY <1>2, <3>1, TimesMonotone, Product
  <2> DEFINE t == top * BlockSize
             x == u * BlockSize
  <2>3. t % BlockSize = 0
    BY <1>2, WholeTimes
  <2> HIDE DEF t, x
  <2>4. c.len = t
    BY <1>4, <2>1, <2>2 DEF t, x
  <2>5. QED
    BY <2>3, <2>4
<1>7. QED
  BY <1>5, <1>6

\* cur_block behind the chunk of a cell is where the cell ends.
LEMMA PlaceBlocks ==
    ASSUME NEW c, IsOrdered(c.list.cells), c.len \in Nat, NEW q, Carries(q, ChunksOf(c)),
           AreNats(BlocksOf(q), Len(q))
    PROVE  \A j \in 0..Len(c.list.cells) :
               /\ Place(c.list.cells, j) \in 0..Len(q)
               /\ Upto(BlocksOf(q), Place(c.list.cells, j)) = EndOf(c.list.cells, j)
<1> DEFINE cells == c.list.cells
           n == Len(cells)
           p == ChunksOf(c)
           b == BlocksOf(q)
           P(j) == Place(cells, j)
           T == { j \in Nat : j <= n => Upto(b, P(j)) = EndOf(cells, j) }
<1>1. /\ IsCells(cells) /\ n \in Nat /\ Disjoint(cells) /\ Written(p, c)
      /\ \A j \in 1..n : IsCell(cells[j])
  BY ChunksWritten DEF IsOrdered, IsCells, IsSeq
<1>2. /\ Len(p) \in Nat /\ Len(q) \in Nat /\ Len(p) <= Len(q)
      /\ \A i \in 1..Len(p) : q[i] = p[i]
  BY <1>1 DEF Carries, Written, IsSeq
<1>3. /\ Upto(b, 0) = 0
      /\ \A m \in 0..Len(q) : Upto(b, m) \in Nat
      /\ \A m \in 1..Len(q) : Upto(b, m) = Upto(b, m - 1) + b[m]
  BY <1>2, UptoSteps DEF AreNats
<1>4. /\ P(0) = 0 /\ \A j \in 0..n : P(j) \in Nat /\ P(j) <= P(n)
      /\ \A j \in 1..n : /\ IsGap(cells, j) => P(j) = P(j - 1) + 2
                         /\ ~IsGap(cells, j) => P(j) = P(j - 1) + 1
                         /\ P(j - 1) \in Nat
  <2>1. n \in 0..n /\ \A j \in 0..n : j \in 0..n
    BY <1>1
  <2>2. \A j \in 1..n : j - 1 \in 0..n
    BY <1>1
  <2>3. QED
    BY <1>1, <2>1, <2>2, Places
<1>5. P(n) <= Len(q) /\ P(n) <= Len(p)
  <2>1. Len(p) = P(n) + (IF IsPad(c) THEN 1 ELSE 0)
    BY <1>1 DEF Written
  <2>2. P(n) \in Nat
    BY <1>1, <1>4
  <2> HIDE DEF P
  <2>3. QED
    BY <1>2, <2>1, <2>2
<1>6. ASSUME NEW j \in 1..n
      PROVE  /\ p[P(j)] = ChunkOf(cells[j])
             /\ IsGap(cells, j) => p[P(j) - 1] = Skip(GapOf(cells, j))
  BY <1>1 DEF Written
<1>7. ASSUME NEW i \in 1..Len(q) PROVE b[i] = q[i].blocks
  BY <1>7 DEF BlocksOf
<1> HIDE DEF b, p, P
<1>8. 0 \in T
  BY <1>3, <1>4 DEF EndOf
<1>9. ASSUME NEW k \in Nat, k \in T PROVE k + 1 \in T
  <2>1. SUFFICES ASSUME k + 1 <= n PROVE Upto(b, P(k + 1)) = EndOf(cells, k + 1)
    <3>1. k + 1 \in Nat
      OBVIOUS
    <3>2. QED
      BY <3>1
  <2> DEFINE j == k + 1
             bb == cells[j]
  <2>2. j \in 1..n /\ j - 1 = k /\ k \in 0..n /\ k <= n /\ j \in Nat
    BY <1>1, <2>1
  <2>3. Upto(b, P(k)) = EndOf(cells, k) /\ P(k) \in Nat
    BY <1>4, <1>9, <2>2
  <2> HIDE DEF j
  <2>4. /\ IsCell(bb) /\ bb.block \in Nat /\ EndOf(cells, j) = EndBlock(bb)
        /\ EndOf(cells, k) \in Nat
    BY <1>1, <2>2, EndOfNat
  <2>5. EndBlock(bb) = bb.block + DivUp(bb.len) /\ DivUp(bb.len) \in Nat
    BY <2>4, EndNat DEF EndBlock
  <2>6. P(j) \in 1..Len(q) /\ P(j) \in 1..Len(p) /\ P(j) \in Nat
        /\ (IsGap(cells, j) => P(j) - 1 \in 1..Len(q) /\ P(j) - 1 \in 1..Len(p)
                               /\ (P(j) - 1) - 1 = P(k))
        /\ (~IsGap(cells, j) => P(j) - 1 = P(k))
    <3>1. /\ IsGap(cells, j) => P(j) = P(k) + 2
          /\ ~IsGap(cells, j) => P(j) = P(k) + 1
      BY <1>4, <2>2
    <3>2. P(j) \in Nat /\ P(j) <= P(n) /\ P(n) \in Nat
      <4>1. j \in 0..n /\ n \in 0..n
        BY <1>1, <2>2
      <4>2. QED
        BY <1>4, <4>1
    <3>3. QED
      BY <1>2, <1>5, <2>3, <3>1, <3>2
  <2>7. Upto(b, P(j)) = Upto(b, P(j) - 1) + DivUp(bb.len)
    <3>1. b[P(j)] = q[P(j)].blocks
      BY <1>7, <2>6
    <3>2. q[P(j)] = ChunkOf(bb)
      BY <1>2, <1>6, <2>2, <2>6
    <3>3. ChunkOf(bb).blocks = DivUp(bb.len)
      BY DEF ChunkOf
    <3>4. Upto(b, P(j)) = Upto(b, P(j) - 1) + b[P(j)]
      BY <1>3, <2>6
    <3>5. QED
      BY <3>1, <3>2, <3>3, <3>4
  <2>8. CASE IsGap(cells, j)
    <3> DEFINE i == P(j) - 1
    <3>1. i \in 1..Len(q) /\ i \in 1..Len(p) /\ i - 1 = P(k)
      BY <2>6, <2>8
    <3>2. p[i] = Skip(GapOf(cells, j))
      BY <1>6, <2>2, <2>8
    <3> HIDE DEF i
    <3>3. b[i] = q[i].blocks /\ q[i] = p[i]
      BY <1>2, <1>7, <3>1
    <3>4. q[i].blocks = GapOf(cells, j)
      BY <3>2, <3>3 DEF Skip
    <3>5. Upto(b, i) = Upto(b, P(k)) + GapOf(cells, j)
      BY <1>3, <3>1, <3>3, <3>4
    <3>6. GapOf(cells, j) = bb.block - EndOf(cells, k)
      BY <2>2 DEF GapOf
    <3>7. Upto(b, i) = bb.block
      BY <2>3, <2>4, <3>5, <3>6
    <3>8. Upto(b, P(j)) = EndOf(cells, j)
      BY <2>4, <2>5, <2>7, <3>7 DEF i
    <3>9. QED
      BY <3>8 DEF j
  <2>9. CASE ~IsGap(cells, j)
    <3>1. P(j) - 1 = P(k)
      BY <2>6, <2>9
    <3>2. ~(bb.block > EndOf(cells, k))
      BY <2>2, <2>9 DEF IsGap
    <3>3. EndOf(cells, k) <= bb.block
      <4>1. CASE k = 0
        BY <2>4, <4>1 DEF EndOf
      <4>2. CASE k # 0
        <5>1. k \in 1..n /\ k < j
          BY <1>1, <2>2, <4>2
        <5>2. EndBlock(cells[k]) <= bb.block
          BY <1>1, <2>2, <5>1 DEF Disjoint
        <5>3. QED
          BY <4>2, <5>2 DEF EndOf
      <4>3. QED
        BY <4>1, <4>2
    <3>4. EndOf(cells, k) = bb.block
      BY <2>4, <3>2, <3>3
    <3>5. Upto(b, P(j)) = EndOf(cells, j)
      BY <2>3, <2>4, <2>5, <2>7, <3>1, <3>4
    <3>6. QED
      BY <3>5 DEF j
  <2>10. QED
    BY <2>8, <2>9
<1>10. Nat \subseteq T
  <2> HIDE DEF T
  <2>1. QED
    BY <1>8, <1>9, FromZero
<1>11. \A j \in 0..n : j \in Nat /\ j <= n
  BY <1>1
<1>12. \A j \in 0..n : P(j) \in 0..Len(q) /\ Upto(b, P(j)) = EndOf(cells, j)
  <2> TAKE j \in 0..n
  <2>1. P(j) \in Nat /\ P(j) <= P(n) /\ P(n) \in Nat
    <3>1. n \in 0..n
      BY <1>1
    <3>2. QED
      BY <1>4, <3>1
  <2>2. P(j) \in 0..Len(q)
    BY <1>2, <1>5, <2>1
  <2>3. j \in T /\ j <= n
    BY <1>10, <1>11
  <2>4. QED
    BY <2>2, <2>3
<1>13. QED
  BY <1>12 DEF P, b

\* The cell made of a chunk puts what the cell the chunk was made of has put.
LEMMA CellAgain ==
    ASSUME NEW bb, IsCell(bb), NEW q, NEW i, q[i] = ChunkOf(bb), CurBlock(q, i) = bb.block
    PROVE  /\ CellOf(q, i).type # "none"
           /\ \A w, v : Puts(CellOf(q, i), w, v) <=> Puts(bb, w, v)
<1> DEFINE d == DivUp(bb.len)
           len == d * BlockSize
           cell == CellOf(q, i)
           x == bb.block * BlockSize
<1>1. d \in Nat /\ len \in Nat /\ DivUp(len) = d /\ bb.len \in Nat /\ bb.block \in Nat
      /\ bb.len <= len /\ BlockSize \in Nat /\ x \in Nat /\ bb.off \in Nat
  <2>1. bb.len \in Nat /\ bb.block \in Nat /\ BlockSize \in Nat /\ bb.off \in Nat
    BY BlockSizeAssumption DEF IsCell
  <2>2. d \in Nat
    BY <2>1, UpNat
  <2> HIDE DEF d
  <2>3. len \in Nat /\ DivUp(len) = d
    BY <2>2, UpWhole
  <2>4. bb.len <= len
    BY <2>1, UpCovers DEF d
  <2>5. x \in Nat
    BY <2>1, Product
  <2>6. QED
    BY <2>1, <2>2, <2>3, <2>4, <2>5
<1>2. q[i].blocks = d
  BY DEF ChunkOf
<1>3. CASE bb.type = "fill"
  <2>1. q[i].kind = "fill" /\ q[i].val = bb.src
    BY <1>3 DEF ChunkOf
  <2>2. cell = Cell("fill", bb.src, 0, len, bb.block)
    BY <1>2, <2>1 DEF CellOf
  <2>3. cell.type = "fill" /\ cell.src = bb.src /\ cell.len = len /\ cell.block = bb.block
    BY <2>2 DEF Cell
  <2> HIDE DEF cell, len, d
  <2>4. EndBlock(cell) = EndBlock(bb)
    BY <1>1, <2>3 DEF EndBlock, d
  <2>5. Covered(cell) = Covered(bb)
    BY <2>3, <2>4 DEF Covered
  <2>6. \A w : WordAt(cell, w) = WordAt(bb, w)
    BY <1>3, <2>3 DEF WordAt, CellWord
  <2>7. cell.type # "none" /\ \A w, v : Puts(cell, w, v) <=> Puts(bb, w, v)
    BY <2>3, <2>5, <2>6 DEF Puts
  <2>8. QED
    BY <2>7 DEF cell
<1>4. CASE bb.type # "fill"
  <2> DEFINE data == [k \in 1..len |-> CellWord(bb, k - 1)]
             src == [name |-> "img", at |-> i, data |-> data]
  <2>1. q[i].kind = "raw" /\ q[i].data = data
    BY <1>4 DEF ChunkOf, AlignUp
  <2>2. cell = Cell("fd", src, 0, len, bb.block)
    BY <1>2, <2>1 DEF CellOf
  <2>3. /\ cell.type = "fd" /\ cell.src = src /\ cell.len = len /\ cell.block = bb.block
        /\ cell.off = 0
    BY <2>2 DEF Cell
  <2>4. src.data = data
    OBVIOUS
  <2>5. \A k \in 1..len : data[k] = CellWord(bb, k - 1)
    OBVIOUS
  <2> HIDE DEF cell, len, d, data, src
  <2>6. EndBlock(cell) = EndBlock(bb)
    BY <1>1, <2>3 DEF EndBlock, d
  <2>7. Covered(cell) = Covered(bb)
    BY <2>3, <2>6 DEF Covered
  <2>8. ASSUME NEW w \in Covered(bb) PROVE WordAt(cell, w) = WordAt(bb, w)
    <3> DEFINE k == w - x
    <3>1. k \in 0..(len - 1)
      <4>1. EndBlock(bb) * BlockSize = x + len /\ EndBlock(bb) * BlockSize \in Nat
        BY <1>1, CoveredIs DEF len, d
      <4>2. w \in x..(EndBlock(bb) * BlockSize - 1)
        BY DEF Covered
      <4> DEFINE e == EndBlock(bb) * BlockSize
      <4> HIDE DEF e, x
      <4>3. e = x + len /\ e \in Nat /\ w \in x..(e - 1) /\ x \in Nat
        BY <1>1, <4>1, <4>2 DEF e
      <4>4. QED
        BY <1>1, <4>3
    <3>2. WordAt(cell, w) = CellWord(cell, k) /\ WordAt(bb, w) = CellWord(bb, k)
      BY <2>3 DEF WordAt
    <3> HIDE DEF k, x
    <3>3. k < cell.len /\ cell.off + k + 1 = k + 1 /\ k + 1 \in 1..len /\ (k + 1) - 1 = k
      BY <1>1, <2>3, <3>1
    <3>4. CellWord(cell, k) = cell.src.data[cell.off + k + 1]
      BY <2>3, <3>3 DEF CellWord
    <3>5. CellWord(cell, k) = data[k + 1]
      BY <2>3, <2>4, <3>3, <3>4
    <3>6. data[k + 1] = CellWord(bb, k)
      BY <2>5, <3>3
    <3>7. QED
      BY <3>2, <3>5, <3>6
  <2>9. cell.type # "none" /\ \A w, v : Puts(cell, w, v) <=> Puts(bb, w, v)
    BY <2>3, <2>7, <2>8 DEF Puts
  <2>10. QED
    BY <2>9 DEF cell
<1>5. QED
  BY <1>3, <1>4

\* The cells of a file that carries the chunks of a cookie show what it shows,
\* and nothing else.
LEMMA CarriedShows ==
    ASSUME NEW c, IsOrdered(c.list.cells), c.len \in Nat, NEW q, Carries(q, ChunksOf(c)),
           \A i \in 1..Len(q) : IsChunk(q[i]),
           NEW l, HasQueued(l, CellsOf(q), Len(q))
    PROVE  \A w, v : Tells(Shows(l.cells, w, v), Shows(c.list.cells, w, v))
<1> DEFINE cells == c.list.cells
           p == ChunksOf(c)
           b == BlocksOf(q)
<1>1. /\ IsCells(cells) /\ Len(cells) \in Nat /\ Written(p, c)
      /\ \A j \in 1..Len(cells) : IsCell(cells[j])
  BY ChunksWritten DEF IsOrdered, IsCells, IsSeq
<1>2. IsSeq(q) /\ Len(q) \in Nat /\ Len(p) \in Nat /\ Len(p) <= Len(q)
      /\ (\A i \in 1..Len(p) : q[i] = p[i])
      /\ \A i \in (Len(p) + 1)..Len(q) : q[i].kind = "crc"
  BY <1>1 DEF Carries, Written, IsSeq
<1>3. \A i \in 1..Len(q) : q[i].blocks \in Nat
  BY DEF IsChunk
<1>4. AreNats(b, Len(q))
  BY <1>3 DEF AreNats, BlocksOf
<1>5. \A m \in 0..Len(q) : CurBlock(q, m + 1) = Upto(b, m)
  BY <1>2, <1>3, CurBlockUpto
<1>6. \A i \in 1..Len(q) : CellsOf(q)[i] = CellOf(q, i)
  BY DEF CellsOf
<1>7. ASSUME NEW j \in 1..Len(cells)
      PROVE  /\ Place(cells, j) \in 1..Len(q) /\ q[Place(cells, j)] = ChunkOf(cells[j])
             /\ CellOf(q, Place(cells, j)).type # "none"
             /\ \A w, v : Puts(CellOf(q, Place(cells, j)), w, v) <=> Puts(cells[j], w, v)
  <2> DEFINE i == Place(cells, j)
             bb == cells[j]
  <2>1. i \in 0..Len(q) /\ Upto(b, i) = EndOf(cells, j) /\ j \in 0..Len(cells)
    BY <1>1, <1>4, PlaceBlocks
  <2>2. i <= Len(p) /\ i # 0
    <3>1. Len(p) = Place(cells, Len(cells)) + (IF IsPad(c) THEN 1 ELSE 0)
      BY <1>1 DEF Written
    <3>2. i <= Place(cells, Len(cells)) /\ Place(cells, Len(cells)) \in Nat
      <4>1. Len(cells) \in 0..Len(cells) /\ j \in 0..Len(cells)
        BY <1>1
      <4>2. QED
        BY <1>1, <4>1, Places
    <3>3. i = Place(cells, j - 1) + 2 \/ i = Place(cells, j - 1) + 1
      BY <1>1, Places
    <3>4. Place(cells, j - 1) \in Nat
      <4>1. j - 1 \in 0..Len(cells)
        BY <1>1
      <4>2. QED
        BY <1>1, <4>1, Places
    <3> HIDE DEF i
    <3>5. QED
      BY <1>2, <2>1, <3>1, <3>2, <3>3, <3>4
  <2>3. p[i] = ChunkOf(bb)
    BY <1>1 DEF Written
  <2> HIDE DEF i
  <2>4. i \in 1..Len(q) /\ i \in 1..Len(p) /\ i - 1 \in 0..Len(q) /\ (i - 1) + 1 = i
    BY <1>2, <2>1, <2>2
  <2>5. q[i] = ChunkOf(bb) /\ IsCell(bb)
    BY <1>1, <1>2, <2>3, <2>4
  <2>6. CurBlock(q, i) = bb.block
    <3>1. CurBlock(q, i) = Upto(b, i - 1)
      BY <1>5, <2>4
    <3>2. Upto(b, i) = Upto(b, i - 1) + b[i] /\ Upto(b, i - 1) \in Nat
      BY <1>2, <1>4, <2>4, UptoSteps DEF AreNats
    <3>3. b[i] = DivUp(bb.len)
      BY <2>4, <2>5 DEF BlocksOf, ChunkOf
    <3>4. EndOf(cells, j) = bb.block + DivUp(bb.len)
      BY <1>1, EndOfNat DEF EndBlock
    <3>5. DivUp(bb.len) \in Nat /\ bb.block \in Nat
      BY <2>5, EndNat DEF IsCell
    <3> DEFINE d == DivUp(bb.len)
               u == Upto(b, i - 1)
               a == bb.block
    <3>6. u \in Nat /\ d \in Nat /\ a \in Nat /\ u + d = a + d
      BY <2>1, <3>2, <3>3, <3>4, <3>5
    <3> HIDE DEF d, u, a
    <3>7. u = a
      BY <3>6
    <3>8. QED
      BY <3>1, <3>7 DEF u, a
  <2>7. CellOf(q, i).type # "none" /\ \A w, v : Puts(CellOf(q, i), w, v) <=> Puts(bb, w, v)
    BY <2>5, <2>6, CellAgain
  <2>8. QED
    BY <2>4, <2>5, <2>7 DEF i
<1>8. ASSUME ReusesCells, NEW w, NEW v, Shows(cells, w, v) PROVE Shows(l.cells, w, v)
  <2>1. PICK j \in 1..Len(cells) : Puts(cells[j], w, v)
    BY <1>8 DEF Shows
  <2> DEFINE i == Place(cells, j)
  <2>2. i \in 1..Len(q) /\ CellsOf(q)[i].type # "none" /\ Puts(CellsOf(q)[i], w, v)
    BY <1>6, <1>7, <2>1
  <2>3. QED
    BY <1>8, <2>2 DEF HasQueued, Tells
<1>9. ASSUME NEW w, NEW v, Shows(l.cells, w, v) PROVE Shows(cells, w, v)
  <2>1. PICK i \in 1..Len(q) : CellsOf(q)[i].type # "none" /\ Puts(CellsOf(q)[i], w, v)
    BY <1>9 DEF HasQueued, Tells
  <2>2. CellOf(q, i).type # "none" /\ Puts(CellOf(q, i), w, v)
    BY <1>6, <2>1
  <2>3. q[i].kind \in {"fill", "raw"}
    <3>1. CASE q[i].kind \notin {"fill", "raw"}
      <4>1. CellOf(q, i) = NoCell
        BY <3>1 DEF CellOf
      <4>2. CellOf(q, i).type = "none"
        BY <4>1 DEF NoCell, Cell
      <4>3. QED
        BY <2>2, <4>2
    <3>2. QED
      BY <3>1
  <2>4. i \in 1..Len(p)
    <3>1. ~(i \in (Len(p) + 1)..Len(q))
      BY <1>2, <2>3
    <3>2. QED
      BY <1>2, <3>1
  <2>5. q[i] = p[i] /\ i \in 1..Len(p)
    BY <1>2, <2>4
  <2>6. ~\E k \in Nat \ {0} : p[i] = Skip(k)
    <3>1. \A k : Skip(k).kind = "skip"
      BY DEF Skip
    <3>2. p[i].kind # "skip"
      BY <2>3, <2>5
    <3>3. QED
      BY <3>1, <3>2
  <2>7. PICK j \in 1..Len(cells) : i = Place(cells, j) /\ p[i] = ChunkOf(cells[j])
    BY <1>1, <2>5, <2>6, ChunkAt
  <2>8. Puts(cells[j], w, v)
    BY <1>7, <2>2, <2>7
  <2>9. QED
    BY <2>8 DEF Shows
<1>10. QED
  BY <1>8, <1>9 DEF Tells

-----------------------------------------------------------------------------
(* What is read from a raw image. *)

\* What a raw image has at a word: zeros behind its end.
RawWord(img, w) == IF w < Len(img) THEN img[w + 1] ELSE 0

\* A piece of a sequence.
LEMMA PieceIs ==
    ASSUME NEW q, IsSeq(q), NEW a \in Nat, NEW b \in Nat, a < b, b <= Len(q)
    PROVE  /\ IsSeq(SubSeq(q, a + 1, b)) /\ Len(SubSeq(q, a + 1, b)) = b - a
           /\ \A k \in 1..(b - a) : SubSeq(q, a + 1, b)[k] = q[a + k]
<1> DEFINE T == { q[j] : j \in 1..Len(q) }
           r == SubSeq(q, a + 1, b)
<1>1. q \in Seq(T) /\ Len(q) \in Nat
  BY IsIn DEF IsSeq
<1> HIDE DEF T
<1>2. a + 1 \in 1..Len(q) /\ b \in 1..Len(q) /\ a + 1 <= b
  BY <1>1
<1>3. r \in Seq(T) /\ Len(r) = b - (a + 1) + 1
  BY <1>1, <1>2
<1>4. b - (a + 1) + 1 = b - a /\ b - a \in Nat
  OBVIOUS
<1>5. \A k \in 1..(b - a) : r[k] = q[a + k]
  <2> TAKE k \in 1..(b - a)
  <2>1. r[k] = q[(a + 1) + k - 1]
    BY <1>1, <1>2, <1>4
  <2>2. (a + 1) + k - 1 = a + k
    OBVIOUS
  <2>3. QED
    BY <2>1, <2>2
<1>6. IsSeq(r)
  BY <1>3, SeqIs
<1>7. QED
  BY <1>3, <1>4, <1>5, <1>6

\* A sequence of one word, however often.
LEMMA AllOne ==
    ASSUME NEW q, IsSeq(q), Len(q) # 0, Cardinality(Range(q)) = 1
    PROVE  \A k \in 1..Len(q) : q[k] = q[1]
<1>1. Len(q) \in Nat /\ DOMAIN q = 1..Len(q)
  BY DEF IsSeq
<1>2. Range(q) = { q[k] : k \in 1..Len(q) }
  BY <1>1 DEF Range
<1>3. IsFiniteSet(1..Len(q))
  BY <1>1, FS_Interval
<1>4. IsFiniteSet(Range(q))
  <2>1. q \in Surjection(1..Len(q), Range(q))
    BY <1>1, <1>2 DEF Surjection, IsSeq
  <2>2. QED
    BY <1>3, <2>1, FS_Surjection
<1>5. PICK x : Range(q) = {x}
  BY <1>4, FS_Singleton
<1>6. \A k \in 1..Len(q) : q[k] \in Range(q)
  BY <1>2
<1>7. \A k \in 1..Len(q) : q[k] = x
  BY <1>5, <1>6
<1>8. 1 \in 1..Len(q)
  BY <1>1
<1>9. QED
  BY <1>7, <1>8

\* The cell of a block of a raw image puts the words of that block.
LEMMA RawCellIs ==
    ASSUME NEW img \in RawImages, NEW b \in Nat, b < DivUp(Len(img))
    PROVE  LET bb == RawCells(img)[b + 1]
           IN  /\ Covered(bb) = (b * BlockSize)..(b * BlockSize + BlockSize - 1)
               /\ \A w \in Covered(bb) : WordAt(bb, w) = RawWord(img, w)
<1> DEFINE l == Len(img)
           n == DivUp(l)
           from == b * BlockSize
           upto == Min({from + BlockSize, l})
           words == SubSeq(img, from + 1, upto)
           whole == Len(words) = BlockSize /\ Cardinality(Range(words)) = 1
           bb == IF whole THEN Cell("fill", words[1], 0, BlockSize, b)
                 ELSE Cell("fd", [name |-> "raw", data |-> img], from, Len(words), b)
<1>1. /\ BlockSize \in Nat \ {0} /\ l \in Nat /\ IsSeq(img) /\ n \in Nat
  <2>1. img \in Seq(Nat)
    BY RawImagesAssumption
  <2>2. QED
    BY <2>1, BlockSizeAssumption, SeqIs, RawCellsInLine DEF IsSeq
<1>2. RawCells(img)[b + 1] = bb
  <2>1. b + 1 \in 1..n /\ (b + 1) - 1 = b
    BY <1>1
  <2>2. QED
    BY <2>1 DEF RawCells
<1>3. from \in Nat /\ from < l
  <2>1. from \in Nat
    BY <1>1, Product
  <2>2. l <= from => n <= b
    BY <1>1, UpAtMost
  <2> HIDE DEF from, n, l
  <2>3. n > b
    BY DEF n, l
  <2>4. QED
    BY <1>1, <2>1, <2>2, <2>3
<1> HIDE DEF from
<1>4. upto \in Nat /\ from < upto /\ upto <= from + BlockSize /\ upto <= l
      /\ upto \in {from + BlockSize, l}
  <2>1. {from + BlockSize, l} \in SUBSET Nat
    BY <1>1, <1>3
  <2>2. upto \in {from + BlockSize, l} /\ upto <= from + BlockSize /\ upto <= l
    BY <2>1, MinIs
  <2>3. QED
    BY <1>1, <1>3, <2>2
<1> HIDE DEF upto
<1>5. /\ IsSeq(words) /\ Len(words) = upto - from
      /\ \A k \in 1..(upto - from) : words[k] = img[from + k]
  BY <1>1, <1>3, <1>4, PieceIs
<1> HIDE DEF words
<1>6. /\ bb.block = b /\ bb.len = upto - from
      /\ whole => bb.type = "fill" /\ bb.src = words[1]
      /\ ~whole => bb.type = "fd" /\ bb.src.data = img /\ bb.off = from
  <2>1. CASE whole
    <3>1. bb = Cell("fill", words[1], 0, BlockSize, b) /\ BlockSize = upto - from
      BY <1>5, <2>1
    <3> HIDE DEF bb, whole
    <3>2. QED
      BY <2>1, <3>1 DEF Cell
  <2>2. CASE ~whole
    <3>1. bb = Cell("fd", [name |-> "raw", data |-> img], from, upto - from, b)
      BY <1>5, <2>2
    <3> HIDE DEF bb, whole
    <3>2. QED
      BY <2>2, <3>1 DEF Cell
  <2>3. QED
    BY <2>1, <2>2
<1> HIDE DEF bb
<1>7. bb.len \in Nat \ {0} /\ bb.len <= BlockSize
  BY <1>1, <1>3, <1>4, <1>6
<1>8. DivUp(bb.len) = 1
  <2>1. bb.len <= 1 * BlockSize
    BY <1>1, <1>7
  <2>2. DivUp(bb.len) <= 1 /\ DivUp(bb.len) \in Nat /\ DivUp(bb.len) > 0
    BY <1>7, <2>1, UpNat, UpAtMost
  <2>3. QED
    BY <2>2
<1>9. Covered(bb) = from..(from + BlockSize - 1)
  <2>1. EndBlock(bb) * BlockSize = from + 1 * BlockSize
    BY <1>6, <1>7, <1>8, CoveredIs DEF from
  <2>2. 1 * BlockSize = BlockSize
    BY <1>1
  <2> DEFINE e == EndBlock(bb) * BlockSize
  <2>3. Covered(bb) = from..(e - 1)
    BY <1>6 DEF Covered, from
  <2>4. e = from + BlockSize
    BY <2>1, <2>2
  <2> HIDE DEF e
  <2>5. QED
    BY <1>1, <1>3, <2>3, <2>4
<1>10. ASSUME NEW w \in from..(from + BlockSize - 1) PROVE WordAt(bb, w) = RawWord(img, w)
  <2> DEFINE i == w - from
  <2>1. WordAt(bb, w) = CellWord(bb, i)
    BY <1>6 DEF WordAt, from
  <2>2. i \in Nat /\ i < BlockSize /\ from + (i + 1) = w + 1 /\ w \in Nat
    BY <1>1, <1>3
  <2>3. CASE whole
    <3>1. upto - from = BlockSize /\ i + 1 \in 1..(upto - from)
      BY <1>1, <1>3, <1>4, <1>5, <2>2, <2>3
    <3>2. words[i + 1] = words[1]
      BY <1>1, <1>5, <2>3, <3>1, AllOne
    <3>3. words[i + 1] = img[w + 1]
      <4>1. words[i + 1] = img[from + (i + 1)]
        BY <1>5, <3>1
      <4>2. QED
        BY <2>2, <4>1
    <3>4. w < l
      BY <1>1, <1>3, <1>4, <2>2, <3>1
    <3>5. CellWord(bb, i) = words[1]
      BY <1>6, <2>3 DEF CellWord
    <3>6. QED
      BY <2>1, <3>2, <3>3, <3>4, <3>5 DEF RawWord
  <2>4. CASE ~whole
    <3>1. i < bb.len <=> w < l
      BY <1>1, <1>3, <1>4, <1>6, <2>2
    <3>2. bb.type = "fd" /\ bb.src.data = img /\ bb.off = from
      BY <1>6, <2>4
    <3>3. bb.off + i + 1 = w + 1
      BY <1>1, <1>3, <2>2, <3>2
    <3> HIDE DEF i, whole
    <3>4. CASE w < l
      <4>1. CellWord(bb, i) = bb.src.data[bb.off + i + 1]
        BY <3>1, <3>2, <3>4 DEF CellWord
      <4>2. QED
        BY <2>1, <3>2, <3>3, <3>4, <4>1 DEF RawWord
    <3>5. CASE ~(w < l)
      <4>1. CellWord(bb, i) = 0
        BY <3>1, <3>2, <3>5 DEF CellWord
      <4>2. QED
        BY <2>1, <3>5, <4>1 DEF RawWord
    <3>6. QED
      BY <3>4, <3>5
  <2>5. QED
    BY <1>1, <1>3, <2>3, <2>4
<1>11. /\ Covered(bb) = from..(from + BlockSize - 1)
       /\ \A w \in Covered(bb) : WordAt(bb, w) = RawWord(img, w)
  BY <1>9, <1>10
<1>12. QED
  BY <1>2, <1>11 DEF from

-----------------------------------------------------------------------------
(* The image. *)

\* An image has v at word w.
Has(image, w, v) == w \in Words /\ image[w] # Hole /\ v = image[w]
IsImage(image) == image \in [Words -> Nat \cup {Hole}]

\* The words of the largest image, and of a cell within it.
LEMMA WordsAre ==
    /\ Size \in Nat /\ Words = 0..(Size - 1) /\ Hole \notin Nat
    /\ \A bb : IsCell(bb) /\ EndBlock(bb) <= MaxBlocks => Covered(bb) \subseteq Words
<1>1. Size \in Nat /\ Words = 0..(Size - 1) /\ Hole \notin Nat
  BY SizeNat DEF Size, Words, Hole
<1>2. ASSUME NEW bb, IsCell(bb), EndBlock(bb) <= MaxBlocks PROVE Covered(bb) \subseteq Words
  <2> DEFINE x == bb.block * BlockSize
             y == EndBlock(bb) * BlockSize
  <2>1. bb.block \in Nat /\ bb.len \in Nat /\ EndBlock(bb) \in Nat /\ MaxBlocks \in Nat
        /\ BlockSize \in Nat
    BY <1>2, EndNat, SizesAssumption, BlockSizeAssumption DEF IsCell
  <2>2. Covered(bb) = x..(y - 1) /\ x \in Nat /\ y \in Nat
    BY <2>1, CoveredIs
  <2>3. y <= Size
    BY <1>2, <2>1, TimesMonotone DEF Size
  <2> HIDE DEF x, y
  <2>4. QED
    BY <1>1, <2>2, <2>3
<1>3. QED
  BY <1>1, <1>2

\* Cells of which one ends before the other have no word in common.
LEMMA ApartIs ==
    ASSUME NEW a, IsCell(a), NEW b, IsCell(b), EndBlock(b) <= a.block \/ EndBlock(a) <= b.block
    PROVE  \A w : ~(w \in Covered(a) /\ w \in Covered(b))
<1> DEFINE xa == a.block * BlockSize
           ya == EndBlock(a) * BlockSize
           xb == b.block * BlockSize
           yb == EndBlock(b) * BlockSize
<1>1. /\ a.block \in Nat /\ a.len \in Nat /\ b.block \in Nat /\ b.len \in Nat
      /\ EndBlock(a) \in Nat /\ EndBlock(b) \in Nat /\ BlockSize \in Nat
  BY EndNat, BlockSizeAssumption DEF IsCell
<1>2. Covered(a) = xa..(ya - 1) /\ xa \in Nat /\ ya \in Nat
  BY <1>1, CoveredIs
<1>3. Covered(b) = xb..(yb - 1) /\ xb \in Nat /\ yb \in Nat
  BY <1>1, CoveredIs
<1>4. yb <= xa \/ ya <= xb
  BY <1>1, TimesMonotone
<1> HIDE DEF xa, ya, xb, yb
<1>5. QED
  BY <1>2, <1>3, <1>4

\* What is laid over holes is added to the image.
LEMMA LayHas ==
    ASSUME NEW image, IsImage(image), NEW bb, IsCell(bb), EndBlock(bb) <= MaxBlocks,
           \A w \in Covered(bb) : WordAt(bb, w) \in Nat,
           \A w \in Covered(bb) : image[w] = Hole
    PROVE  /\ IsImage(Lay(image, bb))
           /\ \A w, v : Has(Lay(image, bb), w, v) <=> Has(image, w, v) \/ Puts(bb, w, v)
           /\ \A w \in Words : image[w] # Hole => Lay(image, bb)[w] = image[w]
<1> DEFINE new == Lay(image, bb)
<1>1. Covered(bb) \subseteq Words /\ Hole \notin Nat
  BY WordsAre
<1>2. DOMAIN image = Words /\ \A w \in Words : image[w] \in Nat \cup {Hole}
  BY DEF IsImage
<1>3. new = [w \in Words |-> IF w \in Covered(bb) THEN WordAt(bb, w) ELSE image[w]]
  <2>1. \A w \in Covered(bb) : Placed(bb)[w] = WordAt(bb, w)
    BY DEF Placed, WordAt
  <2>2. DOMAIN Placed(bb) = Covered(bb)
    BY DEF Placed
  <2>3. new = [w \in DOMAIN image \cup DOMAIN Placed(bb) |->
                  IF w \in DOMAIN Placed(bb) THEN Placed(bb)[w] ELSE image[w]]
    BY DEF Lay
  <2>4. DOMAIN image \cup DOMAIN Placed(bb) = Words
    BY <1>1, <1>2, <2>2
  <2>5. QED
    BY <2>1, <2>2, <2>3, <2>4
<1> HIDE DEF new
<1>4. /\ \A w \in Covered(bb) : w \in Words /\ new[w] = WordAt(bb, w)
      /\ \A w \in Words : w \notin Covered(bb) => new[w] = image[w]
      /\ DOMAIN new = Words
  BY <1>1, <1>3
<1>5. IsImage(new)
  <2>1. \A w \in Words : new[w] \in Nat \cup {Hole}
    BY <1>2, <1>4
  <2>2. QED
    BY <1>3, <2>1 DEF IsImage
<1>6. ASSUME NEW w, NEW v PROVE Has(new, w, v) <=> Has(image, w, v) \/ Puts(bb, w, v)
  <2>1. CASE w \in Covered(bb)
    <3>1. w \in Words /\ new[w] = WordAt(bb, w) /\ image[w] = Hole /\ new[w] # Hole
      BY <1>1, <1>4, <2>1
    <3>2. QED
      BY <2>1, <3>1 DEF Has, Puts
  <2>2. CASE w \notin Covered(bb)
    BY <1>4, <2>2 DEF Has, Puts
  <2>3. QED
    BY <2>1, <2>2
<1>7. \A w \in Words : image[w] # Hole => new[w] = image[w]
  BY <1>4
<1>8. QED
  BY <1>5, <1>6, <1>7 DEF new

\* img2simg's image.
ReadImage(img) ==
    [w \in Words |-> CASE w < Len(img) -> img[w + 1]
                       [] w \in Len(img)..(AlignUp(Len(img)) - 1) -> 0
                       [] OTHER -> Hole]

\* It is what the cells of the raw image show, and of whole blocks.
LEMMA ReadHas ==
    ASSUME NEW img \in RawImages, NEW l, HasQueued(l, RawCells(img), Len(RawCells(img)))
    PROVE  /\ IsImage(ReadImage(img))
           /\ \A w, v : Tells(Shows(l.cells, w, v), Has(ReadImage(img), w, v))
           /\ \A w \in Words : ReadImage(img)[w] # Hole => w < DivUp(Len(img)) * BlockSize
<1> DEFINE len == Len(img)
           n == DivUp(len)
           up == n * BlockSize
           image == ReadImage(img)
           cells == RawCells(img)
<1>1. /\ BlockSize \in Nat \ {0} /\ len \in Nat /\ IsSeq(img) /\ n \in Nat
      /\ \A i \in 1..len : img[i] \in Nat
  <2>1. img \in Seq(Nat)
    BY RawImagesAssumption
  <2>2. \A i \in 1..len : img[i] \in Nat
    BY <2>1
  <2>3. QED
    BY <2>1, <2>2, BlockSizeAssumption, SeqIs, RawCellsInLine DEF IsSeq
<1>2. up \in Nat /\ len <= up /\ up <= Size /\ Size \in Nat /\ Words = 0..(Size - 1)
      /\ Hole \notin Nat
  <2>1. up \in Nat
    BY <1>1, Product
  <2>2. len <= up
    BY <1>1, UpCovers
  <2>3. n <= MaxBlocks /\ MaxBlocks \in Nat
    BY RawCellsInLine, SizesAssumption
  <2>4. up <= Size
    BY <1>1, <2>3, TimesMonotone DEF Size
  <2>5. QED
    BY <2>1, <2>2, <2>4, WordsAre
<1>3. Len(cells) = n /\ \A i \in 1..n : cells[i].type # "none"
  <2>1. cells = [i \in 1..n |-> cells[i]]
    BY DEF RawCells
  <2>2. Len(cells) = n
    <3> HIDE DEF cells, n
    <3>1. QED
      BY <1>1, <2>1, Made
  <2>3. \A i \in 1..n : cells[i].type # "none"
    <3> TAKE i \in 1..n
    <3> DEFINE from == (i - 1) * BlockSize
               words == SubSeq(img, from + 1, Min({from + BlockSize, len}))
               data == [name |-> "raw", data |-> img]
               whole == Len(words) = BlockSize /\ Cardinality(Range(words)) = 1
               a == Cell("fill", words[1], 0, BlockSize, i - 1)
               b == Cell("fd", data, from, Len(words), i - 1)
    <3>1. cells[i] = IF whole THEN a ELSE b
      BY DEF RawCells
    <3>2. a.type = "fill" /\ b.type = "fd"
      BY DEF Cell
    <3> HIDE DEF whole, a, b, cells
    <3>3. QED
      BY <3>1, <3>2
  <2>4. QED
    BY <2>2, <2>3
<1>4. \A w \in Words : image[w] = IF w < len THEN img[w + 1]
                                  ELSE IF w < up THEN 0 ELSE Hole
  <2>1. AlignUp(len) = up
    BY DEF AlignUp
  <2> HIDE DEF up
  <2>2. \A w \in Words : image[w] = CASE w < len -> img[w + 1]
                                      [] w \in len..(up - 1) -> 0
                                      [] OTHER -> Hole
    BY <2>1 DEF ReadImage
  <2> HIDE DEF image, len
  <2> SUFFICES ASSUME NEW w \in Words
               PROVE  image[w] = IF w < len THEN img[w + 1] ELSE IF w < up THEN 0 ELSE Hole
    OBVIOUS
  <2>3. w \in Nat
    BY <1>2
  <2>4. w \in len..(up - 1) <=> ~(w < len) /\ w < up
    BY <1>1, <1>2, <2>3
  <2>5. QED
    BY <2>2, <2>4
<1>5. DOMAIN image = Words /\ image = [w \in Words |-> image[w]]
  BY DEF ReadImage
<1> HIDE DEF image, cells, len, n, up
<1>6. \A w \in Words : w < up => image[w] = RawWord(img, w) /\ image[w] \in Nat
  <2> SUFFICES ASSUME NEW w \in Words, w < up
               PROVE  image[w] = RawWord(img, w) /\ image[w] \in Nat
    OBVIOUS
  <2>1. w \in Nat
    BY <1>2
  <2>2. CASE w < len
    <3>1. w + 1 \in 1..len
      BY <1>1, <2>1, <2>2
    <3>2. QED
      BY <1>1, <1>4, <2>2, <3>1 DEF RawWord, len
  <2>3. CASE ~(w < len)
    BY <1>4, <2>3 DEF RawWord, len
  <2>4. QED
    BY <2>2, <2>3
<1>7. \A w \in Words : ~(w < up) => image[w] = Hole
  <2> SUFFICES ASSUME NEW w \in Words, ~(w < up) PROVE image[w] = Hole
    OBVIOUS
  <2>1. ~(w < len)
    BY <1>1, <1>2
  <2>2. QED
    BY <1>4, <2>1
<1>8. IsImage(image)
  <2>1. \A w \in Words : image[w] \in Nat \cup {Hole}
    BY <1>6, <1>7
  <2>2. QED
    BY <1>5, <2>1 DEF IsImage
<1>9. ASSUME NEW i \in 1..n
      PROVE  /\ (i - 1) * BlockSize \in Nat /\ (i - 1) * BlockSize + BlockSize <= up
             /\ Covered(cells[i]) = ((i - 1) * BlockSize)..((i - 1) * BlockSize + BlockSize - 1)
             /\ \A w \in Covered(cells[i]) : WordAt(cells[i], w) = RawWord(img, w)
  <2> DEFINE b == i - 1
  <2>1. b \in Nat /\ b + 1 = i /\ b < n /\ i \in Nat /\ i <= n
    BY <1>1
  <2> HIDE DEF b
  <2>2. /\ Covered(cells[b + 1]) = (b * BlockSize)..(b * BlockSize + BlockSize - 1)
        /\ \A w \in Covered(cells[b + 1]) : WordAt(cells[b + 1], w) = RawWord(img, w)
    BY <2>1, RawCellIs DEF cells, n, len
  <2>3. b * BlockSize \in Nat /\ (b + 1) * BlockSize = b * BlockSize + BlockSize
    BY <1>1, <2>1, Product
  <2>4. i * BlockSize <= up
    BY <1>1, <2>1, TimesMonotone DEF up
  <2>5. b * BlockSize + BlockSize <= up
    BY <2>1, <2>3, <2>4
  <2>6. QED
    BY <2>1, <2>2, <2>3, <2>5 DEF b
<1>10. ASSUME NEW w, NEW v, Shows(l.cells, w, v) PROVE Has(image, w, v)
  <2>1. PICK i \in 1..n : Puts(cells[i], w, v)
    BY <1>3, <1>10 DEF HasQueued, Tells, cells
  <2>2. w \in Covered(cells[i]) /\ v = WordAt(cells[i], w)
    BY <2>1 DEF Puts
  <2> DEFINE x == (i - 1) * BlockSize
  <2>3. x \in Nat /\ x + BlockSize <= up /\ w \in x..(x + BlockSize - 1)
    BY <1>9, <2>2
  <2> HIDE DEF x
  <2>4. w \in Words /\ w < up
    BY <1>1, <1>2, <2>3
  <2>5. v = RawWord(img, w)
    BY <1>9, <2>2
  <2>6. QED
    BY <1>2, <1>6, <2>4, <2>5 DEF Has
<1>11. ASSUME ReusesCells, NEW w, NEW v, Has(image, w, v) PROVE Shows(l.cells, w, v)
  <2>1. w \in Words /\ w < up /\ v = RawWord(img, w)
    BY <1>6, <1>7, <1>11 DEF Has
  <2>2. w \in Nat
    BY <1>2, <2>1
  <2> DEFINE b == w \div BlockSize
             x == b * BlockSize
             r == w % BlockSize
  <2>3. b \in Nat /\ r \in 0..(BlockSize - 1) /\ w = x + r
    BY <1>1, <2>2, Parts
  <2>4. x \in Nat
    BY <1>1, <2>3, Product
  <2>5. n <= b => up <= x
    BY <1>1, <2>3, TimesMonotone DEF up
  <2> HIDE DEF b, r, x
  <2>6. b < n
    BY <1>1, <1>2, <2>1, <2>3, <2>4, <2>5
  <2> DEFINE i == b + 1
  <2>7. i \in 1..n /\ i - 1 = b
    BY <1>1, <2>3, <2>6
  <2> HIDE DEF i
  <2>8. Covered(cells[i]) = x..(x + BlockSize - 1)
    BY <1>9, <2>7 DEF x
  <2>9. w \in Covered(cells[i])
    BY <1>1, <2>3, <2>4, <2>8
  <2>10. Puts(cells[i], w, v)
    BY <1>9, <2>1, <2>7, <2>9 DEF Puts
  <2>11. cells[i].type # "none"
    BY <1>3, <2>7
  <2>12. QED
    BY <1>3, <1>11, <2>7, <2>10, <2>11 DEF HasQueued, Tells, cells
<1>12. QED
  BY <1>7, <1>8, <1>10, <1>11 DEF Tells, image, up, n, len

-----------------------------------------------------------------------------
(* What is asked for stays. *)

\* What a list, what has been taken from it, and the parts show together.
Spread(cells, moved, ps, w, v) ==
    \/ Shows(cells, w, v)
    \/ Shows(moved, w, v)
    \/ \E i \in 1..Len(ps) : Shows(ps[i].list.cells, w, v)
ShownAs(image, cells, moved, ps) ==
    \A w, v : Tells(Spread(cells, moved, ps, w, v), Has(image, w, v))

\* One list alone.
IsShown(image, cells) == \A w, v : Tells(Shows(cells, w, v), Has(image, w, v))

\* Where an image has something, the second list shows nothing that the first
\* does not.
NothingNew(image, p, q) ==
    \A w, v : w \in Words /\ image[w] # Hole /\ Shows(q, w, v) => Shows(p, w, v)

\* The file is what was written of the cookie.
IsOutput ==
    \E torn \in BOOLEAN : \E n \in 0..Wanted(s, asked) : file = FileOf(s, asked, n, torn)

\* The image is within the blocks of the cookie.
InLength == \A w \in Words : wanted[w] # Hole => w < DivUp(s.len) * BlockSize

\* Until a tool gives up, the lists tell of the image, between them, and while
\* something is queued it ends with the cookie; a file that has been written is
\* of this image; before the first call there is nothing.
ImageInv ==
    /\ phase \notin GivenUp =>
          IsImage(wanted) /\ ShownAs(wanted, s.list.cells, tmp.cells, parts)
    /\ phase \in Queueing => InLength
    /\ phase = "written" => IsOutput /\ EndsWithin(s)
    /\ phase = "queue" /\ added = 0 => wanted = [w \in Words |-> Hole]
    /\ phase = "queue" /\ added # MaxAdds => s.len = ImageBlocks * BlockSize

Keeps == \A w \in Words : wanted[w] # Hole => wanted'[w] = wanted[w]

\* What was not shown of the image will not be; and once nothing more is queued
\* all that is shown stays.
Stays ==
    /\ \A w, v : /\ w \in Words /\ wanted[w] # Hole
                 /\ Spread(s'.list.cells, tmp'.cells, parts', w, v)
                 => Spread(s.list.cells, tmp.cells, parts, w, v)
    /\ phase \notin Queueing =>
          /\ phase' \notin Queueing /\ wanted' = wanted
          /\ \A w, v : Spread(s'.list.cells, tmp'.cells, parts', w, v)
                          <=> Spread(s.list.cells, tmp.cells, parts, w, v)

LEMMA NothingShown == ASSUME NEW cells, Len(cells) = 0 PROVE \A w, v : ~Shows(cells, w, v)
<1>1. 1..0 = {}
  OBVIOUS
<1>2. QED
  BY <1>1 DEF Shows

\* A list that is all there is shows everything.
LEMMA SpreadAlone ==
    ASSUME NEW cells, NEW moved, Len(moved) = 0, NEW ps, Len(ps) = 0
    PROVE  \A w, v : Spread(cells, moved, ps, w, v) <=> Shows(cells, w, v)
<1>1. 1..Len(ps) = {}
  OBVIOUS
<1>2. \A w, v : ~Shows(moved, w, v)
  BY NothingShown
<1>3. QED
  BY <1>1, <1>2 DEF Spread

\* There is nothing but the cookie until it is cut.
LEMMA AloneUncut ==
    ASSUME SparseInv, FitInv, phase \in Uncut, phase # "first"
    PROVE  Len(tmp.cells) = 0 /\ Len(parts) = 0 /\ IsSeq(parts)
<1>1. tmp = EmptyList
  BY DEF SparseInv, TmpOK, Uncut
<1>2. Len(EmptyList.cells) = 0
  BY Empty DEF EmptyList
<1>3. QED
  BY <1>1, <1>2 DEF FitInv

\* A cell added, where the image has nothing, to a list that shows it.
LEMMA QueuedHas ==
    ASSUME NEW l, IsList(l), NEW bb, IsCell(bb), IsFree(l.cells, bb),
           Within(l.cells, MaxBlocks), EndBlock(bb) <= MaxBlocks,
           NEW image, IsImage(image), IsShown(image, l.cells),
           \A w \in Covered(bb) : WordAt(bb, w) \in Nat,
           \A w \in Covered(bb) : image[w] = Hole,
           NEW q \in Queued(l, bb)
    PROVE  /\ IsImage(Lay(image, bb)) /\ IsShown(Lay(image, bb), q.cells)
           /\ \A w \in Words : image[w] # Hole => Lay(image, bb)[w] = image[w]
           /\ \A w \in Words : Lay(image, bb)[w] # Hole => image[w] # Hole \/ w \in Covered(bb)
           /\ NothingNew(image, l.cells, q.cells)
<1>1. MaxBlocks \in Nat /\ MaxBlocks <= MaxBlocks
  BY SizesAssumption
<1>2. \/ \A w, v : Shows(q.cells, w, v) <=> Shows(l.cells, w, v) \/ Puts(bb, w, v)
      \/ ~ReusesCells /\ q = l
  BY <1>1, QueuedShows
<1> DEFINE laid == Lay(image, bb)
<1>3. /\ IsImage(laid)
      /\ \A w, v : Has(laid, w, v) <=> Has(image, w, v) \/ Puts(bb, w, v)
      /\ \A w \in Words : image[w] # Hole => laid[w] = image[w]
  BY LayHas
<1> HIDE DEF laid
<1>4. \A w, v : Shows(l.cells, w, v) => Has(image, w, v)
  BY DEF IsShown, Tells
<1>5. IsShown(laid, q.cells)
  <2>1. CASE \A w, v : Shows(q.cells, w, v) <=> Shows(l.cells, w, v) \/ Puts(bb, w, v)
    BY <1>3, <2>1 DEF IsShown, Tells
  <2>2. CASE ~ReusesCells /\ q = l
    BY <1>3, <1>4, <2>2 DEF IsShown, Tells
  <2>3. QED
    BY <1>2, <2>1, <2>2
<1>6. ASSUME NEW w, NEW v, w \in Words, image[w] # Hole, Shows(q.cells, w, v)
      PROVE  Shows(l.cells, w, v)
  <2>1. ~Puts(bb, w, v)
    BY <1>6 DEF Puts
  <2>2. QED
    BY <1>2, <1>6, <2>1
<1>7. ASSUME NEW w \in Words, laid[w] # Hole PROVE image[w] # Hole \/ w \in Covered(bb)
  <2>1. Has(laid, w, laid[w])
    BY <1>7 DEF Has
  <2>2. Has(image, w, laid[w]) \/ Puts(bb, w, laid[w])
    BY <1>3, <2>1
  <2>3. QED
    BY <2>2 DEF Has, Puts
<1>8. QED
  BY <1>3, <1>5, <1>6, <1>7 DEF NothingNew, laid

\* What a client adds are numbers.
LEMMA FillIs ==
    ASSUME NEW v \in Nat, NEW len, NEW b
    PROVE  \A w : WordAt(Cell("fill", v, 0, len, b), w) \in Nat
<1> DEFINE bb == Cell("fill", v, 0, len, b)
<1>1. bb.type = "fill" /\ bb.src = v
  BY DEF Cell
<1> HIDE DEF bb
<1>2. \A w : WordAt(bb, w) = v
  BY <1>1 DEF WordAt, CellWord
<1>3. QED
  BY <1>2 DEF bb

LEMMA FromIs ==
    ASSUME NEW type, type # "fill", NEW src, NEW q, IsSeq(q), \A i \in 1..Len(q) : q[i] \in Nat,
           src.data = q, NEW off \in Nat, NEW len \in Nat, off + len <= Len(q), NEW b \in Nat
    PROVE  \A w \in Covered(Cell(type, src, off, len, b)) :
              WordAt(Cell(type, src, off, len, b), w) \in Nat
<1> DEFINE bb == Cell(type, src, off, len, b)
<1>1. bb.type # "fill" /\ bb.src = src /\ bb.off = off /\ bb.len = len /\ bb.block = b
  BY DEF Cell
<1> HIDE DEF bb
<1> SUFFICES ASSUME NEW w \in Covered(bb) PROVE WordAt(bb, w) \in Nat
  BY DEF bb
<1> DEFINE x == b * BlockSize
           i == w - x
<1>2. x \in Nat /\ EndBlock(bb) * BlockSize \in Nat
  <2>1. EndBlock(bb) \in Nat /\ BlockSize \in Nat
    <3>1. DivUp(len) \in Nat /\ BlockSize \in Nat
      BY UpNat, BlockSizeAssumption
    <3>2. QED
      BY <1>1, <3>1 DEF EndBlock
  <2>2. QED
    BY <2>1, Product
<1>3. Covered(bb) = x..(EndBlock(bb) * BlockSize - 1)
  BY <1>1 DEF Covered
<1> DEFINE y == EndBlock(bb) * BlockSize
<1> HIDE DEF x, y
<1>4. i \in Nat
  BY <1>2, <1>3 DEF y
<1> HIDE DEF i
<1>5. CellWord(bb, i) = IF i < len THEN q[off + i + 1] ELSE 0
  BY <1>1 DEF CellWord
<1>6. i < len => off + i + 1 \in 1..Len(q)
  <2>1. Len(q) \in Nat
    BY DEF IsSeq
  <2>2. QED
    BY <1>4, <2>1
<1>7. CellWord(bb, i) \in Nat
  <2>1. CASE i < len
    BY <1>5, <1>6, <2>1
  <2>2. CASE ~(i < len)
    BY <1>5, <2>2
  <2>3. QED
    BY <2>1, <2>2
<1>8. WordAt(bb, w) = CellWord(bb, i)
  BY <1>1 DEF WordAt, i, x
<1>9. QED
  BY <1>7, <1>8

LEMMA SourcesAre ==
    ASSUME NEW f \in DOMAIN Sources
    PROVE  /\ IsSeq(Sources[f].data)
           /\ \A i \in 1..Len(Sources[f].data) : Sources[f].data[i] \in Nat
<1>1. Sources[f].data \in Seq(Nat)
  BY WordsAssumption
<1>2. QED
  BY <1>1, SeqIs

-----------------------------------------------------------------------------
(* The calls. *)

ImageStep ==
    /\ ImageInv' /\ Keeps
    /\ phase' \in GivenUp => wanted' = wanted
    /\ phase' \notin GivenUp => Stays

\* A call that leaves the lists alone.
LEMMA ImageIdle ==
    ASSUME SparseInv, ImageInv, UNCHANGED <<s, tmp, parts, wanted>>, phase \notin GivenUp,
           phase' = "written" => IsOutput' /\ EndsWithin(s),
           phase' \in Queueing => phase \in Queueing,
           phase' # "queue" \/ (phase' = phase /\ added' = added)
    PROVE  ImageStep
<1>1. s' = s /\ tmp' = tmp /\ parts' = parts /\ wanted' = wanted
  OBVIOUS
<1>2. EndsWithin(s)' <=> EndsWithin(s)
  BY <1>1 DEF EndsWithin
<1>3. InLength' <=> InLength
  BY <1>1 DEF InLength
<1>4. /\ \A w, v : Spread(s'.list.cells, tmp'.cells, parts', w, v)
                    <=> Spread(s.list.cells, tmp.cells, parts, w, v)
      /\ ShownAs(wanted', s'.list.cells, tmp'.cells, parts')
            <=> ShownAs(wanted, s.list.cells, tmp.cells, parts)
  BY <1>1
<1>5. ImageInv'
  BY <1>1, <1>2, <1>3, <1>4 DEF ImageInv
<1>6. Keeps /\ Stays
  BY <1>1, <1>4 DEF Keeps, Stays
<1>7. QED
  BY <1>1, <1>5, <1>6 DEF ImageStep

\* A call that gives the image up.
LEMMA ImageEnds ==
    ASSUME wanted' = wanted, phase' \in GivenUp
    PROVE  ImageStep
<1>1. phase' \notin Queueing
  BY DEF GivenUp, Queueing
<1>2. ImageInv'
  BY <1>1 DEF ImageInv, GivenUp, Queueing
<1>3. QED
  BY <1>2 DEF ImageStep, Keeps

\* A call that gives the cookie another list.
LEMMA ImageMoves ==
    ASSUME SparseInv, FitInv, phase \in Queueing,
           UNCHANGED <<tmp, parts>>, phase' \notin GivenUp, phase' # "written",
           phase' # "queue" \/ (added' # 0 /\ (added' # MaxAdds => s'.len = ImageBlocks * BlockSize)),
           IsImage(wanted'), IsShown(wanted', s'.list.cells), Keeps,
           phase' \in Queueing => InLength',
           NothingNew(wanted, s.list.cells, s'.list.cells)
    PROVE  ImageStep
<1>1. Len(tmp'.cells) = 0 /\ Len(parts') = 0 /\ Len(tmp.cells) = 0 /\ Len(parts) = 0
  BY AloneUncut DEF Queueing, Uncut
<1>2. /\ \A w, v : Spread(s'.list.cells, tmp'.cells, parts', w, v) <=> Shows(s'.list.cells, w, v)
      /\ \A w, v : Spread(s.list.cells, tmp.cells, parts, w, v) <=> Shows(s.list.cells, w, v)
  BY <1>1, SpreadAlone
<1>3. ShownAs(wanted', s'.list.cells, tmp'.cells, parts')
  BY <1>2 DEF ShownAs, IsShown, Tells
<1>4. ImageInv'
  BY <1>3 DEF ImageInv
<1>5. Stays
  BY <1>2 DEF Stays, NothingNew
<1>6. QED
  BY <1>4, <1>5 DEF ImageStep

\* What the cookie shows, as long as it is alone.
LEMMA ImageShown ==
    ASSUME SparseInv, FitInv, ImageInv, phase \in Uncut, phase # "first"
    PROVE  IsImage(wanted) /\ IsShown(wanted, s.list.cells)
<1>1. phase \notin GivenUp
  BY DEF Uncut, GivenUp
<1>2. Len(tmp.cells) = 0 /\ Len(parts) = 0
  BY AloneUncut
<1>3. \A w, v : Spread(s.list.cells, tmp.cells, parts, w, v) <=> Shows(s.list.cells, w, v)
  BY <1>2, SpreadAlone
<1>4. IsImage(wanted) /\ ShownAs(wanted, s.list.cells, tmp.cells, parts)
  BY <1>1 DEF ImageInv
<1>5. QED
  BY <1>3, <1>4 DEF ShownAs, IsShown, Tells

\* sparse_file_add_*().
LEMMA ImageAdd ==
    ASSUME SparseInv, FitInv, ImageInv, NEW bb, IsCell(bb), Add(bb),
           \A w \in Covered(bb) : WordAt(bb, w) \in Nat
    PROVE  ImageStep
<1>1. /\ phase = "queue" /\ phase' = phase /\ added < MaxAdds /\ added' = added + 1
      /\ EndBlock(bb) <= ImageBlocks
      /\ wanted' = Lay(wanted, bb)
      /\ UNCHANGED <<tmp, parts>>
      /\ IsFree(s.list.cells, bb)
      /\ \A w \in Covered(bb) : wanted[w] = Hole
  BY DEF Add, written, cutting, IsFree
<1>2. PICK q \in Queued(s.list, bb) : s' = [s EXCEPT !.list = q]
  BY DEF Add
<1>3. IsCookie(s) /\ added \in Nat
  BY SizesAssumption DEF SparseInv, CookieOK, RestOK
<1>4. EndBlock(bb) <= MaxBlocks
  <2>1. EndBlock(bb) \in Nat
    BY EndNat
  <2>2. QED
    BY <1>1, <2>1, SizesAssumption
<1>5. s'.list = q
  <2>1. s' = [len |-> s.len, list |-> q]
    BY <1>2, <1>3 DEF IsCookie
  <2>2. QED
    BY <2>1
<1>6. IsImage(wanted) /\ IsShown(wanted, s.list.cells)
  BY <1>1, ImageShown DEF Uncut
<1>7. /\ IsImage(Lay(wanted, bb)) /\ IsShown(Lay(wanted, bb), q.cells)
      /\ \A w \in Words : wanted[w] # Hole => Lay(wanted, bb)[w] = wanted[w]
      /\ \A w \in Words : Lay(wanted, bb)[w] # Hole => wanted[w] # Hole \/ w \in Covered(bb)
      /\ NothingNew(wanted, s.list.cells, q.cells)
  BY <1>1, <1>3, <1>4, <1>6, QueuedHas DEF IsCookie
<1>8. /\ IsImage(wanted') /\ IsShown(wanted', s'.list.cells) /\ Keeps
      /\ NothingNew(wanted, s.list.cells, s'.list.cells)
  BY <1>1, <1>5, <1>7 DEF Keeps
<1>9. s.len = ImageBlocks * BlockSize /\ s'.len = s.len
  <2>1. s' = [len |-> s.len, list |-> q]
    BY <1>2, <1>3 DEF IsCookie
  <2>2. added # MaxAdds
    BY <1>1, <1>3, SizesAssumption
  <2>3. QED
    BY <1>1, <2>1, <2>2 DEF ImageInv
<1>10. InLength'
  <2> DEFINE y == ImageBlocks * BlockSize
             z == EndBlock(bb) * BlockSize
  <2>1. DivUp(s'.len) * BlockSize = y
    <3>1. ImageBlocks \in Nat
      BY SizesAssumption
    <3>2. DivUp(ImageBlocks * BlockSize) = ImageBlocks
      BY <3>1, UpWhole
    <3>3. QED
      BY <1>9, <3>2
  <2>2. DivUp(s.len) * BlockSize = y
    BY <1>9, <2>1
  <2>3. \A w \in Words : wanted[w] # Hole => w < y
    BY <1>1, <2>2 DEF ImageInv, InLength, Queueing
  <2>4. z <= y /\ z \in Nat /\ y \in Nat
    <3>1. EndBlock(bb) \in Nat /\ ImageBlocks \in Nat /\ BlockSize \in Nat
      BY EndNat, SizesAssumption, BlockSizeAssumption
    <3>2. QED
      BY <1>1, <3>1, TimesMonotone, Product
  <2>5. bb.block * BlockSize \in Nat /\ Covered(bb) = (bb.block * BlockSize)..(z - 1)
    BY CoveredIs DEF IsCell
  <2> DEFINE x == bb.block * BlockSize
  <2> HIDE DEF x, y, z
  <2>6. \A w \in Covered(bb) : w < y
    BY <2>4, <2>5 DEF x
  <2>7. \A w \in Words : wanted'[w] # Hole => w < y
    BY <1>1, <1>7, <2>3, <2>6
  <2>8. QED
    BY <2>1, <2>7 DEF InLength
<1>11. added' # 0 /\ phase \in Queueing /\ phase' \notin GivenUp /\ phase' # "written"
  BY <1>1, <1>3 DEF Queueing, GivenUp
<1>12. QED
  BY <1>1, <1>8, <1>9, <1>10, <1>11, ImageMoves

LEMMA ImageAddFill ==
    ASSUME SparseInv, FitInv, ImageInv, AddFill PROVE ImageStep
<1>1. PICK v \in FillVals, len \in Lens, b \in 0..(ImageBlocks - 1) :
         len % BlockSize = 0 /\ Add(Cell("fill", v, 0, len, b))
  BY DEF AddFill
<1>2. IsCell(Cell("fill", v, 0, len, b))
  BY <1>1, AddedIsCell DEF CellTypes
<1>3. v \in Nat
  BY WordsAssumption
<1>4. QED
  BY <1>1, <1>2, <1>3, FillIs, ImageAdd

LEMMA ImageAddFrom ==
    ASSUME SparseInv, FitInv, ImageInv, NEW type \in CellTypes, type # "fill", AddFrom(type)
    PROVE  ImageStep
<1> DEFINE src(f, b) == [name |-> f, at |-> IF type = "file" THEN b ELSE 0,
                         data |-> Sources[f].data]
<1>1. PICK f \in DOMAIN Sources, len \in Lens, b \in 0..(ImageBlocks - 1) :
         \E off \in {0, len} : /\ off + len <= Len(Sources[f].data)
                               /\ Add(Cell(type, src(f, b), off, len, b))
  BY DEF AddFrom
<1>2. PICK off \in {0, len} : /\ off + len <= Len(Sources[f].data)
                              /\ Add(Cell(type, src(f, b), off, len, b))
  BY <1>1
<1>3. src(f, b).data = Sources[f].data
  OBVIOUS
<1> HIDE DEF src
<1>4. IsCell(Cell(type, src(f, b), off, len, b))
  BY AddedIsCell
<1>5. off \in Nat /\ len \in Nat /\ b \in Nat
  BY LensAssumption, SizesAssumption
<1>6. /\ IsSeq(Sources[f].data)
      /\ \A i \in 1..Len(Sources[f].data) : Sources[f].data[i] \in Nat
  BY SourcesAre
<1> DEFINE q == Sources[f].data
           src1 == src(f, b)
           bb == Cell(type, src1, off, len, b)
<1>7. \A w \in Covered(bb) : WordAt(bb, w) \in Nat
  <2>1. src1.data = q /\ off + len <= Len(q) /\ IsSeq(q) /\ \A i \in 1..Len(q) : q[i] \in Nat
    BY <1>2, <1>3, <1>6
  <2> HIDE DEF q, src1
  <2>2. QED
    BY <1>5, <2>1, FromIs
<1> HIDE DEF bb
<1>8. Add(bb) /\ IsCell(bb)
  BY <1>2, <1>4 DEF bb
<1>9. QED
  BY <1>7, <1>8, ImageAdd

\* img2simg.
LEMMA ImageReadRaw ==
    ASSUME SparseInv, FitInv, ImageInv, ReadRaw PROVE ImageStep
<1>1. /\ phase = "queue" /\ phase' = phase /\ added = 0 /\ added' = MaxAdds
      /\ UNCHANGED <<tmp, parts>>
  BY DEF ReadRaw, written, cutting
<1>2. PICK img \in RawImages :
        /\ \E l \in QueuedAll(RawCells(img)) : s' = [len |-> Len(img), list |-> l]
        /\ wanted' = ReadImage(img)
  <2>1. \E img \in RawImages :
        /\ \E l \in QueuedAll(RawCells(img)) : s' = [len |-> Len(img), list |-> l]
        /\ wanted' = [w \in Words |-> CASE w < Len(img) -> img[w + 1]
                                         [] w \in Len(img)..(AlignUp(Len(img)) - 1) -> 0
                                         [] OTHER -> Hole]
    BY Zenon DEF ReadRaw
  <2>2. QED
    BY <2>1, Zenon DEF ReadImage
<1>3. PICK l \in QueuedAll(RawCells(img)) : s' = [len |-> Len(img), list |-> l]
  BY <1>2
<1>4. /\ DivUp(Len(img)) \in Nat /\ DivUp(Len(img)) <= MaxBlocks
      /\ InLine(RawCells(img), DivUp(Len(img)))
  BY RawCellsInLine
<1>5. HasQueued(l, RawCells(img), Len(RawCells(img)))
  BY <1>4, QueuedAllSound
<1>6. /\ IsImage(ReadImage(img)) /\ IsShown(ReadImage(img), l.cells)
      /\ \A w \in Words : ReadImage(img)[w] # Hole => w < DivUp(Len(img)) * BlockSize
  BY <1>5, ReadHas DEF IsShown
<1>7. s'.list = l /\ s'.len = Len(img)
  BY <1>3
<1>8. \A w \in Words : wanted[w] = Hole
  <2>1. wanted = [w \in Words |-> Hole]
    BY <1>1 DEF ImageInv
  <2>2. QED
    BY <2>1
<1>9. Keeps /\ NothingNew(wanted, s.list.cells, s'.list.cells)
  BY <1>8 DEF Keeps, NothingNew
<1>10. added' # 0 /\ phase \in Queueing /\ phase' \notin GivenUp /\ phase' # "written"
  BY <1>1, SizesAssumption DEF Queueing, GivenUp
<1>11. IsImage(wanted') /\ IsShown(wanted', s'.list.cells)
  BY <1>2, <1>6, <1>7
<1>12. InLength'
  BY <1>2, <1>6, <1>7 DEF InLength
<1>13. QED
  BY <1>1, <1>9, <1>10, <1>11, <1>12, ImageMoves

\* sparse_file_write(), to a sparse file.
LEMMA ImageWrite ==
    ASSUME SparseInv, ImageInv, Write PROVE ImageStep
<1>1. /\ phase \in {"queue", "appended"} /\ phase' = "written"
      /\ UNCHANGED <<s, added, wanted, tmp, parts>> /\ EndsWithin(s)
  BY DEF Write, cutting
<1>2. PICK crc \in BOOLEAN, torn \in BOOLEAN : \E n \in 0..Wanted(s, crc) :
         file' = FileOf(s, crc, n, torn) /\ asked' = crc
  BY CrcAssumption DEF Write
<1>3. PICK n \in 0..Wanted(s, crc) : file' = FileOf(s, crc, n, torn) /\ asked' = crc
  BY <1>2
<1>4. s' = s /\ asked' = crc
  BY <1>1, <1>3
<1>5. Wanted(s', asked') = Wanted(s, crc) /\ FileOf(s', asked', n, torn) = FileOf(s, crc, n, torn)
  BY <1>4
<1>6. IsOutput'
  <2>1. n \in 0..Wanted(s', asked') /\ file' = FileOf(s', asked', n, torn)
    BY <1>3, <1>5
  <2>2. \E m \in 0..Wanted(s', asked') : file' = FileOf(s', asked', m, torn)
    BY <2>1
  <2>3. QED
    BY <2>2 DEF IsOutput
<1>7. QED
  BY <1>1, <1>6, ImageIdle DEF GivenUp, Queueing

\* What is imported has as many blocks as its header says.
LEMMA ImportedTotal ==
    ASSUME NEW f, NEW crc, Outcome(f, crc) = "imported"
    PROVE  CurBlock(f.chunks, Len(f.chunks) + 1) = f.total
<1> DEFINE n == Len(f.chunks)
           whole == n = f.nchunks /\ CurBlock(f.chunks, n + 1) = f.total
           summed == n > 0 /\ f.chunks[n].kind = "crc"
<1>1. SUFFICES ASSUME ~whole PROVE FALSE
  OBVIOUS
<1>2. Outcome(f, crc) = IF summed /\ ~crc THEN "crashed" ELSE "rejected"
  BY <1>1 DEF Outcome
<1> HIDE DEF summed, whole
<1>3. QED
  BY <1>2

\* What is imported is the image that was written.
LEMMA ImportedShows ==
    ASSUME SparseInv, FitInv, ImageInv, phase = "written", NEW crc \in BOOLEAN,
           Outcome(file, crc) = "imported", NEW l \in QueuedAll(CellsOf(file.chunks))
    PROVE  /\ IsList(l) /\ Within(l.cells, file.total)
           /\ IsImage(wanted) /\ IsShown(wanted, l.cells)
           /\ NothingNew(wanted, s.list.cells, l.cells)
           /\ \A w \in Words : wanted[w] # Hole => w < file.total * BlockSize
<1>1. IsFile(file) /\ file.total \in Nat /\ file.total <= MaxBlocks /\ MaxBlocks \in Nat
  BY SizesAssumption DEF SparseInv, FileOK, IsFile
<1>2. IsList(l) /\ Within(l.cells, file.total)
  BY <1>1, ImportSound
<1>3. IsImage(wanted) /\ IsShown(wanted, s.list.cells)
  BY ImageShown DEF Uncut
<1>4. PICK torn \in BOOLEAN : \E n \in 0..Wanted(s, asked) : file = FileOf(s, asked, n, torn)
  BY DEF ImageInv, IsOutput
<1>5. PICK n \in 0..Wanted(s, asked) : file = FileOf(s, asked, n, torn)
  BY <1>4
<1>6. asked \in BOOLEAN /\ IsOrdered(s.list.cells) /\ IsCells(s.list.cells) /\ s.len \in Nat
  BY DEF SparseInv, RestOK, CookieOK, IsCookie, IsList, IsOrdered
<1>7. Outcome(FileOf(s, asked, n, torn), crc) = "imported"
  BY <1>5
<1>8. Carries(file.chunks, ChunksOf(s))
  BY <1>5, <1>6, <1>7, ImportedWhole
<1> DEFINE q == file.chunks
<1>9. IsSeq(q) /\ \A i \in 1..Len(q) : IsChunk(q[i])
  BY <1>1 DEF IsFile
<1>10. HasQueued(l, CellsOf(q), Len(q))
  <2>1. CurBlock(q, Len(q) + 1) \in Nat /\ InLine(CellsOf(q), CurBlock(q, Len(q) + 1))
    BY <1>9, CellsOfInLine
  <2>2. CurBlock(q, Len(q) + 1) = file.total
    BY ImportedTotal
  <2>3. HasQueued(l, CellsOf(q), Len(CellsOf(q)))
    BY <1>1, <2>1, <2>2, QueuedAllSound
  <2>4. Len(CellsOf(q)) = Len(q)
    <3>1. Len(q) \in Nat
      BY <1>9 DEF IsSeq
    <3> HIDE DEF q
    <3>2. CellsOf(q) = [i \in 1..Len(q) |-> CellOf(q, i)]
      BY DEF CellsOf
    <3>3. QED
      BY <3>1, <3>2, Made
  <2>5. QED
    BY <2>3, <2>4
<1>11. \A w, v : Tells(Shows(l.cells, w, v), Shows(s.list.cells, w, v))
  <2>1. Carries(q, ChunksOf(s))
    BY <1>8
  <2> HIDE DEF q
  <2>2. QED
    BY <1>6, <1>9, <1>10, <2>1, CarriedShows
<1>12. IsShown(wanted, l.cells) /\ NothingNew(wanted, s.list.cells, l.cells)
  BY <1>3, <1>11 DEF IsShown, NothingNew, Tells
<1>13. \A w \in Words : wanted[w] # Hole => w < file.total * BlockSize
  <2>1. EndsWithin(s) /\ InLength
    BY DEF ImageInv, Queueing
  <2>2. s.len % BlockSize = 0
    BY <1>6, <1>7, <2>1, ImportedLen
  <2> DEFINE k == s.len \div BlockSize
  <2>3. k \in Nat /\ s.len = k * BlockSize
    BY <1>6, <2>2, BlockSizeAssumption, WholeIs
  <2>4. file.total = k
    BY <1>5 DEF FileOf
  <2> HIDE DEF k
  <2>5. DivUp(s.len) = k
    BY <2>3, UpWhole
  <2>6. QED
    BY <2>1, <2>4, <2>5 DEF InLength
<1>14. QED
  BY <1>2, <1>3, <1>12, <1>13

\* simg2img and simg2simg read the file.
LEMMA ImageImport ==
    ASSUME SparseInv, FitInv, ImageInv, Import PROVE ImageStep
<1>1. /\ phase = "written" /\ phase' = Outcome(file, FALSE)
      /\ UNCHANGED <<added, wanted, tmp, parts>>
  BY DEF Import, written, cutting
<1>2. phase' \in {"crashed", "rejected", "truncated", "imported"}
  BY <1>1, OutcomeIs
<1>3. CASE phase' = "imported"
  <2>1. PICK l \in QueuedAll(CellsOf(file.chunks)) : s' = [len |-> file.total * BlockSize, list |-> l]
    BY <1>3 DEF Import
  <2> DEFINE w == file.total * BlockSize
  <2>2. s'.list = l
    <3>1. s' = [len |-> w, list |-> l]
      BY <2>1
    <3> HIDE DEF w
    <3>2. QED
      BY <3>1
  <2>3. /\ IsImage(wanted) /\ IsShown(wanted, l.cells)
        /\ NothingNew(wanted, s.list.cells, l.cells)
    BY <1>1, <1>3, ImportedShows
  <2>4. /\ Keeps /\ IsImage(wanted') /\ IsShown(wanted', s'.list.cells)
        /\ NothingNew(wanted, s.list.cells, s'.list.cells)
    BY <1>1, <2>2, <2>3 DEF Keeps
  <2>5. QED
    BY <1>1, <1>3, <2>4, ImageMoves DEF Queueing, GivenUp
<1>4. CASE phase' # "imported"
  BY <1>1, <1>2, <1>4, ImageEnds DEF GivenUp
<1>5. QED
  BY <1>3, <1>4

\* append2simg.
LEMMA ImageAppend ==
    ASSUME SparseInv, FitInv, ImageInv, Append2simg PROVE ImageStep
<1>1. /\ phase = "written" /\ file.total <= ImageBlocks
      /\ UNCHANGED <<added, tmp, parts>>
  BY DEF Append2simg, written, cutting
<1>2. /\ IsFile(file) /\ file.total \in Nat /\ file.total <= MaxBlocks /\ MaxBlocks \in Nat
      /\ BlockSize \in Nat \ {0} /\ Appendix \in Nat \ {0}
      /\ file.total + Appendix <= MaxBlocks
  <2>1. /\ IsFile(file) /\ file.total \in Nat /\ file.total <= MaxBlocks /\ MaxBlocks \in Nat
        /\ BlockSize \in Nat \ {0} /\ Appendix \in Nat \ {0}
        /\ ImageBlocks \in Nat /\ ImageBlocks + Appendix <= MaxBlocks
    BY SizesAssumption, BlockSizeAssumption DEF SparseInv, FileOK, IsFile
  <2>2. file.total + Appendix <= MaxBlocks
    BY <1>1, <2>1
  <2>3. QED
    BY <2>1, <2>2
<1>3. CASE Outcome(file, TRUE) = "imported"
  <2> DEFINE len == Appendix * BlockSize
             ones == [i \in 1..len |-> 1]
             input == [name |-> "input", at |-> 0, data |-> ones]
             bb == Cell("fd", input, 0, len, file.total)
             x == file.total * BlockSize + len
  <2>1. PICK l \in QueuedAll(CellsOf(file.chunks)) :
           /\ \E q \in Queued(l, bb) : s' = [len |-> x, list |-> q]
           /\ wanted' = Lay(wanted, bb)
           /\ phase' = "appended"
    BY <1>3 DEF Append2simg
  <2>2. PICK q \in Queued(l, bb) : s' = [len |-> x, list |-> q]
    BY <2>1
  <2> HIDE DEF x
  <2>3. s'.list = q
    BY <2>2
  <2>4. len \in Nat /\ DivUp(len) = Appendix /\ len \in Nat \ {0}
    <3>1. len \in Nat /\ DivUp(len) = Appendix
      BY <1>2, UpWhole
    <3>2. len # 0
      BY <1>2, <3>1, UpNat
    <3>3. QED
      BY <3>1, <3>2
  <2>5. input.data = ones
    OBVIOUS
  <2> HIDE DEF len
  <2>6. IsSeq(ones) /\ Len(ones) = len /\ \A i \in 1..Len(ones) : ones[i] \in Nat
    <3>1. Len(ones) = len
      BY <2>4, Made
    <3>2. \A i \in 1..len : ones[i] \in Nat
      OBVIOUS
    <3>3. ones = [i \in 1..Len(ones) |-> ones[i]]
      BY <3>1
    <3>4. QED
      BY <2>4, <3>1, <3>2, <3>3 DEF IsSeq
  <2> HIDE DEF input, ones
  <2>7. bb.len = len /\ bb.block = file.total /\ IsCell(bb)
    BY <1>2, <2>4 DEF Cell, IsCell, CellTypes
  <2>8. \A w \in Covered(bb) : WordAt(bb, w) \in Nat
    <3>1. 0 + len <= Len(ones) /\ 0 \in Nat
      BY <2>4, <2>6
    <3>2. QED
      BY <1>2, <2>4, <2>5, <2>6, <3>1, FromIs
  <2> HIDE DEF bb
  <2>9. EndBlock(bb) <= MaxBlocks
    BY <1>2, <2>4, <2>7 DEF EndBlock
  <2>10. /\ IsList(l) /\ Within(l.cells, file.total)
         /\ IsImage(wanted) /\ IsShown(wanted, l.cells)
         /\ NothingNew(wanted, s.list.cells, l.cells)
         /\ \A w \in Words : wanted[w] # Hole => w < file.total * BlockSize
    BY <1>1, <1>3, ImportedShows
  <2>11. IsFree(l.cells, bb) /\ Within(l.cells, MaxBlocks)
    <3>1. IsFree(l.cells, bb)
      BY <2>7, <2>10 DEF IsFree, Within
    <3>2. Within(l.cells, MaxBlocks)
      BY <1>2, <2>10, WithinMore DEF IsList
    <3>3. QED
      BY <3>1, <3>2
  <2> DEFINE a == file.total * BlockSize
             z == EndBlock(bb) * BlockSize
  <2>12. /\ a \in Nat /\ z \in Nat /\ z = a + len /\ a <= z
         /\ Covered(bb) = a..(z - 1) /\ Covered(bb) \subseteq Words
    <3>1. a \in Nat /\ z \in Nat /\ Covered(bb) = a..(z - 1) /\ z = a + DivUp(len) * BlockSize
      BY <1>2, <2>4, <2>7, CoveredIs
    <3>2. DivUp(len) * BlockSize = len
      BY <2>4 DEF len
    <3>3. Covered(bb) \subseteq Words
      BY <2>7, <2>9, WordsAre
    <3> HIDE DEF a, z
    <3>4. QED
      BY <2>4, <3>1, <3>2, <3>3
  <2>13. \A w \in Covered(bb) : wanted[w] = Hole
    <3> SUFFICES ASSUME NEW w \in Covered(bb), wanted[w] # Hole PROVE FALSE
      OBVIOUS
    <3>1. w \in Words /\ w \in a..(z - 1)
      BY <2>12
    <3>2. w < a
      BY <2>10, <3>1
    <3> HIDE DEF a, z
    <3>3. QED
      BY <2>12, <3>1, <3>2
  <2>14. /\ IsImage(Lay(wanted, bb)) /\ IsShown(Lay(wanted, bb), q.cells)
         /\ \A w \in Words : wanted[w] # Hole => Lay(wanted, bb)[w] = wanted[w]
         /\ \A w \in Words : Lay(wanted, bb)[w] # Hole => wanted[w] # Hole \/ w \in Covered(bb)
         /\ NothingNew(wanted, l.cells, q.cells)
    BY <2>7, <2>8, <2>9, <2>10, <2>11, <2>13, QueuedHas
  <2>15. /\ IsImage(wanted') /\ IsShown(wanted', s'.list.cells) /\ Keeps
         /\ NothingNew(wanted, s.list.cells, s'.list.cells)
    BY <2>1, <2>3, <2>10, <2>14 DEF Keeps, NothingNew
  <2>16. InLength'
    <3>1. s'.len = x
      BY <2>2
    <3>2. DivUp(x) * BlockSize = z
      <4>1. z = (file.total + Appendix) * BlockSize /\ file.total + Appendix \in Nat
        BY <1>2, <2>4, <2>7 DEF EndBlock
      <4>2. x = z
        BY <2>12 DEF x
      <4>3. DivUp(x) = file.total + Appendix
        BY <4>1, <4>2, UpWhole
      <4>4. QED
        BY <4>1, <4>3
    <3>3. \A w \in Words : wanted[w] # Hole => w < a
      BY <2>10
    <3>4. \A w \in Words : w \in Int
      BY WordsAre
    <3> HIDE DEF a, z
    <3>5. \A w \in Words : wanted'[w] # Hole => w < z
      <4> SUFFICES ASSUME NEW w \in Words, wanted'[w] # Hole PROVE w < z
        OBVIOUS
      <4>1. wanted[w] # Hole \/ w \in a..(z - 1)
        BY <2>1, <2>12, <2>14
      <4>2. w < a \/ w \in a..(z - 1)
        BY <3>3, <4>1
      <4>3. QED
        BY <2>12, <3>4, <4>2
    <3>6. QED
      BY <3>1, <3>2, <3>5 DEF InLength
  <2>17. QED
    BY <1>1, <2>1, <2>15, <2>16, ImageMoves DEF Queueing, GivenUp
<1>4. CASE Outcome(file, TRUE) # "imported"
  <2>1. phase' = "misread" /\ UNCHANGED <<s, wanted>>
    BY <1>4 DEF Append2simg
  <2>2. QED
    BY <2>1, ImageEnds DEF GivenUp
<1>5. QED
  BY <1>3, <1>4

-----------------------------------------------------------------------------
(* Cutting loses nothing. *)

\* What a round takes is in one of the two lists it leaves.
LEMMA RoundShows ==
    ASSUME SparseInv, phase \in {"first", "second"}
    PROVE  LET t == Taken(s.list.cells, limit)
               from == [s.list EXCEPT !.cells = t.cells]
               left == MovedFrom(from, t.n)
               kept == MovedTo(from, t.n, tmp)
               own == MovedTo(from, t.n, EmptyList)
           IN  /\ \A w, v : Shows(kept.cells, w, v) \/ Shows(left.cells, w, v)
                               <=> Shows(tmp.cells, w, v) \/ Shows(s.list.cells, w, v)
               /\ \A w, v : Shows(own.cells, w, v) \/ Shows(left.cells, w, v)
                               <=> Shows(s.list.cells, w, v)
               /\ ~t.more => Len(left.cells) = 0
               /\ IsList(left) /\ IsList(kept)
<1> DEFINE t == Taken(s.list.cells, limit)
           from == [s.list EXCEPT !.cells = t.cells]
           left == MovedFrom(from, t.n)
           kept == MovedTo(from, t.n, tmp)
           own == MovedTo(from, t.n, EmptyList)
           c == s.list.cells
<1>1. /\ IsTaken(c, t)
      /\ IsCookie(s) /\ IsList(tmp) /\ Within(tmp.cells, MaxBlocks) /\ MaxBlocks \in Nat
      /\ \E b \in Nat : Within(tmp.cells, b) /\ From(c, b)
  BY RoundBegins
<1>2. PICK b \in Nat : Within(tmp.cells, b) /\ From(c, b)
  BY <1>1
<1>3. limit \in MaxLens
  BY DEF SparseInv, TmpOK
<1>4. /\ IsList(s.list) /\ IsOrdered(c) /\ Within(c, MaxBlocks)
      /\ IsSeq(tmp.cells)
  BY <1>1 DEF IsCookie, IsList, IsOrdered, IsCells
<1>5. \A w, v : Shows(t.cells, w, v) <=> Shows(c, w, v)
  BY <1>3, <1>4, TakenShows
<1> HIDE DEF t
<1>6. Moved(s.list, t, tmp, b, MaxBlocks)
  BY <1>1, <1>2, <1>4, RoundKeeps
<1>7. IsList(left) /\ IsList(kept) /\ (~t.more => Len(left.cells) = 0)
  BY <1>6 DEF Moved
<1>8. /\ LeftOf(t.cells, t.n, left.cells)
      /\ PutBehind(tmp.cells, t.cells, t.n, kept.cells)
      /\ IsCells(t.cells)
  BY <1>1, <1>2, <1>4, RoundMoves
<1>9. PutBehind(EmptyList.cells, t.cells, t.n, own.cells)
  <2>1. IsList(EmptyList) /\ Within(EmptyList.cells, b)
    BY EmptyIsList
  <2>2. QED
    BY <1>1, <1>2, <1>4, <2>1, RoundMoves
<1>10. t.n \in 0..Len(t.cells) /\ IsSeq(t.cells)
  BY <1>1, <1>8 DEF IsTaken, IsCells
<1>11. IsSeq(EmptyList.cells) /\ Len(EmptyList.cells) = 0
  BY Empty DEF EmptyList
<1> DEFINE u == t.cells
           n == t.n
           x == left.cells
           y == kept.cells
           z == own.cells
           p == tmp.cells
           e == EmptyList.cells
<1>12. /\ IsSeq(u) /\ n \in 0..Len(u) /\ IsSeq(p) /\ IsSeq(e) /\ Len(e) = 0
       /\ LeftOf(u, n, x) /\ PutBehind(p, u, n, y) /\ PutBehind(e, u, n, z)
  BY <1>4, <1>8, <1>9, <1>10, <1>11
<1>13. \A w, v : Shows(u, w, v) <=> Shows(c, w, v)
  BY <1>5
<1> HIDE DEF u, n, x, y, z, p, e, c
<1>14. \A w, v : Shows(y, w, v) \/ Shows(x, w, v) <=> Shows(p, w, v) \/ Shows(u, w, v)
  BY <1>12, MovedShow
<1>15. \A w, v : Shows(z, w, v) \/ Shows(x, w, v) <=> Shows(e, w, v) \/ Shows(u, w, v)
  BY <1>12, MovedShow
<1>16. \A w, v : ~Shows(e, w, v)
  BY <1>12, NothingShown
<1>17. /\ \A w, v : Shows(y, w, v) \/ Shows(x, w, v) <=> Shows(p, w, v) \/ Shows(c, w, v)
       /\ \A w, v : Shows(z, w, v) \/ Shows(x, w, v) <=> Shows(c, w, v)
  BY <1>13, <1>14, <1>15, <1>16
<1>18. QED
  BY <1>7, <1>17 DEF x, y, z, p, c, t

\* The cookie gets back what was taken.
LEMMA BackShows ==
    ASSUME NEW kept, IsList(kept), NEW left, IsList(left), Len(left.cells) = 0
    PROVE  \A w, v : Shows(MovedTo(kept, Len(kept.cells), left).cells, w, v)
                        <=> Shows(kept.cells, w, v)
<1> DEFINE k == kept.cells
           q == MovedTo(kept, Len(kept.cells), left).cells
<1>1. LeftOf(k, 0, q)
  BY MovedBack
<1>2. Len(k) \in Nat
  BY ListParts
<1> HIDE DEF k, q
<1>3. Len(q) = Len(k) /\ \A i \in 1..Len(k) : q[i] = k[i]
  <2>1. Len(q) = Len(k) - 0 /\ \A i \in 1..(Len(k) - 0) : q[i] = k[0 + i]
    BY <1>1 DEF LeftOf
  <2>2. Len(k) - 0 = Len(k) /\ \A i \in 1..Len(k) : 0 + i = i
    BY <1>2
  <2>3. QED
    BY <2>1, <2>2
<1>4. \A w, v : Shows(q, w, v) <=> Shows(k, w, v)
  BY <1>3 DEF Shows
<1>5. QED
  BY <1>4 DEF k, q

\* A round moves cells from list to list.
LEMMA ImageSpread ==
    ASSUME phase \notin Queueing, phase' \notin Queueing \cup GivenUp, wanted' = wanted,
           IsImage(wanted), ShownAs(wanted, s.list.cells, tmp.cells, parts),
           \A w, v : Spread(s'.list.cells, tmp'.cells, parts', w, v)
                       <=> Spread(s.list.cells, tmp.cells, parts, w, v)
    PROVE  ImageStep
<1>1. ShownAs(wanted', s'.list.cells, tmp'.cells, parts')
  BY DEF ShownAs, Tells
<1>2. ImageInv'
  BY <1>1 DEF ImageInv, Queueing
<1>3. Keeps /\ Stays
  BY DEF Keeps, Stays
<1>4. QED
  BY <1>2, <1>3 DEF ImageStep

\* A round of the count.
LEMMA ImageFirstRound ==
    ASSUME SparseInv, ImageInv, FirstRound PROVE ImageStep
<1> DEFINE t == Taken(s.list.cells, limit)
           from == [s.list EXCEPT !.cells = t.cells]
           left == MovedFrom(from, t.n)
           kept == MovedTo(from, t.n, tmp)
           back == MovedTo(kept, Len(kept.cells), left)
<1>1. /\ phase = "first" /\ wanted' = wanted /\ parts' = parts
      /\ \/ /\ t.more
            /\ s' = [s EXCEPT !.list = left] /\ tmp' = kept /\ phase' = phase
         \/ /\ ~t.more
            /\ s' = [s EXCEPT !.list = back] /\ tmp' = EmptyList /\ phase' = "second"
  BY DEF FirstRound
<1>2. /\ \A w, v : Shows(kept.cells, w, v) \/ Shows(left.cells, w, v)
                      <=> Shows(tmp.cells, w, v) \/ Shows(s.list.cells, w, v)
      /\ ~t.more => Len(left.cells) = 0
      /\ IsList(left) /\ IsList(kept)
  BY <1>1, RoundShows
<1>3. s = [len |-> s.len, list |-> s.list]
  BY DEF SparseInv, CookieOK, IsCookie
<1>4. IsImage(wanted) /\ ShownAs(wanted, s.list.cells, tmp.cells, parts)
  BY <1>1 DEF ImageInv, GivenUp
<1> HIDE DEF left, kept
<1>5. \A w, v : Shows(s'.list.cells, w, v) \/ Shows(tmp'.cells, w, v)
                   <=> Shows(s.list.cells, w, v) \/ Shows(tmp.cells, w, v)
  <2>1. CASE t.more
    <3>1. s' = [len |-> s.len, list |-> left] /\ tmp' = kept
      BY <1>1, <1>3, <2>1
    <3>2. s'.list = left
      BY <3>1
    <3>3. QED
      BY <1>2, <3>1, <3>2
  <2>2. CASE ~t.more
    <3>1. \A w, v : Shows(back.cells, w, v) <=> Shows(kept.cells, w, v)
      BY <1>2, <2>2, BackShows
    <3> HIDE DEF back
    <3>2. s' = [len |-> s.len, list |-> back] /\ tmp' = EmptyList
      BY <1>1, <1>3, <2>2
    <3>3. s'.list = back
      BY <3>2
    <3>4. \A w, v : ~Shows(left.cells, w, v)
      BY <1>2, <2>2, NothingShown
    <3>5. \A w, v : ~Shows(tmp'.cells, w, v)
      <4>1. Len(EmptyList.cells) = 0
        BY Empty DEF EmptyList
      <4>2. QED
        BY <3>2, <4>1, NothingShown
    <3>6. QED
      BY <1>2, <3>1, <3>3, <3>4, <3>5
  <2>3. QED
    BY <2>1, <2>2
<1>6. \A w, v : Spread(s'.list.cells, tmp'.cells, parts', w, v)
                  <=> Spread(s.list.cells, tmp.cells, parts, w, v)
  BY <1>1, <1>5 DEF Spread
<1>7. phase' \in {"first", "second"}
  BY <1>1
<1>8. QED
  BY <1>1, <1>4, <1>6, <1>7, ImageSpread DEF Queueing, GivenUp

\* A round that makes a part.
LEMMA ImageSecondRound ==
    ASSUME SparseInv, FitInv, CutInv, ImageInv, SecondRound PROVE ImageStep
<1> DEFINE t == Taken(s.list.cells, limit)
           from == [s.list EXCEPT !.cells = t.cells]
           left == MovedFrom(from, t.n)
           own == MovedTo(from, t.n, EmptyList)
           part == [len |-> s.len, list |-> own]
           back == MovedTo(tmp, Len(tmp.cells), left)
<1>0. phase = "second"
  BY DEF SecondRound
<1>1. rounds < count /\ Len(tmp.cells) = 0 /\ IsList(tmp)
  BY <1>0 DEF CutInv, MakeInv, SparseInv, TmpOK
<1>2. /\ wanted' = wanted
      /\ parts' = Append(parts, part)
      /\ \/ t.more /\ s' = [s EXCEPT !.list = left] /\ tmp' = tmp /\ phase' = phase
         \/ ~t.more /\ s' = [s EXCEPT !.list = back] /\ tmp' = EmptyList /\ phase' = "parts"
  BY <1>1 DEF SecondRound
<1>3. /\ \A w, v : Shows(own.cells, w, v) \/ Shows(left.cells, w, v) <=> Shows(s.list.cells, w, v)
      /\ ~t.more => Len(left.cells) = 0
      /\ IsList(left)
  BY <1>0, RoundShows
<1>4. s = [len |-> s.len, list |-> s.list]
  BY DEF SparseInv, CookieOK, IsCookie
<1>5. IsImage(wanted) /\ ShownAs(wanted, s.list.cells, tmp.cells, parts)
  BY <1>0 DEF ImageInv, GivenUp
<1>6. part.list = own
  OBVIOUS
<1> HIDE DEF left, own, part
<1>7. \A w, v : Shows(s'.list.cells, w, v) <=> Shows(left.cells, w, v)
  <2>1. CASE t.more
    <3>1. s' = [len |-> s.len, list |-> left]
      BY <1>2, <1>4, <2>1
    <3>2. s'.list = left
      BY <3>1
    <3>3. QED
      BY <3>2
  <2>2. CASE ~t.more
    <3>1. \A w, v : Shows(back.cells, w, v) <=> Shows(tmp.cells, w, v)
      BY <1>1, <1>3, <2>2, BackShows
    <3> HIDE DEF back
    <3>2. s' = [len |-> s.len, list |-> back]
      BY <1>2, <1>4, <2>2
    <3>3. s'.list = back
      BY <3>2
    <3>4. \A w, v : ~Shows(left.cells, w, v) /\ ~Shows(tmp.cells, w, v)
      BY <1>1, <1>3, <2>2, NothingShown
    <3>5. QED
      BY <3>1, <3>3, <3>4
  <2>3. QED
    BY <1>2, <2>1, <2>2
<1>8. \A w, v : ~Shows(tmp.cells, w, v) /\ ~Shows(tmp'.cells, w, v)
  <2>1. Len(EmptyList.cells) = 0
    BY Empty DEF EmptyList
  <2>2. Len(tmp'.cells) = 0
    BY <1>1, <1>2, <2>1
  <2>3. QED
    BY <1>1, <2>2, NothingShown
<1>9. ASSUME NEW w, NEW v
      PROVE  (\E i \in 1..Len(parts') : Shows(parts'[i].list.cells, w, v))
                <=> \/ \E i \in 1..Len(parts) : Shows(parts[i].list.cells, w, v)
                    \/ Shows(own.cells, w, v)
  <2>1. IsSeq(parts) /\ Len(parts) \in Nat
    BY DEF FitInv
  <2>2. /\ Len(parts') = Len(parts) + 1
        /\ parts'[Len(parts) + 1] = part
        /\ \A i \in 1..Len(parts) : parts'[i] = parts[i]
    BY <1>2, <2>1, Appended
  <2> DEFINE n == Len(parts)
             S(i) == Shows(parts'[i].list.cells, w, v)
  <2>3. S(n + 1) <=> Shows(own.cells, w, v)
    BY <1>6, <2>2
  <2>4. \A i \in 1..n : S(i) <=> Shows(parts[i].list.cells, w, v)
    BY <2>2
  <2>5. Len(parts') = n + 1 /\ n \in Nat
    BY <2>1, <2>2
  <2> HIDE DEF S, n
  <2>6. \A i : i \in 1..(n + 1) <=> i \in 1..n \/ i = n + 1
    BY <2>5
  <2>7. (\E i \in 1..(n + 1) : S(i)) <=> (\E i \in 1..n : S(i)) \/ S(n + 1)
    BY <2>6
  <2>8. QED
    BY <2>3, <2>4, <2>5, <2>7 DEF S, n
<1>10. ASSUME NEW w, NEW v
       PROVE  Spread(s'.list.cells, tmp'.cells, parts', w, v)
                <=> Spread(s.list.cells, tmp.cells, parts, w, v)
  BY <1>3, <1>7, <1>8, <1>9 DEF Spread
<1>11. phase' \in {"second", "parts"}
  BY <1>0, <1>2
<1>12. QED
  BY <1>0, <1>2, <1>5, <1>10, <1>11, ImageSpread DEF Queueing, GivenUp

-----------------------------------------------------------------------------
(* Every call. *)

LEMMA ImageBegins == Init => ImageInv
<1> SUFFICES ASSUME Init PROVE ImageInv
  OBVIOUS
<1>1. /\ s = NewCookie(ImageBlocks * BlockSize) /\ phase = "queue"
      /\ wanted = [w \in Words |-> Hole] /\ tmp = EmptyList /\ parts = << >>
  BY DEF Init
<1>2. s.list = EmptyList
  BY <1>1 DEF NewCookie
<1>3. Len(EmptyList.cells) = 0 /\ Len(parts) = 0
  BY <1>1, Empty DEF EmptyList
<1>4. \A w, v : Spread(s.list.cells, tmp.cells, parts, w, v) <=> Shows(EmptyList.cells, w, v)
  BY <1>1, <1>2, <1>3, SpreadAlone
<1>5. \A w, v : ~Shows(EmptyList.cells, w, v)
  BY <1>3, NothingShown
<1>6. \A w, v : ~Has(wanted, w, v)
  BY <1>1 DEF Has
<1>7. IsImage(wanted)
  BY <1>1 DEF IsImage
<1>8. ShownAs(wanted, s.list.cells, tmp.cells, parts)
  BY <1>2, <1>4, <1>5, <1>6 DEF ShownAs, Tells
<1>9. InLength
  BY <1>1 DEF InLength
<1>10. s.len = ImageBlocks * BlockSize
  BY <1>1 DEF NewCookie
<1>11. QED
  BY <1>1, <1>7, <1>8, <1>9, <1>10 DEF ImageInv

LEMMA ImageNext ==
    ASSUME SparseInv, FitInv, CutInv, ImageInv, Next
    PROVE  ImageStep /\ phase \notin GivenUp
<1>1. phase \notin GivenUp
  <2>1. CASE AddFill \/ AddData \/ AddFd \/ AddFile
    <3>1. \E bb : Add(bb)
      <4>1. CASE AddFill
        BY <4>1 DEF AddFill
      <4>2. CASE AddData \/ AddFd \/ AddFile
        <5>1. PICK type : AddFrom(type)
          BY <4>2 DEF AddData, AddFd, AddFile
        <5>2. QED
          BY <5>1 DEF AddFrom
      <4>3. QED
        BY <2>1, <4>1, <4>2
    <3>2. QED
      BY <3>1 DEF Add, GivenUp
  <2>2. CASE ReadRaw \/ Write \/ WriteFails \/ WriteAborts \/ WriteRaw
    <3>1. phase \in {"queue", "appended", "imported"}
      BY <2>2 DEF ReadRaw, Write, WriteFails, WriteAborts, WriteRaw
    <3>2. QED
      BY <3>1 DEF GivenUp
  <2>3. CASE Import \/ Append2simg \/ StartCutting \/ WriteParts \/ ExpandNext
    <3>1. phase \in {"written", "imported", "parts", "expanding"}
      BY <2>3 DEF Import, Append2simg, StartCutting, WriteParts, ExpandNext
    <3>2. QED
      BY <3>1 DEF GivenUp
  <2>4. CASE FirstRound \/ SecondRound
    <3>1. phase \in {"first", "second"}
      BY <2>4 DEF FirstRound, SecondRound
    <3>2. QED
      BY <3>1 DEF GivenUp
  <2>5. QED
    BY <2>1, <2>2, <2>3, <2>4 DEF Next
<1>2. CASE AddFill
  BY <1>1, <1>2, ImageAddFill
<1>3. CASE AddData \/ AddFd \/ AddFile
  BY <1>1, <1>3, ImageAddFrom DEF AddData, AddFd, AddFile, CellTypes
<1>4. CASE ReadRaw
  BY <1>1, <1>4, ImageReadRaw
<1>5. CASE Write
  BY <1>1, <1>5, ImageWrite
<1>6. CASE WriteFails
  BY <1>6, ImageEnds DEF WriteFails, GivenUp
<1>7. CASE WriteAborts
  BY <1>7, ImageEnds DEF WriteAborts, GivenUp
<1>8. CASE WriteRaw
  BY <1>1, <1>8, ImageIdle DEF WriteRaw, cutting, Queueing
<1>9. CASE Import
  BY <1>1, <1>9, ImageImport
<1>10. CASE Append2simg
  BY <1>1, <1>10, ImageAppend
<1>11. CASE StartCutting
  BY <1>1, <1>11, ImageIdle DEF StartCutting, Queueing
<1>12. CASE FirstRound
  BY <1>1, <1>12, ImageFirstRound
<1>13. CASE SecondRound
  BY <1>1, <1>13, ImageSecondRound
<1>14. CASE WriteParts
  BY <1>1, <1>14, ImageIdle DEF WriteParts, cutting, Queueing
<1>15. CASE ExpandNext
  <2>1. /\ phase' \in {"expanding", "expanded", "rejected"} /\ UNCHANGED <<s, tmp, parts, wanted>>
    BY <1>15 DEF ExpandNext, cutting
  <2>2. QED
    BY <1>1, <2>1, ImageIdle DEF Queueing
<1>16. QED
  BY <1>1, <1>2, <1>3, <1>4, <1>5, <1>6, <1>7, <1>8, <1>9, <1>10, <1>11, <1>12, <1>13, <1>14,
     <1>15 DEF Next

-----------------------------------------------------------------------------
(* The image is kept. *)

\* What one of the cells shows is what the lists show.
LEMMA CellsShow ==
    ASSUME SparseInv
    PROVE  \A w, v : (\E bb \in Cells : Puts(bb, w, v)) <=> Spread(s.list.cells, tmp.cells, parts, w, v)
<1> DEFINE lists == {s.list, tmp} \cup { parts[i].list : i \in 1..Len(parts) }
<1>1. ASSUME NEW l \in lists PROVE Range(l.cells) = { l.cells[i] : i \in 1..Len(l.cells) }
  <2>1. IsList(l)
    BY DEF SparseInv, CookieOK, IsCookie, TmpOK, PartsOK
  <2>2. IsSeq(l.cells)
    BY <2>1 DEF IsList, IsOrdered, IsCells
  <2> DEFINE q == l.cells
  <2>3. q = [i \in 1..Len(q) |-> q[i]]
    BY <2>2 DEF IsSeq
  <2> HIDE DEF q
  <2>4. DOMAIN q = 1..Len(q)
    BY <2>3
  <2>5. Range(q) = { q[i] : i \in 1..Len(q) }
    BY <2>4 DEF Range
  <2>6. QED
    BY <2>5 DEF q
<1>2. Cells = UNION { Range(l.cells) : l \in lists }
  BY DEF Cells
<1> HIDE DEF lists
<1>3. \A bb : bb \in Cells <=> \E l \in lists : \E i \in 1..Len(l.cells) : bb = l.cells[i]
  <2>1. \A bb : bb \in Cells <=> \E l \in lists : bb \in Range(l.cells)
    BY <1>2
  <2>2. \A l \in lists : \A bb : bb \in Range(l.cells) <=> \E i \in 1..Len(l.cells) : bb = l.cells[i]
    BY <1>1
  <2>3. ASSUME NEW bb, bb \in Cells PROVE \E l \in lists : \E i \in 1..Len(l.cells) : bb = l.cells[i]
    <3>1. PICK l \in lists : bb \in Range(l.cells)
      BY <2>1, <2>3
    <3>2. \E i \in 1..Len(l.cells) : bb = l.cells[i]
      BY <2>2, <3>1
    <3>3. QED
      BY <3>2
  <2>4. ASSUME NEW bb, NEW l \in lists, \E i \in 1..Len(l.cells) : bb = l.cells[i] PROVE bb \in Cells
    <3>1. bb \in Range(l.cells)
      BY <2>2, <2>4
    <3>2. QED
      BY <2>1, <3>1
  <2>5. QED
    BY <2>3, <2>4
<1>4. \A w, v : (\E bb \in Cells : Puts(bb, w, v)) <=> \E l \in lists : Shows(l.cells, w, v)
  BY <1>3 DEF Shows
<1>5. QED
  BY <1>4 DEF Spread, lists

\* What the lists show is their content.
LEMMA ContentIs ==
    ASSUME SparseInv, NEW image, IsImage(image),
           \A w, v : Spread(s.list.cells, tmp.cells, parts, w, v) <=> Has(image, w, v)
    PROVE  Content = image
<1> DEFINE at(w) == { c \in Cells : w \in Covered(c) }
           put(w) == { CellWord(bb, w - bb.block * BlockSize) : bb \in at(w) }
           word(vals) == CASE vals = {} -> Hole
                           [] Cardinality(vals) = 1 -> Max(vals)
                           [] OTHER -> Hole - 1
           dom == Words \cup UNION { Covered(bb) : bb \in Cells }
<1>1. \A w, v : (\E bb \in Cells : Puts(bb, w, v)) <=> Has(image, w, v)
  BY CellsShow
<1>2. \A w, v : v \in put(w) <=> Has(image, w, v)
  <2>1. \A w, v : v \in put(w) <=> \E bb \in Cells : Puts(bb, w, v)
    BY DEF Puts, WordAt
  <2> HIDE DEF put
  <2>2. QED
    BY <1>1, <2>1
<1>3. dom = Words
  <2>1. ASSUME NEW bb \in Cells, NEW w \in Covered(bb) PROVE w \in Words
    <3>1. Puts(bb, w, WordAt(bb, w))
      BY DEF Puts
    <3>2. QED
      BY <1>1, <3>1 DEF Has
  <2>2. QED
    BY <2>1
<1>4. Content = [w \in dom |-> word(put(w))]
  BY Zenon DEF Content
<1>5. image = [w \in Words |-> image[w]] /\ \A w \in Words : image[w] \in Nat \cup {Hole}
  BY DEF IsImage
<1> HIDE DEF put, dom
<1>6. ASSUME NEW w \in Words PROVE word(put(w)) = image[w]
  <2>1. CASE image[w] = Hole
    <3>1. put(w) = {}
      BY <1>2, <2>1 DEF Has
    <3>2. word({}) = Hole
      <4> DEFINE c == Cardinality({})
                 m == Max({})
      <4>1. word({}) = CASE {} = {} -> Hole [] c = 1 -> m [] OTHER -> Hole - 1
        OBVIOUS
      <4>2. c = 0
        BY FS_EmptySet
      <4> HIDE DEF c, m, word
      <4>3. QED
        BY <4>1, <4>2
    <3> HIDE DEF word
    <3>3. QED
      BY <2>1, <3>1, <3>2
  <2>2. CASE image[w] # Hole
    <3> DEFINE x == image[w]
    <3>1. x \in Nat
      BY <1>5, <2>2
    <3>2. put(w) = {x}
      BY <1>2, <2>2 DEF Has
    <3> HIDE DEF x
    <3>3. Cardinality({x}) = 1
      BY FS_Singleton
    <3>4. Max({x}) = x
      <4>1. {x} \in SUBSET (0..x) /\ {x} # {}
        BY <3>1
      <4>2. Max({x}) \in {x}
        BY <3>1, <4>1, MaxIs
      <4>3. QED
        BY <4>2
    <3>5. word({x}) = x
      <4> DEFINE m == Max({x})
                 c == Cardinality({x})
      <4>1. word({x}) = CASE {x} = {} -> Hole [] c = 1 -> m [] OTHER -> Hole - 1
        OBVIOUS
      <4>2. c = 1 /\ m = x /\ {x} # {}
        BY <3>3, <3>4
      <4> HIDE DEF m, c, word
      <4>3. QED
        BY <4>1, <4>2
    <3> HIDE DEF word
    <3>6. QED
      BY <3>2, <3>5 DEF x
  <2>3. QED
    BY <2>1, <2>2
<1> HIDE DEF word
<1>7. QED
  BY <1>3, <1>4, <1>5, <1>6

\* The words of an image that are shown.
Seen(image, cells, moved, ps) ==
    [w \in Words |-> IF \E v : Spread(cells, moved, ps, w, v) THEN image[w] ELSE Hole]

LEMMA SeenIs ==
    ASSUME NEW image, IsImage(image), NEW cells, NEW moved, NEW ps,
           \A w, v : Spread(cells, moved, ps, w, v) => Has(image, w, v)
    PROVE  /\ IsImage(Seen(image, cells, moved, ps))
           /\ \A w, v : Spread(cells, moved, ps, w, v) <=> Has(Seen(image, cells, moved, ps), w, v)
<1> DEFINE shown(w) == \E v : Spread(cells, moved, ps, w, v)
           seen == Seen(image, cells, moved, ps)
<1>1. seen = [w \in Words |-> IF shown(w) THEN image[w] ELSE Hole]
  BY DEF Seen
<1>2. \A w, v : Spread(cells, moved, ps, w, v) => shown(w) /\ Has(image, w, v)
  OBVIOUS
<1>3. \A w : shown(w) => \E v : Spread(cells, moved, ps, w, v) /\ Has(image, w, v)
  OBVIOUS
<1> HIDE DEF shown, seen
<1>4. \A w \in Words : seen[w] = IF shown(w) THEN image[w] ELSE Hole
  BY <1>1
<1>5. IsImage(seen)
  BY <1>1 DEF IsImage
<1>6. ASSUME NEW w, NEW v, Spread(cells, moved, ps, w, v) PROVE Has(seen, w, v)
  BY <1>2, <1>4, <1>6 DEF Has
<1>7. ASSUME NEW w, NEW v, Has(seen, w, v) PROVE Spread(cells, moved, ps, w, v)
  <2>1. w \in Words /\ shown(w) /\ v = image[w]
    BY <1>4, <1>7 DEF Has
  <2>2. PICK x : Spread(cells, moved, ps, w, x) /\ Has(image, w, x)
    BY <1>3, <2>1
  <2>3. x = v
    BY <2>1, <2>2 DEF Has
  <2>4. QED
    BY <2>2, <2>3
<1>8. QED
  BY <1>5, <1>6, <1>7 DEF seen

\* The content is what is shown of the image.
ImageSame ==
    phase \notin GivenUp =>
        /\ IsImage(wanted) /\ ShownAs(wanted, s.list.cells, tmp.cells, parts)
        /\ Content = Seen(wanted, s.list.cells, tmp.cells, parts)

LEMMA ImageIsSame == SparseInv /\ ImageInv => ImageSame
<1> SUFFICES ASSUME SparseInv, ImageInv, phase \notin GivenUp
             PROVE  /\ IsImage(wanted) /\ ShownAs(wanted, s.list.cells, tmp.cells, parts)
                    /\ Content = Seen(wanted, s.list.cells, tmp.cells, parts)
  BY DEF ImageSame
<1>1. IsImage(wanted) /\ ShownAs(wanted, s.list.cells, tmp.cells, parts)
  BY DEF ImageInv
<1>2. \A w, v : Spread(s.list.cells, tmp.cells, parts, w, v) => Has(wanted, w, v)
  BY <1>1 DEF ShownAs, Tells
<1>3. QED
  BY <1>1, <1>2, SeenIs, ContentIs

\* Lists that stay show the same.
LEMMA ContentStays == UNCHANGED vars => Content' = Content
<1> SUFFICES ASSUME UNCHANGED vars PROVE Content' = Content
  OBVIOUS
<1>1. s' = s /\ tmp' = tmp /\ parts' = parts
  BY DEF vars, cutting
<1> DEFINE lists == {s.list, tmp} \cup { parts[i].list : i \in 1..Len(parts) }
           at(cells, w) == { CellWord(bb, w - bb.block * BlockSize) :
                               bb \in { c \in cells : w \in Covered(c) } }
           word(vals) == CASE vals = {} -> Hole
                           [] Cardinality(vals) = 1 -> Max(vals)
                           [] OTHER -> Hole - 1
           all(cells) == [w \in Words \cup UNION { Covered(bb) : bb \in cells } |-> word(at(cells, w))]
<1>2. lists' = lists
  BY <1>1
<1>3. /\ Cells = UNION { Range(l.cells) : l \in lists }
      /\ Cells' = UNION { Range(l.cells) : l \in lists' }
  BY DEF Cells
<1>4. Content = all(Cells) /\ Content' = all(Cells')
  BY DEF Content
<1> HIDE DEF lists, all
<1>5. QED
  BY <1>2, <1>3, <1>4

LEMMA ImageStill == ImageInv /\ UNCHANGED vars => ImageInv'
<1> SUFFICES ASSUME ImageInv, UNCHANGED vars PROVE ImageInv'
  OBVIOUS
<1>1. s' = s /\ tmp' = tmp /\ parts' = parts /\ phase' = phase /\ wanted' = wanted
      /\ added' = added /\ file' = file /\ asked' = asked
  BY DEF vars, cutting, written
<1>2. (EndsWithin(s)' <=> EndsWithin(s)) /\ (InLength' <=> InLength)
  BY <1>1 DEF EndsWithin, InLength
<1>3. QED
  BY <1>1, <1>2, Zenon DEF ImageInv, IsOutput

\* A call puts something where there was nothing, changes nothing, or gives
\* the image up.
LEMMA ImageRefines ==
    ASSUME ImageSame, ImageSame', ImageStep, phase \notin GivenUp
    PROVE  [Image!Next]_<<wanted, Content, phase \in Queueing, phase \notin GivenUp>>
<1> DEFINE on(w) == \E v : Spread(s.list.cells, tmp.cells, parts, w, v)
           then(w) == \E v : Spread(s'.list.cells, tmp'.cells, parts', w, v)
<1>1. /\ IsImage(wanted)
      /\ \A w \in Words : Content[w] = IF on(w) THEN wanted[w] ELSE Hole
  BY DEF ImageSame, Seen
<1>2. CASE phase' \in GivenUp
  <2>1. wanted' = wanted
    BY <1>2 DEF ImageStep
  <2>2. phase' \notin Queueing
    BY <1>2 DEF Queueing, GivenUp
  <2>3. Image!GiveUp
    BY <1>2, <2>1, <2>2 DEF Image!GiveUp
  <2>4. QED
    BY <2>3 DEF Image!Next
<1>3. CASE phase' \notin GivenUp /\ phase \in Queueing
  <2>1. /\ IsImage(wanted')
        /\ Content' = [w \in Words |-> IF then(w) THEN wanted'[w] ELSE Hole]
        /\ ShownAs(wanted', s'.list.cells, tmp'.cells, parts')
    BY <1>3 DEF ImageSame, Seen
  <2>2. \A w \in Words : wanted[w] # Hole => wanted'[w] = wanted[w]
    BY DEF ImageStep, Keeps
  <2>3. \A w \in Words : wanted[w] # Hole /\ then(w) => on(w)
    BY <1>3 DEF ImageStep, Stays
  <2>4. \A w \in Words : ReusesCells /\ wanted'[w] # Hole => then(w)
    BY <2>1 DEF ShownAs, Tells, Has
  <2> HIDE DEF on, then
  <2>5. \A w \in Words : Content'[w] = IF then(w) THEN wanted'[w] ELSE Hole
    BY <2>1
  <2>6. /\ wanted' \in [Words -> Nat \cup {Hole}]
        /\ Content' \in [Words -> Nat \cup {Hole}]
    BY <2>1 DEF IsImage
  <2>7. ASSUME NEW w \in Words
        PROVE  \/ Content'[w] = IF wanted[w] = Hole THEN wanted'[w] ELSE Content[w]
               \/ ~ReusesCells /\ Content'[w] = Hole
    <3>1. CASE wanted[w] = Hole
      BY <2>4, <2>5, <3>1
    <3>2. CASE wanted[w] # Hole
      BY <1>1, <2>2, <2>3, <2>4, <2>5, <3>2
    <3>3. QED
      BY <3>1, <3>2
  <2>8. Image!Put
    BY <1>3, <2>2, <2>6, <2>7 DEF Image!Put, Image!Images
  <2>9. QED
    BY <2>8 DEF Image!Next
<1>4. CASE phase' \notin GivenUp /\ phase \notin Queueing
  <2>1. phase' \notin Queueing /\ wanted' = wanted
    BY <1>4 DEF ImageStep, Stays
  <2>2. \A w : then(w) <=> on(w)
    BY <1>4 DEF ImageStep, Stays
  <2>3. /\ Content = [w \in Words |-> IF on(w) THEN wanted[w] ELSE Hole]
        /\ Content' = [w \in Words |-> IF then(w) THEN wanted'[w] ELSE Hole]
    BY <1>4 DEF ImageSame, Seen
  <2> HIDE DEF on, then
  <2>4. Content' = Content
    BY <2>1, <2>2, <2>3
  <2>5. QED
    BY <1>4, <2>1, <2>4
<1>5. QED
  BY <1>2, <1>3, <1>4

\* What is asked to be in an image is there until a tool gives the image up,
\* through merges, the file and back, an appended input and simg2simg's two
\* cuts (backed_block.c:160-401, sparse.c:152-320, sparse_read.c:88-447): the
\* cookie implements SparseImage.  Where a freed cell is not handed out again
\* at once, queue_bb() may lose what it queues (backed_block.c:266); nothing
\* else does, no word is ever another's, and what has been lost stays lost.
THEOREM ImageStays == Spec => ImageKept
<1>1. Init => Image!Init
  <2> SUFFICES ASSUME Init PROVE Image!Init
    OBVIOUS
  <2>1. ImageSame
    BY Begins, ImageBegins, ImageIsSame
  <2>2. phase \notin GivenUp /\ phase \in Queueing /\ wanted = [w \in Words |-> Hole]
    BY DEF Init, GivenUp, Queueing
  <2>3. Content = wanted
    <3> DEFINE on(w) == \E v : Spread(s.list.cells, tmp.cells, parts, w, v)
    <3>1. Content = [w \in Words |-> IF on(w) THEN wanted[w] ELSE Hole]
      BY <2>1, <2>2 DEF ImageSame, Seen
    <3>2. \A w \in Words : wanted[w] = Hole
      BY <2>2
    <3> HIDE DEF on
    <3>3. QED
      BY <2>2, <3>1, <3>2
  <2>4. QED
    BY <2>2, <2>3 DEF Image!Init
<1>2. SparseInv /\ FitInv /\ CutInv /\ ImageInv /\ [Next]_vars => ImageInv'
  <2>1. CASE Next
    BY <2>1, ImageNext DEF ImageStep
  <2>2. CASE UNCHANGED vars
    BY <2>2, ImageStill
  <2>3. QED
    BY <2>1, <2>2
<1>3. SparseInv /\ FitInv /\ CutInv /\ ImageInv /\ ImageSame /\ ImageSame' /\ [Next]_vars
        => [Image!Next]_<<wanted, Content, phase \in Queueing, phase \notin GivenUp>>
  <2> SUFFICES ASSUME SparseInv, FitInv, CutInv, ImageInv, ImageSame, ImageSame', [Next]_vars
               PROVE  [Image!Next]_<<wanted, Content, phase \in Queueing, phase \notin GivenUp>>
    OBVIOUS
  <2>1. CASE Next
    <3>1. ImageStep /\ phase \notin GivenUp
      BY <2>1, ImageNext
    <3>2. QED
      BY <3>1, ImageRefines
  <2>2. CASE UNCHANGED vars
    <3>1. wanted' = wanted /\ phase' = phase
      BY <2>2 DEF vars
    <3>2. Content' = Content
      BY <2>2, ContentStays
    <3>3. QED
      BY <3>1, <3>2
  <2>3. QED
    BY <2>1, <2>2
<1>4. Spec => []ImageInv
  BY <1>2, ImageBegins, SparseInductive, FitInductive, CutInductive, PTL DEF Spec
<1>5. Spec => []ImageSame
  BY <1>4, ImageIsSame, SparseInductive, PTL
<1>6. QED
  BY <1>1, <1>3, <1>4, <1>5, SparseInductive, FitInductive, CutInductive, PTL
     DEF Spec, ImageKept, Image!Spec

-----------------------------------------------------------------------------
(* What is written is read. *)

\* A cookie of whole blocks, and no cell behind its end.
IsWhole(c) ==
    /\ IsOrdered(c.list.cells) /\ c.len \in Nat /\ c.len % BlockSize = 0
    /\ Within(c.list.cells, c.len \div BlockSize)

\* The chunks of a whole file.
AllOf(c, sum) ==
    ChunksOf(c) \o (IF sum THEN <<CrcChunk(ChunksOf(c))>> ELSE << >>)

\* What they are.
LEMMA AllIs ==
    ASSUME NEW c, IsCells(c.list.cells), c.len \in Nat, NEW sum \in BOOLEAN
    PROVE  /\ Carries(AllOf(c, sum), ChunksOf(c)) /\ Len(ChunksOf(c)) \in Nat
           /\ Len(AllOf(c, sum)) = Wanted(c, sum)
           /\ Len(AllOf(c, sum)) = Len(ChunksOf(c)) + (IF sum THEN 1 ELSE 0)
           /\ sum => AllOf(c, sum)[Len(ChunksOf(c)) + 1] = CrcChunk(ChunksOf(c))
<1> DEFINE chunks == ChunksOf(c)
           k == CrcChunk(chunks)
           tail == IF sum THEN <<k>> ELSE << >>
           all == AllOf(c, sum)
<1>1. IsSeq(chunks) /\ Len(chunks) \in Nat
  BY ChunksAre DEF IsSeq
<1>2. Wanted(c, sum) = Len(chunks) + (IF sum THEN 1 ELSE 0)
  BY DEF Wanted
<1>3. all = chunks \o tail
  BY DEF AllOf
<1>4. k.kind = "crc"
  BY DEF CrcChunk
<1> HIDE DEF chunks, k, all
<1>5. IsSeq(tail) /\ Len(tail) = (IF sum THEN 1 ELSE 0) /\ (sum => tail[1] = k)
  <2>1. IsSeq(<<k>>) /\ Len(<<k>>) = 1 /\ <<k>>[1] = k /\ IsSeq(<< >>) /\ Len(<< >>) = 0
    BY Single, Empty
  <2>2. CASE sum
    <3>1. tail = <<k>>
      BY <2>2
    <3> HIDE DEF tail
    <3>2. QED
      BY <2>1, <2>2, <3>1
  <2>3. CASE ~sum
    <3>1. tail = << >>
      BY <2>3
    <3> HIDE DEF tail
    <3>2. QED
      BY <2>1, <2>3, <3>1
  <2>4. QED
    BY <2>2, <2>3
<1> HIDE DEF tail
<1>6. AreJoined(chunks, tail, all)
  BY <1>1, <1>3, <1>5, JoinedAs
<1>7. /\ IsSeq(all) /\ Len(all) = Len(chunks) + Len(tail)
      /\ \A i \in 1..Len(chunks) : all[i] = chunks[i]
      /\ \A i \in 1..Len(tail) : all[Len(chunks) + i] = tail[i]
  BY <1>6 DEF AreJoined
<1>8. sum => all[Len(chunks) + 1] = k
  <2>1. SUFFICES ASSUME sum PROVE all[Len(chunks) + 1] = k
    OBVIOUS
  <2>2. 1 \in 1..Len(tail) /\ tail[1] = k
    BY <1>5, <2>1
  <2>3. QED
    BY <1>7, <2>2
<1>9. ASSUME NEW i \in (Len(chunks) + 1)..Len(all) PROVE all[i].kind = "crc"
  <2>1. sum
    BY <1>1, <1>5, <1>7, <1>9
  <2>2. i = Len(chunks) + 1
    BY <1>1, <1>5, <1>7, <1>9
  <2>3. QED
    BY <1>4, <1>8, <2>1, <2>2
<1>10. Len(chunks) <= Len(all)
  BY <1>1, <1>5, <1>7
<1>11. Carries(all, chunks)
  BY <1>7, <1>9, <1>10 DEF Carries
<1>12. QED
  BY <1>1, <1>2, <1>5, <1>7, <1>8, <1>11 DEF chunks, k, all

\* A file of which nothing is lost has all of them.
LEMMA WholeFile ==
    ASSUME NEW c, IsCells(c.list.cells), c.len \in Nat, NEW sum \in BOOLEAN
    PROVE  LET f == FileOf(c, sum, Wanted(c, sum), FALSE)
           IN  /\ f.chunks = AllOf(c, sum) /\ f.torn = FALSE
               /\ f.total = c.len \div BlockSize
               /\ f.nchunks = CountChunks(c) + (IF sum THEN 1 ELSE 0)
<1> DEFINE f == FileOf(c, sum, Wanted(c, sum), FALSE)
           all == AllOf(c, sum)
           w == Wanted(c, sum)
<1>1. /\ f.chunks = SubSeq(all, 1, w + (IF FALSE THEN 1 ELSE 0)) /\ f.torn = FALSE
      /\ f.total = c.len \div BlockSize
      /\ f.nchunks = CountChunks(c) + (IF sum THEN 1 ELSE 0)
  BY DEF FileOf, AllOf
<1>2. IsSeq(all) /\ Len(all) = w /\ w \in Nat
  BY AllIs DEF Carries, IsSeq
<1> HIDE DEF all, w, f
<1>3. f.chunks = SubSeq(all, 1, w) /\ w \in 0..Len(all)
  BY <1>1, <1>2
<1>4. f.chunks = all
  <2>1. IsSeq(f.chunks) /\ Len(f.chunks) = w /\ \A i \in 1..w : f.chunks[i] = all[i]
    BY <1>2, <1>3, Begun
  <2>2. QED
    BY <1>2, <2>1, SameSeq
<1>5. QED
  BY <1>1, <1>4 DEF f, all, w

\* Nothing that stands for a cell or a gap is a checksum.
LEMMA NoSums ==
    ASSUME NEW c, IsCells(c.list.cells), c.len \in Nat
    PROVE  \A i \in 1..Len(ChunksOf(c)) : ChunksOf(c)[i].kind # "crc"
<1> DEFINE q == ChunksOf(c)
<1>1. Written(q, c)
  BY ChunksWritten
<1> HIDE DEF q
<1> SUFFICES ASSUME NEW i \in 1..Len(q) PROVE q[i].kind # "crc"
  BY DEF q
<1>2. \/ \E j \in 1..Len(c.list.cells) : i = Place(c.list.cells, j)
                                         /\ q[i] = ChunkOf(c.list.cells[j])
      \/ \E b \in Nat \ {0} : q[i] = Skip(b)
  BY <1>1, ChunkAt
<1>3. ASSUME NEW j \in 1..Len(c.list.cells), q[i] = ChunkOf(c.list.cells[j])
      PROVE  q[i].kind # "crc"
  <2>1. ChunkOf(c.list.cells[j]).kind # "crc"
    BY DEF ChunkOf
  <2>2. QED
    BY <1>3, <2>1
<1>4. ASSUME NEW b \in Nat \ {0}, q[i] = Skip(b) PROVE q[i].kind # "crc"
  BY <1>4 DEF Skip
<1>5. QED
  BY <1>2, <1>3, <1>4

\* A checksum nobody asked for is in no file.
LEMMA CrashedAsked ==
    ASSUME NEW c, IsCells(c.list.cells), c.len \in Nat, NEW sum \in BOOLEAN, NEW torn \in BOOLEAN,
           NEW n \in 0..Wanted(c, sum), torn => n < Wanted(c, sum), NEW crc,
           Outcome(FileOf(c, sum, n, torn), crc) = "crashed"
    PROVE  sum
<1> DEFINE f == FileOf(c, sum, n, torn)
           m == Len(f.chunks)
           whole == m = f.nchunks /\ CurBlock(f.chunks, m + 1) = f.total
           summed == m > 0 /\ f.chunks[m].kind = "crc"
           raw1 == f.chunks[m].kind = "raw" /\ ~crc
           ok == summed => f.chunks[m].data = ReaderCrc(f.chunks)
           all == AllOf(c, sum)
<1>1. Outcome(f, crc) =
        CASE summed /\ ~crc -> "crashed"
          [] ~(summed /\ ~crc) /\ ~whole -> "rejected"
          [] ~(summed /\ ~crc) /\ whole /\ f.torn ->
                IF raw1 THEN "truncated" ELSE "rejected"
          [] OTHER -> IF ok THEN "imported" ELSE "rejected"
  BY DEF Outcome
<1>2. summed
  <2> HIDE DEF whole, summed, raw1, ok
  <2>1. Outcome(f, crc) = "crashed"
    OBVIOUS
  <2> HIDE DEF f
  <2>2. QED
    BY <1>1, <2>1
<1>3. SUFFICES ASSUME ~sum PROVE FALSE
  OBVIOUS
<1>4. f.chunks = SubSeq(all, 1, n + (IF torn THEN 1 ELSE 0))
  BY DEF FileOf, AllOf
<1>5. /\ IsSeq(all) /\ Len(all) = Len(ChunksOf(c)) /\ Len(all) = Wanted(c, sum)
      /\ Len(all) \in Nat
      /\ \A i \in 1..Len(all) : all[i] = ChunksOf(c)[i]
  BY <1>3, AllIs DEF Carries
<1>6. n + (IF torn THEN 1 ELSE 0) \in 0..Len(all)
  <2> HIDE DEF all
  <2>1. n \in 0..Len(all) /\ (torn => n < Len(all))
    BY <1>5
  <2>2. QED
    BY <1>5, <2>1
<1> DEFINE x == n + (IF torn THEN 1 ELSE 0)
<1> HIDE DEF all, f
<1>7. m = x /\ \A i \in 1..x : f.chunks[i] = all[i]
  <2> HIDE DEF x
  <2>1. QED
    BY <1>4, <1>5, <1>6, Begun DEF x
<1>8. m \in 1..Len(all) /\ m \in 1..x
  BY <1>2, <1>5, <1>6, <1>7
<1>9. f.chunks[m].kind = ChunksOf(c)[m].kind
  BY <1>5, <1>7, <1>8
<1>10. ChunksOf(c)[m].kind # "crc"
  BY <1>5, <1>8, NoSums
<1>11. QED
  BY <1>2, <1>9, <1>10

\* The blocks of a cookie: those up to the end of the last cell, and the rest.
LEMMA PadIs ==
    ASSUME NEW c, IsWhole(c), NEW e, e = EndOf(c.list.cells, Len(c.list.cells)),
           NEW l, l = c.len \div BlockSize
    PROVE  /\ e \in Nat /\ l \in Nat /\ e <= l /\ DivUp(c.len) = l
           /\ e = l => ~IsPad(c)
           /\ e < l => IsPad(c) /\ Pad(c) \div BlockSize = l - e
<1> DEFINE cells == c.list.cells
           n == Len(cells)
<1>1. /\ IsCells(cells) /\ n \in Nat /\ c.len \in Nat /\ Within(cells, l)
      /\ l \in Nat /\ c.len = l * BlockSize /\ BlockSize \in Nat \ {0} /\ BlockSize \in Nat
  BY WholeIs, BlockSizeAssumption DEF IsWhole, IsOrdered, IsCells, IsSeq
<1>2. e \in Nat
  BY <1>1, EndOfNat
<1>3. e <= l
  <2>1. CASE n = 0
    BY <1>1, <2>1 DEF EndOf
  <2>2. CASE n # 0
    <3>1. n \in 1..Len(cells) /\ e = EndBlock(cells[n])
      BY <1>1, <2>2 DEF EndOf
    <3>2. Within(cells, l)
      BY <1>1
    <3> HIDE DEF n, cells
    <3>3. QED
      BY <3>1, <3>2 DEF Within
  <2>3. QED
    BY <2>1, <2>2
<1>4. DivUp(c.len) = l
  BY <1>1, UpWhole
<1> DEFINE d == l - e
<1>5. d \in Nat /\ e + d = l /\ d = l - e
  BY <1>1, <1>2, <1>3
<1>6. Pad(c) = c.len - e * BlockSize
  BY DEF Pad
<1> HIDE DEF d, cells, n
<1> DEFINE x == e * BlockSize
           y == d * BlockSize
           z == l * BlockSize
<1>7. x \in Nat /\ y \in Nat /\ z = x + y
  <2>1. x \in Nat /\ y \in Nat
    BY <1>1, <1>2, <1>5, Product
  <2>2. (e + d) * BlockSize = e * BlockSize + d * BlockSize
    BY <1>1, <1>2, <1>5, SumTimes
  <2>3. QED
    BY <1>5, <2>1, <2>2
<1>8. c.len = z /\ Pad(c) = c.len - x
  BY <1>1, <1>6
<1> HIDE DEF x, z
<1>9. Pad(c) = y
  BY <1>7, <1>8
<1>10. d = 0 => y = 0
  BY <1>1
<1>11. d # 0 => y > 0
  <2>1. SUFFICES ASSUME d # 0 PROVE y > 0
    OBVIOUS
  <2>2. d - 1 \in Nat /\ (d - 1) + 1 = d
    BY <1>5, <2>1
  <2>3. (d - 1) * BlockSize \in Nat /\ ((d - 1) + 1) * BlockSize = (d - 1) * BlockSize + BlockSize
    BY <1>1, <2>2, Product
  <2> DEFINE u == (d - 1) * BlockSize
  <2> HIDE DEF u
  <2>4. u \in Nat /\ y = u + BlockSize
    BY <2>2, <2>3 DEF u
  <2> HIDE DEF y
  <2>5. QED
    BY <1>1, <2>4
<1>12. y % BlockSize = 0 /\ y \div BlockSize = d
  <2>1. y % BlockSize = 0
    BY <1>1, <1>5, WholeTimes
  <2>2. 0 \in 0..(BlockSize - 1) /\ d * BlockSize + 0 = y
    BY <1>1, <1>7
  <2>3. (d * BlockSize + 0) \div BlockSize = d
    BY <1>1, <1>5, <2>2, Quotient
  <2>4. QED
    BY <2>1, <2>2, <2>3
<1> HIDE DEF y
<1>13. e = l => ~IsPad(c)
  BY <1>2, <1>5, <1>9, <1>10 DEF IsPad
<1>14. e < l => IsPad(c) /\ Pad(c) \div BlockSize = l - e
  <2>1. SUFFICES ASSUME e < l PROVE IsPad(c) /\ Pad(c) \div BlockSize = l - e
    OBVIOUS
  <2>2. e \in Nat /\ l \in Nat
    BY <1>1, <1>2
  <2>3. d = l - e
    BY <1>5
  <2>4. d # 0
    BY <2>1, <2>2, <2>3
  <2>5. QED
    BY <1>9, <1>11, <1>12, <2>3, <2>4 DEF IsPad
<1>15. QED
  BY <1>1, <1>2, <1>3, <1>4, <1>13, <1>14

\* sparse_count_chunks() counts the chunks that are written, and no others.
LEMMA WholeCount ==
    ASSUME NEW c, IsWhole(c)
    PROVE  CountChunks(c) = Len(ChunksOf(c))
<1> DEFINE cells == c.list.cells
           n == Len(cells)
           top == EndOf(cells, n)
           h == Cardinality(Holes(cells, n))
           rest == IF top < DivUp(c.len) THEN 1 ELSE 0
<1>1. n \in Nat /\ n \in 0..n /\ IsCells(cells)
  BY DEF IsWhole, IsOrdered, IsCells, IsSeq
<1>2. h \in Nat /\ Place(cells, n) = n + h
  BY <1>1, PlaceCounts
<1>3. CountChunks(c) = n + h + rest
  <2> DEFINE endOf(i) == IF i = 0 THEN 0 ELSE EndBlock(cells[i])
             G == { i \in 1..n : cells[i].block > endOf(i - 1) }
  <2>1. CountChunks(c) = n + Cardinality(G) + (IF endOf(n) < DivUp(c.len) THEN 1 ELSE 0)
    BY Zenon DEF CountChunks
  <2>2. endOf(n) = top
    BY DEF EndOf
  <2>3. G = Holes(cells, n)
    BY DEF Holes, IsGap, EndOf
  <2> HIDE DEF endOf, G, top, n
  <2>4. QED
    BY <2>1, <2>2, <2>3
<1>4. IsPad(c) <=> top < DivUp(c.len)
  <2> DEFINE l == c.len \div BlockSize
  <2> HIDE DEF l
  <2>1. /\ top \in Nat /\ l \in Nat /\ top <= l /\ DivUp(c.len) = l
        /\ top = l => ~IsPad(c)
        /\ top < l => IsPad(c)
    BY PadIs DEF l
  <2> HIDE DEF top
  <2>2. QED
    BY <2>1
<1>5. Len(ChunksOf(c)) = Place(cells, n) + (IF IsPad(c) THEN 1 ELSE 0)
  BY <1>1, ChunksWritten DEF Written
<1> HIDE DEF top, h, n, cells
<1>6. (IF IsPad(c) THEN 1 ELSE 0) = rest
  BY <1>4
<1> HIDE DEF rest
<1>7. QED
  BY <1>1, <1>2, <1>3, <1>5, <1>6

\* They have as many blocks as the cookie.
LEMMA WholeBlocks ==
    ASSUME NEW c, IsWhole(c), NEW sum \in BOOLEAN
    PROVE  CurBlock(AllOf(c, sum), Len(AllOf(c, sum)) + 1) = c.len \div BlockSize
<1> DEFINE cells == c.list.cells
           n == Len(cells)
           e == EndOf(cells, n)
           l == c.len \div BlockSize
           p == ChunksOf(c)
           q == AllOf(c, sum)
           b == BlocksOf(q)
           at == Place(cells, n)
<1>1. /\ IsOrdered(cells) /\ IsCells(cells) /\ n \in Nat /\ c.len \in Nat
  BY DEF IsWhole, IsOrdered, IsCells, IsSeq
<1>2. /\ e \in Nat /\ l \in Nat /\ e <= l
      /\ e = l => ~IsPad(c)
      /\ e < l => IsPad(c) /\ Pad(c) \div BlockSize = l - e
  BY PadIs
<1>3. /\ Carries(q, p) /\ Len(p) \in Nat /\ IsSeq(q) /\ Len(q) \in Nat
      /\ Len(q) = Len(p) + (IF sum THEN 1 ELSE 0)
      /\ sum => q[Len(p) + 1] = CrcChunk(p)
      /\ \A i \in 1..Len(p) : q[i] = p[i]
  BY <1>1, AllIs DEF Carries, IsSeq
<1>4. \A i \in 1..Len(q) : q[i].blocks \in Nat
  <2> DEFINE f == FileOf(c, sum, Wanted(c, sum), FALSE)
  <2>1. f.chunks = q
    BY <1>1, WholeFile
  <2>2. c.len = l * BlockSize
    BY WholeIs, BlockSizeAssumption DEF IsWhole
  <2> DEFINE w == Wanted(c, sum)
  <2>3. w \in 0..w /\ c.len <= l * BlockSize
    BY <1>1, <1>3, <2>2, AllIs
  <2> HIDE DEF w, l
  <2>4. IsFile(FileOf(c, sum, w, FALSE))
    BY <1>1, <1>2, <2>3, FileOfSound DEF w
  <2>5. IsFile(f)
    BY <2>4 DEF w
  <2> HIDE DEF f, q
  <2>6. QED
    BY <2>1, <2>5 DEF IsFile, IsChunk
<1>5. /\ AreNats(b, Len(q)) /\ \A i \in 1..Len(q) : b[i] \in Nat /\ b[i] = q[i].blocks
  BY <1>4 DEF AreNats, BlocksOf
<1>6. at \in 0..Len(q) /\ Upto(b, at) = e
  <2>1. n \in 0..n
    BY <1>1
  <2>2. QED
    BY <1>1, <1>3, <1>5, <2>1, PlaceBlocks
<1>7. /\ Len(p) = at + (IF IsPad(c) THEN 1 ELSE 0)
      /\ IsPad(c) => p[Len(p)] = Skip(Pad(c) \div BlockSize)
  BY <1>1, ChunksWritten DEF Written
<1>8. CurBlock(q, Len(q) + 1) = Upto(b, Len(q))
  <2>1. Len(q) \in 0..Len(q)
    BY <1>3
  <2>2. QED
    BY <1>3, <1>4, <2>1, CurBlockUpto
<1>9. \A m \in 1..Len(q) : Upto(b, m) = Upto(b, m - 1) + b[m]
  BY <1>3, <1>5, UptoSteps
<1>10. sum => b[Len(p) + 1] = 0
  <2>1. CrcChunk(p).blocks = 0
    BY DEF CrcChunk
  <2> HIDE DEF b, p, q
  <2>2. QED
    BY <1>3, <1>5, <2>1
<1> HIDE DEF b, p, q, at, e, l, n, cells
<1>11. Upto(b, Len(p)) = l
  <2>1. CASE e = l
    BY <1>2, <1>3, <1>6, <1>7, <2>1
  <2>2. CASE e < l
    <3>1. IsPad(c) /\ Len(p) = at + 1 /\ Len(p) \in 1..Len(q) /\ Len(p) \in 1..Len(p) /\ Len(p) - 1 = at
      BY <1>2, <1>3, <1>6, <1>7, <2>2
    <3>2. q[Len(p)].blocks = l - e
      <4>1. q[Len(p)] = Skip(l - e)
        BY <1>2, <1>3, <1>7, <2>2, <3>1
      <4>2. Skip(l - e).blocks = l - e
        BY DEF Skip
      <4>3. QED
        BY <4>1, <4>2
    <3>3. Upto(b, Len(p)) = Upto(b, at) + (l - e)
      BY <1>5, <1>9, <3>1, <3>2
    <3>4. QED
      BY <1>2, <1>6, <3>3
  <2>3. QED
    BY <1>2, <2>1, <2>2
<1>12. Upto(b, Len(q)) = l
  <2>1. CASE sum
    <3>1. Len(q) = Len(p) + 1 /\ Len(q) \in 1..Len(q) /\ Len(q) - 1 = Len(p)
      BY <1>3, <2>1
    <3>2. Upto(b, Len(q)) = Upto(b, Len(p)) + 0
      BY <1>9, <1>10, <2>1, <3>1
    <3>3. QED
      BY <1>2, <1>11, <3>2
  <2>2. CASE ~sum
    BY <1>3, <1>11, <2>2
  <2>3. QED
    BY <2>1, <2>2
<1>13. QED
  BY <1>8, <1>12 DEF q, l

\* A whole file is read as it was meant to be, if its checksum is: unless one
\* was not to be checked.
LEMMA WholeOutcome ==
    ASSUME NEW c, IsWhole(c), NEW sum \in BOOLEAN, NEW crc
    PROVE  LET f == FileOf(c, sum, Wanted(c, sum), FALSE)
           IN  /\ ~sum => Outcome(f, crc) = "imported"
               /\ sum /\ ~crc => Outcome(f, crc) = "crashed"
               /\ sum /\ crc /\ WriterCrc(ChunksOf(c)) = ReaderCrc(AllOf(c, sum)) =>
                     Outcome(f, crc) = "imported"
<1> DEFINE f == FileOf(c, sum, Wanted(c, sum), FALSE)
           m == Len(f.chunks)
           whole == m = f.nchunks /\ CurBlock(f.chunks, m + 1) = f.total
           summed == m > 0 /\ f.chunks[m].kind = "crc"
           raw1 == f.chunks[m].kind = "raw" /\ ~crc
           ok == summed => f.chunks[m].data = ReaderCrc(f.chunks)
           p == ChunksOf(c)
           q == AllOf(c, sum)
<1>1. Outcome(f, crc) =
        CASE summed /\ ~crc -> "crashed"
          [] ~(summed /\ ~crc) /\ ~whole -> "rejected"
          [] ~(summed /\ ~crc) /\ whole /\ f.torn ->
                IF raw1 THEN "truncated" ELSE "rejected"
          [] OTHER -> IF ok THEN "imported" ELSE "rejected"
  BY DEF Outcome
<1>2. IsCells(c.list.cells) /\ c.len \in Nat
  BY DEF IsWhole, IsOrdered
<1>3. /\ f.chunks = q /\ f.torn = FALSE /\ f.total = c.len \div BlockSize
      /\ f.nchunks = CountChunks(c) + (IF sum THEN 1 ELSE 0)
  BY <1>2, WholeFile
<1>4. /\ Carries(q, p) /\ Len(p) \in Nat
      /\ Len(q) = Len(p) + (IF sum THEN 1 ELSE 0) /\ \A i \in 1..Len(p) : q[i] = p[i]
      /\ sum => q[Len(p) + 1] = CrcChunk(p)
  BY <1>2, AllIs DEF Carries
<1>5. m = Len(q) /\ m = f.nchunks
  BY <1>3, <1>4, WholeCount
<1>6. CurBlock(f.chunks, m + 1) = f.total
  <2>1. CurBlock(q, Len(q) + 1) = c.len \div BlockSize
    BY WholeBlocks
  <2> HIDE DEF q, f
  <2>2. QED
    BY <1>3, <1>5, <2>1
<1>7. summed <=> sum
  <2>1. CASE sum
    <3>1. CrcChunk(p).kind = "crc"
      BY DEF CrcChunk
    <3> HIDE DEF q, f, p
    <3>2. m = Len(p) + 1 /\ f.chunks[m] = CrcChunk(p)
      BY <1>3, <1>4, <1>5, <2>1
    <3>3. QED
      BY <1>4, <2>1, <3>1, <3>2
  <2>2. CASE ~sum
    <3>1. \A i \in 1..Len(p) : p[i].kind # "crc"
      BY <1>2, NoSums
    <3> HIDE DEF q, f, p
    <3>2. m = Len(p)
      BY <1>4, <1>5, <2>2
    <3>3. m > 0 => m \in 1..Len(p) /\ f.chunks[m] = p[m]
      BY <1>3, <1>4, <3>2
    <3>4. QED
      BY <2>2, <3>1, <3>3
  <2>3. QED
    BY <2>1, <2>2
<1>8. sum => f.chunks[m].data = WriterCrc(p)
  <2>1. CrcChunk(p).data = WriterCrc(p)
    BY DEF CrcChunk
  <2> HIDE DEF q, f, p
  <2>2. QED
    BY <1>3, <1>4, <1>5, <2>1
<1>9. ok <=> (sum => WriterCrc(p) = ReaderCrc(q))
  <2> HIDE DEF q, f, p, m, summed
  <2>1. QED
    BY <1>3, <1>7, <1>8
<1>10. whole /\ ~f.torn
  BY <1>3, <1>5, <1>6
<1> HIDE DEF whole, summed, raw1, ok, f
<1>11. /\ ~sum => Outcome(f, crc) = "imported"
       /\ sum /\ ~crc => Outcome(f, crc) = "crashed"
       /\ sum /\ crc /\ WriterCrc(p) = ReaderCrc(q) => Outcome(f, crc) = "imported"
  <2>1. CASE sum /\ ~crc
    <3>1. Outcome(f, crc) = "crashed"
      BY <1>1, <1>7, <2>1
    <3>2. QED
      BY <2>1, <3>1
  <2>2. CASE ~(sum /\ ~crc)
    <3>1. Outcome(f, crc) = IF ok THEN "imported" ELSE "rejected"
      BY <1>1, <1>7, <1>10, <2>2
    <3>2. QED
      BY <1>9, <2>2, <3>1
  <2>3. QED
    BY <2>1, <2>2
<1>12. QED
  BY <1>11 DEF f

-----------------------------------------------------------------------------
(* Checksums. *)

\* A function that puts sequences behind one another as a fold does.
Joining(g, n, w) ==
    g = [x \in SUBSET (1..n) |-> IF x = {} THEN << >> ELSE g[x \ {Max(x)}] \o w[Max(x)]]

\* There is one.
LEMMA JoiningExists ==
    ASSUME NEW n \in Nat, NEW w, \A i \in 1..n : IsSeq(w[i])
    PROVE  \E g : Joining(g, n, w)
<1> DEFINE D == UNION { { w[i][j] : j \in 1..Len(w[i]) } : i \in 1..n }
           A == Seq(D)
           step == [p \in (1..n) \X A |-> p[2] \o w[p[1]]]
<1>1. \A i \in 1..n : w[i] \in A
  <2> TAKE i \in 1..n
  <2>1. \A j \in 1..Len(w[i]) : w[i][j] \in D
    OBVIOUS
  <2> HIDE DEF D
  <2>2. QED
    BY <2>1, IsIn
<1>2. << >> \in A
  <2> HIDE DEF D
  <2>1. QED
    OBVIOUS
<1>3. \A i \in 1..n, a \in A : a \o w[i] \in A
  <2> HIDE DEF D
  <2>1. QED
    BY <1>1
<1> HIDE DEF A, D
<1>4. step \in [(1..n) \X A -> A] /\ \A i \in 1..n, a \in A : step[<<i, a>>] = a \o w[i]
  BY <1>3
<1> HIDE DEF step
<1>5. PICK g \in [SUBSET (1..n) -> A] : Folding(g, n, << >>, step)
  BY <1>2, <1>4, RecursionIn
<1>6. g = [x \in SUBSET (1..n) |->
              IF x = {} THEN << >> ELSE step[<<Max(x), g[x \ {Max(x)}]>>]]
  BY <1>5 DEF Folding
<1>7. \A x \in SUBSET (1..n) :
          g[x] = IF x = {} THEN << >> ELSE g[x \ {Max(x)}] \o w[Max(x)]
  <2> TAKE x \in SUBSET (1..n)
  <2>1. CASE x = {}
    BY <1>6, <2>1
  <2>2. CASE x # {}
    <3>1. Max(x) \in 1..n /\ x \ {Max(x)} \in SUBSET (1..n)
      BY <2>2, Beginnings
    <3>2. g[x \ {Max(x)}] \in A
      BY <3>1
    <3>3. g[x] = step[<<Max(x), g[x \ {Max(x)}]>>]
      BY <1>6, <2>2
    <3>4. QED
      BY <1>4, <2>2, <3>1, <3>2, <3>3
  <2>3. QED
    BY <2>1, <2>2
<1>8. g = [x \in SUBSET (1..n) |-> g[x]]
  OBVIOUS
<1>9. g = [x \in SUBSET (1..n) |-> IF x = {} THEN << >> ELSE g[x \ {Max(x)}] \o w[Max(x)]]
  BY <1>7, <1>8, Zenon
<1>10. QED
  BY <1>9 DEF Joining

\* Step by step.
JoinsUpTo(g, n, w) ==
    /\ g[1..0] = << >>
    /\ \A k \in 1..n : g[1..k] = g[1..(k - 1)] \o w[k]

\* The fold, element by element.
LEMMA JoiningSteps ==
    ASSUME NEW n \in Nat, NEW w, NEW g, Joining(g, n, w)
    PROVE  JoinsUpTo(g, n, w)
<1>1. g = [x \in SUBSET (1..n) |-> IF x = {} THEN << >> ELSE g[x \ {Max(x)}] \o w[Max(x)]]
  BY DEF Joining
<1>2. g[1..0] = << >>
  <2>1. 1..0 = {} /\ {} \in SUBSET (1..n)
    OBVIOUS
  <2>2. QED
    BY <1>1, <2>1
<1>3. ASSUME NEW k \in 1..n PROVE g[1..k] = g[1..(k - 1)] \o w[k]
  <2>1. /\ 1..k \in SUBSET (1..n) /\ 1..k # {} /\ Max(1..k) = k
        /\ (1..k) \ {Max(1..k)} = 1..(k - 1)
    BY AtBeginnings
  <2> DEFINE x == 1..k
  <2>2. g[x] = IF x = {} THEN << >> ELSE g[x \ {Max(x)}] \o w[Max(x)]
    BY <1>1, <2>1
  <2>3. QED
    BY <2>1, <2>2
<1>4. QED
  BY <1>2, <1>3 DEF JoinsUpTo

\* What is joined depends on what there is to join alone.
LEMMA JoinedSame ==
    ASSUME NEW n \in Nat, NEW w, NEW g, JoinsUpTo(g, n, w),
           NEW m \in Nat, n <= m, NEW v, NEW h, JoinsUpTo(h, m, v),
           \A i \in 1..n : v[i] = w[i]
    PROVE  g[1..n] = h[1..n]
<1> DEFINE T == { k \in Nat : k <= n => g[1..k] = h[1..k] }
<1>1. /\ g[1..0] = << >> /\ h[1..0] = << >>
      /\ \A k \in 1..n : g[1..k] = g[1..(k - 1)] \o w[k]
      /\ \A k \in 1..m : h[1..k] = h[1..(k - 1)] \o v[k]
  BY DEF JoinsUpTo
<1>2. 0 \in T
  BY <1>1
<1>3. ASSUME NEW k \in Nat, k \in T PROVE k + 1 \in T
  <2>1. SUFFICES ASSUME k + 1 <= n PROVE g[1..(k + 1)] = h[1..(k + 1)]
    OBVIOUS
  <2>2. k + 1 \in 1..n /\ k + 1 \in 1..m /\ (k + 1) - 1 = k /\ g[1..k] = h[1..k]
    BY <1>3, <2>1
  <2>3. g[1..(k + 1)] = g[1..k] \o w[k + 1] /\ h[1..(k + 1)] = h[1..k] \o v[k + 1]
    BY <1>1, <2>2
  <2>4. QED
    BY <2>2, <2>3
<1>4. n \in T
  <2> HIDE DEF T
  <2>1. Nat \subseteq T
    BY <1>2, <1>3, FromZero
  <2>2. QED
    BY <2>1
<1>5. QED
  BY <1>4

\* What is joined of sequences is one.
LEMMA JoinedIsSeq ==
    ASSUME NEW n \in Nat, NEW w, \A i \in 1..n : IsSeq(w[i]), NEW g, JoinsUpTo(g, n, w)
    PROVE  IsSeq(g[1..n])
<1> DEFINE T == { k \in Nat : k <= n => IsSeq(g[1..k]) }
<1>1. /\ g[1..0] = << >>
      /\ \A k \in 1..n : g[1..k] = g[1..(k - 1)] \o w[k]
  BY DEF JoinsUpTo
<1>2. 0 \in T
  <2>1. IsSeq(g[1..0])
    BY <1>1, Empty
  <2>2. QED
    BY <2>1
<1>3. ASSUME NEW k \in Nat, k \in T PROVE k + 1 \in T
  <2>1. SUFFICES ASSUME k + 1 <= n PROVE IsSeq(g[1..(k + 1)])
    OBVIOUS
  <2>2. k + 1 \in 1..n /\ (k + 1) - 1 = k /\ IsSeq(g[1..k])
    BY <1>3, <2>1
  <2>3. g[1..(k + 1)] = g[1..k] \o w[k + 1] /\ IsSeq(w[k + 1])
    BY <1>1, <2>2
  <2> DEFINE a == g[1..k]
             e == w[k + 1]
  <2> HIDE DEF a, e
  <2>4. IsSeq(a \o e)
    BY <2>2, <2>3, Joined DEF a, e
  <2>5. QED
    BY <2>3, <2>4 DEF a, e
<1>4. n \in T
  <2> HIDE DEF T
  <2>1. Nat \subseteq T
    BY <1>2, <1>3, FromZero
  <2>2. QED
    BY <2>1
<1>5. QED
  BY <1>4

\* What each side counts of a chunk.
WriterWords(k) ==
    CASE k.kind = "raw"  -> k.data
      [] k.kind = "fill" -> [i \in 1..BlockSize |-> k.val]
      [] OTHER           -> << >>
ReaderWords(k) ==
    CASE k.kind = "raw" -> k.data
      [] k.kind = "crc" -> << >>
      [] OTHER -> [i \in 1..(k.blocks * BlockSize) |-> k.val]

\* The two folds.
LEMMA WriterIs ==
    ASSUME NEW q, IsSeq(q), \A i \in 1..Len(q) : IsSeq(WriterWords(q[i]))
    PROVE  \E g : /\ Joining(g, Len(q), [i \in 1..Len(q) |-> WriterWords(q[i])])
                  /\ WriterCrc(q) = g[1..Len(q)]
<1> DEFINE n == Len(q)
           w == [i \in 1..n |-> WriterWords(q[i])]
           v(k) == CASE k.kind = "raw"  -> k.data
                     [] k.kind = "fill" -> [i \in 1..BlockSize |-> k.val]
                     [] OTHER           -> << >>
           E(g) == g = [x \in SUBSET DOMAIN q |->
                          IF x = {} THEN << >> ELSE g[x \ {Max(x)}] \o v(q[Max(x)])]
           h == CHOOSE g : E(g)
<1>1. n \in Nat /\ DOMAIN q = 1..n
  BY DEF IsSeq
<1>2. WriterCrc(q) = h[DOMAIN q]
  BY Zenon DEF WriterCrc, FoldLeft, MapThenFoldSet
<1>3. \A i \in 1..n : v(q[i]) = WriterWords(q[i])
  BY DEF WriterWords
<1> HIDE DEF v, n
<1>4. \A i \in 1..n : w[i] = v(q[i]) /\ IsSeq(w[i])
  BY <1>3 DEF n
<1> HIDE DEF w
<1>5. PICK g : Joining(g, n, w)
  BY <1>1, <1>4, JoiningExists
<1>6. g = [x \in SUBSET (1..n) |-> IF x = {} THEN << >> ELSE g[x \ {Max(x)}] \o w[Max(x)]]
  BY <1>5 DEF Joining
<1>7. \A f, x : x \in SUBSET (1..n) =>
          (IF x = {} THEN << >> ELSE f[x \ {Max(x)}] \o w[Max(x)])
            = (IF x = {} THEN << >> ELSE f[x \ {Max(x)}] \o v(q[Max(x)]))
  <2>1. \A x \in SUBSET (1..n) : x # {} => Max(x) \in 1..n
    BY <1>1, Beginnings
  <2>2. QED
    BY <1>4, <2>1
<1>8. \A x \in SUBSET (1..n) :
          (IF x = {} THEN << >> ELSE g[x \ {Max(x)}] \o w[Max(x)])
            = (IF x = {} THEN << >> ELSE g[x \ {Max(x)}] \o v(q[Max(x)]))
  BY <1>7
<1>9. E(g)
  BY <1>1, <1>6, <1>8, Zenon
<1>10. E(h)
  BY <1>9, Zenon
<1> HIDE DEF h
<1>11. \A x \in SUBSET (1..n) :
          (IF x = {} THEN << >> ELSE h[x \ {Max(x)}] \o w[Max(x)])
            = (IF x = {} THEN << >> ELSE h[x \ {Max(x)}] \o v(q[Max(x)]))
  BY <1>7
<1>12. h = [x \in SUBSET (1..n) |-> IF x = {} THEN << >> ELSE h[x \ {Max(x)}] \o w[Max(x)]]
  BY <1>1, <1>10, <1>11, Zenon
<1>13. Joining(h, n, w)
  BY <1>12 DEF Joining
<1>14. WriterCrc(q) = h[1..n]
  BY <1>1, <1>2
<1>15. QED
  BY <1>13, <1>14 DEF n, w

\* The reader's.
LEMMA ReaderIs ==
    ASSUME NEW q, IsSeq(q), \A i \in 1..Len(q) : IsSeq(ReaderWords(q[i]))
    PROVE  \E g : /\ Joining(g, Len(q), [i \in 1..Len(q) |-> ReaderWords(q[i])])
                  /\ ReaderCrc(q) = g[1..Len(q)]
<1> DEFINE n == Len(q)
           w == [i \in 1..n |-> ReaderWords(q[i])]
           v(k) == CASE k.kind = "raw" -> k.data
                     [] k.kind = "crc" -> << >>
                     [] OTHER -> [i \in 1..(k.blocks * BlockSize) |-> k.val]
           E(g) == g = [x \in SUBSET DOMAIN q |->
                          IF x = {} THEN << >> ELSE g[x \ {Max(x)}] \o v(q[Max(x)])]
           h == CHOOSE g : E(g)
<1>1. n \in Nat /\ DOMAIN q = 1..n
  BY DEF IsSeq
<1>2. ReaderCrc(q) = h[DOMAIN q]
  BY Zenon DEF ReaderCrc, FoldLeft, MapThenFoldSet
<1>3. \A i \in 1..n : v(q[i]) = ReaderWords(q[i])
  BY DEF ReaderWords
<1> HIDE DEF v, n
<1>4. \A i \in 1..n : w[i] = v(q[i]) /\ IsSeq(w[i])
  BY <1>3 DEF n
<1> HIDE DEF w
<1>5. PICK g : Joining(g, n, w)
  BY <1>1, <1>4, JoiningExists
<1>6. g = [x \in SUBSET (1..n) |-> IF x = {} THEN << >> ELSE g[x \ {Max(x)}] \o w[Max(x)]]
  BY <1>5 DEF Joining
<1>7. \A f, x : x \in SUBSET (1..n) =>
          (IF x = {} THEN << >> ELSE f[x \ {Max(x)}] \o w[Max(x)])
            = (IF x = {} THEN << >> ELSE f[x \ {Max(x)}] \o v(q[Max(x)]))
  <2>1. \A x \in SUBSET (1..n) : x # {} => Max(x) \in 1..n
    BY <1>1, Beginnings
  <2>2. QED
    BY <1>4, <2>1
<1>8. \A x \in SUBSET (1..n) :
          (IF x = {} THEN << >> ELSE g[x \ {Max(x)}] \o w[Max(x)])
            = (IF x = {} THEN << >> ELSE g[x \ {Max(x)}] \o v(q[Max(x)]))
  BY <1>7
<1>9. E(g)
  BY <1>1, <1>6, <1>8, Zenon
<1>10. E(h)
  BY <1>9, Zenon
<1> HIDE DEF h
<1>11. \A x \in SUBSET (1..n) :
          (IF x = {} THEN << >> ELSE h[x \ {Max(x)}] \o w[Max(x)])
            = (IF x = {} THEN << >> ELSE h[x \ {Max(x)}] \o v(q[Max(x)]))
  BY <1>7
<1>12. h = [x \in SUBSET (1..n) |-> IF x = {} THEN << >> ELSE h[x \ {Max(x)}] \o w[Max(x)]]
  BY <1>1, <1>10, <1>11, Zenon
<1>13. Joining(h, n, w)
  BY <1>12 DEF Joining
<1>14. ReaderCrc(q) = h[1..n]
  BY <1>1, <1>2
<1>15. QED
  BY <1>13, <1>14 DEF n, w

\* The words of a chunk that is no gap, and how both count a fill of one block.
LEMMA WordsOfChunk ==
    ASSUME NEW bb, IsCell(bb)
    PROVE  LET k == ChunkOf(bb)
           IN  /\ IsSeq(WriterWords(k)) /\ k.kind \in {"raw", "fill"}
               /\ k.kind = "fill" /\ k.blocks = 1 => ReaderWords(k) = WriterWords(k)
               /\ k.kind = "raw" => ReaderWords(k) = WriterWords(k)
<1> DEFINE k == ChunkOf(bb)
           n == AlignUp(bb.len)
<1>1. BlockSize \in Nat /\ n \in Nat /\ 1 * BlockSize = BlockSize
  BY UpNat, Product, BlockSizeAssumption DEF IsCell, AlignUp
<1>2. /\ k.kind = (IF bb.type = "fill" THEN "fill" ELSE "raw")
      /\ bb.type # "fill" => k.data = [i \in 1..n |-> CellWord(bb, i - 1)]
  BY DEF ChunkOf
<1> HIDE DEF k, n
<1>3. CASE bb.type = "fill"
  <2>1. k.kind = "fill"
    BY <1>2, <1>3
  <2>2. WriterWords(k) = [i \in 1..BlockSize |-> k.val]
    BY <2>1, Zenon DEF WriterWords
  <2>3. ReaderWords(k) = [i \in 1..(k.blocks * BlockSize) |-> k.val]
    BY <2>1 DEF ReaderWords
  <2>4. IsSeq(WriterWords(k))
    <3> DEFINE x == WriterWords(k)
    <3>1. x = [i \in 1..BlockSize |-> x[i]]
      BY <2>2
    <3> HIDE DEF x
    <3>2. IsSeq(x)
      BY <1>1, <3>1, Made
    <3>3. QED
      BY <3>2 DEF x
  <2>5. k.blocks = 1 => ReaderWords(k) = WriterWords(k)
    BY <1>1, <2>2, <2>3
  <2>6. QED
    BY <2>1, <2>4, <2>5 DEF k
<1>4. CASE bb.type # "fill"
  <2>1. k.kind = "raw" /\ k.data = [i \in 1..n |-> CellWord(bb, i - 1)]
    BY <1>2, <1>4
  <2>2. WriterWords(k) = k.data /\ ReaderWords(k) = k.data
    BY <2>1 DEF WriterWords, ReaderWords
  <2>3. IsSeq(k.data)
    <3> DEFINE x == k.data
    <3>1. x = [i \in 1..n |-> x[i]]
      BY <2>1
    <3> HIDE DEF x
    <3>2. IsSeq(x)
      BY <1>1, <3>1, Made
    <3>3. QED
      BY <3>2 DEF x
  <2>4. QED
    BY <2>1, <2>2, <2>3 DEF k
<1>5. QED
  BY <1>3, <1>4

\* Without gaps, and without fills of more than one block, both count alike.
NoGapsOrFills(q) ==
    \A i \in 1..Len(q) : q[i].kind # "skip" /\ ~(q[i].kind = "fill" /\ q[i].blocks > 1)

\* Then the reader finds the checksum that was written.
LEMMA SumsAlike ==
    ASSUME NEW c, IsCells(c.list.cells), c.len \in Nat, NoGapsOrFills(ChunksOf(c))
    PROVE  WriterCrc(ChunksOf(c)) = ReaderCrc(AllOf(c, TRUE))
<1> DEFINE p == ChunksOf(c)
           q == AllOf(c, TRUE)
           n == Len(p)
<1>1. Written(p, c) /\ IsSeq(p) /\ \A i \in 1..n : IsChunk(p[i])
  BY ChunksWritten, ChunksAre
<1>2. /\ IsSeq(q) /\ Len(q) = n + 1 /\ n \in Nat /\ q[n + 1] = CrcChunk(p)
      /\ \A i \in 1..n : q[i] = p[i]
  BY AllIs DEF Carries
<1>3. NoGapsOrFills(p)
  OBVIOUS
<1> HIDE DEF p, q
<1>4. ASSUME NEW i \in 1..n
      PROVE  IsSeq(WriterWords(p[i])) /\ ReaderWords(p[i]) = WriterWords(p[i])
  <2>1. \/ \E j \in 1..Len(c.list.cells) : i = Place(c.list.cells, j)
                                           /\ p[i] = ChunkOf(c.list.cells[j])
        \/ \E b \in Nat \ {0} : p[i] = Skip(b)
    BY <1>1, ChunkAt
  <2>2. p[i].kind # "skip" /\ ~(p[i].kind = "fill" /\ p[i].blocks > 1)
    BY <1>3 DEF NoGapsOrFills
  <2>3. \A b : Skip(b).kind = "skip"
    BY DEF Skip
  <2>4. PICK j \in 1..Len(c.list.cells) : p[i] = ChunkOf(c.list.cells[j])
    BY <2>1, <2>2, <2>3
  <2>5. IsCell(c.list.cells[j])
    BY DEF IsCells
  <2>6. p[i].kind = "fill" => p[i].blocks = 1
    BY <1>1, <2>2 DEF IsChunk
  <2> DEFINE bb == c.list.cells[j]
             k == ChunkOf(bb)
  <2>7. k = p[i] /\ IsCell(bb)
    BY <2>4, <2>5
  <2> HIDE DEF bb, k
  <2>8. /\ IsSeq(WriterWords(k)) /\ k.kind \in {"raw", "fill"}
        /\ k.kind = "fill" /\ k.blocks = 1 => ReaderWords(k) = WriterWords(k)
        /\ k.kind = "raw" => ReaderWords(k) = WriterWords(k)
    BY <2>7, WordsOfChunk DEF k
  <2>9. QED
    BY <2>6, <2>7, <2>8
<1>5. ReaderWords(q[n + 1]) = << >>
  <2>1. CrcChunk(p).kind = "crc"
    BY DEF CrcChunk
  <2>2. QED
    BY <1>2, <2>1 DEF ReaderWords
<1>6. ASSUME NEW i \in 1..(n + 1) PROVE IsSeq(ReaderWords(q[i]))
  <2>1. CASE i = n + 1
    BY <1>5, <2>1, Empty
  <2>2. CASE i # n + 1
    <3>1. i \in 1..n
      BY <1>2, <2>2
    <3>2. QED
      BY <1>2, <1>4, <3>1
  <2>3. QED
    BY <2>1, <2>2
<1> DEFINE w == [i \in 1..n |-> WriterWords(p[i])]
           v == [i \in 1..(n + 1) |-> ReaderWords(q[i])]
<1>7. PICK g : Joining(g, n, w) /\ WriterCrc(p) = g[1..n]
  BY <1>1, <1>4, WriterIs
<1>8. PICK h : Joining(h, n + 1, v) /\ ReaderCrc(q) = h[1..(n + 1)]
  <2>1. \A i \in 1..Len(q) : IsSeq(ReaderWords(q[i]))
    BY <1>2, <1>6
  <2>2. \E h : /\ Joining(h, Len(q), [i \in 1..Len(q) |-> ReaderWords(q[i])])
               /\ ReaderCrc(q) = h[1..Len(q)]
    BY <1>2, <2>1, ReaderIs
  <2>3. QED
    BY <1>2, <2>2
<1>9. \A i \in 1..n : v[i] = w[i] /\ IsSeq(w[i])
  BY <1>2, <1>4
<1>10. v[n + 1] = << >>
  BY <1>2, <1>5
<1> HIDE DEF v, w
<1>101. JoinsUpTo(g, n, w)
  BY <1>2, <1>7, JoiningSteps
<1>102. JoinsUpTo(h, n + 1, v)
  <2> DEFINE m == n + 1
  <2>1. m \in Nat /\ Joining(h, m, v)
    BY <1>2, <1>8
  <2> HIDE DEF m
  <2>2. JoinsUpTo(h, m, v)
    BY <2>1, JoiningSteps
  <2>3. QED
    BY <2>2 DEF m
<1>11. g[1..n] = h[1..n]
  <2>1. n + 1 \in Nat /\ n <= n + 1
    BY <1>2
  <2>2. QED
    BY <1>2, <1>101, <1>102, <1>9, <2>1, JoinedSame
<1>12. h[1..(n + 1)] = h[1..n] \o << >>
  <2>1. n + 1 \in Nat /\ n + 1 \in 1..(n + 1) /\ (n + 1) - 1 = n
    BY <1>2
  <2>2. \A k \in 1..(n + 1) : h[1..k] = h[1..(k - 1)] \o v[k]
    BY <1>102 DEF JoinsUpTo
  <2>3. QED
    BY <1>10, <2>1, <2>2
<1>13. IsSeq(h[1..n])
  <2>1. IsSeq(g[1..n])
    BY <1>2, <1>101, <1>9, JoinedIsSeq
  <2>2. QED
    BY <1>11, <2>1
<1> DEFINE a == h[1..n]
<1> HIDE DEF a
<1>14. a \o << >> = a
  <2>1. IsSeq(a)
    BY <1>13 DEF a
  <2>2. IsSeq(<< >>) /\ Len(<< >>) = 0
    BY Empty
  <2> DEFINE r == a \o << >>
  <2>3. AreJoined(a, << >>, r)
    BY <2>1, <2>2, JoinedAs
  <2> HIDE DEF r
  <2>4. IsSeq(r) /\ Len(r) = Len(a) /\ \A i \in 1..Len(a) : r[i] = a[i]
    BY <2>1, <2>2, <2>3 DEF AreJoined, IsSeq
  <2>5. r = a
    BY <2>1, <2>4, SameSeq
  <2>6. QED
    BY <2>5 DEF r
<1>15. WriterCrc(p) = ReaderCrc(q)
  BY <1>7, <1>8, <1>11, <1>12, <1>14 DEF a
<1>16. QED
  BY <1>15 DEF p, q

-----------------------------------------------------------------------------
(* Raw files. *)

\* Behind the words of a cell, in its last block, there are zeros.
LEMMA PaddedWithZeros ==
    ASSUME NEW bb, IsCell(bb), NEW w \in Int, NEW v, Puts(bb, w, v)
    PROVE  /\ w >= bb.block * BlockSize
           /\ w < bb.block * BlockSize + bb.len \/ v = 0
<1> DEFINE a == bb.block * BlockSize
           e == EndBlock(bb) * BlockSize
           u == DivUp(bb.len) * BlockSize
<1>1. /\ a \in Nat /\ e \in Nat /\ u \in Nat /\ e = a + u /\ Covered(bb) = a..(e - 1)
      /\ bb.len \in Nat /\ bb.block \in Nat
  BY CoveredIs DEF IsCell
<1>2. w \in Covered(bb) /\ v = CellWord(bb, w - a)
  BY DEF Puts, WordAt
<1>3. w >= a /\ w < a + u
  <2> HIDE DEF a, e, u
  <2>1. QED
    BY <1>1, <1>2
<1>4. bb.type = "fill" => u = bb.len
  <2>1. SUFFICES ASSUME bb.type = "fill" PROVE u = bb.len
    OBVIOUS
  <2> DEFINE q == bb.len \div BlockSize
  <2>2. q \in Nat /\ bb.len = q * BlockSize
    BY <1>1, <2>1, WholeIs, BlockSizeAssumption DEF IsCell
  <2> HIDE DEF q
  <2>3. DivUp(bb.len) = q
    BY <2>2, UpWhole
  <2>4. QED
    BY <2>2, <2>3
<1> HIDE DEF a, e, u
<1>5. ASSUME ~(w < a + bb.len) PROVE v = 0
  <2>1. bb.type # "fill" /\ ~(w - a < bb.len)
    BY <1>1, <1>3, <1>4, <1>5
  <2>2. CellWord(bb, w - a) = 0
    BY <2>1 DEF CellWord
  <2>3. QED
    BY <1>2, <2>2
<1>6. QED
  BY <1>3, <1>5 DEF a

\* The words of a cell that are not padding.
LEMMA HitPuts ==
    ASSUME NEW bb, IsCell(bb), NEW w \in Int,
           w >= bb.block * BlockSize, w < bb.block * BlockSize + bb.len
    PROVE  Puts(bb, w, CellWord(bb, w - bb.block * BlockSize))
<1> DEFINE a == bb.block * BlockSize
           e == EndBlock(bb) * BlockSize
           u == DivUp(bb.len) * BlockSize
<1>1. /\ a \in Nat /\ e \in Nat /\ u \in Nat /\ e = a + u /\ Covered(bb) = a..(e - 1)
      /\ bb.len \in Nat /\ bb.len <= u
  BY CoveredIs DEF IsCell
<1>2. w >= a /\ w < a + bb.len
  OBVIOUS
<1> HIDE DEF a, e, u
<1>3. w \in Covered(bb)
  BY <1>1, <1>2
<1>4. QED
  BY <1>3 DEF Puts, WordAt

\* What is in a raw file: what the cells put there; where none does, or only
\* the padding of one, what was there before.
Overlaid(cells, over, w, x) ==
    \/ Shows(cells, w, x)
    \/ x = over.words[w] /\ \A v : Shows(cells, w, v) => v = 0

\* What is written of a cookie over another file.
LEMMA RawIs ==
    ASSUME NEW c, IsCells(c.list.cells), NEW over, c.len \in Nat
    PROVE  /\ RawOf(c, over).len = c.len
           /\ RawOf(c, over).words = [w \in Words |-> RawOf(c, over).words[w]]
           /\ \A w \in Words : w >= c.len => RawOf(c, over).words[w] = 0
           /\ \A w \in Words : w < c.len =>
                 Overlaid(c.list.cells, over, w, RawOf(c, over).words[w])
<1> DEFINE cells == c.list.cells
           n == Len(cells)
           hit(w) == { i \in 1..n : /\ w >= cells[i].block * BlockSize
                                    /\ w < cells[i].block * BlockSize + cells[i].len }
           at(w) == LET bb == cells[Max(hit(w))]
                    IN  CellWord(bb, w - bb.block * BlockSize)
           word(w) == CASE w >= c.len -> 0
                        [] w < c.len /\ hit(w) = {} -> over.words[w]
                        [] OTHER -> at(w)
           r == RawOf(c, over)
<1>1. r.len = c.len /\ r.words = [w \in Words |-> word(w)]
  BY DEF RawOf
<1>2. n \in Nat /\ \A i \in 1..n : IsCell(cells[i])
  BY DEF IsCells, IsSeq
<1>3. Words \subseteq Int
  BY WordsAre
<1>4. ASSUME NEW w \in Words, hit(w) # {} PROVE Shows(cells, w, at(w))
  <2> DEFINE H == hit(w)
             j == Max(H)
  <2>1. H \in SUBSET (0..n) /\ H # {}
    BY <1>2, <1>4
  <2> HIDE DEF H
  <2>2. j \in H
    BY <1>2, <2>1, MaxIs
  <2> HIDE DEF j
  <2>3. j \in 1..n /\ w >= cells[j].block * BlockSize
        /\ w < cells[j].block * BlockSize + cells[j].len
    BY <2>2 DEF H
  <2>4. at(w) = CellWord(cells[j], w - cells[j].block * BlockSize)
    BY DEF j, H
  <2> HIDE DEF at, cells, n
  <2>5. Puts(cells[j], w, CellWord(cells[j], w - cells[j].block * BlockSize))
    BY <1>2, <1>3, <2>3, HitPuts
  <2>6. QED
    BY <2>3, <2>4, <2>5 DEF Shows, n
<1>5. ASSUME NEW w \in Words, hit(w) = {}, NEW v, Shows(cells, w, v) PROVE v = 0
  <2>1. PICK i \in 1..n : Puts(cells[i], w, v)
    BY <1>5 DEF Shows
  <2>2. ~(/\ w >= cells[i].block * BlockSize
          /\ w < cells[i].block * BlockSize + cells[i].len)
    BY <1>5
  <2> DEFINE bb == cells[i]
  <2>3. IsCell(bb) /\ Puts(bb, w, v) /\ w \in Int
    BY <1>2, <1>3, <2>1
  <2>4. /\ w >= bb.block * BlockSize
        /\ w < bb.block * BlockSize + bb.len \/ v = 0
    <3> HIDE DEF bb
    <3>1. QED
      BY <2>3, PaddedWithZeros
  <2>5. QED
    BY <2>2, <2>4
<1> HIDE DEF hit, at, r, cells
<1>6. ASSUME NEW w \in Words, w >= c.len PROVE r.words[w] = 0
  <2>1. ~(w < c.len)
    BY <1>3, <1>6
  <2>2. QED
    BY <1>1, <1>6, <2>1
<1>7. ASSUME NEW w \in Words, w < c.len PROVE Overlaid(cells, over, w, r.words[w])
  <2>1. ~(w >= c.len)
    BY <1>3, <1>7
  <2>2. CASE hit(w) = {}
    <3>1. r.words[w] = over.words[w]
      BY <1>1, <1>7, <2>1, <2>2
    <3>2. \A v : Shows(cells, w, v) => v = 0
      BY <1>5, <2>2
    <3>3. QED
      BY <3>1, <3>2 DEF Overlaid
  <2>3. CASE hit(w) # {}
    <3>1. r.words[w] = at(w)
      BY <1>1, <2>1, <2>3
    <3>2. QED
      BY <1>4, <2>3, <3>1 DEF Overlaid
  <2>4. QED
    BY <2>2, <2>3
<1>8. QED
  BY <1>1, <1>6, <1>7 DEF r, cells

-----------------------------------------------------------------------------
(* What the tools can rely on. *)

\* The image's length: whole blocks up to its end; or img2simg was given some
\* words more, and writing will stop at the assertion, or go on without them if
\* they have been lost.
LengthInv ==
    /\ phase = "queue" =>
          \/ IsWhole(s)
          \/ s.len % BlockSize # 0 /\ (ReusesCells => ~EndsWithin(s))
    /\ phase = "written" => IsWhole(s) \/ EndLost
    /\ phase \notin GivenUp \cup {"queue", "written", "expanded"} => IsWhole(s)
    /\ phase \in {"first", "second"} => Within(tmp.cells, s.len \div BlockSize)

\* Each part is as long as the image.
PartsInv ==
    phase \in {"second", "parts", "expanding"} =>
        \A i \in 1..Len(parts) : IsWhole(parts[i]) /\ parts[i].len = s.len

\* The file lacks what was noted, and nothing else.
OutputInv ==
    phase = "written" =>
        \E torn \in BOOLEAN : \E n \in 0..Wanted(s, asked) :
            /\ file = FileOf(s, asked, n, torn)
            /\ torn => n < Wanted(s, asked)
            /\ lost <=> n < Wanted(s, asked)

RawInv == phase \in Uncut \cup {"second", "parts"} => raw = NoRaw

\* A word that is written, or was lost in a queue.
IsOrLost(x, v) == x = v \/ (~ReusesCells /\ x = 0)

\* Of k parts, the raw file has what they show, and nothing that is not of the
\* image; the files of the others are still there.
Expanded(k) ==
    /\ raw.words = [w \in Words |-> raw.words[w]]
    /\ \A w \in Words : raw.words[w] = 0 \/ Has(wanted, w, raw.words[w])
    /\ \A i \in 1..k : \A w \in Words : \A v :
          Shows(parts[i].list.cells, w, v) => IsOrLost(raw.words[w], v)
    /\ k > 0 => raw.len = s.len

ToExpand(k) ==
    /\ IsSeq(files) /\ Len(files) = Len(parts) - k
    /\ \A i \in 1..Len(files) :
          files[i] = FileOf(parts[k + i], FALSE, Wanted(parts[k + i], FALSE), FALSE)

FilesInv ==
    phase = "expanding" =>
        /\ s.list.cells = << >>
        /\ \E k \in Nat : k <= Len(parts) /\ Expanded(k) /\ ToExpand(k)

ToolsInv == LengthInv /\ PartsInv /\ OutputInv /\ RawInv /\ FilesInv /\ ToolsAgree

\* A tool that gives up for a reason.
LEMMA ToolsEnd ==
    ASSUME phase' \in GivenUp, RefusedForAReason'
    PROVE  ToolsInv'
BY DEF ToolsInv, LengthInv, PartsInv, OutputInv, RawInv, FilesInv, ToolsAgree, ExpandedIsImage,
       DamageNoticed, GivenUp, Uncut

\* A call before the image is cut.
LEMMA ToolsUncut ==
    ASSUME RawInv, raw' = raw, phase \in Uncut, phase' \in Uncut, LengthInv', OutputInv',
           DamageNoticed'
    PROVE  ToolsInv'
BY DEF ToolsInv, PartsInv, RawInv, FilesInv, ToolsAgree, ExpandedIsImage, RefusedForAReason, Uncut

\* Cells that end within a cookie of whole blocks.
LEMMA EndsAre ==
    ASSUME NEW c, IsOrdered(c.list.cells), c.len \in Nat, c.len % BlockSize = 0
    PROVE  /\ EndsWithin(c) => IsWhole(c)
           /\ IsWhole(c) => EndsWithin(c)
<1> DEFINE cells == c.list.cells
           n == Len(cells)
           q == c.len \div BlockSize
<1>1. BlockSize \in Nat \ {0} /\ q \in Nat /\ c.len = q * BlockSize
  BY BlockSizeAssumption, WholeIs
<1>2. IsSeq(cells) /\ n \in Nat /\ \A i \in 1..n : EndBlock(cells[i]) \in Nat /\ IsCell(cells[i])
  BY EndNat DEF IsOrdered, IsCells, IsSeq
<1>3. IsWhole(c) <=> Within(cells, q)
  BY DEF IsWhole
<1>4. CASE n = 0
  <2>1. cells = << >>
    BY <1>2, <1>4, Empty
  <2>2. EndsWithin(c)
    BY <2>1 DEF EndsWithin
  <2>3. Within(cells, q)
    BY <1>4, NoneThere
  <2>4. QED
    BY <1>3, <2>2, <2>3
<1>5. CASE n # 0
  <2>1. cells # << >>
    BY <1>2, <1>5, Empty
  <2>2. Last(cells) = cells[n]
    BY DEF Last
  <2>3. EndsWithin(c) <=> EndBlock(cells[n]) * BlockSize <= c.len
    BY <2>1, <2>2 DEF EndsWithin
  <2> DEFINE e == EndBlock(cells[n])
             x == e * BlockSize
             y == q * BlockSize
  <2>4. n \in 1..n /\ e \in Nat
    BY <1>2, <1>5
  <2>5. e <= q => x <= y
    <3> HIDE DEF e, q
    <3>1. QED
      BY <1>1, <2>4, TimesMonotone
  <2>6. x <= y => e <= q
    <3>1. SUFFICES ASSUME ~(e <= q) PROVE ~(x <= y)
      OBVIOUS
    <3> DEFINE z == (q + 1) * BlockSize
    <3> HIDE DEF e, q
    <3>2. q + 1 <= e /\ q + 1 \in Nat
      BY <1>1, <2>4, <3>1
    <3>3. z <= x /\ z = y + BlockSize /\ y \in Nat
      BY <1>1, <2>4, <3>2, TimesMonotone, Product
    <3>4. x \in Nat
      BY <1>1, <2>4, Product
    <3> HIDE DEF x, y, z
    <3>5. QED
      BY <1>1, <3>3, <3>4
  <2>7. e <= q <=> Within(cells, q)
    <3>1. ASSUME Within(cells, q) PROVE e <= q
      BY <2>4, <3>1 DEF Within
    <3>2. ASSUME e <= q, NEW i \in 1..n PROVE EndBlock(cells[i]) <= q
      <4>1. CASE i = n
        BY <3>2, <4>1
      <4>2. CASE i # n
        <5>1. i < n /\ n \in 1..n
          BY <1>2, <2>4, <4>2
        <5>2. EndBlock(cells[i]) <= cells[n].block
          BY <5>1 DEF IsOrdered, Disjoint
        <5>3. cells[n].block < e /\ cells[n].block \in Nat /\ EndBlock(cells[i]) \in Nat
          BY <1>2, <2>4, EndNat DEF IsCell
        <5> HIDE DEF e, q
        <5>4. QED
          BY <1>1, <2>4, <3>2, <5>2, <5>3
      <4>3. QED
        BY <4>1, <4>2
    <3>3. QED
      BY <3>1, <3>2 DEF Within
  <2>8. QED
    BY <1>1, <1>3, <2>3, <2>5, <2>6, <2>7
<1>6. QED
  BY <1>4, <1>5

\* A new cookie, and nothing written.
LEMMA ToolsBegin == Init => ToolsInv
<1> SUFFICES ASSUME Init PROVE ToolsInv
  OBVIOUS
<1>1. /\ s = NewCookie(ImageBlocks * BlockSize) /\ phase = "queue" /\ raw = NoRaw
      /\ tmp = EmptyList /\ parts = << >> /\ lost = FALSE
  BY DEF Init
<1> DEFINE x == ImageBlocks * BlockSize
<1>2. s = [len |-> x, list |-> EmptyList]
  BY <1>1 DEF NewCookie
<1>3. x \in Nat /\ x % BlockSize = 0
  BY SizesAssumption, BlockSizeAssumption, WholeTimes, Product
<1> HIDE DEF x
<1>4. s.len = x /\ s.list = EmptyList
  BY <1>2
<1>5. IsOrdered(s.list.cells)
  BY <1>4, EmptyIsList DEF IsList
<1>6. EndsWithin(s)
  BY <1>4 DEF EndsWithin, EmptyList
<1>7. IsWhole(s)
  BY <1>3, <1>4, <1>5, <1>6, EndsAre
<1>8. LengthInv
  BY <1>1, <1>7 DEF LengthInv
<1>9. QED
  BY <1>1, <1>8 DEF ToolsInv, PartsInv, OutputInv, RawInv, FilesInv, ToolsAgree, ExpandedIsImage,
                    RefusedForAReason, DamageNoticed

\* sparse_file_add_*().
LEMMA ToolsAdd ==
    ASSUME SparseInv, ImageInv, ToolsInv, NEW bb, IsCell(bb), Add(bb)
    PROVE  ToolsInv'
<1>1. /\ phase = "queue" /\ phase' = phase /\ added < MaxAdds
      /\ EndBlock(bb) <= ImageBlocks /\ raw' = raw
      /\ IsFree(s.list.cells, bb)
  BY DEF Add, written, cutting, expanded, IsFree
<1>2. PICK q \in Queued(s.list, bb) : s' = [s EXCEPT !.list = q]
  BY DEF Add
<1>3. IsCookie(s) /\ added \in Nat /\ IsList(s.list)
  BY SizesAssumption DEF SparseInv, CookieOK, RestOK, IsCookie
<1>4. s' = [len |-> s.len, list |-> q]
  BY <1>2, <1>3 DEF IsCookie
<1>5. s'.len = s.len /\ s'.list = q
  BY <1>4
<1>6. added # MaxAdds
  BY <1>1, <1>3, SizesAssumption
<1> DEFINE x == ImageBlocks * BlockSize
<1>7. s.len = x
  BY <1>1, <1>6 DEF ImageInv
<1>8. x \in Nat /\ x % BlockSize = 0 /\ x \div BlockSize = ImageBlocks
  <2>1. x \in Nat /\ x % BlockSize = 0 /\ BlockSize \in Nat \ {0} /\ ImageBlocks \in Nat
    BY SizesAssumption, BlockSizeAssumption, WholeTimes, Product
  <2>2. (ImageBlocks * BlockSize + 0) \div BlockSize = ImageBlocks
    BY <2>1, Quotient
  <2>3. x + 0 = x
    BY <2>1
  <2>4. QED
    BY <2>1, <2>2, <2>3
<1> HIDE DEF x
<1>9. IsWhole(s)
  BY <1>1, <1>7, <1>8 DEF ToolsInv, LengthInv
<1>10. Within(s.list.cells, ImageBlocks) /\ ImageBlocks \in Nat /\ ImageBlocks <= MaxBlocks
  BY <1>7, <1>8, <1>9, SizesAssumption DEF IsWhole
<1>11. IsList(q) /\ Within(q.cells, ImageBlocks)
  BY <1>1, <1>3, <1>10, QueuedKeeps
<1>12. IsWhole(s')
  BY <1>5, <1>7, <1>8, <1>11 DEF IsWhole, IsList
<1>13. LengthInv' /\ OutputInv' /\ DamageNoticed'
  BY <1>1, <1>12 DEF LengthInv, OutputInv, DamageNoticed
<1>14. QED
  BY <1>1, <1>13, ToolsUncut DEF ToolsInv, Uncut

\* Fills of whole blocks.
LEMMA ToolsAddFill ==
    ASSUME SparseInv, ImageInv, ToolsInv, AddFill PROVE ToolsInv'
<1>1. PICK v \in FillVals, len \in Lens, b \in 0..(ImageBlocks - 1) :
         len % BlockSize = 0 /\ Add(Cell("fill", v, 0, len, b))
  BY DEF AddFill
<1>2. IsCell(Cell("fill", v, 0, len, b))
  BY <1>1, AddedIsCell DEF CellTypes
<1>3. QED
  BY <1>1, <1>2, ToolsAdd

\* Buffers, files and descriptors.
LEMMA ToolsAddFrom ==
    ASSUME SparseInv, ImageInv, ToolsInv, NEW type \in CellTypes, type # "fill", AddFrom(type)
    PROVE  ToolsInv'
<1> DEFINE src(f, b) == [name |-> f, at |-> IF type = "file" THEN b ELSE 0,
                         data |-> Sources[f].data]
<1>1. PICK f \in DOMAIN Sources, len \in Lens, b \in 0..(ImageBlocks - 1) :
         \E off \in {0, len} : Add(Cell(type, src(f, b), off, len, b))
  BY DEF AddFrom
<1>2. PICK off \in {0, len} : Add(Cell(type, src(f, b), off, len, b))
  BY <1>1
<1> HIDE DEF src
<1>3. IsCell(Cell(type, src(f, b), off, len, b))
  BY AddedIsCell
<1>4. QED
  BY <1>2, <1>3, ToolsAdd

\* img2simg.
LEMMA ToolsReadRaw ==
    ASSUME SparseInv, ToolsInv, ReadRaw PROVE ToolsInv'
<1>1. phase = "queue" /\ phase' = phase /\ added' = MaxAdds /\ raw' = raw
  BY DEF ReadRaw, written, cutting, expanded
<1>2. PICK img \in RawImages : \E l \in QueuedAll(RawCells(img)) : s' = [len |-> Len(img), list |-> l]
  BY DEF ReadRaw
<1>3. PICK l \in QueuedAll(RawCells(img)) : s' = [len |-> Len(img), list |-> l]
  BY <1>2
<1> DEFINE n == Len(img)
           d == DivUp(n)
<1>4. /\ n \in Nat /\ d \in Nat /\ d <= MaxBlocks /\ n <= MaxBlocks * BlockSize
      /\ InLine(RawCells(img), d)
  BY RawCellsInLine, RawImagesAssumption
<1>5. IsList(l) /\ Within(l.cells, d) /\ HasQueued(l, RawCells(img), Len(RawCells(img)))
  BY <1>4, QueuedAllSound
<1>6. s'.len = n /\ s'.list = l
  BY <1>3
<1>7. IsWhole(s') \/ (s'.len % BlockSize # 0 /\ (ReusesCells => ~EndsWithin(s)'))
  <2> DEFINE q == n \div BlockSize
             r == n % BlockSize
             x == q * BlockSize
  <2>1. /\ BlockSize \in Nat \ {0} /\ q \in Nat /\ r \in 0..(BlockSize - 1)
        /\ n = x + r /\ x \in Nat
    BY <1>4, BlockSizeAssumption, Parts, Product
  <2>2. d = IF r = 0 THEN q ELSE q + 1
    <3> HIDE DEF q, r
    <3>1. DivUp(x + r) = IF r = 0 THEN q ELSE q + 1
      BY <2>1, UpIs
    <3> HIDE DEF x
    <3>2. QED
      BY <2>1, <3>1
  <2>3. CASE r = 0
    <3>1. d = q
      BY <2>2, <2>3
    <3>2. IsWhole(s')
      BY <1>4, <1>5, <1>6, <2>3, <3>1 DEF IsWhole, IsList
    <3>3. QED
      BY <3>2
  <2>4. CASE r # 0
    <3> HIDE DEF n, d, q, r, x
    <3>1. d = q + 1
      BY <2>2, <2>4
    <3>2. ASSUME ReusesCells PROVE ~EndsWithin(s)'
      <4>1. n < MaxBlocks * BlockSize
        <5> DEFINE z == d * BlockSize
                   top == MaxBlocks * BlockSize
        <5>1. z = x + BlockSize
          BY <2>1, <3>1, Product DEF x
        <5>2. z <= top /\ top \in Nat /\ z \in Nat
          BY <1>4, <2>1, SizesAssumption, TimesMonotone, Product
        <5> HIDE DEF z, top
        <5>3. n < top
          BY <1>4, <2>1, <5>1, <5>2
        <5>4. QED
          BY <5>3 DEF top
      <4>2. n \in Words /\ ReadImage(img)[n] = 0
        <5>1. n \in Words
          <6> DEFINE top == MaxBlocks * BlockSize
          <6>1. Words = 0..(top - 1) /\ top \in Nat
            BY SizeNat DEF Words, Size
          <6>2. n < top
            BY <4>1
          <6> HIDE DEF top
          <6>3. QED
            BY <1>4, <6>1, <6>2
        <5>2. ~(n < Len(img)) /\ n \in Len(img)..(AlignUp(Len(img)) - 1)
          <6>1. Len(img) = n
            BY DEF n
          <6>2. AlignUp(n) = d * BlockSize
            BY DEF AlignUp, d
          <6> DEFINE z == d * BlockSize
          <6>3. z = x + BlockSize
            BY <2>1, <3>1, Product DEF x
          <6> HIDE DEF z
          <6>4. z \in Int /\ n <= z - 1
            BY <1>4, <2>1, <6>3
          <6>5. n \in n..(z - 1)
            BY <1>4, <6>4
          <6>6. QED
            BY <1>4, <6>1, <6>2, <6>5 DEF z
        <5>3. QED
          BY <5>1, <5>2 DEF ReadImage
      <4>3. Has(ReadImage(img), n, 0)
        BY <4>2 DEF Has, Hole
      <4>4. Shows(l.cells, n, 0)
        BY <1>5, <3>2, <4>3, ReadHas DEF Tells
      <4>5. PICK i \in 1..Len(l.cells) : Puts(l.cells[i], n, 0)
        BY <4>4 DEF Shows
      <4> DEFINE cells == l.cells
                 k == Len(cells)
                 e == EndBlock(cells[k])
                 ei == EndBlock(cells[i])
      <4>6. /\ k \in Nat /\ IsCell(cells[i]) /\ IsCell(cells[k]) /\ k \in 1..k /\ i \in 1..k
            /\ e \in Nat /\ ei \in Nat /\ cells[k].block \in Nat /\ cells[k].block < e
            /\ i < k => ei <= cells[k].block
        <5>1. k \in Nat
          BY <1>5, ListParts
        <5>2. i \in 1..k /\ k \in 1..k
          BY <4>5, <5>1
        <5>3. QED
          BY <1>5, <5>1, <5>2, ListParts
      <4>7. n < ei * BlockSize
        <5>1. /\ n \in Covered(cells[i]) /\ ei * BlockSize \in Nat
              /\ Covered(cells[i]) = (cells[i].block * BlockSize)..(ei * BlockSize - 1)
              /\ cells[i].block * BlockSize \in Nat
          BY <4>5, <4>6, CoveredIs DEF Puts, IsCell
        <5> DEFINE a == cells[i].block * BlockSize
                   z == ei * BlockSize
        <5> HIDE DEF a, z
        <5>2. n \in a..(z - 1) /\ z \in Nat /\ a \in Nat
          BY <5>1 DEF a, z
        <5>3. n < z
          BY <1>4, <5>2
        <5>4. QED
          BY <5>3 DEF z
      <4>8. ei <= e
        <5>1. CASE i = k
          BY <4>6, <5>1
        <5>2. CASE i # k
          <6>1. i < k
            BY <4>6, <5>2
          <6> HIDE DEF e, ei
          <6>2. QED
            BY <4>6, <6>1
        <5>3. QED
          BY <5>1, <5>2
      <4>9. ~(e * BlockSize <= n)
        <5> HIDE DEF e, ei
        <5> DEFINE a == ei * BlockSize
                   z == e * BlockSize
        <5>1. a <= z /\ a \in Nat /\ z \in Nat
          BY <2>1, <4>6, <4>8, TimesMonotone, Product
        <5>2. n < a
          BY <4>7
        <5> HIDE DEF a, z
        <5>3. ~(z <= n)
          BY <1>4, <5>1, <5>2
        <5>4. QED
          BY <5>3 DEF z
      <4>10. ~EndsWithin(s)'
        <5>1. cells # << >> /\ Last(cells) = cells[k]
          BY <1>5, <4>6, ListParts, Empty DEF Last
        <5>2. s'.list.cells = cells /\ s'.len = n
          BY <1>6
        <5>3. QED
          BY <4>9, <5>1, <5>2 DEF EndsWithin, e
      <4>11. QED
        BY <4>10
    <3>3. s'.len % BlockSize # 0
      BY <1>6, <2>4 DEF r
    <3>4. QED
      BY <3>2, <3>3
  <2>5. QED
    BY <2>3, <2>4
<1>8. LengthInv' /\ OutputInv' /\ DamageNoticed'
  BY <1>1, <1>7 DEF LengthInv, OutputInv, DamageNoticed
<1>9. QED
  BY <1>1, <1>8, ToolsUncut DEF ToolsInv, Uncut

\* Behind a cookie of whole blocks there is nothing.
LEMMA WholeShows ==
    ASSUME NEW c, IsWhole(c), NEW w \in Int, w >= c.len, NEW v
    PROVE  ~Shows(c.list.cells, w, v)
<1> DEFINE cells == c.list.cells
           q == c.len \div BlockSize
<1>1. SUFFICES ASSUME NEW i \in 1..Len(cells), Puts(cells[i], w, v) PROVE FALSE
  BY DEF Shows
<1>2. IsCell(cells[i]) /\ EndBlock(cells[i]) <= q
  BY DEF IsWhole, IsOrdered, IsCells, Within
<1>3. BlockSize \in Nat \ {0} /\ c.len \in Nat /\ q \in Nat /\ c.len = q * BlockSize
  BY BlockSizeAssumption, WholeIs DEF IsWhole
<1> DEFINE e == EndBlock(cells[i])
           a == cells[i].block * BlockSize
           z == e * BlockSize
           l == q * BlockSize
<1>4. /\ w \in Covered(cells[i]) /\ Covered(cells[i]) = a..(z - 1)
      /\ a \in Nat /\ z \in Nat /\ e \in Nat
  BY <1>1, <1>2, CoveredIs DEF Puts, IsCell
<1>5. c.len = l /\ e <= q
  BY <1>2, <1>3
<1> HIDE DEF e, q
<1>6. z <= l /\ l \in Nat
  BY <1>3, <1>4, <1>5, TimesMonotone, Product
<1> HIDE DEF a, z, l
<1>7. w \in a..(z - 1)
  BY <1>4
<1>8. QED
  BY <1>4, <1>5, <1>6, <1>7

\* What is written is of whole blocks, if nothing of it has been lost.
LEMMA WrittenWhole ==
    ASSUME SparseInv, ToolsInv, phase \in {"queue", "appended", "imported"}
    PROVE  /\ \/ IsWhole(s)
              \/ phase = "queue" /\ s.len % BlockSize # 0 /\ (ReusesCells => ~EndsWithin(s))
           /\ EndsWithin(s) => IsWhole(s) \/ EndLost
           /\ IsCookie(s) /\ IsOrdered(s.list.cells) /\ IsCells(s.list.cells) /\ s.len \in Nat
<1>1. IsCookie(s) /\ IsOrdered(s.list.cells) /\ IsCells(s.list.cells) /\ s.len \in Nat
  BY DEF SparseInv, CookieOK, IsCookie, IsList, IsOrdered
<1>2. \/ IsWhole(s)
      \/ phase = "queue" /\ s.len % BlockSize # 0 /\ (ReusesCells => ~EndsWithin(s))
  BY DEF ToolsInv, LengthInv, GivenUp
<1>3. QED
  BY <1>1, <1>2 DEF EndLost

\* sparse_file_write(), to a sparse file.
LEMMA ToolsWrite ==
    ASSUME SparseInv, ToolsInv, Write PROVE ToolsInv'
<1>1. /\ phase \in {"queue", "appended"} /\ phase' = "written" /\ EndsWithin(s)
      /\ s' = s /\ raw' = raw
  BY DEF Write, cutting, expanded
<1>2. PICK crc \in BOOLEAN, torn \in BOOLEAN : \E n \in 0..Wanted(s, crc) :
         /\ torn => n < Wanted(s, crc)
         /\ file' = FileOf(s, crc, n, torn) /\ asked' = crc
         /\ lost' = (n < Wanted(s, crc))
  BY CrcAssumption DEF Write
<1>3. PICK n \in 0..Wanted(s, crc) :
         /\ torn => n < Wanted(s, crc)
         /\ file' = FileOf(s, crc, n, torn) /\ asked' = crc
         /\ lost' = (n < Wanted(s, crc))
  BY <1>2
<1>4. /\ IsWhole(s) \/ EndLost
      /\ IsCells(s.list.cells) /\ s.len \in Nat
  BY <1>1, WrittenWhole
<1>5. Wanted(s, crc) \in Nat
  <2>1. IsCells(s.list.cells) /\ s.len \in Nat
    BY <1>4
  <2>2. Len(AllOf(s, crc)) = Wanted(s, crc) /\ Len(ChunksOf(s)) \in Nat
        /\ Len(AllOf(s, crc)) = Len(ChunksOf(s)) + (IF crc THEN 1 ELSE 0)
    BY <2>1, AllIs
  <2>3. QED
    BY <2>2
<1>6. lost' <=> n < Wanted(s, crc)
  BY <1>3, Zenon
<1>7. OutputInv'
  <2>1. Wanted(s', asked') = Wanted(s, crc) /\ FileOf(s', asked', n, torn) = FileOf(s, crc, n, torn)
    BY <1>1, <1>3
  <2>2. /\ n \in 0..Wanted(s', asked') /\ file' = FileOf(s', asked', n, torn)
        /\ torn => n < Wanted(s', asked')
        /\ lost' <=> n < Wanted(s', asked')
    BY <1>3, <1>6, <2>1
  <2>3. \E m \in 0..Wanted(s', asked') :
            /\ file' = FileOf(s', asked', m, torn)
            /\ torn => m < Wanted(s', asked')
            /\ lost' <=> m < Wanted(s', asked')
    BY <2>2
  <2>4. QED
    BY <2>3 DEF OutputInv
<1>8. LengthInv' /\ DamageNoticed'
  BY <1>1, <1>4 DEF LengthInv, EndLost, DamageNoticed
<1>9. QED
  BY <1>1, <1>7, <1>8, ToolsUncut DEF ToolsInv, Uncut

\* The device is full at the header.
LEMMA ToolsWriteFails ==
    ASSUME WriteFails PROVE ToolsInv'
<1>1. phase' = "failed"
  BY DEF WriteFails
<1>2. QED
  BY <1>1, ToolsEnd DEF RefusedForAReason, GivenUp

\* assert(pad >= 0).
LEMMA ToolsWriteAborts ==
    ASSUME SparseInv, ToolsInv, WriteAborts PROVE ToolsInv'
<1>1. phase \in {"queue", "appended"} /\ ~EndsWithin(s) /\ phase' = "aborted" /\ s' = s
  BY DEF WriteAborts
<1>2. s.len % BlockSize # 0
  <2>1. IsWhole(s) => EndsWithin(s)
    BY EndsAre DEF IsWhole
  <2>2. \/ IsWhole(s)
        \/ phase = "queue" /\ s.len % BlockSize # 0 /\ (ReusesCells => ~EndsWithin(s))
    BY <1>1, WrittenWhole
  <2>3. QED
    BY <1>1, <2>1, <2>2
<1>3. QED
  BY <1>1, <1>2, ToolsEnd DEF RefusedForAReason, GivenUp

\* A list that shows an image, in a raw file that was empty.
LEMMA RawShows ==
    ASSUME NEW c, IsCells(c.list.cells), c.len \in Nat, IsWhole(c) \/ ~ReusesCells,
           NEW image, IsImage(image), IsShown(image, c.list.cells)
    PROVE  /\ DOMAIN RawOf(c, NoRaw).words = Words
           /\ \A w \in Words : IsOrLost(RawOf(c, NoRaw).words[w],
                                         IF image[w] = Hole THEN 0 ELSE image[w])
<1> DEFINE r == RawOf(c, NoRaw)
           word(w) == IF image[w] = Hole THEN 0 ELSE image[w]
<1>1. /\ r.words = [w \in Words |-> r.words[w]]
      /\ \A w \in Words : w >= c.len => r.words[w] = 0
      /\ \A w \in Words : w < c.len => Overlaid(c.list.cells, NoRaw, w, r.words[w])
  BY RawIs
<1>2. DOMAIN r.words = Words
  BY <1>1
<1> HIDE DEF r
<1>3. \A w, v : Tells(Shows(c.list.cells, w, v), Has(image, w, v))
  BY DEF IsShown
<1>4. ASSUME NEW w \in Words PROVE IsOrLost(r.words[w], word(w))
  <2>1. NoRaw.words[w] = 0
    BY <1>4 DEF NoRaw
  <2>2. w \in Int /\ c.len \in Int
    BY <1>4, WordsAre
  <2>3. image[w] # Hole => Has(image, w, image[w])
    BY <1>4 DEF Has
  <2>4. CASE w >= c.len
    <3>1. r.words[w] = 0
      BY <1>1, <1>4, <2>4
    <3>2. CASE IsWhole(c) /\ ReusesCells
      <4>1. \A v : ~Shows(c.list.cells, w, v)
        BY <2>2, <2>4, <3>2, WholeShows
      <4>2. image[w] = Hole
        BY <1>3, <2>3, <3>2, <4>1 DEF Tells
      <4>3. QED
        BY <3>1, <4>2 DEF IsOrLost
    <3>3. CASE ~ReusesCells
      BY <3>1, <3>3 DEF IsOrLost
    <3>4. QED
      BY <3>2, <3>3
  <2>5. CASE w < c.len
    <3>1. Overlaid(c.list.cells, NoRaw, w, r.words[w])
      BY <1>1, <1>4, <2>5
    <3>2. CASE Shows(c.list.cells, w, r.words[w])
      <4>1. Has(image, w, r.words[w])
        BY <1>3, <3>2 DEF Tells
      <4>2. QED
        BY <4>1 DEF Has, IsOrLost
    <3>3. CASE r.words[w] = NoRaw.words[w] /\ \A v : Shows(c.list.cells, w, v) => v = 0
      <4>1. r.words[w] = 0
        BY <2>1, <3>3
      <4>2. ReusesCells /\ image[w] # Hole => image[w] = 0
        BY <1>3, <2>3, <3>3 DEF Tells
      <4>3. QED
        BY <4>1, <4>2 DEF IsOrLost
    <3>4. QED
      BY <3>1, <3>2, <3>3 DEF Overlaid
  <2>6. QED
    BY <2>2, <2>4, <2>5
<1>5. QED
  BY <1>2, <1>4 DEF r

\* Into a raw file.
LEMMA ToolsWriteRaw ==
    ASSUME SparseInv, FitInv, ImageInv, ToolsInv, WriteRaw PROVE ToolsInv'
<1>1. /\ phase \in {"queue", "imported"} /\ phase' = "expanded" /\ EndsWithin(s)
      /\ s' = s /\ wanted' = wanted
  BY DEF WriteRaw, cutting
<1> DEFINE c(n) == [s EXCEPT !.list.cells = SubSeq(@, 1, n)]
<1>2. PICK n \in 0..Len(s.list.cells) :
         /\ raw' = [RawOf(c(n), NoRaw) EXCEPT !.len = s.len]
         /\ lost' = (lost \/ n < Len(s.list.cells))
  BY Zenon DEF WriteRaw
<1>3. /\ IsWhole(s) \/ EndLost
      /\ IsCookie(s) /\ IsOrdered(s.list.cells) /\ IsCells(s.list.cells) /\ s.len \in Nat
  BY <1>1, WrittenWhole
<1>4. LengthInv'
  BY <1>1 DEF LengthInv, GivenUp
<1>5. ASSUME ~lost'
      PROVE  /\ raw'.len = s.len /\ DOMAIN raw'.words = Words
             /\ \A w \in Words : IsOrLost(raw'.words[w],
                                           IF wanted[w] = Hole THEN 0 ELSE wanted[w])
  <2>1. IsCookie(s)
    BY <1>3
  <2>2. IsSeq(s.list.cells) /\ Len(s.list.cells) \in Nat
    BY <1>3 DEF IsCells, IsSeq
  <2>3. n = Len(s.list.cells)
    <3>1. ~(n < Len(s.list.cells))
      BY <1>2, <1>5, Zenon
    <3>2. QED
      BY <1>2, <2>2, <3>1
  <2>4. SubSeq(s.list.cells, 1, n) = s.list.cells
    <3> DEFINE q == s.list.cells
    <3>1. IsSeq(q) /\ n \in 0..Len(q) /\ n = Len(q)
      BY <1>2, <2>2, <2>3
    <3> HIDE DEF q
    <3>2. /\ IsSeq(SubSeq(q, 1, n)) /\ Len(SubSeq(q, 1, n)) = n
          /\ \A i \in 1..n : SubSeq(q, 1, n)[i] = q[i]
      BY <3>1, Begun
    <3> DEFINE p == SubSeq(q, 1, n)
    <3> HIDE DEF p
    <3>3. p = q
      BY <3>1, <3>2, SameSeq DEF p
    <3>4. QED
      BY <3>3 DEF p, q
  <2>5. c(n) = s
    <3>1. c(n) = [s EXCEPT !.list.cells = s.list.cells]
      BY <2>4
    <3>2. s.list = [cells |-> s.list.cells, hint |-> s.list.hint, dangling |-> s.list.dangling]
      BY <2>1 DEF IsCookie, IsList
    <3>3. s = [len |-> s.len, list |-> s.list]
      BY <2>1 DEF IsCookie
    <3>4. QED
      BY <3>1, <3>2, <3>3
  <2> HIDE DEF c
  <2> DEFINE r == RawOf(s, NoRaw)
  <2>6. raw' = [r EXCEPT !.len = s.len]
    BY <1>2, <2>5
  <2>7. r = [len |-> r.len, words |-> r.words]
    BY DEF RawOf
  <2> HIDE DEF r
  <2>8. raw' = [len |-> s.len, words |-> r.words]
    BY <2>6, <2>7
  <2>9. raw'.len = s.len /\ raw'.words = r.words
    BY <2>8
  <2>10. IsImage(wanted) /\ IsShown(wanted, s.list.cells)
    BY <1>1, ImageShown DEF Uncut
  <2>11. /\ DOMAIN r.words = Words
         /\ \A w \in Words : IsOrLost(r.words[w], IF wanted[w] = Hole THEN 0 ELSE wanted[w])
    BY <1>3, <2>10, RawShows DEF r, EndLost
  <2>12. QED
    BY <2>9, <2>11
<1>6. ExpandedIsImage' /\ DamageNoticed'
  BY <1>1, <1>5 DEF ExpandedIsImage, IsOrLost, DamageNoticed
<1>7. QED
  BY <1>1, <1>4, <1>6 DEF ToolsInv, PartsInv, OutputInv, RawInv, FilesInv, ToolsAgree,
                          RefusedForAReason, Uncut

-----------------------------------------------------------------------------
(* Reading what was written. *)

\* What is imported has whole blocks.
LEMMA ImportIsWhole ==
    ASSUME SparseInv, NEW crc \in BOOLEAN, Outcome(file, crc) = "imported",
           NEW l \in QueuedAll(CellsOf(file.chunks)), NEW c, c.list = l,
           NEW n \in Nat, n >= file.total, c.len = n * BlockSize
    PROVE  IsList(l) /\ Within(l.cells, file.total) /\ IsWhole(c)
<1>1. IsFile(file) /\ file.total \in Nat /\ file.total <= MaxBlocks /\ MaxBlocks \in Nat
  BY SizesAssumption DEF SparseInv, FileOK, IsFile
<1>2. IsList(l) /\ Within(l.cells, file.total)
  BY <1>1, ImportSound
<1>3. Within(l.cells, n) /\ IsOrdered(l.cells)
  BY <1>1, <1>2, WithinMore DEF IsList
<1>4. c.len \in Nat /\ c.len % BlockSize = 0 /\ c.len \div BlockSize = n
  <2> DEFINE x == n * BlockSize
  <2>1. x \in Nat /\ x % BlockSize = 0 /\ BlockSize \in Nat \ {0}
    BY BlockSizeAssumption, WholeTimes, Product
  <2>2. (n * BlockSize + 0) \div BlockSize = n
    BY <2>1, Quotient
  <2>3. x + 0 = x
    BY <2>1
  <2>4. QED
    BY <2>1, <2>2, <2>3
<1>5. QED
  BY <1>2, <1>3, <1>4 DEF IsWhole

\* A file that is not read as it was meant to be.
LEMMA NotRead ==
    ASSUME ToolsInv, asked \in BOOLEAN, phase = "written", ~lost, IsWhole(s),
           NEW crc \in BOOLEAN,
           Outcome(file, crc) # "imported"
    PROVE  /\ asked
           /\ ~crc => Outcome(file, crc) = "crashed"
           /\ crc => \E i \in 1..Len(file.chunks) :
                        \/ file.chunks[i].kind = "skip"
                        \/ file.chunks[i].kind = "fill" /\ file.chunks[i].blocks > 1
<1>1. PICK torn \in BOOLEAN : \E n \in 0..Wanted(s, asked) :
            /\ file = FileOf(s, asked, n, torn)
            /\ torn => n < Wanted(s, asked)
            /\ lost <=> n < Wanted(s, asked)
  BY DEF ToolsInv, OutputInv
<1>2. PICK n \in 0..Wanted(s, asked) :
            /\ file = FileOf(s, asked, n, torn)
            /\ torn => n < Wanted(s, asked)
            /\ lost <=> n < Wanted(s, asked)
  BY <1>1
<1>3. IsWhole(s) /\ IsCells(s.list.cells) /\ s.len \in Nat
  BY DEF IsWhole, IsOrdered
<1>4. ~torn
  BY <1>2
<1>5. file = FileOf(s, asked, Wanted(s, asked), FALSE)
  <2>1. Wanted(s, asked) \in Nat
    BY <1>3, AllIs DEF Carries, IsSeq
  <2>2. n = Wanted(s, asked)
    <3> DEFINE m == Wanted(s, asked)
    <3>1. n \in 0..m /\ ~(n < m)
      BY <1>2, Zenon
    <3>2. m \in Nat
      BY <2>1
    <3> HIDE DEF m
    <3>3. n = m
      BY <3>1, <3>2
    <3>4. QED
      BY <3>3 DEF m
  <2>3. QED
    BY <1>2, <1>4, <2>2
<1>6. /\ ~asked => Outcome(file, crc) = "imported"
      /\ asked /\ ~crc => Outcome(file, crc) = "crashed"
      /\ asked /\ crc /\ WriterCrc(ChunksOf(s)) = ReaderCrc(AllOf(s, asked)) =>
            Outcome(file, crc) = "imported"
  BY <1>3, <1>5, WholeOutcome
<1>7. asked = TRUE
  BY <1>6
<1>8. ASSUME crc
      PROVE  \E i \in 1..Len(file.chunks) :
                        \/ file.chunks[i].kind = "skip"
                        \/ file.chunks[i].kind = "fill" /\ file.chunks[i].blocks > 1
  <2>1. ~NoGapsOrFills(ChunksOf(s))
    BY <1>3, <1>6, <1>7, <1>8, SumsAlike
  <2>2. PICK i \in 1..Len(ChunksOf(s)) :
            \/ ChunksOf(s)[i].kind = "skip"
            \/ ChunksOf(s)[i].kind = "fill" /\ ChunksOf(s)[i].blocks > 1
    BY <2>1 DEF NoGapsOrFills
  <2>3. file.chunks = AllOf(s, asked)
    BY <1>3, <1>5, <1>7, WholeFile
  <2>4. Carries(AllOf(s, asked), ChunksOf(s)) /\ Len(ChunksOf(s)) \in Nat
    BY <1>3, AllIs
  <2>5. i \in 1..Len(file.chunks) /\ file.chunks[i] = ChunksOf(s)[i]
    BY <2>2, <2>3, <2>4 DEF Carries, IsSeq
  <2>6. QED
    BY <2>2, <2>5
<1>9. QED
  BY <1>6, <1>7, <1>8

\* What is written lacks whole blocks at most at its end.
LEMMA WrittenIs ==
    ASSUME SparseInv, ToolsInv, phase = "written"
    PROVE  /\ IsWhole(s) \/ EndLost
           /\ IsCells(s.list.cells) /\ s.len \in Nat /\ asked \in BOOLEAN
           /\ \E torn \in BOOLEAN : \E n \in 0..Wanted(s, asked) :
                /\ file = FileOf(s, asked, n, torn)
                /\ torn => n < Wanted(s, asked)
                /\ lost <=> n < Wanted(s, asked)
<1>1. IsCells(s.list.cells) /\ s.len \in Nat /\ asked \in BOOLEAN
  BY DEF SparseInv, CookieOK, IsCookie, IsList, IsOrdered, RestOK
<1>2. QED
  BY <1>1 DEF ToolsInv, LengthInv, OutputInv, GivenUp

\* What is imported has been written to its end.
LEMMA ImportedNotLost ==
    ASSUME SparseInv, ToolsInv, phase = "written", NEW crc, Outcome(file, crc) = "imported"
    PROVE  ~lost
<1>1. PICK torn \in BOOLEAN : \E n \in 0..Wanted(s, asked) :
            /\ file = FileOf(s, asked, n, torn)
            /\ torn => n < Wanted(s, asked)
            /\ lost <=> n < Wanted(s, asked)
  BY WrittenIs
<1>2. PICK n \in 0..Wanted(s, asked) :
            /\ file = FileOf(s, asked, n, torn)
            /\ torn => n < Wanted(s, asked)
            /\ lost <=> n < Wanted(s, asked)
  BY <1>1
<1>3. IsCells(s.list.cells) /\ s.len \in Nat /\ asked \in BOOLEAN
  BY WrittenIs
<1>4. Outcome(FileOf(s, asked, n, torn), crc) = "imported"
  BY <1>2
<1>5. n = Wanted(s, asked)
  BY <1>2, <1>3, <1>4, ImportedWhole
<1>6. Wanted(s, asked) \in Nat
  BY <1>3, AllIs DEF Carries, IsSeq
<1>7. QED
  BY <1>2, <1>5, <1>6

\* simg2img and simg2simg.
LEMMA ToolsImport ==
    ASSUME SparseInv, ToolsInv, Import PROVE ToolsInv'
<1>1. /\ phase = "written" /\ phase' = Outcome(file, FALSE)
      /\ lost' = lost /\ asked' = asked /\ raw' = raw
  BY DEF Import, written, expanded
<1>2. phase' \in {"crashed", "rejected", "truncated", "imported"}
  BY <1>1, OutcomeIs
<1>3. CASE phase' = "imported"
  <2> DEFINE x == file.total * BlockSize
  <2>1. PICK l \in QueuedAll(CellsOf(file.chunks)) : s' = [len |-> x, list |-> l]
    BY <1>3 DEF Import
  <2> HIDE DEF x
  <2>2. s'.list = l /\ s'.len = x
    BY <2>1
  <2>3. file.total \in Nat /\ file.total >= file.total
    BY DEF SparseInv, FileOK, IsFile
  <2>4. IsWhole(s')
    BY <1>1, <1>3, <2>2, <2>3, ImportIsWhole DEF x
  <2>5. LengthInv' /\ OutputInv' /\ DamageNoticed'
    BY <1>1, <1>3, <2>4, ImportedNotLost DEF LengthInv, OutputInv, DamageNoticed
  <2>6. QED
    BY <1>1, <1>3, <2>5, ToolsUncut DEF ToolsInv, Uncut
<1>4. CASE phase' # "imported"
  <2>1. ASSUME ~lost, IsWhole(s) PROVE asked /\ phase' = "crashed"
    BY <1>1, <1>4, <2>1, NotRead DEF SparseInv, RestOK
  <2>2. phase' = "crashed" => asked
    <3>1. SUFFICES ASSUME phase' = "crashed" PROVE asked
      OBVIOUS
    <3>2. PICK torn \in BOOLEAN : \E n \in 0..Wanted(s, asked) :
            /\ file = FileOf(s, asked, n, torn)
            /\ torn => n < Wanted(s, asked)
      BY <1>1, WrittenIs
    <3>3. PICK n \in 0..Wanted(s, asked) :
            /\ file = FileOf(s, asked, n, torn)
            /\ torn => n < Wanted(s, asked)
      BY <3>2
    <3>4. IsCells(s.list.cells) /\ s.len \in Nat /\ asked \in BOOLEAN
      BY <1>1, WrittenIs
    <3>5. Outcome(FileOf(s, asked, n, torn), FALSE) = "crashed"
      BY <1>1, <3>1, <3>3
    <3>6. QED
      BY <3>3, <3>4, <3>5, CrashedAsked
  <2>3. EndLost' <=> EndLost
    BY <1>1, <1>4 DEF Import, EndLost
  <2>4. IsWhole(s) \/ EndLost
    BY <1>1, WrittenIs
  <2>5. RefusedForAReason'
    BY <1>1, <1>2, <1>4, <2>1, <2>2, <2>3, <2>4 DEF RefusedForAReason
  <2>6. QED
    BY <1>2, <1>4, <2>5, ToolsEnd DEF GivenUp
<1>5. QED
  BY <1>3, <1>4

\* append2simg.
LEMMA ToolsAppend ==
    ASSUME SparseInv, ToolsInv, Append2simg PROVE ToolsInv'
<1>1. /\ phase = "written" /\ file.total <= ImageBlocks
      /\ UNCHANGED <<file, asked, lost, raw>>
  BY DEF Append2simg, written, expanded
<1>2. CASE Outcome(file, TRUE) = "imported"
  <2> DEFINE len == Appendix * BlockSize
             input == [name |-> "input", at |-> 0, data |-> [i \in 1..len |-> 1]]
             bb == Cell("fd", input, 0, len, file.total)
             x == file.total * BlockSize + len
  <2>1. PICK l \in QueuedAll(CellsOf(file.chunks)) :
           /\ \E q \in Queued(l, bb) : s' = [len |-> x, list |-> q]
           /\ phase' = "appended"
    BY <1>2 DEF Append2simg
  <2>2. PICK q \in Queued(l, bb) : s' = [len |-> x, list |-> q]
    BY <2>1
  <2>3. /\ file.total \in Nat /\ Appendix \in Nat \ {0} /\ BlockSize \in Nat \ {0} /\ MaxBlocks \in Nat
        /\ file.total + Appendix \in Nat /\ file.total + Appendix <= MaxBlocks
        /\ file.total <= file.total + Appendix
    <3>1. /\ file.total \in Nat /\ Appendix \in Nat \ {0} /\ BlockSize \in Nat \ {0} /\ MaxBlocks \in Nat
          /\ ImageBlocks \in Nat /\ ImageBlocks + Appendix <= MaxBlocks
      BY SizesAssumption, BlockSizeAssumption DEF SparseInv, FileOK, IsFile
    <3>2. QED
      BY <1>1, <3>1
  <2>4. len \in Nat /\ DivUp(len) = Appendix /\ len \in Nat \ {0}
    <3>1. len \in Nat /\ DivUp(len) = Appendix
      BY <2>3, UpWhole
    <3>2. len # 0
      BY <2>3, <3>1, UpNat
    <3>3. QED
      BY <3>1, <3>2
  <2>5. x = (file.total + Appendix) * BlockSize
    BY <2>3, SumTimes
  <2> HIDE DEF len, input, x
  <2>6. bb.len = len /\ bb.block = file.total /\ IsCell(bb)
    BY <2>3, <2>4 DEF Cell, IsCell, CellTypes
  <2> HIDE DEF bb
  <2> DEFINE top == file.total + Appendix
             c == [len |-> x, list |-> l]
  <2>7. c.list = l /\ c.len = x
    OBVIOUS
  <2> HIDE DEF c
  <2>8. IsList(l) /\ Within(l.cells, file.total)
    BY <1>2, <2>3, <2>5, <2>7, ImportIsWhole
  <2>9. IsFree(l.cells, bb) /\ Within(l.cells, top)
    <3>1. IsFree(l.cells, bb)
      BY <2>6, <2>8 DEF IsFree, Within
    <3>2. Within(l.cells, top)
      BY <2>3, <2>8, WithinMore DEF IsList
    <3>3. QED
      BY <3>1, <3>2
  <2>10. EndBlock(bb) <= top
    BY <2>3, <2>4, <2>6 DEF EndBlock
  <2>11. IsList(q) /\ Within(q.cells, top)
    <3>1. top \in Nat /\ top <= MaxBlocks
      BY <2>3
    <3> HIDE DEF top
    <3>2. QED
      BY <2>6, <2>8, <2>9, <2>10, <3>1, QueuedKeeps
  <2>12. s'.list = q /\ s'.len = x
    BY <2>2
  <2>13. x \in Nat /\ x % BlockSize = 0 /\ x \div BlockSize = top
    <3>1. top \in Nat
      BY <2>3
    <3> HIDE DEF top
    <3>2. x = top * BlockSize
      BY <2>5 DEF top
    <3>3. x \in Nat /\ x % BlockSize = 0
      BY <2>3, <3>1, <3>2, WholeTimes, Product
    <3>4. (top * BlockSize + 0) \div BlockSize = top
      BY <2>3, <3>1, Quotient
    <3>5. x + 0 = x
      BY <3>3
    <3>6. QED
      BY <3>2, <3>3, <3>4, <3>5
  <2>14. IsWhole(s')
    BY <2>11, <2>12, <2>13 DEF IsWhole, IsList
  <2>15. LengthInv' /\ OutputInv' /\ DamageNoticed'
    BY <1>1, <1>2, <2>1, <2>14, ImportedNotLost DEF LengthInv, OutputInv, DamageNoticed
  <2>16. QED
    BY <1>1, <2>1, <2>15, ToolsUncut DEF ToolsInv, Uncut
<1>3. CASE Outcome(file, TRUE) # "imported"
  <2>1. phase' = "misread" /\ s' = s
    BY <1>3 DEF Append2simg
  <2>2. RefusedForAReason'
    <3>1. SUFFICES ASSUME ~lost, ~EndLost
                   PROVE  /\ asked
                          /\ \E i \in 1..Len(file.chunks) :
                                \/ file.chunks[i].kind = "skip"
                                \/ file.chunks[i].kind = "fill" /\ file.chunks[i].blocks > 1
      BY <1>1, <2>1 DEF RefusedForAReason, EndLost
    <3>2. asked \in BOOLEAN
      BY DEF SparseInv, RestOK
    <3>3. IsWhole(s)
      BY <1>1, <3>1, WrittenIs
    <3>4. QED
      BY <1>1, <1>3, <3>1, <3>2, <3>3, NotRead
  <2>3. QED
    BY <2>1, <2>2, ToolsEnd DEF GivenUp
<1>4. QED
  BY <1>2, <1>3

\* simg2simg begins with the count.
LEMMA ToolsStartCutting ==
    ASSUME SparseInv, ToolsInv, StartCutting PROVE ToolsInv'
<1>1. phase = "imported" /\ phase' = "first" /\ UNCHANGED <<s, tmp, raw, lost>>
  BY DEF StartCutting, expanded, written
<1>2. IsWhole(s)
  BY <1>1 DEF ToolsInv, LengthInv, GivenUp
<1>3. tmp = EmptyList
  BY <1>1 DEF SparseInv, TmpOK
<1>4. LengthInv' /\ OutputInv' /\ DamageNoticed'
  BY <1>1, <1>2, <1>3, EmptyIsList DEF ToolsInv, ToolsAgree, LengthInv, OutputInv, DamageNoticed
<1>5. QED
  BY <1>1, <1>4, ToolsUncut DEF ToolsInv, Uncut

-----------------------------------------------------------------------------
(* Cutting to length. *)

\* What a round takes and leaves, a cookie gets back, and a part is given, ends
\* where the image ends.
LEMMA RoundWithin ==
    ASSUME SparseInv, phase \in {"first", "second"},
           NEW top \in Nat, top <= MaxBlocks,
           Within(s.list.cells, top), Within(tmp.cells, top)
    PROVE  LET t == Taken(s.list.cells, limit)
               from == [s.list EXCEPT !.cells = t.cells]
               left == MovedFrom(from, t.n)
               kept == MovedTo(from, t.n, tmp)
               own == MovedTo(from, t.n, EmptyList)
           IN  /\ IsList(left) /\ Within(left.cells, top)
               /\ IsList(kept) /\ Within(kept.cells, top)
               /\ IsList(own) /\ Within(own.cells, top)
               /\ ~t.more => Len(left.cells) = 0
<1> DEFINE t == Taken(s.list.cells, limit)
           from == [s.list EXCEPT !.cells = t.cells]
           left == MovedFrom(from, t.n)
           kept == MovedTo(from, t.n, tmp)
           own == MovedTo(from, t.n, EmptyList)
<1>1. /\ IsTaken(s.list.cells, t) /\ IsList(s.list) /\ IsList(tmp)
      /\ \E b \in Nat : Within(tmp.cells, b) /\ From(s.list.cells, b)
  BY RoundBegins DEF IsCookie
<1>2. PICK b \in Nat : Within(tmp.cells, b) /\ From(s.list.cells, b)
  BY <1>1
<1>3. /\ IsList(EmptyList) /\ Within(EmptyList.cells, b) /\ Within(EmptyList.cells, top)
  BY EmptyIsList
<1> HIDE DEF t
<1>4. Moved(s.list, t, tmp, b, top)
  BY <1>1, <1>2, RoundKeeps
<1>5. Moved(s.list, t, EmptyList, b, top)
  BY <1>1, <1>2, <1>3, RoundKeeps
<1>6. /\ IsList(left) /\ Within(left.cells, top)
      /\ IsList(kept) /\ Within(kept.cells, top)
      /\ ~t.more => Len(left.cells) = 0
  BY <1>4 DEF Moved
<1>7. IsList(own) /\ Within(own.cells, top)
  BY <1>5 DEF Moved
<1>8. QED
  BY <1>6, <1>7 DEF t

\* At the end of a count the cookie gets everything back.
LEMMA BackWithin ==
    ASSUME NEW kept, IsList(kept), NEW left, IsList(left), Len(left.cells) = 0,
           NEW top \in Nat, top <= MaxBlocks, Within(kept.cells, top)
    PROVE  /\ IsList(MovedTo(kept, Len(kept.cells), left))
           /\ Within(MovedTo(kept, Len(kept.cells), left).cells, top)
<1> DEFINE back == MovedTo(kept, Len(kept.cells), left)
<1>1. LeftOf(kept.cells, 0, back.cells)
  BY MovedBack
<1>2. Within(kept.cells, MaxBlocks)
  BY SizesAssumption, WithinMore DEF IsList
<1>3. IsList(back)
  BY <1>2, BackKeeps
<1>4. Len(kept.cells) \in Nat
  BY ListParts
<1> HIDE DEF back
<1>5. Len(back.cells) = Len(kept.cells) /\ \A i \in 1..Len(kept.cells) : back.cells[i] = kept.cells[i]
  <2> DEFINE p == kept.cells
             r == back.cells
             n == Len(p)
  <2>1. Len(r) = n - 0 /\ \A i \in 1..(n - 0) : r[i] = p[0 + i]
    BY <1>1 DEF LeftOf
  <2>2. n \in Nat
    BY <1>4
  <2> HIDE DEF n, p, r
  <2>3. n - 0 = n /\ \A i \in 1..n : 0 + i = i
    BY <2>2
  <2>4. Len(r) = n /\ \A i \in 1..n : r[i] = p[i]
    BY <2>1, <2>3
  <2>5. QED
    BY <2>4 DEF n, p, r
<1>6. Within(back.cells, top)
  BY <1>5 DEF Within
<1>7. QED
  BY <1>3, <1>6 DEF back

\* What it is while it is cut.
LEMMA CuttingWhole ==
    ASSUME SparseInv, ToolsInv, phase \in {"first", "second"}
    PROVE  /\ IsWhole(s) /\ Within(s.list.cells, s.len \div BlockSize)
           /\ Within(tmp.cells, s.len \div BlockSize)
           /\ s.len \div BlockSize \in Nat /\ s.len \div BlockSize <= MaxBlocks
           /\ s = [len |-> s.len, list |-> s.list]
<1>1. IsWhole(s) /\ Within(tmp.cells, s.len \div BlockSize)
  BY DEF ToolsInv, LengthInv, GivenUp
<1>2. IsCookie(s) /\ s.len \in Nat /\ s.len <= MaxBlocks * BlockSize /\ MaxBlocks \in Nat
  BY SizesAssumption DEF SparseInv, CookieOK, IsCookie
<1>3. s.len \div BlockSize \in Nat /\ s.len \div BlockSize <= MaxBlocks
  BY <1>2, WholeAtMost
<1>4. QED
  BY <1>1, <1>2, <1>3 DEF IsWhole, IsCookie

\* A round of the count.
LEMMA ToolsFirstRound ==
    ASSUME SparseInv, FitInv, ToolsInv, FirstRound PROVE ToolsInv'
<1> DEFINE t == Taken(s.list.cells, limit)
           from == [s.list EXCEPT !.cells = t.cells]
           left == MovedFrom(from, t.n)
           kept == MovedTo(from, t.n, tmp)
           back == MovedTo(kept, Len(kept.cells), left)
           top == s.len \div BlockSize
<1>1. /\ phase = "first" /\ parts' = parts /\ raw' = raw /\ lost' = lost
      /\ \/ /\ t.more
            /\ s' = [s EXCEPT !.list = left] /\ tmp' = kept /\ phase' = phase
         \/ /\ ~t.more
            /\ s' = [s EXCEPT !.list = back] /\ tmp' = EmptyList /\ phase' = "second"
  BY DEF FirstRound, expanded, written
<1>2. /\ IsWhole(s) /\ Within(s.list.cells, top) /\ Within(tmp.cells, top)
      /\ top \in Nat /\ top <= MaxBlocks /\ s = [len |-> s.len, list |-> s.list]
  BY <1>1, CuttingWhole
<1>3. /\ IsList(left) /\ Within(left.cells, top)
      /\ IsList(kept) /\ Within(kept.cells, top)
      /\ ~t.more => Len(left.cells) = 0
  <2> HIDE DEF top
  <2>1. QED
    BY <1>1, <1>2, RoundWithin
<1> HIDE DEF left, kept, t
<1>4. ~t.more => IsList(back) /\ Within(back.cells, top)
  BY <1>2, <1>3, BackWithin
<1> HIDE DEF back
<1>5. Within(EmptyList.cells, top)
  BY EmptyIsList
<1>6. /\ s'.len = s.len /\ Within(tmp'.cells, top)
      /\ IsList(s'.list) /\ Within(s'.list.cells, top)
  <2>1. CASE t.more
    <3>1. s' = [len |-> s.len, list |-> left] /\ tmp' = kept
      BY <1>1, <1>2, <2>1
    <3>2. s'.len = s.len /\ s'.list = left
      BY <3>1
    <3>3. QED
      BY <1>3, <3>1, <3>2
  <2>2. CASE ~t.more
    <3>1. s' = [len |-> s.len, list |-> back] /\ tmp' = EmptyList
      BY <1>1, <1>2, <2>2
    <3>2. s'.len = s.len /\ s'.list = back
      BY <3>1
    <3>3. QED
      BY <1>4, <1>5, <2>2, <3>1, <3>2
  <2>3. QED
    BY <2>1, <2>2
<1>7. phase' \in {"first", "second"}
  BY <1>1
<1>8. LengthInv'
  <2>1. IsWhole(s')
    BY <1>2, <1>6 DEF IsWhole, IsList
  <2>2. QED
    BY <1>6, <1>7, <2>1 DEF LengthInv
<1>9. PartsInv'
  <2>1. Len(parts) = 0
    BY <1>1 DEF FitInv, Uncut
  <2>2. \A i \in 1..Len(parts') : FALSE
    BY <1>1, <2>1
  <2>3. QED
    BY <2>2 DEF PartsInv
<1>10. RawInv'
  BY <1>1 DEF ToolsInv, RawInv, Uncut
<1>11. DamageNoticed'
  BY <1>1 DEF ToolsInv, ToolsAgree, DamageNoticed
<1>12. QED
  BY <1>7, <1>8, <1>9, <1>10, <1>11 DEF ToolsInv, OutputInv, FilesInv, ToolsAgree,
                                        ExpandedIsImage, RefusedForAReason

\* A round that makes a part.
LEMMA ToolsSecondRound ==
    ASSUME SparseInv, FitInv, CutInv, ToolsInv, SecondRound PROVE ToolsInv'
<1> DEFINE t == Taken(s.list.cells, limit)
           from == [s.list EXCEPT !.cells = t.cells]
           left == MovedFrom(from, t.n)
           own == MovedTo(from, t.n, EmptyList)
           part == [len |-> s.len, list |-> own]
           back == MovedTo(tmp, Len(tmp.cells), left)
           top == s.len \div BlockSize
<1>0. phase = "second" /\ raw' = raw /\ lost' = lost
  BY DEF SecondRound, expanded, written
<1>1. rounds < count /\ IsList(tmp)
  BY <1>0 DEF CutInv, MakeInv, SparseInv, TmpOK
<1>2. /\ parts' = Append(parts, part)
      /\ \/ t.more /\ s' = [s EXCEPT !.list = left] /\ tmp' = tmp /\ phase' = phase
         \/ ~t.more /\ s' = [s EXCEPT !.list = back] /\ tmp' = EmptyList /\ phase' = "parts"
  BY <1>1 DEF SecondRound
<1>3. /\ IsWhole(s) /\ Within(s.list.cells, top) /\ Within(tmp.cells, top)
      /\ top \in Nat /\ top <= MaxBlocks /\ s = [len |-> s.len, list |-> s.list]
  BY <1>0, CuttingWhole
<1>4. /\ IsList(left) /\ Within(left.cells, top)
      /\ IsList(own) /\ Within(own.cells, top)
      /\ ~t.more => Len(left.cells) = 0
  <2> HIDE DEF top
  <2>1. QED
    BY <1>0, <1>3, RoundWithin
<1>5. part.list = own /\ part.len = s.len
  OBVIOUS
<1> HIDE DEF left, own, t, part
<1>6. ~t.more => IsList(back) /\ Within(back.cells, top)
  BY <1>1, <1>3, <1>4, BackWithin
<1> HIDE DEF back
<1>7. Within(EmptyList.cells, top)
  BY EmptyIsList
<1>8. /\ s'.len = s.len /\ Within(tmp'.cells, top)
      /\ IsList(s'.list) /\ Within(s'.list.cells, top)
  <2>1. CASE t.more
    <3>1. s' = [len |-> s.len, list |-> left] /\ tmp' = tmp
      BY <1>2, <1>3, <2>1
    <3>2. s'.len = s.len /\ s'.list = left
      BY <3>1
    <3>3. QED
      BY <1>3, <1>4, <3>1, <3>2
  <2>2. CASE ~t.more
    <3>1. s' = [len |-> s.len, list |-> back] /\ tmp' = EmptyList
      BY <1>2, <1>3, <2>2
    <3>2. s'.len = s.len /\ s'.list = back
      BY <3>1
    <3>3. QED
      BY <1>6, <1>7, <2>2, <3>1, <3>2
  <2>3. QED
    BY <1>2, <2>1, <2>2
<1>9. phase' \in {"second", "parts"}
  BY <1>0, <1>2
<1>10. LengthInv'
  <2>1. IsWhole(s')
    BY <1>3, <1>8 DEF IsWhole, IsList
  <2>2. QED
    BY <1>8, <1>9, <2>1 DEF LengthInv
<1>11. PartsInv'
  <2>1. IsSeq(parts) /\ Len(parts) \in Nat
    BY DEF FitInv
  <2>2. /\ Len(parts') = Len(parts) + 1
        /\ parts'[Len(parts) + 1] = part
        /\ \A i \in 1..Len(parts) : parts'[i] = parts[i]
    BY <1>2, <2>1, Appended
  <2>3. IsWhole(part) /\ part.len = s.len
    BY <1>3, <1>4, <1>5 DEF IsWhole, IsList
  <2>4. \A i \in 1..Len(parts) : IsWhole(parts[i]) /\ parts[i].len = s.len
    BY <1>0 DEF ToolsInv, PartsInv
  <2>5. \A i \in 1..(Len(parts) + 1) : i \in 1..Len(parts) \/ i = Len(parts) + 1
    BY <2>1
  <2>6. \A i \in 1..Len(parts') : IsWhole(parts'[i]) /\ parts'[i].len = s'.len
    BY <1>8, <2>2, <2>3, <2>4, <2>5
  <2>7. QED
    BY <2>6 DEF PartsInv
<1>12. RawInv'
  BY <1>0 DEF ToolsInv, RawInv
<1>13. DamageNoticed'
  BY <1>0 DEF ToolsInv, ToolsAgree, DamageNoticed
<1>14. QED
  BY <1>9, <1>10, <1>11, <1>12, <1>13 DEF ToolsInv, OutputInv, FilesInv, ToolsAgree,
                                          ExpandedIsImage, RefusedForAReason

-----------------------------------------------------------------------------
(* One part after the other. *)

\* simg2simg writes the parts.
LEMMA ToolsWriteParts ==
    ASSUME SparseInv, FitInv, CutInv, ToolsInv, WriteParts PROVE ToolsInv'
<1>1. /\ phase = "parts" /\ phase' = "expanding" /\ UNCHANGED <<s, wanted, tmp, parts, raw, lost>>
      /\ files' = [i \in 1..Len(parts) |->
                      FileOf(parts[i], FALSE, Wanted(parts[i], FALSE), FALSE)]
  BY DEF WriteParts, cutting, written
<1>2. IsWhole(s) /\ s.list.cells = << >> /\ raw = NoRaw
  BY <1>1 DEF ToolsInv, LengthInv, RawInv, CutInv, GivenUp
<1>3. LengthInv' /\ PartsInv'
  BY <1>1, <1>2 DEF ToolsInv, LengthInv, PartsInv
<1>4. IsSeq(parts) /\ Len(parts) \in Nat
  BY DEF FitInv
<1>5. ToExpand(0)'
  <2> DEFINE g(i) == FileOf(parts[i], FALSE, Wanted(parts[i], FALSE), FALSE)
             n == Len(parts)
  <2>1. files' = [i \in 1..n |-> g(i)]
    BY <1>1
  <2>2. n \in Nat
    BY <1>4
  <2> HIDE DEF g, n
  <2>3. \A i \in 1..n : files'[i] = g(i)
    BY <2>1
  <2>4. IsSeq(files') /\ Len(files') = n
    <3>1. files' = [i \in 1..n |-> files'[i]]
      BY <2>1, <2>3
    <3>2. QED
      BY <2>2, <3>1, Made
  <2>5. n - 0 = n /\ \A i \in 1..n : 0 + i = i
    BY <2>2
  <2>6. \A i \in 1..Len(files') : files'[i] = g(0 + i)
    BY <2>3, <2>4, <2>5
  <2>7. Len(parts') = n /\ \A i : g(i) = FileOf(parts'[i], FALSE, Wanted(parts'[i], FALSE), FALSE)
    BY <1>1 DEF g, n
  <2>8. /\ Len(files') = Len(parts') - 0
        /\ \A i \in 1..Len(files') :
              files'[i] = FileOf(parts'[0 + i], FALSE, Wanted(parts'[0 + i], FALSE), FALSE)
    BY <2>4, <2>5, <2>6, <2>7
  <2>9. QED
    BY <2>4, <2>8 DEF ToExpand
<1>6. Expanded(0)'
  <2>1. raw' = NoRaw
    BY <1>1, <1>2
  <2>2. NoRaw.words = [w \in Words |-> NoRaw.words[w]] /\ \A w \in Words : NoRaw.words[w] = 0
    BY DEF NoRaw
  <2>3. QED
    BY <2>1, <2>2 DEF Expanded
<1>7. FilesInv'
  <2>1. 0 \in Nat /\ 0 <= Len(parts')
    BY <1>1, <1>4
  <2>2. s'.list.cells = << >>
    BY <1>1, <1>2
  <2>3. \E k \in Nat : k <= Len(parts') /\ Expanded(k)' /\ ToExpand(k)'
    BY <1>5, <1>6, <2>1
  <2>4. QED
    BY <2>2, <2>3 DEF FilesInv
<1>8. QED
  BY <1>1, <1>3, <1>7 DEF ToolsInv, OutputInv, RawInv, ToolsAgree, ExpandedIsImage,
                          RefusedForAReason, DamageNoticed, Uncut

\* The first of some files, and the others.
LEMMA TailIs ==
    ASSUME NEW q, IsSeq(q), q # << >>
    PROVE  /\ Head(q) = q[1] /\ 1 \in 1..Len(q)
           /\ IsSeq(Tail(q)) /\ Len(Tail(q)) = Len(q) - 1
           /\ \A i \in 1..(Len(q) - 1) : Tail(q)[i] = q[i + 1]
<1>1. Len(q) # 0 /\ Len(q) \in Nat
  BY Empty DEF IsSeq
<1>2. Head(q) = q[1] /\ 1 \in 1..Len(q)
  BY <1>1, HeadIs
<1>3. q \in Seq({ q[i] : i \in 1..Len(q) })
  BY IsIn
<1>4. /\ Tail(q) \in Seq({ q[i] : i \in 1..Len(q) }) /\ Len(Tail(q)) = Len(q) - 1
      /\ \A i \in 1..(Len(q) - 1) : Tail(q)[i] = q[i + 1]
  BY <1>1, <1>3
<1>5. IsSeq(Tail(q))
  BY <1>4, SeqIs
<1>6. QED
  BY <1>2, <1>4, <1>5

\* What comes of the file of a part.
LEMMA PartRead ==
    ASSUME NEW c, IsWhole(c), c.len <= MaxBlocks * BlockSize,
           NEW f, f = FileOf(c, FALSE, Wanted(c, FALSE), FALSE)
    PROVE  /\ Outcome(f, FALSE) = "imported" /\ f.total * BlockSize = c.len
           /\ \A l \in QueuedAll(CellsOf(f.chunks)) :
                 IsList(l) /\ \A w, v : Tells(Shows(l.cells, w, v), Shows(c.list.cells, w, v))
<1>1. IsOrdered(c.list.cells) /\ IsCells(c.list.cells) /\ c.len \in Nat
  BY DEF IsWhole, IsOrdered
<1>2. Outcome(f, FALSE) = "imported"
  BY WholeOutcome
<1>3. f.total = c.len \div BlockSize /\ f.total * BlockSize = c.len
  <2>1. f.total = c.len \div BlockSize
    BY <1>1, WholeFile
  <2>2. c.len = (c.len \div BlockSize) * BlockSize
    BY WholeIs, BlockSizeAssumption DEF IsWhole
  <2>3. QED
    BY <2>1, <2>2
<1>4. Wanted(c, FALSE) \in 0..Wanted(c, FALSE)
  <2>1. Len(ChunksOf(c)) \in Nat
    BY <1>1, ChunksAre DEF IsSeq
  <2> DEFINE n == Wanted(c, FALSE)
  <2>2. n = Len(ChunksOf(c)) + 0
    BY DEF Wanted
  <2> HIDE DEF n
  <2>3. n \in 0..n
    BY <2>1, <2>2
  <2>4. QED
    BY <2>3 DEF n
<1>5. MaxBlocks \in Nat
  BY SizesAssumption
<1>6. IsFile(f) /\ f.total <= MaxBlocks
  BY <1>1, <1>4, <1>5, FileOfSound
<1>7. Carries(f.chunks, ChunksOf(c))
  BY <1>1, <1>2, <1>4, ImportedWhole
<1> DEFINE q == f.chunks
<1>8. IsSeq(q) /\ \A i \in 1..Len(q) : IsChunk(q[i])
  BY <1>6 DEF IsFile
<1>9. SUFFICES ASSUME NEW l \in QueuedAll(CellsOf(q))
               PROVE  IsList(l) /\ \A w, v : Tells(Shows(l.cells, w, v), Shows(c.list.cells, w, v))
  BY <1>2, <1>3
<1>10. IsList(l)
  BY <1>2, <1>6, ImportSound
<1>11. HasQueued(l, CellsOf(q), Len(q))
  <2>1. CurBlock(q, Len(q) + 1) \in Nat /\ InLine(CellsOf(q), CurBlock(q, Len(q) + 1))
    BY <1>8, CellsOfInLine
  <2>2. CurBlock(q, Len(q) + 1) = f.total
    BY <1>2, ImportedTotal
  <2>3. HasQueued(l, CellsOf(q), Len(CellsOf(q)))
    BY <1>6, <2>1, <2>2, QueuedAllSound
  <2>4. Len(CellsOf(q)) = Len(q)
    <3>1. Len(q) \in Nat
      BY <1>8 DEF IsSeq
    <3> HIDE DEF q
    <3>2. CellsOf(q) = [i \in 1..Len(q) |-> CellOf(q, i)]
      BY DEF CellsOf
    <3>3. QED
      BY <3>1, <3>2, Made
  <2>5. QED
    BY <2>3, <2>4
<1>12. \A w, v : Tells(Shows(l.cells, w, v), Shows(c.list.cells, w, v))
  <2>1. Carries(q, ChunksOf(c))
    BY <1>7
  <2> HIDE DEF q
  <2>2. QED
    BY <1>1, <1>8, <1>11, <2>1, CarriedShows
<1>13. QED
  BY <1>10, <1>12

\* A part is laid over those before it.
LEMMA PartLaid ==
    ASSUME NEW k \in Nat, Expanded(k),
           \A i \in 1..(k + 1) : IsWhole(parts[i]) /\ parts[i].len = s.len,
           \A i \in 1..(k + 1) : \A w, v : Shows(parts[i].list.cells, w, v) => Has(wanted, w, v),
           NEW c, IsCells(c.list.cells), c.len = s.len,
           \A w, v : Tells(Shows(c.list.cells, w, v), Shows(parts[k + 1].list.cells, w, v))
    PROVE  LET r == RawOf(c, raw)
           IN  /\ r.words = [w \in Words |-> r.words[w]]
               /\ \A w \in Words : r.words[w] = 0 \/ Has(wanted, w, r.words[w])
               /\ \A i \in 1..(k + 1) : \A w \in Words : \A v :
                     Shows(parts[i].list.cells, w, v) => IsOrLost(r.words[w], v)
               /\ r.len = s.len
<1> DEFINE r == RawOf(c, raw)
           p(i) == parts[i].list.cells
<1>1. c.len \in Nat
  <2>1. k + 1 \in 1..(k + 1)
    OBVIOUS
  <2>2. QED
    BY <2>1 DEF IsWhole
<1>2. /\ r.len = c.len
      /\ r.words = [w \in Words |-> r.words[w]]
      /\ \A w \in Words : w >= c.len => r.words[w] = 0
      /\ \A w \in Words : w < c.len => Overlaid(c.list.cells, raw, w, r.words[w])
  BY <1>1, RawIs
<1> HIDE DEF r
<1>3. ASSUME NEW i \in 1..(k + 1), NEW w, NEW v, Shows(p(i), w, v) PROVE Has(wanted, w, v)
  BY <1>3
<1>4. ASSUME NEW i \in 1..k, NEW w \in Words, NEW v, Shows(p(i), w, v)
      PROVE  IsOrLost(raw.words[w], v)
  BY <1>4 DEF Expanded
<1>5. \A w, v : Tells(Shows(c.list.cells, w, v), Shows(p(k + 1), w, v))
  OBVIOUS
<1>6. \A w \in Words : raw.words[w] = 0 \/ Has(wanted, w, raw.words[w])
  BY DEF Expanded
<1>7. ASSUME NEW i \in 1..(k + 1), NEW w \in Words, NEW v, w >= c.len PROVE ~Shows(p(i), w, v)
  <2>1. IsWhole(parts[i]) /\ w >= parts[i].len /\ w \in Int
    BY <1>7, WordsAre
  <2>2. QED
    BY <2>1, WholeShows
<1>8. \A i \in 1..(k + 1) : \A w, v : Shows(p(i), w, v) => Has(wanted, w, v)
  BY <1>3
<1>9. k + 1 \in 1..(k + 1) /\ \A i \in 1..(k + 1) : i \in 1..k \/ i = k + 1
  OBVIOUS
<1> HIDE DEF p
<1>10. ASSUME NEW w \in Words
       PROVE  /\ r.words[w] = 0 \/ Has(wanted, w, r.words[w])
              /\ \A i \in 1..(k + 1) : \A v : Shows(p(i), w, v) => IsOrLost(r.words[w], v)
  <2>1. w \in Int
    BY WordsAre
  <2>2. \A v, x : Has(wanted, w, v) /\ Has(wanted, w, x) => v = x
    BY DEF Has
  <2>3. CASE w < c.len /\ Shows(c.list.cells, w, r.words[w])
    <3>1. Has(wanted, w, r.words[w])
      BY <1>5, <1>8, <1>9, <2>3 DEF Tells
    <3>2. QED
      BY <1>8, <2>2, <3>1 DEF IsOrLost
  <2>4. CASE w < c.len /\ r.words[w] = raw.words[w] /\ \A v : Shows(c.list.cells, w, v) => v = 0
    <3>1. r.words[w] = 0 \/ Has(wanted, w, r.words[w])
      BY <1>6, <2>4
    <3>2. ASSUME NEW i \in 1..(k + 1), NEW v, Shows(p(i), w, v)
          PROVE  IsOrLost(r.words[w], v)
      <4>1. CASE i \in 1..k
        <5>1. IsOrLost(raw.words[w], v)
          BY <1>4, <3>2, <4>1 DEF p
        <5>2. QED
          BY <2>4, <5>1
      <4>2. CASE i = k + 1
        <5>1. Has(wanted, w, v)
          BY <1>8, <3>2
        <5>2. CASE ReusesCells
          <6>1. Shows(c.list.cells, w, v)
            BY <1>5, <3>2, <4>2, <5>2 DEF Tells
          <6>2. v = 0
            BY <2>4, <6>1
          <6>3. QED
            BY <2>2, <3>1, <5>1, <6>2 DEF IsOrLost
        <5>3. CASE ~ReusesCells
          BY <2>2, <3>1, <5>1, <5>3 DEF IsOrLost
        <5>4. QED
          BY <5>2, <5>3
      <4>3. QED
        BY <1>9, <4>1, <4>2
    <3>3. QED
      BY <3>1, <3>2
  <2>5. CASE w >= c.len
    <3>1. r.words[w] = 0
      BY <1>2, <2>5
    <3>2. \A i \in 1..(k + 1) : \A v : ~Shows(p(i), w, v)
      BY <1>7, <2>5 DEF p
    <3>3. QED
      BY <3>1, <3>2
  <2>6. QED
    BY <1>1, <1>2, <2>1, <2>3, <2>4, <2>5 DEF Overlaid
<1>11. QED
  BY <1>2, <1>10 DEF r, p

\* One round of simg2img's loop.
LEMMA ToolsExpandNext ==
    ASSUME SparseInv, FitInv, ImageInv, ToolsInv, ExpandNext PROVE ToolsInv'
<1> DEFINE f == Head(files)
<1>1. /\ phase = "expanding" /\ files # << >>
      /\ UNCHANGED <<s, wanted, tmp, parts, lost, asked>>
  BY DEF ExpandNext, cutting, written
<1>2. s.list.cells = << >> /\ \E k \in Nat : k <= Len(parts) /\ Expanded(k) /\ ToExpand(k)
  BY <1>1 DEF ToolsInv, FilesInv
<1>3. PICK k \in Nat : k <= Len(parts) /\ Expanded(k) /\ ToExpand(k)
  BY <1>2
<1>4. IsSeq(parts) /\ Len(parts) \in Nat
  BY DEF FitInv
<1>5. /\ f = files[1] /\ 1 \in 1..Len(files)
      /\ IsSeq(Tail(files)) /\ Len(Tail(files)) = Len(files) - 1
      /\ \A i \in 1..(Len(files) - 1) : Tail(files)[i] = files[i + 1]
      /\ Len(files) = Len(parts) - k /\ Len(files) \in Nat
  BY <1>1, <1>3, TailIs DEF ToExpand, IsSeq
<1>6. k + 1 \in 1..Len(parts) /\ k + 1 <= Len(parts) /\ k + 1 \in Nat /\ k + 1 > 0
      /\ \A i \in 1..(k + 1) : i \in 1..Len(parts)
  BY <1>3, <1>4, <1>5
<1> DEFINE part == parts[k + 1]
<1>7. \A i \in 1..Len(parts) : IsWhole(parts[i]) /\ parts[i].len = s.len
  BY <1>1 DEF ToolsInv, PartsInv
<1>8. f = FileOf(part, FALSE, Wanted(part, FALSE), FALSE)
  BY <1>3, <1>5 DEF ToExpand
<1>9. IsWhole(part) /\ part.len = s.len /\ part.len <= MaxBlocks * BlockSize /\ s.len \in Nat
  BY <1>6, <1>7 DEF SparseInv, CookieOK, IsCookie
<1> HIDE DEF f, part
<1>10. /\ Outcome(f, FALSE) = "imported" /\ f.total * BlockSize = s.len
       /\ \A l \in QueuedAll(CellsOf(f.chunks)) :
             IsList(l) /\ \A w, v : Tells(Shows(l.cells, w, v), Shows(part.list.cells, w, v))
  BY <1>8, <1>9, PartRead
<1>11. PICK l \in QueuedAll(CellsOf(f.chunks)) :
         /\ raw' = RawOf([len |-> f.total * BlockSize, list |-> l], raw)
         /\ files' = Tail(files)
         /\ phase' = IF Len(files) = 1 THEN "expanded" ELSE phase
  BY <1>10 DEF ExpandNext, f
<1> DEFINE c == [len |-> s.len, list |-> l]
<1>12. c.list = l /\ c.len = s.len
  OBVIOUS
<1>13. raw' = RawOf(c, raw)
  BY <1>10, <1>11
<1> HIDE DEF c
<1>14. /\ IsCells(c.list.cells)
       /\ \A w, v : Tells(Shows(c.list.cells, w, v), Shows(parts[k + 1].list.cells, w, v))
  BY <1>10, <1>12 DEF part, IsList, IsOrdered
<1>15. IsImage(wanted) /\ ShownAs(wanted, s.list.cells, tmp.cells, parts)
  BY <1>1 DEF ImageInv, GivenUp
<1>16. \A i \in 1..Len(parts) : \A w, v : Shows(parts[i].list.cells, w, v) => Has(wanted, w, v)
  BY <1>15 DEF ShownAs, Spread, Tells
<1>17. /\ raw'.words = [w \in Words |-> raw'.words[w]]
       /\ \A w \in Words : raw'.words[w] = 0 \/ Has(wanted, w, raw'.words[w])
       /\ \A i \in 1..(k + 1) : \A w \in Words : \A v :
             Shows(parts[i].list.cells, w, v) => IsOrLost(raw'.words[w], v)
       /\ raw'.len = s.len
  <2>1. /\ \A i \in 1..(k + 1) : IsWhole(parts[i]) /\ parts[i].len = s.len
        /\ \A i \in 1..(k + 1) : \A w, v : Shows(parts[i].list.cells, w, v) => Has(wanted, w, v)
    BY <1>6, <1>7, <1>16
  <2> DEFINE r == RawOf(c, raw)
  <2>2. c.len = s.len /\ Expanded(k)
    BY <1>3, <1>12
  <2>3. /\ r.words = [w \in Words |-> r.words[w]]
        /\ \A w \in Words : r.words[w] = 0 \/ Has(wanted, w, r.words[w])
        /\ \A i \in 1..(k + 1) : \A w \in Words : \A v :
              Shows(parts[i].list.cells, w, v) => IsOrLost(r.words[w], v)
        /\ r.len = s.len
    BY <1>14, <2>1, <2>2, PartLaid
  <2>4. raw' = r
    BY <1>13
  <2> HIDE DEF r
  <2>5. QED
    BY <2>3, <2>4
<1>18. phase' \in {"expanding", "expanded"}
  BY <1>1, <1>11
<1>19. LengthInv' /\ PartsInv'
  <2>1. IsWhole(s)
    BY <1>1 DEF ToolsInv, LengthInv, GivenUp
  <2>2. QED
    BY <1>1, <1>7, <1>18, <2>1 DEF LengthInv, PartsInv
<1>20. FilesInv'
  <2>1. Expanded(k + 1)'
    BY <1>1, <1>17 DEF Expanded, IsOrLost
  <2>2. ToExpand(k + 1)'
    <3>1. IsSeq(files') /\ Len(files') = Len(parts) - (k + 1) /\ Len(files') = Len(files) - 1
      BY <1>3, <1>4, <1>5, <1>11
    <3>2. ASSUME NEW i \in 1..Len(files')
          PROVE  files'[i] = FileOf(parts[k + 1 + i], FALSE, Wanted(parts[k + 1 + i], FALSE), FALSE)
      <4>1. i \in 1..(Len(files) - 1) /\ i + 1 \in 1..Len(files) /\ k + (i + 1) = k + 1 + i
        BY <1>3, <1>5, <3>1
      <4>2. files'[i] = files[i + 1]
        BY <1>5, <1>11, <4>1
      <4>3. files[i + 1] = FileOf(parts[k + (i + 1)], FALSE, Wanted(parts[k + (i + 1)], FALSE), FALSE)
        BY <1>3, <4>1 DEF ToExpand
      <4>4. QED
        BY <4>1, <4>2, <4>3
    <3>3. QED
      BY <1>1, <3>1, <3>2 DEF ToExpand
  <2>3. \E j \in Nat : j <= Len(parts') /\ Expanded(j)' /\ ToExpand(j)'
    BY <1>1, <1>6, <2>1, <2>2
  <2>4. s'.list.cells = << >>
    BY <1>1, <1>2
  <2>5. QED
    BY <2>3, <2>4 DEF FilesInv
<1>21. ExpandedIsImage'
  <2>1. SUFFICES ASSUME phase' = "expanded"
                 PROVE  /\ DOMAIN raw'.words = Words
                        /\ \A w \in Words : IsOrLost(raw'.words[w],
                                               IF wanted[w] = Hole THEN 0 ELSE wanted[w])
    BY <1>1, <1>17 DEF ExpandedIsImage, IsOrLost
  <2>2. k + 1 = Len(parts)
    <3>1. Len(files) = 1
      BY <1>1, <1>11, <2>1
    <3>2. Len(files) = Len(parts) - k
      BY <1>5
    <3> DEFINE n == Len(parts)
    <3>3. n \in Nat /\ 1 = n - k
      BY <1>4, <3>1, <3>2
    <3> HIDE DEF n
    <3>4. k + 1 = n
      BY <3>3
    <3>5. QED
      BY <3>4 DEF n
  <2>3. ASSUME NEW w \in Words
        PROVE  IsOrLost(raw'.words[w], IF wanted[w] = Hole THEN 0 ELSE wanted[w])
    <3>1. raw'.words[w] = 0 \/ Has(wanted, w, raw'.words[w])
      BY <1>17, <2>3
    <3>2. CASE wanted[w] = Hole
      BY <3>1, <3>2 DEF Has, IsOrLost
    <3>3. CASE wanted[w] # Hole /\ ~ReusesCells
      BY <3>1, <3>3 DEF Has, IsOrLost
    <3>4. CASE wanted[w] # Hole /\ ReusesCells
      <4>1. Has(wanted, w, wanted[w])
        BY <2>3, <3>4 DEF Has
      <4>2. Spread(s.list.cells, tmp.cells, parts, w, wanted[w])
        BY <1>15, <3>4, <4>1 DEF ShownAs, Tells
      <4>3. ~Shows(s.list.cells, w, wanted[w])
        BY <1>2, Empty, NothingShown
      <4>4. ~Shows(tmp.cells, w, wanted[w])
        <5>1. tmp = EmptyList
          BY <1>1 DEF SparseInv, TmpOK
        <5>2. QED
          BY <5>1, Empty, NothingShown DEF EmptyList
      <4>5. PICK i \in 1..Len(parts) : Shows(parts[i].list.cells, w, wanted[w])
        BY <4>2, <4>3, <4>4 DEF Spread
      <4>6. IsOrLost(raw'.words[w], wanted[w])
        BY <1>17, <2>2, <2>3, <4>5
      <4>7. QED
        BY <3>4, <4>6
    <3>5. QED
      BY <3>2, <3>3, <3>4
  <2>4. QED
    BY <1>17, <2>3
<1>22. DamageNoticed'
  BY <1>1 DEF ToolsInv, ToolsAgree, DamageNoticed
<1>23. QED
  BY <1>18, <1>19, <1>20, <1>21, <1>22 DEF ToolsInv, OutputInv, RawInv, ToolsAgree,
                                           RefusedForAReason, Uncut

-----------------------------------------------------------------------------
(* The tools agree. *)

\* Nothing is done.
LEMMA ToolsStill == ToolsInv /\ UNCHANGED vars => ToolsInv'
<1> SUFFICES ASSUME ToolsInv, UNCHANGED vars PROVE ToolsInv'
  OBVIOUS
<1>1. UNCHANGED <<s, phase, added, wanted, file, asked, lost, tmp, parts, files, raw>>
  BY DEF vars, written, cutting, expanded
<1>2. LengthInv' /\ PartsInv' /\ OutputInv' /\ RawInv'
  BY <1>1 DEF ToolsInv, LengthInv, PartsInv, OutputInv, RawInv, EndsWithin, EndLost
<1>3. FilesInv'
  <2>1. \A k : (Expanded(k)' <=> Expanded(k)) /\ (ToExpand(k)' <=> ToExpand(k))
    BY <1>1 DEF Expanded, ToExpand
  <2>2. QED
    BY <1>1, <2>1 DEF ToolsInv, FilesInv
<1>4. ToolsAgree'
  BY <1>1 DEF ToolsInv, ToolsAgree, ExpandedIsImage, RefusedForAReason, EndLost, DamageNoticed
<1>5. QED
  BY <1>2, <1>3, <1>4 DEF ToolsInv

\* Every call keeps what the tools rely on.
LEMMA ToolsNext ==
    ASSUME SparseInv, FitInv, CutInv, ImageInv, ToolsInv, Next
    PROVE  ToolsInv'
<1>1. CASE AddFill
  BY <1>1, ToolsAddFill
<1>2. CASE AddData \/ AddFd \/ AddFile
  BY <1>2, ToolsAddFrom DEF AddData, AddFd, AddFile, CellTypes
<1>3. CASE ReadRaw
  BY <1>3, ToolsReadRaw
<1>4. CASE Write
  BY <1>4, ToolsWrite
<1>5. CASE WriteFails
  BY <1>5, ToolsWriteFails
<1>6. CASE WriteAborts
  BY <1>6, ToolsWriteAborts
<1>7. CASE WriteRaw
  BY <1>7, ToolsWriteRaw
<1>8. CASE Import
  BY <1>8, ToolsImport
<1>9. CASE Append2simg
  BY <1>9, ToolsAppend
<1>10. CASE StartCutting
  BY <1>10, ToolsStartCutting
<1>11. CASE FirstRound
  BY <1>11, ToolsFirstRound
<1>12. CASE SecondRound
  BY <1>12, ToolsSecondRound
<1>13. CASE WriteParts
  BY <1>13, ToolsWriteParts
<1>14. CASE ExpandNext
  BY <1>14, ToolsExpandNext
<1>15. QED
  BY <1>1, <1>2, <1>3, <1>4, <1>5, <1>6, <1>7, <1>8, <1>9, <1>10, <1>11, <1>12, <1>13, <1>14
     DEF Next

\* The tools read what the library writes (sparse.c:72-150, sparse_read.c:88-447,
\* img2simg.c, simg2img.c:55-89, simg2simg.c:60-108, append2simg.c:60-150):
\* simg2img makes the image again, from its file or from simg2simg's parts
\* laid over one another, with zeros where a block was lost in a queue; no file
\* is refused of which everything was written, but for its checksum, or for an
\* end that was lost in a queue; none that is damaged is taken for a whole one;
\* and the writer's assertion stops img2simg only if the image's last block
\* lacks something.
THEOREM ToolsDoAgree == Spec => []ToolsAgree
<1>1. SparseInv /\ FitInv /\ CutInv /\ ImageInv /\ [Next]_vars => ImageInv'
  <2>1. CASE Next
    BY <2>1, ImageNext DEF ImageStep
  <2>2. CASE UNCHANGED vars
    BY <2>2, ImageStill
  <2>3. QED
    BY <2>1, <2>2
<1>2. SparseInv /\ FitInv /\ CutInv /\ ImageInv /\ ToolsInv /\ [Next]_vars => ToolsInv'
  <2>1. CASE Next
    BY <2>1, ToolsNext
  <2>2. CASE UNCHANGED vars
    BY <2>2, ToolsStill
  <2>3. QED
    BY <2>1, <2>2
<1>3. ToolsInv => ToolsAgree
  BY DEF ToolsInv
<1>4. Spec => []ImageInv
  BY <1>1, ImageBegins, SparseInductive, FitInductive, CutInductive, PTL DEF Spec
<1>5. QED
  BY <1>2, <1>3, <1>4, ToolsBegin, SparseInductive, FitInductive, CutInductive, PTL DEF Spec
===============================================================================
