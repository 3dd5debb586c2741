---------------------------- MODULE BackedBlocks ----------------------------
(***************************************************************************)
(* The list behind a sparse file cookie (libsparse/backed_block.c): what is *)
(* to be written at which block, in order of block number.                  *)
(*                                                                         *)
(* A list is a record: its cells in order, the last_used hint, and whether  *)
(* the cell the hint points at has been freed.  The hint is the position of *)
(* the cell (0: NULL); when a merge has freed that cell it is the position  *)
(* of the cell it was merged into, whose successor the dead cell still      *)
(* names.                                                                   *)
(*                                                                         *)
(* Lengths and offsets are in words of four bytes, as fill values are.      *)
(*                                                                         *)
(* Whether a freed cell is the next that calloc() hands out (ReusesCells)   *)
(* is the C library's choice: some give back at once what was freed last;   *)
(* a glibc whose calloc() passes by the cache that free() fills does not.   *)
(***************************************************************************)
EXTENDS Integers, SequencesExt, FiniteSetsExt

CONSTANTS
    BlockSize,      \* words in a block
    LenWidth,       \* lengths are unsigned ints: they wrap at this many words
    ReusesCells     \* the allocator hands out the cell freed last first

ASSUME BlockSizeAssumption == BlockSize \in Nat \ {0}
ASSUME LenWidthAssumption  == LenWidth \in Nat \ {0}
ASSUME ReusesAssumption    == ReusesCells \in BOOLEAN

Hole == -1

\* A cell: type, first block, length, and where its content comes from.
\* src is the fill value, or what the pointer, path or descriptor stands for:
\* its name and the words behind it, from offset 0.
Cell(type, src, off, len, block) ==
    [type |-> type, src |-> src, off |-> off, len |-> len, block |-> block]

EmptyList == [cells |-> << >>, hint |-> 0, dangling |-> FALSE]

DivUp(n) == (n + BlockSize - 1) \div BlockSize
AlignUp(n) == DivUp(n) * BlockSize
AlignDown(n) == n - (n % BlockSize)

\* The blocks up to the end of a cell.
EndBlock(bb) == bb.block + DivUp(bb.len)

-----------------------------------------------------------------------------
\* As it is not: fill values are not compared.
MergeableFills(a, b) ==
    /\ a.type = b.type
    /\ a.block + a.len \div BlockSize = b.block
    /\ a.type # "data"
    /\ a.type # "fill" => a.src = b.src /\ a.off + a.len = b.off

\* merge_bb(): may b, which follows a, become part of a?
Mergeable(a, b) ==
    /\ a.type = b.type
    /\ a.block + a.len \div BlockSize = b.block
    /\ a.type # "data"
    /\ a.src = b.src
    /\ a.type \in {"fd", "file"} => a.off + a.len = b.off

\* The cells after cell i has swallowed its successor, if it may.
MergeAt(cells, i) ==
    IF i \in 1..(Len(cells) - 1) /\ Mergeable(cells[i], cells[i + 1])
    THEN RemoveAt([cells EXCEPT ![i].len = (@ + cells[i + 1].len) % LenWidth],
                  i + 1)
    ELSE cells

\* The cell after which the search of queue_bb() ends, started at one.
Before(cells, start, block) ==
    Min({ i \in start..Len(cells) :
            i = Len(cells) \/ cells[i + 1].block >= block })

\* As it is not: the hint is not taken back when its cell is merged away.
InsertFromKeepingHint(list, start, bb) ==
    LET p == Before(list.cells, start, bb.block)
    IN  [cells |-> MergeAt(MergeAt(InsertAt(list.cells, p + 1, bb), p + 1), p),
         hint |-> p + 1, dangling |-> FALSE]

\* queue_bb() once the search has been started: insert, merge with the
\* successor, merge into the predecessor.
InsertFrom(list, start, bb) ==
    LET p == Before(list.cells, start, bb.block)
        inserted == MergeAt(InsertAt(list.cells, p + 1, bb), p + 1)
        merged == MergeAt(inserted, p)
        freed == Len(merged) < Len(inserted)
    IN  [cells |-> merged, hint |-> IF freed THEN p ELSE p + 1,
         dangling |-> freed]

\* As it is not: the search starts at the hint whatever its block number is.
StartAtHint(list, bb) ==
    IF list.hint # 0 /\ ~list.dangling THEN list.hint ELSE 1

\* The search starts at the hint if that is a live cell with a lower block
\* number.  A freed cell has been handed out again for bb if ReusesCells.
StartOf(list, bb) ==
    IF /\ list.hint # 0
       /\ ~list.dangling
       /\ bb.block > list.cells[list.hint].block
    THEN list.hint
    ELSE 1

\* Read after free: the block number left in the dead cell is lower, and bb
\* belongs right behind it.  Then bb hangs on the dead cell and is lost.
MayBeLost(list, bb) ==
    /\ list.dangling
    /\ ~ReusesCells
    /\ Before(list.cells, list.hint, bb.block) = list.hint

\* queue_bb() of a cell that goes in front: the hint is left alone.  If it
\* points at a freed cell, that cell has been handed out again for bb.
Prepended(list, bb) ==
    [cells    |-> <<bb>> \o list.cells,
     hint     |-> CASE list.hint = 0 -> 0
                    [] list.hint # 0 /\ list.dangling /\ ReusesCells -> 1
                    [] OTHER -> list.hint + 1,
     dangling |-> list.dangling /\ ~ReusesCells]

\* queue_bb(): the lists it may leave.
Queued(list, bb) ==
    IF list.cells = << >>
    THEN { [list EXCEPT !.cells = <<bb>>] }
    ELSE IF Head(list.cells).block > bb.block
    THEN { Prepended(list, bb) }
    ELSE { InsertFrom(list, StartOf(list, bb), bb) }
            \cup { l \in {list} : MayBeLost(list, bb) }

\* backed_block_split(): cell i cut after at most max words, at a block.
Split(cells, i, max) ==
    LET bb == cells[i]
        cut == AlignDown(max)
    IN  IF bb.len <= cut
        THEN cells
        ELSE InsertAt([cells EXCEPT ![i].len = cut], i + 1,
                      [bb EXCEPT !.len = bb.len - cut,
                                 !.block = @ + cut \div BlockSize,
                                 !.off = IF bb.type = "fill" THEN 0
                                                             ELSE @ + cut])

\* backed_block_list_move() of the first n cells: they go behind the first
\* cell of the other list, or behind the last one with a lower block number.
MovedFrom(from, n) ==
    IF n = 0 THEN from
    ELSE [EmptyList EXCEPT !.cells = SubSeq(from.cells, n + 1, Len(from.cells))]

\* As it is not: in front of the other list.
MovedInFront(from, n, to) ==
    IF n = 0 THEN to
    ELSE [EmptyList EXCEPT !.cells = SubSeq(from.cells, 1, n) \o to.cells]

MovedTo(from, n, to) ==
    IF n = 0 THEN to
    ELSE LET run == SubSeq(from.cells, 1, n)
             at == IF to.cells = << >> THEN 0
                   ELSE Before(to.cells, 1, Head(run).block + 1)
         IN  [EmptyList EXCEPT
                !.cells = SubSeq(to.cells, 1, at) \o run
                              \o SubSeq(to.cells, at + 1, Len(to.cells))]

-----------------------------------------------------------------------------
\* The content a list stands for.

\* Word i of what a cell is made from; its last block is padded with zeros.
CellWord(bb, i) ==
    CASE bb.type = "fill" -> bb.src
      [] bb.type # "fill" /\ i < bb.len -> bb.src.data[bb.off + i + 1]
      [] OTHER -> 0

\* The words of an image that a cell covers.
Covered(bb) == (bb.block * BlockSize)..(EndBlock(bb) * BlockSize - 1)

\* What a cell puts there.
Placed(bb) == [w \in Covered(bb) |-> CellWord(bb, w - bb.block * BlockSize)]

\* A cell laid over an image.
Lay(image, bb) ==
    LET new == Placed(bb)
    IN  [w \in DOMAIN image \cup DOMAIN new |->
            IF w \in DOMAIN new THEN new[w] ELSE image[w]]
=============================================================================
