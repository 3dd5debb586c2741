----------------------------- MODULE Ext4Groups -----------------------------
(***************************************************************************)
(* The geometry of an ext4 image and the block and inode allocator of       *)
(* make_ext4fs (ext4_utils: make_ext4fs.c, ext4_utils.c, allocate.c).       *)
(*                                                                         *)
(* Pure operators.  bgs maps the numbers of the block groups to records;    *)
(* a bitmap is the set of the bits that are 1.  An allocation is a record   *)
(* of its two lists of regions, the list.last pointer and the iterator,     *)
(* both positions in the list (0: NULL).                                    *)
(***************************************************************************)
EXTENDS Integers, SequencesExt, FiniteSetsExt

CONSTANTS
    BlockBytes,     \* -b
    BlocksPerGroup, \* -g
    InodeBytes,     \* -I
    DescBytes,      \* size of a group descriptor
    Growth          \* the factor resize_inode leaves room for: 1024

AllocateFailed == -1

DivRoundUp(n, m) == (n + m - 1) \div m

-----------------------------------------------------------------------------
\* ext4_bg_has_super_block(): sparse_super.
HasSuper(g) ==
    \/ g \in {0, 1}
    \/ \E b \in {3, 5, 7}, k \in 1..g : g = b^k

\* compute_inodes_per_group(), compute_bg_desc_reserve_blocks(),
\* ext4_create_fs_aux_info(): what follows from the length in blocks and -i.  A last
\* group too small for its own header is left out.
Geometry(blocks, count) ==
    LET n == DivRoundUp(blocks, BlocksPerGroup)
        perBlock == BlockBytes \div InodeBytes
        ipg == DivRoundUp(DivRoundUp(count, n), perBlock) * perBlock
        desc == DivRoundUp(n * DescBytes, BlockBytes)
        reserve == Min({ DivRoundUp(n * Growth * DescBytes, BlockBytes) - desc,
                         BlockBytes \div 4 })
        table == DivRoundUp(ipg * InodeBytes, BlockBytes)
        last == blocks % BlocksPerGroup
        header == 2 + table + (IF HasSuper(n - 1) THEN 1 + desc + reserve ELSE 0)
        drop == last > 0 /\ last < header
    IN  [groups  |-> IF drop THEN n - 1 ELSE n,
         blocks  |-> IF drop THEN blocks - last ELSE blocks,
         ipg     |-> ipg,
         desc    |-> desc,
         reserve |-> reserve,
         table   |-> table]

\* The blocks between the start of a group and its bitmaps.
SuperBlocks(geo, g) == IF HasSuper(g) THEN 1 + geo.desc + geo.reserve ELSE 0
HeaderBlocks(geo, g) == SuperBlocks(geo, g) + 2 + geo.table

-----------------------------------------------------------------------------
\* reserve_blocks(): a run of bits, of which none may be set.
MayReserve(bg, start, num) ==
    /\ num <= bg.free
    /\ (start..(start + num - 1)) \cap bg.used = {}

\* As it is not: one block more is passed over.
ReserveOneMore(bg, start, num) ==
    [bg EXCEPT !.used = @ \cup (start..(start + num - 1)),
               !.free = @ - num,
               !.first = IF @ = start THEN start + num + 1 ELSE @]

Reserve(bg, start, num) ==
    [bg EXCEPT !.used = @ \cup (start..(start + num - 1)),
               !.free = @ - num,
               !.first = IF @ = start THEN start + num ELSE @]

\* As it is not: the first free block is left where it was.
FreeBlocksBehind(bg, num) ==
    [bg EXCEPT !.used = @ \ ((bg.first - num)..(bg.first - 1)),
               !.free = @ + num]

\* free_blocks(): the last num blocks before the first free one.
FreeBlocks(bg, num) ==
    [bg EXCEPT !.used = @ \ ((bg.first - num)..(bg.first - 1)),
               !.free = @ + num,
               !.first = @ - num]

\* init_bg(): the header is reserved, and what lies behind the end of the image.
InitBg(geo, g) ==
    LET empty == [firstBlock |-> g * BlocksPerGroup, used |-> {},
                  free |-> BlocksPerGroup, first |-> 0, inodes |-> {},
                  freeInodes |-> geo.ipg, firstInode |-> 1, dirs |-> 0,
                  table |-> FALSE]
        bg == Reserve(empty, 0, HeaderBlocks(geo, g))
        overrun == empty.firstBlock + BlocksPerGroup - geo.blocks
        start == BlocksPerGroup - overrun
    IN  IF overrun > 0 /\ MayReserve(bg, start, overrun)
        THEN Reserve(bg, start, overrun)
        ELSE bg

\* As it is not: the last free block of a group cannot be had.
AllocateButLast(bgs, len, g) ==
    IF bgs[g].free > len /\ MayReserve(bgs[g], bgs[g].first, len)
    THEN [block |-> bgs[g].firstBlock + bgs[g].first,
          bgs   |-> [bgs EXCEPT ![g] = Reserve(@, bgs[g].first, len)]]
    ELSE [block |-> AllocateFailed, bgs |-> bgs]

\* ext4_allocate_blocks_from_block_group().
AllocateFromGroup(bgs, len, g) ==
    IF bgs[g].free >= len /\ MayReserve(bgs[g], bgs[g].first, len)
    THEN [block |-> bgs[g].firstBlock + bgs[g].first,
          bgs   |-> [bgs EXCEPT ![g] = Reserve(@, bgs[g].first, len)]]
    ELSE [block |-> AllocateFailed, bgs |-> bgs]

\* allocate_block(): from the first group that has one.
AllocateBlock(bgs) ==
    LET have == { g \in DOMAIN bgs : bgs[g].free >= 1 }
    IN  IF have = {} THEN [block |-> AllocateFailed, bgs |-> bgs]
                     ELSE AllocateFromGroup(bgs, 1, Min(have))

\* The group ext4_allocate_best_fit_partial() finds, and its free blocks.
FoundGroup(bgs, len) ==
    LET look(found, g) ==
            LET n == bgs[g].free
            IN  IF \/ len <= n /\ (found.n = 0 \/ n < found.n)
                   \/ len > found.n /\ n > found.n
                THEN [g |-> g, n |-> n] ELSE found
    IN  FoldLeft(look, [g |-> 0, n |-> 0],
                 [i \in 1..Cardinality(DOMAIN bgs) |-> i - 1])

\* ext4_allocate_best_fit(): a region per round until there are enough blocks.
\* What the earlier rounds took is not given back if a later one fails.
BestFit(bgs, len) ==
    LET round(acc, i) ==
            LET found == FoundGroup(acc.bgs, acc.left)
                n == Min({acc.left, found.n})
                a == AllocateFromGroup(acc.bgs, n, found.g)
            IN  IF acc.left = 0 \/ ~acc.ok THEN acc
                ELSE IF n = 0 \/ a.block = AllocateFailed
                THEN [acc EXCEPT !.ok = FALSE]
                ELSE [ok   |-> TRUE,
                      bgs  |-> a.bgs,
                      left |-> acc.left - n,
                      list |-> Append(acc.list,
                                      [block |-> a.block, len |-> n, bg |-> found.g])]
    IN  FoldLeft(round, [ok |-> TRUE, bgs |-> bgs, left |-> len, list |-> << >>],
                 [i \in 1..(Cardinality(DOMAIN bgs) + 1) |-> i])

\* allocate_blocks(): list.last is the first region, however many there are.
Allocation(list) == [list |-> list, last |-> 1, iter |-> 1, oob |-> << >>]

\* reduce_allocation(alloc, 1): the block comes off the region list.last names.
\* If that was its only one and there is none before it, the list is emptied.
ReduceByOne(bgs, alloc) ==
    LET reg == alloc.list[alloc.last]
        given == [bgs EXCEPT ![reg.bg] = FreeBlocks(@, 1)]
    IN  [bgs   |-> given,
         alloc |-> IF reg.len > 1
                   THEN [alloc EXCEPT !.list[alloc.last].len = @ - 1]
                   ELSE IF alloc.last > 1
                   THEN [alloc EXCEPT !.list = SubSeq(@, 1, alloc.last - 1)]
                   ELSE [alloc EXCEPT !.list = << >>, !.last = 0, !.iter = 0]]

\* reserve_oob_blocks(alloc, 1) of a fresh allocation: split_allocation() cuts
\* the first block off.  Where the first region is that block, it returns the
\* region behind it and leaves the iterator alone: everything but the first
\* block goes to the other list.
ReserveOobBlock(alloc) ==
    LET reg == Head(alloc.list)
        block == [reg EXCEPT !.len = 1]
        rest == [reg EXCEPT !.block = @ + 1, !.len = @ - 1]
    IN  IF reg.len > 1
        THEN [alloc EXCEPT !.list = <<rest>> \o Tail(@), !.last = 0,
                           !.oob = <<block>>]
        ELSE [alloc EXCEPT !.list = <<reg>>, !.oob = Tail(alloc.list)]

\* get_block() of every block from the iterator on.
BlocksOf(list) ==
    FoldLeft(LAMBDA acc, reg : acc \o [i \in 1..reg.len |-> reg.block + i - 1],
             << >>, list)

-----------------------------------------------------------------------------
\* As it is not: an inode number is counted from the start of its group.
AllocateInodeInGroup(bgs, ipg) ==
    LET have == { g \in DOMAIN bgs : bgs[g].freeInodes >= 1 }
        g == Min(have)
    IN  IF have = {} THEN [ino |-> AllocateFailed, bgs |-> bgs]
        ELSE [ino |-> bgs[g].firstInode,
              bgs |-> [bgs EXCEPT ![g].inodes = @ \cup {bgs[g].firstInode},
                                  ![g].firstInode = @ + 1,
                                  ![g].freeInodes = @ - 1]]

\* reserve_inodes(): the next num inodes of a group.
ReserveInodes(bg, num) ==
    [bg EXCEPT !.inodes = @ \cup (bg.firstInode..(bg.firstInode + num - 1)),
               !.firstInode = @ + num,
               !.freeInodes = @ - num]

\* allocate_inode(): from the first group that has one.
AllocateInode(bgs, ipg) ==
    LET have == { g \in DOMAIN bgs : bgs[g].freeInodes >= 1 }
        g == Min(have)
    IN  IF have = {} THEN [ino |-> AllocateFailed, bgs |-> bgs]
        ELSE [ino |-> g * ipg + bgs[g].firstInode,
              bgs |-> [bgs EXCEPT ![g] = ReserveInodes(@, 1)]]

GroupOfInode(ino, ipg) == (ino - 1) \div ipg
=============================================================================
