------------------------------ MODULE Ext4Maker ------------------------------
(***************************************************************************)
(* make_ext4fs: a file system image is laid out in memory, block by block,  *)
(* from a directory tree, and handed to libsparse                           *)
(* (ext4_utils: make_ext4fs.c, ext4_utils.c, contents.c, extent.c,          *)
(* indirect.c).                                                             *)
(*                                                                         *)
(* The tree is read while the image is made: build_directory_structure()    *)
(* calls itself for each directory, and stack holds its frames.  One action *)
(* is one inode made, or one step of make_ext4fs_internal().                *)
(*                                                                         *)
(* error() ends the program (-f is not modelled).  Sizes of names are in    *)
(* words of four bytes, those of files in blocks.                           *)
(***************************************************************************)
EXTENDS Ext4Groups

CONSTANTS
    ImageLens,      \* -l, in blocks
    InodeCounts,    \* -i
    JournalLens,    \* -j, in blocks; 0: -J
    Entries,        \* what may be found in a directory
    MaxEntries,     \* bound: entries of a directory
    MaxDepth,       \* bound: directories within one another
    MaxInodes,      \* bound: inodes of files, links and directories
    LabelRoom,      \* room for attributes within an inode
    BlockRoom,      \* room for attributes in a block
    LabelSize,      \* size of a security context's attribute
    CapSize,        \* size of a capability attribute
    U32             \* unsigned integers wrap at this

RootIno == 2
ResizeIno == 7
JournalIno == 8

BlockWords == BlockBytes \div 4

VARIABLES
    phase,      \* what comes next, or how it ended
    why,        \* what error() was called for
    journal,    \* info.journal_blocks
    geo,        \* the geometry
    bgs,        \* aux_info.bgs
    inodes,     \* the inodes filled in so far
    image,      \* ext4_sparse_file: what is queued for each block
    clash,      \* a block has been queued twice
    stack,      \* the frames of build_directory_structure()
    sb          \* the counts of the superblock and the group descriptors

vars == <<phase, why, journal, geo, bgs, inodes, image, clash, stack, sb>>

\* The contents queued for a run of blocks.
Run(what, ino, blocks) == [i \in 1..Len(blocks) |-> <<blocks[i], <<what, ino, i>>>>]

\* sparse_file_add_data() and sparse_file_add_file() of each of the blocks.
Queue(runs) ==
    /\ image' = FoldLeft(LAMBDA img, r : (r[1] :> r[2]) @@ img, image, runs)
    /\ clash' = (\/ clash
                 \/ \E i \in 1..Len(runs) :
                       /\ runs[i][1] # AllocateFailed
                       /\ \/ runs[i][1] \in DOMAIN image
                          \/ \E j \in 1..(i - 1) : runs[j][1] = runs[i][1])

Consecutive(block, len) == [i \in 1..len |-> block + i - 1]

\* error(): setjmp() returns again, in make_ext4fs_internal().
Error(reason) ==
    /\ phase' = "failed"
    /\ why' = reason

\* get_inode() queues the inode table of the group when it is first used.
WithTable(groups, ino) ==
    [groups EXCEPT ![GroupOfInode(ino, geo.ipg)].table = TRUE]

TableRun(groups, ino) ==
    LET g == GroupOfInode(ino, geo.ipg)
    IN  IF groups[g].table THEN << >>
        ELSE Run("table", g, Consecutive(groups[g].firstBlock + 2
                                            + SuperBlocks(geo, g), geo.table))

-----------------------------------------------------------------------------
\* Blocks for an inode.

\* As it is not: the data is queued from the first block on, the one kept for
\* the extents included.
BackedFromStart(list, all) == BlocksOf(all)

\* extent_create_backing(), extent_create_backing_file(): the blocks the data is
\* queued for, once the iterator has been rewound; all: as they were allocated.
Backed(list, all) == BlocksOf(list)

\* As it is not: the block of the extents is not counted.
CountedOfFile(n, leaf) == n

\* "if (extent_block) block_len += 1".
Counted(n, leaf) == IF leaf = 0 THEN n ELSE n + 1

\* Up to three regions are kept in the inode and the block more is given back,
\* otherwise it holds them.
ExtentsFrom(fit, n) ==
    LET few == Len(fit.list) <= 3
        alloc == Allocation(fit.list)
        cut == ReduceByOne(fit.bgs, alloc)
        oob == ReserveOobBlock(alloc)
        list == IF few THEN cut.alloc.list ELSE oob.list
        leaf == IF few THEN 0 ELSE Head(oob.oob).block
    IN  IF ~fit.ok THEN [ok |-> FALSE, bgs |-> fit.bgs]
        ELSE [ok      |-> TRUE,
              bgs     |-> IF few THEN cut.bgs ELSE fit.bgs,
              extents |-> list,
              entries |-> Len(fit.list),
              leaf    |-> leaf,
              backed  |-> Backed(list, fit.list),
              blocks  |-> Counted(n, leaf)]

\* do_inode_allocate_extents() of n blocks and one more.
InodeExtents(groups, n) == ExtentsFrom(BestFit(groups, n + 1), n)

\* get_region() of an iterator that has come to the end of the list.
Overrun(x, n) == Len(x.backed) < n

LeafRun(x, ino) ==
    IF x.leaf = 0 THEN << >> ELSE <<<<x.leaf, <<"leaf", ino, 1>>>>>>

EmptyInode ==
    [kind |-> "none", size |-> 0, blocks |-> 0, extents |-> << >>,
     entries |-> 0, leaf |-> 0, xblock |-> 0, ibody |-> 0, xbody |-> 0,
     links |-> 0, dents |-> << >>, recs |-> << >>]

WithExtents(inode, x, n) ==
    [inode EXCEPT !.size = n, !.blocks = x.blocks, !.extents = x.extents,
                  !.entries = x.entries, !.leaf = x.leaf]

-----------------------------------------------------------------------------
\* Directories.

\* A directory entry takes two words and its name.
DentryLen(name) == 2 + name

\* As it is not: the padding at the end of a block is not counted.
DentrySizeUnpadded(ents) ==
    FoldLeft(LAMBDA len, e : len + DentryLen(e.name), 6, ents)

\* dentry_size(): the entries for . and .., and those of ents, none of which
\* may cross the boundary of a block.
DentrySize(ents) ==
    LET add(len, e) ==
            LET d == DentryLen(e.name)
                used == len % BlockWords
            IN  (IF used + d > BlockWords THEN len + BlockWords - used ELSE len) + d
    IN  FoldLeft(add, 6, ents)

DirBlocks(ents) == DivRoundUp(DentrySize(ents), BlockWords)

\* add_dentry() of ., .. and each entry: an entry that would cross a boundary
\* starts behind it, and the one before is made longer.  The last one is made
\* as long as its block.  ok: the "internal error" has not occurred.
Records(ents) ==
    LET len == DirBlocks(ents) * BlockWords
        names == <<1, 1>> \o [i \in 1..Len(ents) |-> ents[i].name]
        add(acc, i) ==
            LET d == DentryLen(names[i])
                end == (acc.off + d - 1) \div BlockWords
                cross == acc.off \div BlockWords # end
                off == IF cross THEN end * BlockWords ELSE acc.off
                recs == IF cross
                        THEN [acc.recs EXCEPT ![i - 1].len = @ + off - acc.off]
                        ELSE acc.recs
            IN  [off  |-> off + d,
                 recs |-> Append(recs, [off |-> off, len |-> d]),
                 ok   |-> /\ acc.ok
                          /\ i > 2 => \/ off + d < len
                                      \/ off + d = len /\ i = Len(names)]
        all == FoldLeft(add, [off |-> 0, recs |-> << >>, ok |-> TRUE],
                        [i \in 1..Len(names) |-> i])
    IN  [ok   |-> all.ok,
         recs |-> [all.recs EXCEPT ![Len(names)].len = @ + len - all.off]]

\* An entry as scandir() and lstat() tell it.
Entry(kind, name, size, caps) ==
    [kind |-> kind, name |-> name, size |-> size, caps |-> caps]

\* The one that is put in front, which is no directory on disk.
LostFound == Entry("dir", 3, 0, FALSE)

Dirs(ents) == Cardinality({ i \in 1..Len(ents) : ents[i].kind = "dir" })

-----------------------------------------------------------------------------
\* Attributes.

\* xattr_add(): within the inode if there is room, otherwise in the block of
\* the inode, which allocate_block() is asked for the first time.  That it may
\* have none is not looked at.
AddXattr(acc, size) ==
    LET inode == acc.inode
        fresh == AllocateBlock(acc.bgs)
    IN  CASE inode.ibody + size <= LabelRoom ->
                [acc EXCEPT !.inode.ibody = @ + size]
          [] inode.ibody + size > LabelRoom /\ inode.xblock # 0 ->
                [acc EXCEPT !.inode.xbody = @ + size,
                            !.ok = @ /\ inode.xbody + size <= BlockRoom]
          [] OTHER ->
                [acc EXCEPT !.inode.xblock = fresh.block,
                            !.inode.xbody = size,
                            !.inode.blocks = @ + 1,
                            !.bgs = fresh.bgs,
                            !.runs = @ \o <<<<fresh.block, <<"xattr", acc.ino, 1>>>>>>,
                            !.ok = @ /\ size <= BlockRoom]

\* inode_set_selinux(), then inode_set_capabilities().
SetXattrs(groups, ino, inode, caps) ==
    LET labelled == AddXattr([bgs |-> groups, ino |-> ino, inode |-> inode,
                              runs |-> << >>, ok |-> TRUE], LabelSize)
    IN  IF caps THEN AddXattr(labelled, CapSize) ELSE labelled

-----------------------------------------------------------------------------
Init ==
    /\ \E len \in ImageLens, count \in InodeCounts : geo = Geometry(len, count)
    /\ journal \in JournalLens
    /\ phase = "groups" /\ why = "none"
    /\ bgs = << >> /\ inodes = << >>
    /\ image = << >> /\ clash = FALSE
    /\ stack = << >>
    /\ sb = [free |-> 0, freeInodes |-> 0, groups |-> << >>]

\* block_allocator_init(), ext4_fill_in_sb(), reserve_inodes(0, 10).
InitGroups ==
    LET groups == [g \in 0..(geo.groups - 1) |-> InitBg(geo, g)]
        bitmaps(g) == Run("bitmaps", g, Consecutive(groups[g].firstBlock
                                                      + SuperBlocks(geo, g), 2))
        super(g) == IF ~HasSuper(g) THEN << >>
                    ELSE (IF g = 0 THEN << >>
                          ELSE Run("super", g, <<groups[g].firstBlock>>))
                         \o Run("desc", g, Consecutive(groups[g].firstBlock + 1,
                                                       geo.desc))
    IN  /\ phase = "groups"
        /\ Queue(FlattenSeq([i \in 1..geo.groups |-> bitmaps(i - 1) \o super(i - 1)]))
        /\ IF geo.ipg < 10
           THEN Error("inodes") /\ bgs' = groups
           ELSE /\ bgs' = [groups EXCEPT ![0] = ReserveInodes(@, 10)]
                /\ phase' = IF journal = 0 THEN "resize" ELSE "journal"
                /\ UNCHANGED why
        /\ UNCHANGED <<journal, geo, inodes, stack, sb>>

JournalWith(x) ==
    /\ bgs' = x.bgs
    /\ IF ~x.ok
       THEN Error("space") /\ UNCHANGED <<inodes, image, clash>>
       ELSE IF Overrun(x, journal)
       THEN phase' = "crashed" /\ UNCHANGED <<why, inodes, image, clash>>
       ELSE /\ Queue(TableRun(bgs, JournalIno) \o LeafRun(x, JournalIno)
                      \o Run("data", JournalIno, x.backed))
            /\ inodes' = (JournalIno :>
                             WithExtents([EmptyInode EXCEPT !.kind = "journal",
                                                            !.links = 1],
                                         x, journal)) @@ inodes
            /\ phase' = "resize"
            /\ UNCHANGED why

\* ext4_create_journal_inode().
CreateJournal ==
    /\ phase = "journal"
    /\ JournalWith(InodeExtents(WithTable(bgs, JournalIno), journal))
    /\ UNCHANGED <<journal, geo, stack, sb>>

\* As it is not: the blocks behind the group descriptors are counted from the
\* start of the group.
ReservedBlocksEarly(g) ==
    Consecutive(bgs[g].firstBlock + geo.desc, geo.reserve)

\* The blocks left behind the group descriptors of a group.
ReservedBlocks(g) ==
    Consecutive(bgs[g].firstBlock + 1 + geo.desc, geo.reserve)

\* As it is not: the first of the other groups is passed over.
ResizeNamesLater(all, r, n) == [j \in 1..(n - 1) |-> all[((j + 1) % n) * geo.reserve + r + 1]]

\* The blocks that the r-th reserved block names: those at its place in the
\* other groups with a superblock, of which there are n - 1.
ResizeNames(all, r, n) == [j \in 1..(n - 1) |-> all[j * geo.reserve + r + 1]]

\* inode_attach_resize(): the doubly indirect block names the reserved blocks
\* of group 0, each of which names those of the other groups.  i, the position
\* in the block, is unsigned, and so is what is left when desc is taken off.
ResizeMap ==
    LET supers == SetToSortSeq({ g \in DOMAIN bgs : HasSuper(g) }, <)
        all == FlattenSeq([k \in 1..Len(supers) |-> ReservedBlocks(supers[k])])
        r(i) == ((i - geo.desc) % U32) % geo.reserve
    IN  [i \in 1..geo.reserve |->
            [block |-> all[r(i - 1) + 1],
             names |-> ResizeNames(all, r(i - 1), Len(supers))]]

\* ext4_create_resize_inode().
CreateResize ==
    LET groups == WithTable(bgs, ResizeIno)
        fit == BestFit(groups, 1)
        supers == Cardinality({ g \in DOMAIN bgs : HasSuper(g) })
    IN  /\ phase = "resize"
        /\ bgs' = fit.bgs
        /\ IF ~fit.ok
           THEN Error("space") /\ UNCHANGED <<inodes, image, clash>>
           ELSE LET dind == Head(fit.list).block
                IN  /\ Queue(TableRun(bgs, ResizeIno)
                              \o <<<<dind, <<"dind", ResizeIno, 1>>>>>>
                              \o Run("ind", ResizeIno, ReservedBlocks(0)))
                    /\ inodes' = (ResizeIno :>
                                     [EmptyInode EXCEPT
                                        !.kind = "resize", !.links = 1,
                                        !.leaf = dind,
                                        !.blocks = supers * geo.reserve + 1,
                                        !.dents = ResizeMap]) @@ inodes
                    /\ phase' = "tree"
                    /\ UNCHANGED why
        /\ UNCHANGED <<journal, geo, stack, sb>>

-----------------------------------------------------------------------------
\* The inode of a directory of n blocks, and what is queued for it.
DirectoryWith(x, n, recs, groups, ino, ents) ==
    /\ bgs' = x.bgs
    /\ CASE ~x.ok -> Error("space") /\ UNCHANGED <<inodes, image, clash, stack>>
         [] x.ok /\ Overrun(x, n) ->
                /\ phase' = "crashed"
                /\ UNCHANGED <<why, inodes, image, clash, stack>>
         [] x.ok /\ ~Overrun(x, n) /\ ~recs.ok ->
                Error("internal") /\ UNCHANGED <<inodes, image, clash, stack>>
         [] OTHER ->
                /\ Queue(TableRun(groups, ino) \o LeafRun(x, ino)
                          \o Run("data", ino, x.backed))
                /\ inodes' = (ino :>
                      WithExtents([EmptyInode EXCEPT
                                     !.kind = "dir",
                                     !.links = Dirs(ents) + 2,
                                     !.recs = recs.recs,
                                     !.dents = [i \in 1..Len(ents) |->
                                                   [kind |-> ents[i].kind,
                                                    ino  |-> 0]]], x, n))
                             @@ inodes
                /\ stack' = Append(stack, [ino |-> ino, ents |-> ents, next |-> 1])
                /\ UNCHANGED <<phase, why>>

\* make_directory() for a list of entries, as inode ino.
MakeDirectory(groups, ino, ents) ==
    LET counted == [WithTable(groups, ino)
                       EXCEPT ![GroupOfInode(ino, geo.ipg)].dirs = @ + 1]
        n == DirBlocks(ents)
    IN  DirectoryWith(InodeExtents(counted, n), n, Records(ents), groups, ino, ents)

Made == Cardinality(DOMAIN inodes \ {JournalIno, ResizeIno})

\* The root: lost+found comes first unless the tree has one.  Without a tree,
\* build_default_directory_structure() makes nothing else.
MakeRoot ==
    /\ phase = "tree"
    /\ stack = << >>
    /\ \E ents \in BoundedSeq(Entries, MaxEntries), has \in BOOLEAN :
          /\ has => ents # << >> /\ Head(ents).kind = "dir"
          /\ MakeDirectory(bgs, RootIno, IF has THEN ents ELSE <<LostFound>> \o ents)
    /\ UNCHANGED <<journal, geo, sb>>

InTree(kinds) ==
    /\ phase = "tree"
    /\ stack # << >>
    /\ Last(stack).next <= Len(Last(stack).ents)
    /\ Last(stack).ents[Last(stack).next].kind \in kinds

Current == Last(stack).ents[Last(stack).next]

NewInode == AllocateInode(bgs, geo.ipg)

\* build_directory_structure() of a directory in the tree, or of lost+found.
Descend ==
    /\ InTree({"dir"})
    /\ NewInode.ino # AllocateFailed
    /\ \E ents \in IF Current = LostFound THEN {<< >>}
                   ELSE { s \in BoundedSeq(Entries, MaxEntries) :
                            /\ Len(stack) >= MaxDepth => s = << >>
                            /\ Made + Len(s) <= MaxInodes } :
          MakeDirectory(NewInode.bgs, NewInode.ino, ents)
    /\ UNCHANGED <<journal, geo, sb>>

\* The inode made for the current entry, with its attributes.
Finish(ino, inode, groups, runs, caps, parent) ==
    LET x == SetXattrs(groups, ino, inode, caps)
        n == stack[parent].next
    IN  /\ bgs' = x.bgs
        /\ IF ~x.ok
           THEN Error("xattr") /\ UNCHANGED <<inodes, image, clash, stack>>
           ELSE /\ Queue(runs \o x.runs)
                /\ inodes' = [(ino :> x.inode) @@ inodes
                                 EXCEPT ![stack[parent].ino].dents[n].ino = ino]
                /\ stack' = [SubSeq(stack, 1, parent) EXCEPT ![parent].next = @ + 1]
                /\ UNCHANGED <<phase, why>>

\* make_file(), make_link(), make_directory(): allocate_inode() has none left.
NoInode ==
    /\ InTree({"file", "link", "slowlink", "dir"})
    /\ NewInode.ino = AllocateFailed
    /\ Error("inodes")
    /\ UNCHANGED <<journal, geo, bgs, inodes, image, clash, stack, sb>>

\* The inode of a file or link, and what get_inode() queues for it.
Leaf(kinds) ==
    /\ InTree(kinds)
    /\ NewInode.ino # AllocateFailed
    /\ UNCHANGED <<journal, geo, sb>>

LeafInode == [EmptyInode EXCEPT !.kind = Current.kind, !.links = 1]

\* make_file() of an empty file, make_link() of a link kept in the inode.
MakeEmpty ==
    LET ino == NewInode.ino
    IN  /\ Leaf({"file", "link"})
        /\ Current.size = 0
        /\ Finish(ino, LeafInode, WithTable(NewInode.bgs, ino),
                  TableRun(NewInode.bgs, ino), Current.caps, Len(stack))

FileWith(x, ino, n) ==
    IF x.ok /\ ~Overrun(x, n)
    THEN Finish(ino, WithExtents(LeafInode, x, n), x.bgs,
                TableRun(NewInode.bgs, ino) \o LeafRun(x, ino)
                   \o Run("data", ino, x.backed),
                Current.caps, Len(stack))
    ELSE /\ bgs' = x.bgs
         /\ IF x.ok THEN phase' = "crashed" /\ UNCHANGED why
                    ELSE Error("space")
         /\ UNCHANGED <<inodes, image, clash, stack>>

\* make_file() of any other: inode_allocate_file_extents().
MakeFile ==
    LET ino == NewInode.ino
        n == Current.size
    IN  /\ Leaf({"file"})
        /\ n > 0
        /\ FileWith(InodeExtents(WithTable(NewInode.bgs, ino), n), ino, n)

\* make_link() of a link that takes a block: inode_allocate_data_indirect(),
\* whose one block is a direct one.
MakeSlowLink ==
    LET ino == NewInode.ino
        fit == BestFit(WithTable(NewInode.bgs, ino), 1)
    IN  /\ Leaf({"slowlink"})
        /\ IF fit.ok
           THEN Finish(ino, [LeafInode EXCEPT !.extents = fit.list, !.entries = 1,
                                              !.size = 1, !.blocks = 1],
                       fit.bgs,
                       TableRun(NewInode.bgs, ino) \o Run("data", ino, BlocksOf(fit.list)),
                       Current.caps, Len(stack))
           ELSE /\ Error("space")
                /\ bgs' = fit.bgs
                /\ UNCHANGED <<inodes, image, clash, stack>>

\* "unknown file type": sockets, devices and fifos are not made.
Refuse ==
    /\ InTree({"special"})
    /\ Error("input")
    /\ UNCHANGED <<journal, geo, bgs, inodes, image, clash, stack, sb>>

\* scandir(), lstat() or selabel_lookup() fails.
ScanFails ==
    /\ phase = "tree"
    /\ stack = << >> \/ InTree({"dir"})
    /\ Error("input")
    /\ UNCHANGED <<journal, geo, bgs, inodes, image, clash, stack, sb>>

\* A directory below the root is complete: build_directory_structure() returns
\* to its parent, which labels it.
Ascend ==
    /\ phase = "tree"
    /\ Len(stack) > 1
    /\ Last(stack).next > Len(Last(stack).ents)
    /\ LET ino == Last(stack).ino
       IN  Finish(ino, inodes[ino], bgs, << >>, FALSE, Len(stack) - 1)
    /\ UNCHANGED <<journal, geo, sb>>

-----------------------------------------------------------------------------
\* The root is labelled, the counts are made up, and the superblock is queued:
\* the rest of make_ext4fs_internal() but for writing the image.
Complete ==
    LET x == SetXattrs(bgs, RootIno, inodes[RootIno], FALSE)
        sum(f(_)) == FoldLeft(LAMBDA n, i : n + f(x.bgs[i - 1]), 0,
                              [i \in 1..geo.groups |-> i])
    IN  /\ phase = "tree"
        /\ Len(stack) = 1
        /\ Last(stack).next > Len(Last(stack).ents)
        /\ bgs' = x.bgs
        /\ Queue(x.runs \o <<<<0, <<"super", 0, 1>>>>>>)
        /\ inodes' = (RootIno :> x.inode) @@ inodes
        /\ stack' = << >>
        /\ sb' = [free |-> sum(LAMBDA bg : bg.free),
                  freeInodes |-> sum(LAMBDA bg : bg.freeInodes),
                  groups |-> [g \in DOMAIN x.bgs |->
                                 [free |-> x.bgs[g].free,
                                  freeInodes |-> x.bgs[g].freeInodes,
                                  dirs |-> x.bgs[g].dirs]]]
        /\ phase' = "write"
        /\ UNCHANGED <<why, journal, geo>>

\* write_ext4_image(): sparse_file_write() asserts that nothing lies behind the
\* end of the image, where a block nobody found, 2^32 - 1, would.
WriteImage ==
    /\ phase = "write"
    /\ phase' = IF AllocateFailed \in DOMAIN image THEN "aborted" ELSE "done"
    /\ UNCHANGED <<why, journal, geo, bgs, inodes, image, clash, stack, sb>>

Next ==
    \/ InitGroups \/ CreateJournal \/ CreateResize
    \/ MakeRoot \/ Descend \/ MakeEmpty \/ MakeFile \/ MakeSlowLink \/ Ascend
    \/ NoInode \/ Refuse \/ ScanFails
    \/ Complete \/ WriteImage

Spec == Init /\ [][Next]_vars

-----------------------------------------------------------------------------
\* Properties.

Ended == {"failed", "crashed", "aborted", "done"}
Making == phase \notin {"groups", "failed", "crashed", "aborted"}

TypeOK ==
    /\ phase \in {"groups", "journal", "resize", "tree", "write"} \cup Ended
    /\ why \in {"none", "space", "inodes", "input", "internal", "xattr"}
    /\ (phase = "failed") = (why # "none")
    /\ \A g \in DOMAIN bgs :
          /\ bgs[g].used \subseteq 0..(BlocksPerGroup - 1)
          /\ bgs[g].free \in 0..BlocksPerGroup
          /\ bgs[g].first \in 0..BlocksPerGroup
          /\ bgs[g].freeInodes \in 0..geo.ipg
    /\ DOMAIN inodes \subseteq Nat
    /\ clash \in BOOLEAN

\* The blocks that an inode holds, besides those reserved for the resize inode.
Held(ino) ==
    Range(BlocksOf(inodes[ino].extents))
        \cup ({inodes[ino].leaf, inodes[ino].xblock} \ {0, AllocateFailed})

\* The blocks of a group that belong to no inode: its header, and what lies
\* behind the end of the image.
Fixed(g) ==
    { b \in bgs[g].firstBlock..(bgs[g].firstBlock + BlocksPerGroup - 1) :
        \/ b < bgs[g].firstBlock + HeaderBlocks(geo, g)
        \/ b >= geo.blocks }

\* The block bitmaps say which blocks are in use, no more and no less, the
\* counters agree with the bitmaps, and no block has two owners: across region
\* lists, blocks given back and groups that end early (allocate.c:208-281).
BlocksAccounted ==
    Making =>
        /\ \A g \in DOMAIN bgs :
              /\ bgs[g].free = BlocksPerGroup - Cardinality(bgs[g].used)
              /\ { b + bgs[g].firstBlock : b \in bgs[g].used } =
                    Fixed(g) \cup { b \in UNION { Held(i) : i \in DOMAIN inodes } :
                                      b \div BlocksPerGroup = g }
        /\ \A i, j \in DOMAIN inodes : i # j => Held(i) \cap Held(j) = {}

\* What a file holds can be read back: following the extents of an inode, as
\* many as its header counts, leads block after block to its data.
FilesReadBack ==
    Making =>
        \A i \in DOMAIN inodes :
            LET blocks == BlocksOf(inodes[i].extents)
            IN  /\ inodes[i].kind # "resize" => Len(blocks) = inodes[i].size
                /\ inodes[i].entries = Len(inodes[i].extents)
                /\ \A k \in 1..Len(blocks) : image[blocks[k]] = <<"data", i, k>>

\* i_blocks counts the blocks of the inode, its extent and attribute blocks
\* included, and those reserved for growth (ext4_utils.c:330).
InodesCountBlocks ==
    Making =>
        \A i \in DOMAIN inodes :
            inodes[i].blocks =
                Cardinality(Held(i))
                + (IF inodes[i].xblock = AllocateFailed THEN 1 ELSE 0)
                + (IF inodes[i].kind = "resize"
                   THEN geo.reserve * Cardinality({ g \in DOMAIN bgs : HasSuper(g) })
                   ELSE 0)

\* No block is handed to libsparse twice: what init_bg(), ext4_fill_in_sb(),
\* get_inode(), the allocator and ext4_queue_sb() each add for themselves never
\* meets ("The region must not already be used", sparse.h:82), and all of it
\* lies within the image, unless a block was not found for an attribute.
QueuedOnce ==
    /\ ~clash
    /\ \A b \in DOMAIN image : b \in 0..(geo.blocks - 1) \/ b = AllocateFailed

\* The records of a directory follow one another, none crosses the boundary of
\* a block, and they fill its blocks: dentry_size() foresees what add_dentry()
\* does, so that the internal error of make_directory() never occurs.
DirectoriesTile ==
    /\ why # "internal"
    /\ \A i \in DOMAIN inodes :
          inodes[i].kind = "dir" =>
            LET recs == inodes[i].recs
            IN  /\ recs[1].off = 0
                /\ \A k \in 2..Len(recs) :
                      recs[k].off = recs[k - 1].off + recs[k - 1].len
                /\ Last(recs).off + Last(recs).len = inodes[i].size * BlockWords
                /\ \A k \in 1..Len(recs) :
                      recs[k].off \div BlockWords =
                        (recs[k].off + recs[k].len - 1) \div BlockWords

\* A complete image is a tree: every entry of a directory leads to an inode of
\* its kind and no inode is reached twice, links are counted, and the counts of
\* the superblock and the descriptors are those of the bitmaps and the inodes.
ImageComplete ==
    phase \in {"write", "done"} =>
        LET dirs == { i \in DOMAIN inodes : inodes[i].kind = "dir" }
            slots == { <<d, k>> \in dirs \X (1..(MaxEntries + 1)) :
                         k <= Len(inodes[d].dents) }
            at(s) == inodes[s[1]].dents[s[2]]
        IN  /\ \A s \in slots :
                  /\ at(s).ino \in DOMAIN inodes
                  /\ inodes[at(s).ino].kind = at(s).kind
            /\ \A s, t \in slots : at(s).ino = at(t).ino => s = t
            /\ Made = Cardinality(slots) + 1
            /\ \A d \in dirs :
                  inodes[d].links =
                     2 + Cardinality({ s \in slots : s[1] = d /\ at(s).kind = "dir" })
            /\ \A g \in DOMAIN bgs :
                  /\ sb.groups[g].free = BlocksPerGroup - Cardinality(bgs[g].used)
                  /\ sb.groups[g].freeInodes = geo.ipg - Cardinality(bgs[g].inodes)
                  /\ sb.groups[g].dirs =
                        Cardinality({ d \in dirs : GroupOfInode(d, geo.ipg) = g })
            /\ sb.free = FoldLeft(LAMBDA n, i : n + sb.groups[i - 1].free, 0,
                                  [i \in 1..geo.groups |-> i])

\* The program ends early only for a reason: no block, or no inode, is left;
\* or the tree holds what it cannot make.  It crashes, instead of reporting
\* that there is no space, only when no group has two free blocks.
EndsForAReason ==
    /\ why = "space" => \A g \in DOMAIN bgs : bgs[g].free = 0
    /\ why = "inodes" => \A g \in DOMAIN bgs : bgs[g].freeInodes = 0 \/ geo.ipg < 10
    /\ phase = "crashed" => \A g \in DOMAIN bgs : bgs[g].free <= 1
    /\ phase = "aborted" => \A g \in DOMAIN bgs : bgs[g].free = 0

\* The program makes a tree, or gives a reason: everything asked of it is in the
\* image it writes.
TreeOrReason == ImageComplete /\ EndsForAReason

\* Whatever blocks the resize inode names, each names the block at the same
\* place in every other group with a superblock, in order (indirect.c:463).
ResizeNamesBackups ==
    ResizeIno \in DOMAIN inodes =>
        LET map == inodes[ResizeIno].dents
            backups == SetToSortSeq({ g \in DOMAIN bgs : HasSuper(g) } \ {0}, <)
        IN  \A i \in 1..geo.reserve :
                \E r \in 1..geo.reserve :
                    /\ map[i].block = 1 + geo.desc + r - 1
                    /\ map[i].names =
                          [j \in 1..Len(backups) |->
                              bgs[backups[j]].firstBlock + 1 + geo.desc + r - 1]

\* The accounts of blocks are right at every moment: the groups', the inodes' and
\* those of the blocks set aside for growth.
AccountsRight ==
    TypeOK /\ BlocksAccounted /\ InodesCountBlocks /\ ResizeNamesBackups
=============================================================================
