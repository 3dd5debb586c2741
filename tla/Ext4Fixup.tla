------------------------------ MODULE Ext4Fixup ------------------------------
(***************************************************************************)
(* ext4fixup rounds the inodes per group of an old image up to whole blocks *)
(* of the inode table (ext4_utils/ext4fixup.c).  The tables stay where they *)
(* are, so every inode gets a new number, and every directory entry has to  *)
(* be changed, in place.  The program may be interrupted between any two    *)
(* writes and is then run again: what it is about is written on the disk,   *)
(* and the high bit of an entry says that it holds an old number.           *)
(*                                                                         *)
(* An inode is its place <<group, offset>>; a directory is the inode of it. *)
(* The verbose and the no_write flags are not modelled.                     *)
(***************************************************************************)
EXTENDS Integers, Sequences, FiniteSets

CONSTANTS
    Groups,         \* number of block groups
    Supers,         \* those with a superblock
    OldIpg,         \* inodes per group of the image
    PerBlock,       \* inodes in a block of the table
    Tree,           \* directories: place |-> sequence of entries
    Root,           \* the place of inode 2
    UsedInodes,     \* inodes in use, per group
    MaxCrashes      \* bound: interruptions

Dirs == DOMAIN Tree

\* An entry leads to the inode of a place; "unknown" is its type when whoever
\* made it left the type out; dots are the names . and ..; block is the block
\* of the directory it lies in.  A deleted entry has the inode number 0.
EntryType == [to : (0..(Groups - 1)) \X (0..(OldIpg - 1)),
              type : {"dir", "file", "unknown"},
              dots : BOOLEAN, live : BOOLEAN, block : Nat \ {0}]

Blocks(d) == Tree[d][Len(Tree[d])].block

\* The entry is the name of a directory.
Names(e) == ~e.dots /\ e.to \in Dirs

\* The entries in front of the first deleted one: "This is the last entry in the
\* directory", says recurse_dir() of an inode number 0, wherever it stands.
Reached(d) == { k \in 1..Len(Tree[d]) : \A j \in 1..k : Tree[d][j].live }

ASSUME SizesAssumption ==
    /\ Groups \in Nat \ {0} /\ OldIpg \in Nat \ {0} /\ PerBlock \in Nat \ {0}
    /\ UsedInodes \in 0..OldIpg /\ MaxCrashes \in Nat
    /\ Supers \subseteq 0..(Groups - 1) /\ 0 \in Supers

\* Entries tell the type of what they name, unless they leave it out, and every
\* directory is reached from the root by entries with no deleted one before them.
ASSUME TreeAssumption ==
    /\ Root \in Dirs
    /\ \A d \in Dirs :
          /\ Tree[d] \in Seq(EntryType) /\ Tree[d] # << >>
          /\ \A k \in 1..Len(Tree[d]) :
                /\ Tree[d][k].block \in 1..Blocks(d)
                /\ Tree[d][k].type = "dir" => Tree[d][k].to \in Dirs
                /\ Tree[d][k].type = "file" => Tree[d][k].to \notin Dirs
    /\ \A S \in SUBSET Dirs :
          /\ Root \in S
          /\ \A d \in S : \A k \in Reached(d) :
                Names(Tree[d][k]) => Tree[d][k].to \in S
          => S = Dirs

\* EXT4_ALIGN(info.inodes_per_group, info.block_size / info.inode_size).
Aligned(ipg) == ((ipg + PerBlock - 1) \div PerBlock) * PerBlock
NewIpg == Aligned(OldIpg)

\* The number of the inode at a place, and the place of an inode number.
Number(ipg, at) == at[1] * ipg + at[2] + 1
Place(ipg, n) == <<(n - 1) \div ipg, (n - 1) % ipg>>

\* compute_new_inum().
NewInum(ipg, n) == ((n - 1) \div ipg) * Aligned(ipg) + ((n - 1) % ipg) + 1

VARIABLES
    magic,      \* disk: the fixup state, at offset 0
    sb,         \* disk: the primary superblock
    desc,       \* disk: free inodes in the primary group descriptors
    backups,    \* disk: the superblock and the descriptors of the other groups
    bits,       \* disk: bits of the inode bitmap behind the last inode
    ents,       \* disk: the directory entries
    pc,         \* what the program is about to do
    target,     \* set_fs_fixup_state(): the state it sets
    mem,        \* info, the superblock and aux_info.bg_desc in memory
    stack,      \* the frames of recurse_dir()
    crashes,    \* interruptions so far
    cracks      \* the places where it was interrupted that matter later

disk    == <<magic, sb, desc, backups, bits, ents>>
process == <<pc, target, mem, stack>>
history == <<crashes, cracks>>
vars    == <<disk, process, history>>

OldEntry(e) ==
    [ino |-> IF e.live THEN Number(OldIpg, e.to) ELSE 0, marked |-> FALSE]

OldEnts == [d \in Dirs |-> [k \in 1..Len(Tree[d]) |-> OldEntry(Tree[d][k])]]

OldSb == [ipg    |-> OldIpg,
          inodes |-> Groups * OldIpg,
          free   |-> Groups * (OldIpg - UsedInodes),
          bit    |-> FALSE]

OldDesc == [g \in 0..(Groups - 1) |-> OldIpg - UsedInodes]

NoMem == [ipg |-> OldIpg, sb |-> OldSb, desc |-> OldDesc, group |-> 0]

-----------------------------------------------------------------------------
Init ==
    /\ magic = "unset" /\ sb = OldSb /\ desc = OldDesc
    /\ backups = [g \in Supers \ {0} |-> [sb |-> OldSb, desc |-> OldDesc]]
    /\ bits = [g \in 0..(Groups - 1) |-> OldIpg..(NewIpg - 1)]
    /\ ents = OldEnts
    /\ pc = "start" /\ target = "unset" /\ mem = NoMem /\ stack = << >>
    /\ crashes = 0 /\ cracks = {}

\* recurse_dir() of a directory: its blocks are read into a buffer.
Frame(d) == [dir |-> d, buf |-> ents[d], entry |-> 1, back |-> FALSE, written |-> 0]

\* What the fixup state on the disk calls for.
Phase(state) ==
    CASE state = "unset"   -> "check"
      [] state = "marking" -> "pass"
      [] state = "inums"   -> "pass"
      [] state = "sb"      -> "bitmaps"

\* As it is not: a pass that is over is begun again.
AfterAgain(state) == IF state = "marking" THEN "marking" ELSE "sb"

\* The state that follows a pass.
After(state) == IF state = "marking" THEN "inums" ELSE "sb"

FirstFrame(state) == IF Phase(state) = "pass" THEN <<Frame(Root)>> ELSE << >>

\* ext4fixup_internal(): read_ext(), and the state the last run has left.
Start ==
    /\ pc = "start"
    /\ mem' = [ipg |-> sb.ipg, sb |-> sb, desc |-> desc, group |-> 0]
    /\ pc' = Phase(magic)
    /\ stack' = FirstFrame(magic)
    /\ UNCHANGED <<disk, target, history>>

\* The sanity check goes through everything and writes nothing.
SanityCheck ==
    /\ pc = "check"
    /\ sb.inodes + Groups * (Aligned(mem.ipg) - sb.ipg) = Groups * Aligned(mem.ipg)
    /\ pc' = "magic" /\ target' = "marking"
    /\ UNCHANGED <<disk, mem, stack, history>>

\* set_fs_fixup_state(), its first write: the magic number.
SetMagic ==
    /\ pc = "magic"
    /\ magic' = target
    /\ pc' = "bit"
    /\ UNCHANGED <<sb, desc, backups, bits, ents, target, mem, stack, history>>

\* As it is not: the file system is unmountable while its numbers are changed,
\* and not while they are marked.
BitForLate(state) == state \in {"inums", "sb"}

\* The bit that makes the file system unmountable.
BitFor(state) == state # "unset"

\* The second write.  The program goes on with the state it has set.
SetBit ==
    /\ pc = "bit"
    /\ sb' = [sb EXCEPT !.bit = BitFor(target)]
    /\ pc' = IF target = "unset" THEN "done" ELSE Phase(target)
    /\ stack' = FirstFrame(target)
    /\ UNCHANGED <<magic, desc, backups, bits, ents, target, mem, history>>

-----------------------------------------------------------------------------
\* recurse_dir() in its modes MARK_INODE_NUMS and UPDATE_INODE_NUMS.
Top == stack[Len(stack)]

\* The entry dirp points at, and what the tree says of it.
Dirp == Top.buf[Top.entry]
Said == Tree[Top.dir][Top.entry]

\* The loop ends behind the last entry, and at one with the inode number 0.
AtEntry == Top.entry <= Len(Top.buf) /\ Dirp.ino # 0

\* As it is not: an entry without a type is not taken for a directory.
FollowedTyped ==
    /\ Said.type = "dir"
    /\ ~Said.dots
    /\ magic = "marking" \/ Dirp.marked

\* is_entry_dir(), and the condition for a recursion: in the second pass an
\* entry that has its new number is not followed.
Followed ==
    /\ \/ Said.type = "dir"
       \/ /\ Said.type = "unknown"
          /\ magic = "inums" => Dirp.marked
          /\ Place(mem.ipg, Dirp.ino) \in Dirs
    /\ ~Said.dots
    /\ magic = "marking" \/ Dirp.marked

\* As it is not: a number is changed whether or not it is marked.
ProcessedAll(e) ==
    IF magic = "marking" THEN [e EXCEPT !.marked = TRUE]
    ELSE [ino |-> NewInum(mem.ipg, e.ino), marked |-> FALSE]

\* "Either set high bit or change inode number".
Processed(e) ==
    IF magic = "marking" THEN [e EXCEPT !.marked = TRUE]
    ELSE IF e.marked THEN [ino |-> NewInum(mem.ipg, e.ino), marked |-> FALSE]
    ELSE e

\* The entry leads to a directory, which comes first.
Descend ==
    /\ pc = "pass"
    /\ AtEntry
    /\ Followed /\ ~Top.back
    /\ stack' = Append(stack, Frame(Place(mem.ipg, Dirp.ino)))
    /\ UNCHANGED <<disk, pc, target, mem, history>>

\* The entry is changed in the buffer, and dirp moves on.
Visit ==
    /\ pc = "pass"
    /\ AtEntry
    /\ Followed => Top.back
    /\ stack' = [stack EXCEPT ![Len(stack)] =
          [dir     |-> Top.dir,
           buf     |-> [Top.buf EXCEPT ![Top.entry] = Processed(Dirp)],
           entry   |-> Top.entry + 1,
           back    |-> FALSE,
           written |-> Top.written]]
    /\ UNCHANGED <<disk, pc, target, mem, history>>

\* The directory is written, one block after the other.
WriteBlock ==
    /\ pc = "pass"
    /\ ~AtEntry
    /\ Top.written < Blocks(Top.dir)
    /\ ents' = [ents EXCEPT ![Top.dir] = [k \in DOMAIN @ |->
          IF Tree[Top.dir][k].block = Top.written + 1 THEN Top.buf[k] ELSE @[k]]]
    /\ stack' = [stack EXCEPT ![Len(stack)].written = @ + 1]
    /\ UNCHANGED <<magic, sb, desc, backups, bits, pc, target, mem, history>>

\* recurse_dir() returns to the entry it was called for.
Return ==
    /\ pc = "pass"
    /\ ~AtEntry
    /\ Top.written = Blocks(Top.dir)
    /\ Len(stack) > 1
    /\ stack' = [k \in 1..(Len(stack) - 1) |->
          IF k = Len(stack) - 1 THEN [stack[k] EXCEPT !.back = TRUE] ELSE stack[k]]
    /\ UNCHANGED <<disk, pc, target, mem, history>>

\* The pass is over with the root.
PassOver ==
    /\ pc = "pass"
    /\ ~AtEntry
    /\ Top.written = Blocks(Top.dir)
    /\ Len(stack) = 1
    /\ stack' = << >>
    /\ pc' = "magic"
    /\ target' = After(magic)
    /\ UNCHANGED <<disk, mem, history>>

-----------------------------------------------------------------------------
\* As it is not: the inodes are counted against the image as it was made.
MoreAsMade == NewIpg - OldIpg

\* The inodes a group gains, by the superblock as it is now.
More == Aligned(mem.ipg) - sb.ipg

\* update_superblocks_and_bg_desc(): the superblock is read again, the free
\* inodes of the groups are counted in memory, and the bits behind the old last
\* inode are cleared, one group after the other.
FixBitmap ==
    LET g == mem.group
    IN  /\ pc = "bitmaps"
        /\ mem' = [mem EXCEPT !.desc[g] = @ + More,
                              !.group = IF g = Groups - 1 THEN 0 ELSE g + 1,
                              !.sb = [ipg    |-> Aligned(mem.ipg),
                                      inodes |-> sb.inodes + Groups * More,
                                      free   |-> sb.free + Groups * More,
                                      bit    |-> sb.bit]]
        /\ bits' = [bits EXCEPT ![g] = @ \ (mem.ipg..(Aligned(mem.ipg) - 1))]
        /\ pc' = IF g = Groups - 1 THEN "sb" ELSE pc
        /\ UNCHANGED <<magic, sb, desc, backups, ents, target, stack, history>>

\* The superblock of a group that has one is written; the bit is cleared in
\* that of the others.
WriteSb ==
    LET g == mem.group
    IN  /\ pc = "sb"
        /\ g \in Supers
        /\ IF g = 0
           THEN sb' = mem.sb /\ UNCHANGED backups
           ELSE /\ backups' = [backups EXCEPT ![g].sb = [mem.sb EXCEPT !.bit = FALSE]]
                /\ UNCHANGED sb
        /\ pc' = "desc"
        /\ UNCHANGED <<magic, desc, bits, ents, target, mem, stack, history>>

\* As it is not: one group too many.
LastGroupPassed(g) == g = Groups

LastGroup(g) == g = Groups - 1

NextGroup ==
    IF LastGroup(mem.group)
    THEN pc' = "magic" /\ target' = "unset" /\ UNCHANGED mem
    ELSE /\ mem' = [mem EXCEPT !.group = @ + 1]
         /\ pc' = "sb"
         /\ UNCHANGED target

\* Then its descriptors.
WriteDesc ==
    LET g == mem.group
    IN  /\ pc = "desc"
        /\ IF g = 0
           THEN desc' = mem.desc /\ UNCHANGED backups
           ELSE /\ backups' = [backups EXCEPT ![g].desc = mem.desc]
                /\ UNCHANGED desc
        /\ NextGroup
        /\ UNCHANGED <<magic, sb, bits, ents, stack, history>>

SkipGroup ==
    /\ pc = "sb"
    /\ mem.group \notin Supers
    /\ NextGroup
    /\ UNCHANGED <<disk, stack, history>>

-----------------------------------------------------------------------------
\* The program is interrupted: by critical_error("bailing"), a write that
\* fails, or a signal that kills it.  What it has written is on the disk in the
\* program's order; a loss of power, after which the disk may hold later writes
\* without earlier ones (there is no fsync()), is not covered.
Crash ==
    /\ pc \notin {"start", "done"}
    /\ crashes < MaxCrashes
    /\ crashes' = crashes + 1
    /\ cracks' = CASE pc = "bit" /\ target = "marking" -> cracks \cup {"bit"}
                   [] pc = "desc" /\ mem.group = 0     -> cracks \cup {"desc"}
                   [] OTHER -> cracks
    /\ pc' = "start"
    /\ target' = "unset" /\ mem' = NoMem /\ stack' = << >>
    /\ UNCHANGED disk

Step ==
    \/ Start \/ SanityCheck \/ SetMagic \/ SetBit
    \/ Descend \/ Visit \/ WriteBlock \/ Return \/ PassOver
    \/ FixBitmap \/ WriteSb \/ WriteDesc \/ SkipGroup

Next == Step \/ Crash

\* The program goes on, and is started again when it has been interrupted.
Spec == Init /\ [][Next]_vars /\ WF_vars(Step)

-----------------------------------------------------------------------------
\* Properties.
States == {"unset", "marking", "inums", "sb"}
SbType == [ipg : Nat, inodes : Nat, free : Nat, bit : BOOLEAN]
DescType == [0..(Groups - 1) -> Nat]
BufType(d) == [1..Len(Tree[d]) -> [ino : Nat, marked : BOOLEAN]]

\* The disk holds superblocks, descriptors and entries of their types, and the
\* program is about to do one of the things it does: in no group behind the
\* last one.
TypeOK ==
    /\ magic \in States /\ target \in States
    /\ sb \in SbType /\ desc \in DescType
    /\ backups \in [Supers \ {0} -> [sb : SbType, desc : DescType]]
    /\ bits \in [0..(Groups - 1) -> SUBSET (OldIpg..(NewIpg - 1))]
    /\ DOMAIN ents = Dirs /\ \A d \in Dirs : ents[d] \in BufType(d)
    /\ pc \in {"start", "check", "magic", "bit", "pass", "bitmaps", "sb", "desc", "done"}
    /\ mem \in [ipg : Nat, sb : SbType, desc : DescType, group : 0..(Groups - 1)]
    /\ crashes \in 0..MaxCrashes /\ cracks \subseteq {"bit", "desc"}
    /\ pc = "pass" => stack # << >>
    /\ \A i \in DOMAIN stack :
          /\ stack[i].dir \in Dirs
          /\ stack[i].buf \in BufType(stack[i].dir)
          /\ stack[i].entry \in 1..(Len(Tree[stack[i].dir]) + 1)
          /\ stack[i].back \in BOOLEAN
          /\ stack[i].written \in 0..Blocks(stack[i].dir)

\* The inode an entry holds the number of, in a state and with the inodes per group
\* of the superblock: by the old ones until the numbers are changed, then by the new
\* ones unless it is marked.
Resolved(state, ipg, e, to) ==
    CASE state \in {"unset", "marking"} -> e.ino = Number(ipg, to)
      [] state = "inums" -> e.ino = Number(IF e.marked THEN ipg ELSE NewIpg, to)
      [] state = "sb" -> ~e.marked /\ e.ino = Number(NewIpg, to)

\* At every moment, and so after every interruption, the disk tells which inode
\* each entry in front of a deleted one leads to: no number is changed twice or
\* left behind.
EntriesResolve ==
    \A d \in Dirs : \A k \in Reached(d) :
        Resolved(magic, sb.ipg, ents[d][k], Tree[d][k].to)

\* All entries of a directory have been through the pass of the state.
Done(state, e) == e.marked = (state = "marking")
DirDone(state, entries, d) == \A k \in Reached(d) : Done(state, entries[d][k])

\* A pass changes the entries of a directory before the entry that leads to
\* it: what recurse_dir() does not follow again has nothing left to be done.
ChildrenFirst ==
    magic \in {"marking", "inums"} =>
        \A d \in Dirs : \A k \in Reached(d) :
            Names(Tree[d][k]) /\ Done(magic, ents[d][k])
                => DirDone(magic, ents, Tree[d][k].to)

\* A file system that can be mounted has no marked entry and none, in front of a
\* deleted one, that leads to another inode by its superblock: unless the program
\* was interrupted between the magic number and the bit.
MountableIsSound ==
    ~sb.bit /\ "bit" \notin cracks =>
        \A d \in Dirs : \A k \in Reached(d) :
            /\ ~ents[d][k].marked
            /\ Place(sb.ipg, ents[d][k].ino) = Tree[d][k].to

NewSb == [ipg    |-> NewIpg,
          inodes |-> Groups * NewIpg,
          free   |-> Groups * (NewIpg - UsedInodes),
          bit    |-> FALSE]
NewDesc == [g \in 0..(Groups - 1) |-> NewIpg - UsedInodes]

\* Wherever it was interrupted, the program leaves the image it would have left
\* without, which is what test_ext4fixup compares: but for the counts of free
\* inodes when it was interrupted between the superblock and its descriptors.
\* Entries behind a deleted one keep the numbers they had.
FixedAsUninterrupted ==
    pc = "done" =>
        /\ magic = "unset" /\ sb = NewSb
        /\ \A d \in Dirs : \A k \in 1..Len(Tree[d]) :
              ents[d][k] = IF k \in Reached(d)
                           THEN [ino |-> Number(NewIpg, Tree[d][k].to), marked |-> FALSE]
                           ELSE OldEntry(Tree[d][k])
        /\ \A g \in 0..(Groups - 1) : bits[g] = {}
        /\ \A g \in Supers \ {0} : backups[g] = [sb |-> NewSb, desc |-> desc]
        /\ desc = NewDesc \/ "desc" \in cracks

\* test_ext4fixup runs the program until it is done, which it is at last.
Completes == <>(pc = "done")
=============================================================================
