--------------------------- MODULE Ext4Fixup_proofs ---------------------------
(***************************************************************************)
(* Proofs about Ext4Fixup, for every image and any number of interruptions. *)
(*                                                                         *)
(* That entries can be told apart when the program is run again rests on    *)
(* what is on the disk, on what the frames of recurse_dir() hold, and on    *)
(* where the program is.  A pass is over when everything that can be        *)
(* reached is done, because an entry that leads to a directory is done only *)
(* after the directory (First, below): that is why an entry without a mark  *)
(* need not be followed again.                                              *)
(***************************************************************************)
EXTENDS Ext4Fixup, TLAPS

\* The types of the variables but for the stack.
BaseType ==
    /\ magic \in States /\ target \in States
    /\ sb \in SbType /\ desc \in DescType
    /\ backups \in [Supers \ {0} -> [sb : SbType, desc : DescType]]
    /\ bits \in [0..(Groups - 1) -> SUBSET (OldIpg..(NewIpg - 1))]
    /\ DOMAIN ents = Dirs /\ \A d \in Dirs : ents[d] \in BufType(d)
    /\ pc \in {"start", "check", "magic", "bit", "pass", "bitmaps", "sb", "desc", "done"}
    /\ mem \in [ipg : Nat, sb : SbType, desc : DescType, group : 0..(Groups - 1)]
    /\ crashes \in 0..MaxCrashes /\ cracks \subseteq {"bit", "desc"}

\* Entries of a directory, on the disk or in a buffer: deleted ones stay so, the
\* others can be told, and a directory was done before the entry leading to it.
Kept(state, ipg, d, buf) ==
    \A k \in 1..Len(Tree[d]) :
        /\ ~Tree[d][k].live => buf[k].ino = 0
        /\ k \in Reached(d) =>
              /\ Resolved(state, ipg, buf[k], Tree[d][k].to)
              /\ state = "unset" => ~buf[k].marked

First(state, entries, d, buf) ==
    state \in {"marking", "inums"} =>
        \A k \in Reached(d) :
            Names(Tree[d][k]) /\ Done(state, buf[k]) =>
                DirDone(state, entries, Tree[d][k].to)

Directories(state, ipg, entries) ==
    \A d \in Dirs : /\ Kept(state, ipg, d, entries[d])
                    /\ First(state, entries, d, entries[d])

DiskKept == Directories(magic, sb.ipg, ents)

\* A frame: the entries in front of dirp are done in its buffer, the blocks it has
\* written are done on the disk, and so is the directory it comes back from.
FrameType == [dir : Dirs, buf : UNION { BufType(d) : d \in Dirs }, entry : Nat,
              back : BOOLEAN, written : Nat]

FrameInv(state, ipg, entries, f) ==
    /\ f.buf \in BufType(f.dir)
    /\ f.entry \in 1..(Len(Tree[f.dir]) + 1)
    /\ f.written \in 0..Blocks(f.dir)
    /\ \A k \in 1..(f.entry - 1) : k \in Reached(f.dir) /\ Done(state, f.buf[k])
    /\ Kept(state, ipg, f.dir, f.buf) /\ First(state, entries, f.dir, f.buf)
    /\ \A k \in Reached(f.dir) :
          Tree[f.dir][k].block <= f.written => Done(state, entries[f.dir][k])
    /\ f.back => /\ f.entry <= Len(Tree[f.dir])
                 /\ Tree[f.dir][f.entry].to \in Dirs
                 /\ DirDone(state, entries, Tree[f.dir][f.entry].to)

StackInv ==
    /\ stack \in Seq(FrameType)
    /\ pc = "pass" <=> stack # << >>
    /\ \A i \in 1..Len(stack) : FrameInv(magic, sb.ipg, ents, stack[i])
    /\ stack # << >> => stack[1].dir = Root
    /\ \A i \in 1..(Len(stack) - 1) :
          /\ stack[i].entry <= Len(Tree[stack[i].dir])
          /\ stack[i + 1].dir = Tree[stack[i].dir][stack[i].entry].to

\* Where the program is, and what is on the disk then.
PhaseInv ==
    /\ sb.ipg \in {OldIpg, NewIpg} /\ mem.ipg \in {OldIpg, NewIpg}
    /\ pc = "check" => magic = "unset" /\ mem.ipg = sb.ipg
    /\ pc = "magic" => <<target, magic>> \in {<<"marking", "unset">>, <<"inums", "marking">>,
                                              <<"sb", "inums">>, <<"unset", "sb">>}
    /\ pc = "bit" => magic = target
    /\ pc \in {"magic", "bit"} /\ target \in {"marking", "inums"} => mem.ipg = sb.ipg
    /\ pc \in {"magic", "bit"} /\ target = "unset" => sb.ipg = NewIpg
    /\ pc = "magic" /\ target \in {"inums", "sb"} => \A d \in Dirs : DirDone(magic, ents, d)
    /\ pc = "pass" => magic \in {"marking", "inums"} /\ mem.ipg = sb.ipg
    /\ pc \in {"bitmaps", "sb", "desc"} => magic = "sb"
    /\ pc \in {"sb", "desc"} => mem.sb.ipg = NewIpg
    /\ pc = "desc" \/ (pc = "sb" /\ mem.group # 0) => sb.ipg = NewIpg

\* The bit is set while there is something left to do, unless the program was
\* interrupted before it set it; nothing has been marked before.
BitInv ==
    /\ pc = "bit" /\ magic = "marking" =>
          \A d \in Dirs : \A k \in Reached(d) : ~ents[d][k].marked
    /\ magic # "unset" /\ ~sb.bit =>
          "bit" \in cracks \/ (magic = "marking" /\ pc = "bit")
    /\ pc \in {"sb", "desc"} /\ ~mem.sb.bit => "bit" \in cracks

IInv == BaseType /\ PhaseInv /\ DiskKept /\ StackInv /\ BitInv

-----------------------------------------------------------------------------
(* Numbers and places. *)

\* Division with a remainder, for any positive divisor.
LEMMA Quotient ==
    ASSUME NEW b \in Nat \ {0}, NEW q \in Nat, NEW r \in 0..(b - 1)
    PROVE  (q * b + r) \div b = q /\ (q * b + r) % b = r
  OBVIOUS

\* Rounding up gives a multiple of PerBlock that is not smaller.
LEMMA AlignedUp ==
    ASSUME NEW n \in Nat \ {0}
    PROVE  /\ Aligned(n) \in Nat \ {0} /\ Aligned(n) >= n
           /\ \E q \in Nat : Aligned(n) = q * PerBlock
  <1> DEFINE q == (n + PerBlock - 1) \div PerBlock
  <1>1. PerBlock \in Nat \ {0}
    BY SizesAssumption
  <1>2. q \in Nat /\ n + PerBlock - 1 = PerBlock * q + ((n + PerBlock - 1) % PerBlock)
        /\ (n + PerBlock - 1) % PerBlock \in 0..(PerBlock - 1)
    BY <1>1
  <1>3. Aligned(n) = q * PerBlock
    BY DEF Aligned
  <1> HIDE DEF q
  <1>4. q * PerBlock = PerBlock * q /\ q * PerBlock \in Nat
    BY <1>1, <1>2
  <1>5. q * PerBlock >= n
    BY <1>1, <1>2, <1>4
  <1> QED
    BY <1>2, <1>3, <1>4, <1>5

\* The new inodes per group are those an aligned image has: they stay.
LEMMA Ipgs ==
    /\ OldIpg \in Nat \ {0} /\ NewIpg \in Nat \ {0} /\ NewIpg >= OldIpg
    /\ Aligned(OldIpg) = NewIpg /\ Aligned(NewIpg) = NewIpg
  <1>1. OldIpg \in Nat \ {0} /\ PerBlock \in Nat \ {0}
    BY SizesAssumption
  <1>2. NewIpg \in Nat \ {0} /\ NewIpg >= OldIpg
    BY <1>1, AlignedUp DEF NewIpg
  <1>3. PICK q \in Nat : NewIpg = q * PerBlock
    BY <1>1, AlignedUp DEF NewIpg
  <1>4. NewIpg + PerBlock - 1 = q * PerBlock + (PerBlock - 1)
    BY <1>1, <1>2, <1>3
  <1>5. (q * PerBlock + (PerBlock - 1)) \div PerBlock = q
    BY <1>1, Quotient
  <1>6. Aligned(NewIpg) = NewIpg
    BY <1>3, <1>4, <1>5 DEF Aligned
  <1> QED
    BY <1>1, <1>2, <1>6 DEF NewIpg

Places == (0..(Groups - 1)) \X (0..(OldIpg - 1))

\* A number tells the place it was made for, and its new number is the one made
\* for the same place.
LEMMA Numbers ==
    ASSUME NEW to \in Places, NEW ipg \in {OldIpg, NewIpg}
    PROVE  /\ Number(ipg, to) \in Nat \ {0}
           /\ Place(ipg, Number(ipg, to)) = to
           /\ NewInum(ipg, Number(ipg, to)) = Number(NewIpg, to)
           /\ Aligned(ipg) = NewIpg
  <1> DEFINE g == to[1]
             i == to[2]
  <1>1. g \in Nat /\ i \in 0..(ipg - 1) /\ to = <<g, i>> /\ ipg \in Nat \ {0}
    BY Ipgs, SizesAssumption DEF Places
  <1>2. Aligned(ipg) = NewIpg
    BY Ipgs
  <1> HIDE DEF g, i
  <1>3. (g * ipg + i) \div ipg = g /\ (g * ipg + i) % ipg = i
    BY <1>1, Quotient
  <1>4. g * ipg \in Nat
    BY <1>1
  <1>5. Number(ipg, to) = g * ipg + i + 1 /\ Number(NewIpg, to) = g * NewIpg + i + 1
    BY DEF Number, g, i
  <1>6. Number(ipg, to) - 1 = g * ipg + i /\ Number(ipg, to) \in Nat \ {0}
    BY <1>1, <1>4, <1>5
  <1>7. Place(ipg, Number(ipg, to)) = to
    BY <1>1, <1>3, <1>6 DEF Place
  <1>8. NewInum(ipg, Number(ipg, to)) = Number(NewIpg, to)
    BY <1>2, <1>3, <1>5, <1>6 DEF NewInum
  <1> QED
    BY <1>2, <1>6, <1>7, <1>8

-----------------------------------------------------------------------------
(* Directories. *)

LEMMA TreeFacts ==
    ASSUME NEW d \in Dirs
    PROVE  /\ Len(Tree[d]) \in Nat \ {0} /\ Blocks(d) \in Nat \ {0}
           /\ Reached(d) \subseteq 1..Len(Tree[d])
           /\ \A k \in 1..Len(Tree[d]) :
                 /\ Tree[d][k] \in EntryType
                 /\ Tree[d][k].to \in Places
                 /\ Tree[d][k].block \in 1..Blocks(d)
                 /\ Tree[d][k].type = "dir" => Tree[d][k].to \in Dirs
                 /\ Tree[d][k].type = "file" => Tree[d][k].to \notin Dirs
                 /\ k \in Reached(d) => Tree[d][k].live
  <1>1. Tree[d] \in Seq(EntryType) /\ Tree[d] # << >>
    BY TreeAssumption
  <1>2. Len(Tree[d]) \in Nat \ {0}
    BY <1>1
  <1>3. \A k \in 1..Len(Tree[d]) : Tree[d][k] \in EntryType
    BY <1>1
  <1>4. Blocks(d) \in Nat \ {0}
    BY <1>2, <1>3 DEF Blocks, EntryType
  <1>5. \A k \in 1..Len(Tree[d]) : Tree[d][k].to \in Places
    BY <1>3 DEF EntryType, Places
  <1>6. \A k \in 1..Len(Tree[d]) :
          /\ Tree[d][k].block \in 1..Blocks(d)
          /\ Tree[d][k].type = "dir" => Tree[d][k].to \in Dirs
          /\ Tree[d][k].type = "file" => Tree[d][k].to \notin Dirs
    BY TreeAssumption
  <1>7. Reached(d) \subseteq 1..Len(Tree[d])
        /\ \A k \in Reached(d) : Tree[d][k].live
    BY <1>2 DEF Reached
  <1> QED
    BY <1>2, <1>3, <1>4, <1>5, <1>6, <1>7

\* The entry behind those that are reached is reached too, unless it is deleted.
LEMMA ReachedNext ==
    ASSUME NEW d \in Dirs, NEW n \in 1..(Len(Tree[d]) + 1),
           \A k \in 1..(n - 1) : k \in Reached(d)
    PROVE  /\ n <= Len(Tree[d]) /\ Tree[d][n].live => n \in Reached(d)
           /\ n > Len(Tree[d]) \/ ~Tree[d][n].live =>
                 \A k \in Reached(d) : k \in 1..(n - 1)
  <1>1. Len(Tree[d]) \in Nat
    BY TreeFacts
  <1> QED
    BY <1>1 DEF Reached

\* A number a buffer holds, in a pass.
LEMMA Readable ==
    ASSUME BaseType, PhaseInv, pc = "pass", NEW d \in Dirs, NEW buf \in BufType(d),
           Kept(magic, sb.ipg, d, buf), NEW k \in 1..Len(Tree[d])
    PROVE  /\ buf[k].ino # 0 => Tree[d][k].live
           /\ k \in Reached(d) =>
                 /\ buf[k].ino # 0
                 /\ magic = "marking" \/ buf[k].marked =>
                       /\ buf[k].ino = Number(mem.ipg, Tree[d][k].to)
                       /\ Place(mem.ipg, buf[k].ino) = Tree[d][k].to
  <1>1. mem.ipg = sb.ipg /\ mem.ipg \in {OldIpg, NewIpg} /\ magic \in {"marking", "inums"}
    BY DEF PhaseInv
  <1>2. Tree[d][k].to \in Places
    BY TreeFacts
  <1>3. ~Tree[d][k].live => buf[k].ino = 0
    BY DEF Kept
  <1>4. ASSUME k \in Reached(d)
        PROVE  \/ buf[k].ino = Number(mem.ipg, Tree[d][k].to)
               \/ /\ buf[k].ino = Number(NewIpg, Tree[d][k].to)
                  /\ magic = "inums" /\ ~buf[k].marked
    BY <1>1, <1>4 DEF Kept, Resolved
  <1> QED
    BY <1>1, <1>2, <1>3, <1>4, Numbers

-----------------------------------------------------------------------------
(* The beginning, and what does not change. *)

\* The image is as it was made: no entry is marked.
LEMMA Initially == Init => IInv
  <1> SUFFICES ASSUME Init PROVE IInv
    OBVIOUS
  <1> USE DEF Init
  <1>1. Groups \in Nat \ {0} /\ UsedInodes \in 0..OldIpg /\ OldIpg \in Nat \ {0}
        /\ MaxCrashes \in Nat
    BY SizesAssumption
  <1>2. OldSb \in SbType /\ OldDesc \in DescType
    <2>1. Groups * OldIpg \in Nat /\ OldIpg - UsedInodes \in Nat
      BY <1>1
    <2>2. Groups * (OldIpg - UsedInodes) \in Nat
      BY <1>1, <2>1
    <2> QED
      BY <1>1, <2>1, <2>2 DEF OldSb, SbType, OldDesc, DescType
  <1>3. \A d \in Dirs : \A k \in 1..Len(Tree[d]) :
          /\ OldEnts[d][k] = OldEntry(Tree[d][k])
          /\ OldEnts[d][k] \in [ino : Nat, marked : BOOLEAN]
          /\ OldEnts[d][k].marked = FALSE
          /\ ~Tree[d][k].live => OldEnts[d][k].ino = 0
          /\ Tree[d][k].live => OldEnts[d][k].ino = Number(OldIpg, Tree[d][k].to)
    <2> SUFFICES ASSUME NEW d \in Dirs, NEW k \in 1..Len(Tree[d])
                 PROVE  /\ OldEnts[d][k] = OldEntry(Tree[d][k])
                        /\ OldEntry(Tree[d][k]) \in [ino : Nat, marked : BOOLEAN]
                        /\ OldEntry(Tree[d][k]).marked = FALSE
                        /\ ~Tree[d][k].live => OldEntry(Tree[d][k]).ino = 0
                        /\ Tree[d][k].live =>
                              OldEntry(Tree[d][k]).ino = Number(OldIpg, Tree[d][k].to)
      BY DEF OldEnts
    <2>1. Number(OldIpg, Tree[d][k].to) \in Nat
      BY TreeFacts, Numbers
    <2>2. OldEnts[d][k] = OldEntry(Tree[d][k])
      BY DEF OldEnts
    <2> QED
      BY <2>1, <2>2 DEF OldEntry
  <1>4. BaseType
    <2>1. DOMAIN ents = Dirs /\ \A d \in Dirs : ents[d] \in BufType(d)
      BY <1>3 DEF OldEnts, BufType
    <2>2. backups \in [Supers \ {0} -> [sb : SbType, desc : DescType]]
      BY <1>2
    <2>3. bits \in [0..(Groups - 1) -> SUBSET (OldIpg..(NewIpg - 1))]
      <3>1. bits = [g \in 0..(Groups - 1) |-> OldIpg..(NewIpg - 1)]
        OBVIOUS
      <3>2. (OldIpg..(NewIpg - 1)) \in SUBSET (OldIpg..(NewIpg - 1))
        OBVIOUS
      <3> HIDE DEF Init
      <3> QED
        BY <3>1, <3>2, Zenon
    <2>4. mem \in [ipg : Nat, sb : SbType, desc : DescType, group : 0..(Groups - 1)]
      <3>1. 0 \in 0..(Groups - 1) /\ OldIpg \in Nat
        BY <1>1
      <3>2. mem = [ipg |-> OldIpg, sb |-> OldSb, desc |-> OldDesc, group |-> 0]
        BY DEF NoMem
      <3> HIDE DEF Init
      <3> QED
        BY <1>2, <3>1, <3>2
    <2>5. magic \in States /\ target \in States /\ sb \in SbType /\ desc \in DescType
          /\ pc = "start" /\ crashes \in 0..MaxCrashes /\ cracks \subseteq {"bit", "desc"}
      BY <1>1, <1>2 DEF States
    <2> QED
      BY <2>1, <2>2, <2>3, <2>4, <2>5 DEF BaseType
  <1>5. DiskKept
    <2>1. sb.ipg = OldIpg
      BY DEF OldSb
    <2> QED
      BY <1>3, <2>1, TreeFacts DEF DiskKept, Directories, Kept, First, Resolved
  <1>6. PhaseInv /\ BitInv
    BY DEF PhaseInv, BitInv, OldSb, NoMem
  <1>7. StackInv
    BY DEF StackInv
  <1> QED
    BY <1>4, <1>5, <1>6, <1>7 DEF IInv

\* What the disk holds of directories can be told as before, unless the state, the
\* entries, or the inodes per group that still count are changed.
LEMMA DiskStable ==
    ASSUME DiskKept, magic' = magic, ents' = ents, sb'.ipg = sb.ipg \/ magic = "sb"
    PROVE  DiskKept'
<1>1. ASSUME NEW d \in Dirs
      PROVE  Kept(magic, sb'.ipg, d, ents[d]) /\ First(magic, ents, d, ents[d])
  <2>1. Kept(magic, sb.ipg, d, ents[d]) /\ First(magic, ents, d, ents[d])
    BY DEF DiskKept, Directories
  <2>2. Kept(magic, sb'.ipg, d, ents[d])
    <3>1. CASE sb'.ipg = sb.ipg
      BY <2>1, <3>1
    <3>2. CASE magic = "sb"
      BY <2>1, <3>2 DEF Kept, Resolved
    <3>3. QED
      BY <3>1, <3>2
  <2>3. QED
    BY <2>1, <2>2
<1>2. QED
  BY <1>1 DEF DiskKept, Directories

\* recurse_dir() of a directory begins with what is on the disk.
LEMMA Fresh ==
    ASSUME BaseType, DiskKept, NEW d \in Dirs
    PROVE  /\ Frame(d) \in FrameType /\ FrameInv(magic, sb.ipg, ents, Frame(d))
           /\ Frame(d).dir = d
  <1>1. ents[d] \in BufType(d) /\ Kept(magic, sb.ipg, d, ents[d])
        /\ First(magic, ents, d, ents[d])
    BY DEF BaseType, DiskKept, Directories
  <1>2. Frame(d) \in FrameType /\ Frame(d).dir = d /\ Frame(d).buf = ents[d]
        /\ Frame(d).entry = 1 /\ Frame(d).written = 0 /\ ~Frame(d).back
    BY <1>1 DEF Frame, FrameType
  <1>3. Len(Tree[d]) \in Nat \ {0} /\ Blocks(d) \in Nat \ {0}
        /\ \A k \in Reached(d) : Tree[d][k].block \in 1..Blocks(d)
    BY TreeFacts
  <1> QED
    BY <1>1, <1>2, <1>3 DEF FrameInv

LEMMA NoStack ==
    ASSUME stack' = << >>, pc' # "pass"
    PROVE  StackInv'
  BY DEF StackInv

LEMMA FirstStack ==
    ASSUME BaseType, DiskKept, NEW state \in States, stack' = FirstFrame(state),
           pc' = "pass" <=> Phase(state) = "pass",
           magic' = magic, ents' = ents, sb'.ipg = sb.ipg
    PROVE  StackInv'
  <1>1. CASE Phase(state) # "pass"
    BY <1>1, NoStack DEF FirstFrame
  <1>2. CASE Phase(state) = "pass"
    <2>1. Root \in Dirs
      BY TreeAssumption
    <2>2. /\ Frame(Root) \in FrameType /\ FrameInv(magic, sb.ipg, ents, Frame(Root))
          /\ Frame(Root).dir = Root
      BY <2>1, Fresh
    <2>3. stack' = <<Frame(Root)>> /\ pc' = "pass"
      BY <1>2 DEF FirstFrame
    <2>4. FrameInv(magic', sb'.ipg, ents', stack'[1])
      BY <2>2, <2>3
    <2> QED
      BY <2>2, <2>3, <2>4 DEF StackInv
  <1> QED
    BY <1>1, <1>2

-----------------------------------------------------------------------------
(* One step of the program outside of its passes. *)

LEMMA StartKeeps == ASSUME IInv, Start PROVE IInv'
  <1> USE DEF IInv
  <1>1. UNCHANGED <<magic, sb, desc, backups, bits, ents, target, crashes, cracks>>
        /\ pc = "start"
    BY DEF Start, disk, history
  <1>2. magic \in States /\ Phase(magic) \in {"check", "pass", "bitmaps"}
        /\ (Phase(magic) = "check" => magic = "unset")
        /\ (Phase(magic) = "pass" => magic \in {"marking", "inums"})
        /\ (Phase(magic) = "bitmaps" => magic = "sb")
    BY DEF BaseType, States, Phase
  <1>3. mem' = [ipg |-> sb.ipg, sb |-> sb, desc |-> desc, group |-> 0]
        /\ pc' = Phase(magic) /\ stack' = FirstFrame(magic)
    BY DEF Start
  <1>4. BaseType'
    <2>1. sb.ipg \in Nat /\ 0 \in 0..(Groups - 1)
      BY SizesAssumption DEF BaseType, SbType
    <2>2. mem' \in [ipg : Nat, sb : SbType, desc : DescType, group : 0..(Groups - 1)]
      BY <1>3, <2>1 DEF BaseType
    <2> QED
      BY <1>1, <1>2, <1>3, <2>2 DEF BaseType
  <1>5. PhaseInv'
    BY <1>1, <1>2, <1>3 DEF PhaseInv
  <1>6. DiskKept'
    BY <1>1, DiskStable
  <1>7. StackInv'
    BY <1>1, <1>2, <1>3, FirstStack
  <1>8. BitInv'
    BY <1>1, <1>2, <1>3 DEF BitInv
  <1> QED
    BY <1>4, <1>5, <1>6, <1>7, <1>8

LEMMA SanityCheckKeeps == ASSUME IInv, SanityCheck PROVE IInv'
  <1> USE DEF IInv
  <1>1. UNCHANGED <<magic, sb, desc, backups, bits, ents, mem, stack, crashes, cracks>>
        /\ pc = "check" /\ pc' = "magic" /\ target' = "marking"
    BY DEF SanityCheck, disk, history
  <1>2. BaseType'
    BY <1>1 DEF BaseType, States
  <1>3. PhaseInv'
    BY <1>1 DEF PhaseInv
  <1>4. DiskKept'
    BY <1>1, DiskStable
  <1>5. StackInv'
    BY <1>1, NoStack DEF StackInv
  <1>6. BitInv'
    BY <1>1 DEF BitInv
  <1> QED
    BY <1>2, <1>3, <1>4, <1>5, <1>6

\* The state changes when everything is done that the one before called for: what
\* could be told by the one can be told by the other.
LEMMA SetMagicKeeps == ASSUME IInv, SetMagic PROVE IInv'
  <1> USE DEF IInv
  <1>1. UNCHANGED <<sb, desc, backups, bits, ents, target, mem, stack, crashes, cracks>>
        /\ pc = "magic" /\ pc' = "bit" /\ magic' = target
    BY DEF SetMagic, history
  <1>2. \/ magic = "unset" /\ magic' = "marking"
        \/ /\ magic = "marking" /\ magic' = "inums"
           /\ \A d \in Dirs : DirDone("marking", ents, d)
        \/ /\ magic = "inums" /\ magic' = "sb"
           /\ \A d \in Dirs : DirDone("inums", ents, d)
        \/ magic = "sb" /\ magic' = "unset" /\ sb.ipg = NewIpg
    BY <1>1 DEF PhaseInv
  <1>3. BaseType'
    BY <1>1 DEF BaseType
  <1>4. PhaseInv'
    BY <1>1 DEF PhaseInv
  <1>5. \A d \in Dirs : \A k \in Reached(d) : ents[d][k].marked \in BOOLEAN
    BY TreeFacts DEF BaseType, BufType
  <1>6. DiskKept'
    <2> SUFFICES ASSUME NEW d \in Dirs
                 PROVE  /\ Kept(magic', sb.ipg, d, ents[d])
                        /\ First(magic', ents, d, ents[d])
      BY <1>1 DEF DiskKept, Directories
    <2>1. Kept(magic, sb.ipg, d, ents[d])
      BY DEF DiskKept, Directories
    <2>2. Kept(magic', sb.ipg, d, ents[d])
      BY <1>2, <1>5, <2>1 DEF Kept, Resolved, DirDone, Done
    <2>3. First(magic', ents, d, ents[d])
      <3>1. magic' = "marking" => \A k \in Reached(d) : ~ents[d][k].marked
        BY <1>2, <2>1, TreeFacts DEF Kept
      <3>2. magic' = "inums" => \A k \in Reached(d) : ents[d][k].marked
        BY <1>2, <1>5 DEF DirDone, Done
      <3> QED
        BY <1>5, <3>1, <3>2 DEF First, Done
    <2> QED
      BY <2>2, <2>3
  <1>7. StackInv'
    BY <1>1, NoStack DEF StackInv
  <1>8. BitInv'
    <2>1. magic' = "marking" => \A d \in Dirs : \A k \in Reached(d) : ~ents[d][k].marked
      BY <1>2, TreeFacts DEF DiskKept, Directories, Kept
    <2> QED
      BY <1>1, <1>2, <2>1 DEF BitInv
  <1> QED
    BY <1>3, <1>4, <1>6, <1>7, <1>8

LEMMA SetBitKeeps == ASSUME IInv, SetBit PROVE IInv'
  <1> USE DEF IInv
  <1>1. UNCHANGED <<magic, desc, backups, bits, ents, target, mem, crashes, cracks>>
        /\ pc = "bit" /\ stack' = FirstFrame(target)
        /\ pc' = IF target = "unset" THEN "done" ELSE Phase(target)
    BY DEF SetBit, history
  <1>2. sb' \in SbType /\ sb'.ipg = sb.ipg /\ sb'.bit = (target # "unset")
    BY Zenon DEF SetBit, BitFor, BaseType, SbType
  <1>3. target = magic /\ magic \in States
    BY <1>1 DEF PhaseInv, BaseType
  <1>4. BaseType'
    BY <1>1, <1>2, <1>3 DEF BaseType, Phase, States
  <1>5. PhaseInv'
    BY <1>1, <1>2, <1>3 DEF PhaseInv, Phase, States
  <1>6. DiskKept'
    BY <1>1, <1>2, DiskStable
  <1>7. StackInv'
    <2>1. pc' = "pass" <=> Phase(target) = "pass"
      BY <1>1, <1>3 DEF Phase, States
    <2> QED
      BY <1>1, <1>2, <1>3, <2>1, FirstStack
  <1>8. BitInv'
    BY <1>1, <1>2, <1>3 DEF BitInv, Phase, States
  <1> QED
    BY <1>4, <1>5, <1>6, <1>7, <1>8

\* Groups gain inodes, never lose any.
LEMMA MoreInodes ==
    ASSUME IInv
    PROVE  More \in Nat /\ Aligned(mem.ipg) = NewIpg /\ NewIpg \in Nat
  <1>1. sb.ipg \in {OldIpg, NewIpg} /\ mem.ipg \in {OldIpg, NewIpg}
    BY DEF IInv, PhaseInv
  <1> QED
    BY <1>1, Ipgs DEF More

LEMMA FixBitmapKeeps == ASSUME IInv, FixBitmap PROVE IInv'
  <1> USE DEF IInv
  <1> DEFINE g == mem.group
             newSb == [ipg    |-> Aligned(mem.ipg),
                       inodes |-> sb.inodes + Groups * More,
                       free   |-> sb.free + Groups * More,
                       bit    |-> sb.bit]
  <1>1. UNCHANGED <<magic, sb, desc, backups, ents, target, stack, crashes, cracks>>
        /\ pc = "bitmaps" /\ pc' \in {"sb", "bitmaps"}
        /\ (pc' = "sb" => g = Groups - 1)
    BY DEF FixBitmap, history
  <1>2. g \in 0..(Groups - 1) /\ Groups \in Nat \ {0}
    BY SizesAssumption DEF BaseType
  <1>3. newSb \in SbType /\ newSb.ipg = NewIpg /\ newSb.bit = sb.bit
    <2> DEFINE gain == Groups * More
    <2>1. gain \in Nat
      BY <1>2, MoreInodes
    <2>2. sb.inodes \in Nat /\ sb.free \in Nat /\ sb.bit \in BOOLEAN
      BY DEF BaseType, SbType
    <2>3. newSb = [ipg |-> NewIpg, inodes |-> sb.inodes + gain,
                   free |-> sb.free + gain, bit |-> sb.bit]
      BY MoreInodes
    <2> HIDE DEF gain, newSb
    <2>4. sb.inodes + gain \in Nat /\ sb.free + gain \in Nat
      BY <2>1, <2>2
    <2>5. newSb \in SbType
      BY <2>2, <2>3, <2>4, MoreInodes DEF SbType
    <2>6. newSb.ipg = NewIpg /\ newSb.bit = sb.bit
      BY <2>3
    <2> QED
      BY <2>5, <2>6
  <1>4. mem' \in [ipg : Nat, sb : SbType, desc : DescType, group : 0..(Groups - 1)]
        /\ mem'.ipg = mem.ipg /\ mem'.sb = newSb
        /\ mem'.group = (IF g = Groups - 1 THEN 0 ELSE g + 1)
    <2> DEFINE newDesc == [mem.desc EXCEPT ![g] = @ + More]
               next == IF g = Groups - 1 THEN 0 ELSE g + 1
    <2>1. mem \in [ipg : Nat, sb : SbType, desc : DescType, group : 0..(Groups - 1)]
      BY DEF BaseType
    <2>2. newDesc \in DescType
      BY <1>2, <2>1, MoreInodes DEF DescType
    <2>3. next \in 0..(Groups - 1)
      BY <1>2
    <2>4. mem' = [mem EXCEPT !.desc = newDesc, !.group = next, !.sb = newSb]
      BY <2>1 DEF FixBitmap
    <2> HIDE DEF newDesc, next, newSb
    <2>5. mem' \in [ipg : Nat, sb : SbType, desc : DescType, group : 0..(Groups - 1)]
          /\ mem'.ipg = mem.ipg /\ mem'.sb = newSb /\ mem'.group = next
      BY <1>3, <2>1, <2>2, <2>3, <2>4
    <2> QED
      BY <2>5 DEF next
  <1>5. bits' \in [0..(Groups - 1) -> SUBSET (OldIpg..(NewIpg - 1))]
    <2>1. bits' = [bits EXCEPT ![g] = @ \ (mem.ipg..(Aligned(mem.ipg) - 1))]
      BY DEF FixBitmap
    <2>2. bits[g] \in SUBSET (OldIpg..(NewIpg - 1))
      BY <1>2 DEF BaseType
    <2> QED
      BY <1>2, <2>1, <2>2 DEF BaseType
  <1> HIDE DEF newSb
  <1>6. BaseType'
    BY <1>1, <1>4, <1>5 DEF BaseType
  <1>7. PhaseInv'
    BY <1>1, <1>2, <1>3, <1>4 DEF PhaseInv
  <1>8. DiskKept'
    BY <1>1, DiskStable
  <1>9. StackInv'
    BY <1>1, NoStack DEF StackInv
  <1>10. BitInv'
    BY <1>1, <1>3, <1>4 DEF BitInv, PhaseInv
  <1> QED
    BY <1>6, <1>7, <1>8, <1>9, <1>10

LEMMA WriteSbKeeps == ASSUME IInv, WriteSb PROVE IInv'
  <1> USE DEF IInv
  <1> DEFINE g == mem.group
  <1>1. UNCHANGED <<magic, desc, bits, ents, target, mem, stack, crashes, cracks>>
        /\ pc = "sb" /\ pc' = "desc" /\ g \in Supers /\ magic = "sb"
    BY DEF WriteSb, history, PhaseInv
  <1>2. mem.sb \in SbType /\ mem.sb.ipg = NewIpg
    BY <1>1 DEF BaseType, PhaseInv
  <1>3. sb' \in SbType /\ sb'.ipg = NewIpg /\ (sb' = mem.sb \/ sb' = sb)
    BY <1>1, <1>2 DEF WriteSb, BaseType, PhaseInv
  <1>4. backups' \in [Supers \ {0} -> [sb : SbType, desc : DescType]]
    <2>1. CASE g = 0
      BY <2>1 DEF WriteSb, BaseType
    <2>2. CASE g # 0
      <3>1. g \in Supers \ {0}
        BY <1>1, <2>2
      <3>2. backups[g] \in [sb : SbType, desc : DescType]
        BY <3>1 DEF BaseType
      <3>3. [mem.sb EXCEPT !.bit = FALSE] \in SbType
        BY <1>2 DEF SbType
      <3>4. [backups[g] EXCEPT !.sb = [mem.sb EXCEPT !.bit = FALSE]]
              \in [sb : SbType, desc : DescType]
        BY <3>2, <3>3
      <3>5. backups' = [backups EXCEPT ![g] =
                          [backups[g] EXCEPT !.sb = [mem.sb EXCEPT !.bit = FALSE]]]
        BY <2>2 DEF WriteSb
      <3> QED
        BY <3>1, <3>4, <3>5 DEF BaseType
    <2> QED
      BY <2>1, <2>2
  <1>5. BaseType'
    BY <1>1, <1>3, <1>4 DEF BaseType
  <1>6. PhaseInv'
    BY <1>1, <1>2, <1>3 DEF PhaseInv
  <1>7. DiskKept'
    BY <1>1, DiskStable
  <1>8. StackInv'
    BY <1>1, NoStack DEF StackInv
  <1>9. BitInv'
    BY <1>1, <1>3 DEF BitInv
  <1> QED
    BY <1>5, <1>6, <1>7, <1>8, <1>9

\* The next group, or the end.
LEMMA NextGroupKeeps ==
    ASSUME IInv, pc \in {"sb", "desc"}, NextGroup, sb.ipg = NewIpg,
           UNCHANGED <<magic, sb, bits, ents, stack, crashes, cracks>>,
           desc' \in DescType,
           backups' \in [Supers \ {0} -> [sb : SbType, desc : DescType]]
    PROVE  IInv'
  <1> USE DEF IInv
  <1>1. mem.group \in 0..(Groups - 1) /\ Groups \in Nat \ {0} /\ magic = "sb"
    BY SizesAssumption DEF BaseType, PhaseInv
  <1>2. CASE LastGroup(mem.group)
    <2>1. pc' = "magic" /\ target' = "unset" /\ mem' = mem
      BY <1>2 DEF NextGroup
    <2>2. BaseType'
      BY <2>1 DEF BaseType, States
    <2>3. PhaseInv'
      BY <1>1, <2>1 DEF PhaseInv
    <2>4. StackInv'
      BY <2>1, NoStack DEF StackInv
    <2>5. BitInv'
      BY <1>1, <2>1 DEF BitInv
    <2> QED
      BY <2>2, <2>3, <2>4, <2>5, DiskStable
  <1>3. CASE ~LastGroup(mem.group)
    <2>1. pc' = "sb" /\ target' = target /\ mem' = [mem EXCEPT !.group = @ + 1]
      BY <1>3 DEF NextGroup
    <2>2. mem.group + 1 \in 0..(Groups - 1) /\ mem.group + 1 # 0
      BY <1>1, <1>3 DEF LastGroup
    <2>3. mem' \in [ipg : Nat, sb : SbType, desc : DescType, group : 0..(Groups - 1)]
          /\ mem'.sb = mem.sb /\ mem'.ipg = mem.ipg /\ mem'.group # 0
      BY <2>1, <2>2 DEF BaseType
    <2>4. BaseType'
      BY <2>1, <2>3 DEF BaseType
    <2>5. PhaseInv'
      BY <1>1, <2>1, <2>3 DEF PhaseInv
    <2>6. StackInv'
      BY <2>1, NoStack DEF StackInv
    <2>7. BitInv'
      BY <1>1, <2>1, <2>3 DEF BitInv
    <2> QED
      BY <2>4, <2>5, <2>6, <2>7, DiskStable
  <1> QED
    BY <1>2, <1>3

LEMMA WriteDescKeeps == ASSUME IInv, WriteDesc PROVE IInv'
  <1> DEFINE g == mem.group
  <1>1. pc = "desc" /\ NextGroup /\ UNCHANGED <<magic, sb, bits, ents, stack, crashes, cracks>>
        /\ sb.ipg = NewIpg
    BY DEF WriteDesc, history, IInv, PhaseInv
  <1>2. mem.desc \in DescType /\ desc \in DescType
        /\ backups \in [Supers \ {0} -> [sb : SbType, desc : DescType]]
    BY DEF IInv, BaseType
  <1>3. desc' \in DescType
    BY <1>2 DEF WriteDesc
  <1>4. backups' \in [Supers \ {0} -> [sb : SbType, desc : DescType]]
    <2>1. CASE g \notin Supers \ {0} \/ g = 0
      BY <1>2, <2>1 DEF WriteDesc
    <2>2. CASE g \in Supers \ {0}
      <3>1. [backups[g] EXCEPT !.desc = mem.desc] \in [sb : SbType, desc : DescType]
        BY <1>2, <2>2
      <3>2. backups' = [backups EXCEPT ![g] = [backups[g] EXCEPT !.desc = mem.desc]]
        BY <2>2 DEF WriteDesc
      <3> QED
        BY <1>2, <2>2, <3>1, <3>2
    <2> QED
      BY <2>1, <2>2
  <1> QED
    BY <1>1, <1>3, <1>4, NextGroupKeeps

LEMMA SkipGroupKeeps == ASSUME IInv, SkipGroup PROVE IInv'
  <1>1. pc = "sb" /\ NextGroup /\ mem.group \notin Supers
        /\ UNCHANGED <<magic, sb, desc, backups, bits, ents, stack, crashes, cracks>>
    BY DEF SkipGroup, history, disk
  <1>2. sb.ipg = NewIpg
    BY <1>1, SizesAssumption DEF IInv, PhaseInv
  <1> QED
    BY <1>1, <1>2, NextGroupKeeps DEF IInv, BaseType

\* An interruption leaves what is on the disk.
LEMMA CrashKeeps == ASSUME IInv, Crash PROVE IInv'
  <1> USE DEF IInv
  <1>1. UNCHANGED <<magic, sb, desc, backups, bits, ents>>
        /\ pc' = "start" /\ target' = "unset" /\ mem' = NoMem /\ stack' = << >>
        /\ crashes < MaxCrashes /\ crashes' = crashes + 1
        /\ cracks \subseteq cracks' /\ cracks' \subseteq cracks \cup {"bit", "desc"}
        /\ (pc = "bit" /\ target = "marking" => "bit" \in cracks')
    BY DEF Crash, disk
  <1>2. NoMem \in [ipg : Nat, sb : SbType, desc : DescType, group : 0..(Groups - 1)]
        /\ NoMem.ipg = OldIpg
    <2>1. Groups \in Nat \ {0} /\ OldIpg \in Nat \ {0} /\ UsedInodes \in 0..OldIpg
      BY SizesAssumption
    <2>2. Groups * OldIpg \in Nat /\ OldIpg - UsedInodes \in Nat
      BY <2>1
    <2>3. Groups * (OldIpg - UsedInodes) \in Nat
      BY <2>1, <2>2
    <2>4. OldSb \in SbType /\ OldDesc \in DescType
      BY <2>1, <2>2, <2>3 DEF OldSb, SbType, OldDesc, DescType
    <2>5. 0 \in 0..(Groups - 1)
      BY <2>1
    <2> QED
      BY <2>1, <2>4, <2>5 DEF NoMem
  <1>3. BaseType'
    BY <1>1, <1>2, SizesAssumption DEF BaseType, States
  <1>4. PhaseInv'
    BY <1>1, <1>2 DEF PhaseInv
  <1>5. DiskKept'
    BY <1>1, DiskStable
  <1>6. StackInv'
    BY <1>1, NoStack
  <1>7. BitInv'
    BY <1>1 DEF BitInv, PhaseInv
  <1> QED
    BY <1>3, <1>4, <1>5, <1>6, <1>7

-----------------------------------------------------------------------------
(* One step of a pass. *)

\* A buffer is a sequence.
LEMMA LenFacts ==
    ASSUME NEW n \in Nat, NEW S, NEW f \in [1..n -> S]
    PROVE  Len(f) = n
  <1>1. f \in Seq(S)
    OBVIOUS
  <1>2. DOMAIN f = 1..n /\ DOMAIN f = 1..Len(f) /\ Len(f) \in Nat
    BY <1>1
  <1> QED
    BY <1>2

\* The frame recurse_dir() is in.
LEMMA TopFacts ==
    ASSUME IInv, pc = "pass"
    PROVE  /\ stack \in Seq(FrameType) /\ Len(stack) \in Nat \ {0}
           /\ Top = stack[Len(stack)] /\ Top \in FrameType /\ Top.dir \in Dirs
           /\ FrameInv(magic, sb.ipg, ents, Top)
           /\ Top.buf \in BufType(Top.dir) /\ Len(Top.buf) = Len(Tree[Top.dir])
           /\ magic \in {"marking", "inums"} /\ mem.ipg = sb.ipg
           /\ sb.ipg \in {OldIpg, NewIpg}
  <1>1. stack \in Seq(FrameType) /\ stack # << >>
        /\ \A i \in 1..Len(stack) : FrameInv(magic, sb.ipg, ents, stack[i])
    BY DEF IInv, StackInv
  <1>2. Len(stack) \in Nat \ {0} /\ Len(stack) \in 1..Len(stack)
    BY <1>1
  <1>3. Top = stack[Len(stack)] /\ Top \in FrameType
    BY <1>1, <1>2 DEF Top
  <1>4. Top.dir \in Dirs
    BY <1>3 DEF FrameType
  <1>5. FrameInv(magic, sb.ipg, ents, Top)
    BY <1>1, <1>2, <1>3
  <1>6. Top.buf \in BufType(Top.dir)
    BY <1>5 DEF FrameInv
  <1>7. Len(Top.buf) = Len(Tree[Top.dir])
    <2>1. Len(Tree[Top.dir]) \in Nat
      BY <1>4, TreeFacts
    <2>2. Top.buf \in [1..Len(Tree[Top.dir]) -> [ino : Nat, marked : BOOLEAN]]
      BY <1>6 DEF BufType
    <2> QED
      BY <2>1, <2>2, LenFacts
  <1>8. magic \in {"marking", "inums"} /\ mem.ipg = sb.ipg /\ sb.ipg \in {OldIpg, NewIpg}
    BY DEF IInv, PhaseInv
  <1> QED
    BY <1>1, <1>2, <1>3, <1>4, <1>5, <1>6, <1>7, <1>8

\* The entry dirp points at is one that counts, and tells the inode it leads to.
LEMMA EntryFacts ==
    ASSUME IInv, pc = "pass", AtEntry
    PROVE  /\ Top.entry \in 1..Len(Tree[Top.dir]) /\ Top.entry \in Reached(Top.dir)
           /\ Said \in EntryType /\ Said.to \in Places /\ Said.live
           /\ Dirp \in [ino : Nat, marked : BOOLEAN]
           /\ Resolved(magic, sb.ipg, Dirp, Said.to)
           /\ magic = "marking" \/ Dirp.marked => /\ Dirp.ino = Number(mem.ipg, Said.to)
                                                  /\ Place(mem.ipg, Dirp.ino) = Said.to
  <1> DEFINE d == Top.dir
             n == Top.entry
  <1>1. d \in Dirs /\ Top.buf \in BufType(d) /\ Len(Top.buf) = Len(Tree[d])
        /\ FrameInv(magic, sb.ipg, ents, Top)
    BY TopFacts
  <1>2. n \in 1..(Len(Tree[d]) + 1) /\ Kept(magic, sb.ipg, d, Top.buf)
        /\ \A k \in 1..(n - 1) : k \in Reached(d)
    BY <1>1 DEF FrameInv
  <1>3. n \in 1..Len(Tree[d]) /\ Top.buf[n].ino # 0
    BY <1>1, <1>2, TreeFacts DEF AtEntry, Dirp
  <1>4. Tree[d][n].live
    BY <1>1, <1>2, <1>3, Readable DEF IInv
  <1>5. n \in Reached(d)
    BY <1>1, <1>2, <1>3, <1>4, ReachedNext
  <1>6. Top.buf[n] \in [ino : Nat, marked : BOOLEAN]
    BY <1>1, <1>3 DEF BufType
  <1>7. Resolved(magic, sb.ipg, Top.buf[n], Tree[d][n].to)
    BY <1>2, <1>3, <1>5 DEF Kept
  <1>8. Tree[d][n] \in EntryType /\ Tree[d][n].to \in Places
    BY <1>1, <1>3, TreeFacts
  <1>9. magic = "marking" \/ Top.buf[n].marked =>
          /\ Top.buf[n].ino = Number(mem.ipg, Tree[d][n].to)
          /\ Place(mem.ipg, Top.buf[n].ino) = Tree[d][n].to
    BY <1>1, <1>2, <1>3, <1>5, Readable DEF IInv
  <1> QED
    BY <1>3, <1>4, <1>5, <1>6, <1>7, <1>8, <1>9 DEF Dirp, Said

\* What is followed is a directory.
LEMMA FollowedFacts ==
    ASSUME IInv, pc = "pass", AtEntry, Followed
    PROVE  Said.to \in Dirs /\ Place(mem.ipg, Dirp.ino) = Said.to
  <1>1. Place(mem.ipg, Dirp.ino) = Said.to
    BY EntryFacts DEF Followed
  <1>2. Said.type = "dir" => Said.to \in Dirs
    BY TopFacts, EntryFacts, TreeFacts DEF Said
  <1> QED
    BY <1>1, <1>2 DEF Followed

\* When the loop is over, all entries that count are done.
LEMMA EndFacts ==
    ASSUME IInv, pc = "pass", ~AtEntry
    PROVE  \A k \in Reached(Top.dir) : Done(magic, Top.buf[k])
  <1> DEFINE d == Top.dir
             n == Top.entry
  <1>1. d \in Dirs /\ Top.buf \in BufType(d) /\ Len(Top.buf) = Len(Tree[d])
        /\ FrameInv(magic, sb.ipg, ents, Top)
    BY TopFacts
  <1>2. n \in 1..(Len(Tree[d]) + 1) /\ Kept(magic, sb.ipg, d, Top.buf)
        /\ \A k \in 1..(n - 1) : k \in Reached(d) /\ Done(magic, Top.buf[k])
    BY <1>1 DEF FrameInv
  <1>3. n > Len(Tree[d]) \/ Top.buf[n].ino = 0
    BY <1>1, <1>2, TreeFacts DEF AtEntry, Dirp
  <1>4. n \in 1..Len(Tree[d]) /\ Top.buf[n].ino = 0 => n \notin Reached(d)
    BY <1>1, <1>2, Readable DEF IInv
  <1>5. n > Len(Tree[d]) \/ ~Tree[d][n].live
    <2>1. CASE n > Len(Tree[d])
      BY <2>1
    <2>2. CASE ~(n > Len(Tree[d]))
      <3>1. n <= Len(Tree[d]) /\ n \in 1..Len(Tree[d])
        BY <1>1, <1>2, <2>2, TreeFacts
      <3>2. n \notin Reached(d)
        BY <1>3, <1>4, <2>2, <3>1
      <3> QED
        BY <1>1, <1>2, <3>1, <3>2, ReachedNext
    <2> QED
      BY <2>1, <2>2
  <1>6. \A k \in Reached(d) : k \in 1..(n - 1)
    BY <1>1, <1>2, <1>5, ReachedNext
  <1> QED
    BY <1>2, <1>6

\* A step that changes the stack only.
LEMMA StackStep ==
    ASSUME IInv, pc = "pass", StackInv', UNCHANGED <<disk, pc, target, mem, history>>
    PROVE  IInv'
  <1> USE DEF IInv
  <1>1. UNCHANGED <<magic, sb, desc, backups, bits, ents, pc, target, mem, crashes, cracks>>
    BY DEF disk, history
  <1>2. BaseType'
    BY <1>1 DEF BaseType
  <1>3. PhaseInv'
    BY <1>1 DEF PhaseInv
  <1>4. BitInv'
    BY <1>1 DEF BitInv
  <1> QED
    BY <1>1, <1>2, <1>3, <1>4, DiskStable

LEMMA DescendKeeps == ASSUME IInv, Descend PROVE IInv'
  <1> DEFINE fr == Frame(Said.to)
             L == Len(stack)
  <1>1. pc = "pass" /\ AtEntry /\ Followed
        /\ UNCHANGED <<disk, pc, target, mem, history>>
    BY DEF Descend
  <1>2. stack' = Append(stack, fr) /\ Said.to \in Dirs
    BY <1>1, FollowedFacts DEF Descend
  <1>3. fr \in FrameType /\ FrameInv(magic, sb.ipg, ents, fr) /\ fr.dir = Said.to
    BY <1>2, Fresh DEF IInv
  <1> HIDE DEF fr
  <1>4. stack \in Seq(FrameType) /\ L \in Nat \ {0}
    BY <1>1, TopFacts
  <1>5. stack' \in Seq(FrameType) /\ Len(stack') = L + 1 /\ stack'[L + 1] = fr
        /\ \A i \in 1..L : stack'[i] = stack[i]
    BY <1>2, <1>3, <1>4
  <1>6. UNCHANGED <<magic, sb, ents, pc>>
    BY <1>1 DEF disk
  <1>7. \A i \in 1..Len(stack') : FrameInv(magic', sb'.ipg, ents', stack'[i])
    <2> SUFFICES ASSUME NEW i \in 1..Len(stack')
                 PROVE  FrameInv(magic, sb.ipg, ents, stack'[i])
      BY <1>6
    <2>1. CASE i = L + 1
      BY <1>3, <1>5, <2>1
    <2>2. CASE i # L + 1
      <3>1. i \in 1..L
        BY <1>4, <1>5, <2>2
      <3> QED
        BY <1>5, <3>1 DEF IInv, StackInv
    <2> QED
      BY <2>1, <2>2
  <1>8. \A i \in 1..(Len(stack') - 1) :
          /\ stack'[i].entry <= Len(Tree[stack'[i].dir])
          /\ stack'[i + 1].dir = Tree[stack'[i].dir][stack'[i].entry].to
    <2> SUFFICES ASSUME NEW i \in 1..L
                 PROVE  /\ stack[i].entry <= Len(Tree[stack[i].dir])
                        /\ stack'[i + 1].dir = Tree[stack[i].dir][stack[i].entry].to
      BY <1>4, <1>5
    <2>1. CASE i = L
      <3>1. stack[i] = Top /\ stack'[i + 1].dir = Said.to
        BY <1>3, <1>5, <2>1 DEF Top
      <3>2. Top.entry \in 1..Len(Tree[Top.dir])
        BY <1>1, EntryFacts
      <3>3. Top.entry <= Len(Tree[Top.dir])
        BY <3>2
      <3> QED
        BY <3>1, <3>3 DEF Said
    <2>2. CASE i # L
      <3>1. i \in 1..(L - 1) /\ i + 1 \in 1..L
        BY <1>4, <2>2
      <3> QED
        BY <1>5, <3>1 DEF IInv, StackInv
    <2> QED
      BY <2>1, <2>2
  <1>9. stack' # << >> /\ stack'[1].dir = Root /\ pc' = "pass"
    BY <1>1, <1>4, <1>5, <1>6 DEF IInv, StackInv
  <1>10. StackInv'
    BY <1>5, <1>7, <1>8, <1>9 DEF StackInv
  <1> QED
    BY <1>1, <1>10, StackStep

\* The entry that is changed is done, and tells its inode as before; when it names
\* a directory, that one is done.
LEMMA ProcessedFacts ==
    ASSUME IInv, pc = "pass", AtEntry, Followed => Top.back
    PROVE  /\ Processed(Dirp) \in [ino : Nat, marked : BOOLEAN]
           /\ Done(magic, Processed(Dirp))
           /\ Resolved(magic, sb.ipg, Processed(Dirp), Said.to)
           /\ Names(Said) => DirDone(magic, ents, Said.to)
  <1>1. /\ Dirp \in [ino : Nat, marked : BOOLEAN] /\ Said \in EntryType
        /\ Said.to \in Places /\ Resolved(magic, sb.ipg, Dirp, Said.to)
        /\ magic = "marking" \/ Dirp.marked => /\ Dirp.ino = Number(mem.ipg, Said.to)
                                               /\ Place(mem.ipg, Dirp.ino) = Said.to
    BY EntryFacts
  <1>2. magic \in {"marking", "inums"} /\ mem.ipg = sb.ipg /\ mem.ipg \in {OldIpg, NewIpg}
    BY TopFacts
  <1>3. /\ Number(NewIpg, Said.to) \in Nat
        /\ NewInum(mem.ipg, Number(mem.ipg, Said.to)) = Number(NewIpg, Said.to)
    BY <1>1, <1>2, Numbers
  <1>8. Processed(Dirp) \in [ino : Nat, marked : BOOLEAN] /\ Done(magic, Processed(Dirp))
        /\ Resolved(magic, sb.ipg, Processed(Dirp), Said.to)
    <2>1. CASE magic = "marking"
      BY <1>1, <2>1 DEF Processed, Done, Resolved
    <2>2. CASE magic = "inums" /\ Dirp.marked
      <3>1. Processed(Dirp) = [ino |-> Number(NewIpg, Said.to), marked |-> FALSE]
        BY <1>1, <1>3, <2>2 DEF Processed
      <3>2. Processed(Dirp).marked = FALSE /\ Processed(Dirp).ino = Number(NewIpg, Said.to)
        BY <3>1
      <3>3. Processed(Dirp) \in [ino : Nat, marked : BOOLEAN]
        BY <1>3, <3>1
      <3> QED
        BY <2>2, <3>2, <3>3 DEF Done, Resolved
    <2>3. CASE magic = "inums" /\ ~Dirp.marked
      BY <1>1, <2>3 DEF Processed, Done, Resolved
    <2> QED
      BY <1>2, <2>1, <2>2, <2>3
  <1>7. ASSUME Names(Said) PROVE DirDone(magic, ents, Said.to)
    <2>1. Top.dir \in Dirs /\ FrameInv(magic, sb.ipg, ents, Top)
      BY TopFacts
    <2>2. CASE Top.back
      BY <2>1, <2>2 DEF FrameInv, Said
    <2>3. CASE ~Top.back
      <3>1. ~Followed /\ ~Said.dots /\ Said.to \in Dirs
        BY <1>7, <2>3 DEF Names
      <3>2. Said.type \in {"dir", "unknown"}
        BY <1>1, <2>1, <3>1, EntryFacts, TreeFacts DEF Said, EntryType
      <3>3. ~(magic = "marking" \/ Dirp.marked)
        BY <1>1, <3>1, <3>2 DEF Followed
      <3>4. Done(magic, Dirp) /\ Top.entry \in Reached(Top.dir)
        BY <1>1, <1>2, <3>3, EntryFacts DEF Done
      <3>5. First(magic, ents, Top.dir, Top.buf)
        BY <2>1 DEF FrameInv
      <3> QED
        BY <1>2, <1>7, <3>4, <3>5 DEF First, Said, Dirp
    <2> QED
      BY <2>2, <2>3
  <1> QED
    BY <1>7, <1>8

\* The frame on top is replaced by another of the same directory.
LEMMA NewTop ==
    ASSUME IInv, pc = "pass", pc' = "pass", NEW f \in FrameType, f.dir = Top.dir,
           FrameInv(magic', sb'.ipg, ents', f),
           Len(stack') = Len(stack), stack' \in Seq(FrameType),
           stack'[Len(stack)] = f,
           \A i \in 1..(Len(stack) - 1) :
              stack'[i] = stack[i] /\ FrameInv(magic', sb'.ipg, ents', stack[i])
    PROVE  StackInv'
  <1> DEFINE L == Len(stack)
  <1>1. stack \in Seq(FrameType) /\ L \in Nat \ {0} /\ Top = stack[L]
    BY TopFacts
  <1>2. \A i \in 1..Len(stack') : FrameInv(magic', sb'.ipg, ents', stack'[i])
    <2> SUFFICES ASSUME NEW i \in 1..L
                 PROVE  FrameInv(magic', sb'.ipg, ents', stack'[i])
      OBVIOUS
    <2>1. CASE i = L
      BY <2>1
    <2>2. CASE i # L
      <3>1. i \in 1..(L - 1)
        BY <1>1, <2>2
      <3> QED
        BY <3>1
    <2> QED
      BY <2>1, <2>2
  <1>3. \A i \in 1..(Len(stack') - 1) :
          /\ stack'[i].entry <= Len(Tree[stack'[i].dir])
          /\ stack'[i + 1].dir = Tree[stack'[i].dir][stack'[i].entry].to
    <2> SUFFICES ASSUME NEW i \in 1..(L - 1)
                 PROVE  /\ stack[i].entry <= Len(Tree[stack[i].dir])
                        /\ stack'[i + 1].dir = Tree[stack[i].dir][stack[i].entry].to
      OBVIOUS
    <2>1. stack'[i + 1].dir = stack[i + 1].dir
      <3>1. CASE i = L - 1
        BY <1>1, <3>1
      <3>2. CASE i # L - 1
        <4>1. i + 1 \in 1..(L - 1)
          BY <1>1, <3>2
        <4> QED
          BY <4>1
      <3> QED
        BY <3>1, <3>2
    <2> QED
      BY <2>1 DEF IInv, StackInv
  <1>4. stack'[1].dir = Root /\ stack' # << >>
    <2>1. stack[1].dir = Root
      BY <1>1 DEF IInv, StackInv
    <2>2. CASE L = 1
      BY <1>1, <2>1, <2>2
    <2>3. CASE L # 1
      <3>1. 1 \in 1..(L - 1)
        BY <1>1, <2>3
      <3> QED
        BY <1>1, <2>1, <3>1
    <2> QED
      BY <2>2, <2>3
  <1> QED
    BY <1>2, <1>3, <1>4 DEF StackInv

LEMMA VisitKeeps == ASSUME IInv, Visit PROVE IInv'
  <1> DEFINE n == Top.entry
             L == Len(stack)
             new == [Top.buf EXCEPT ![n] = Processed(Dirp)]
             fr == [dir |-> Top.dir, buf |-> new, entry |-> n + 1,
                    back |-> FALSE, written |-> Top.written]
  <1>1. pc = "pass" /\ AtEntry /\ (Followed => Top.back)
        /\ UNCHANGED <<disk, pc, target, mem, history>>
    BY DEF Visit
  <1>2. UNCHANGED <<magic, sb, ents, pc>>
    BY <1>1 DEF disk
  <1>3. /\ stack \in Seq(FrameType) /\ L \in Nat \ {0} /\ Top = stack[L]
        /\ Top \in FrameType /\ Top.dir \in Dirs
        /\ FrameInv(magic, sb.ipg, ents, Top) /\ Top.buf \in BufType(Top.dir)
        /\ magic \in {"marking", "inums"}
    BY <1>1, TopFacts
  <1>4. n \in 1..Len(Tree[Top.dir]) /\ n \in Reached(Top.dir) /\ Said = Tree[Top.dir][n]
        /\ Said.live
    BY <1>1, EntryFacts DEF Said
  <1>5. /\ Processed(Dirp) \in [ino : Nat, marked : BOOLEAN]
        /\ Done(magic, Processed(Dirp))
        /\ Resolved(magic, sb.ipg, Processed(Dirp), Said.to)
        /\ Names(Said) => DirDone(magic, ents, Said.to)
    BY <1>1, ProcessedFacts
  <1>6. new \in BufType(Top.dir) /\ new[n] = Processed(Dirp)
        /\ \A k \in 1..Len(Tree[Top.dir]) : k # n => new[k] = Top.buf[k]
    BY <1>3, <1>4, <1>5 DEF BufType
  <1> HIDE DEF new
  <1>7. fr \in FrameType /\ fr.dir = Top.dir /\ fr.buf = new /\ fr.entry = n + 1
        /\ ~fr.back /\ fr.written = Top.written
    <2>1. new \in UNION { BufType(d) : d \in Dirs }
      BY <1>3, <1>6
    <2>2. n + 1 \in Nat /\ Top.written \in Nat
      BY <1>3, <1>4 DEF FrameType
    <2> QED
      BY <1>3, <2>1, <2>2 DEF FrameType
  <1>8. stack' = [stack EXCEPT ![L] = fr]
    BY DEF Visit, new
  <1>9. FrameInv(magic, sb.ipg, ents, fr)
    <2> DEFINE d == Top.dir
    <2>1. /\ n + 1 \in 1..(Len(Tree[d]) + 1) /\ Len(Tree[d]) \in Nat
          /\ Reached(d) \subseteq 1..Len(Tree[d])
      BY <1>3, <1>4, TreeFacts
    <2>2. /\ Top.written \in 0..Blocks(d)
          /\ \A k \in 1..(n - 1) : k \in Reached(d) /\ Done(magic, Top.buf[k])
          /\ Kept(magic, sb.ipg, d, Top.buf) /\ First(magic, ents, d, Top.buf)
          /\ \A k \in Reached(d) :
                Tree[d][k].block <= Top.written => Done(magic, ents[d][k])
      BY <1>3 DEF FrameInv
    <2>3. \A k \in 1..n : k \in Reached(d) /\ Done(magic, new[k])
      <3> SUFFICES ASSUME NEW k \in 1..n
                   PROVE  k \in Reached(d) /\ Done(magic, new[k])
        OBVIOUS
      <3>1. CASE k = n
        BY <1>4, <1>5, <1>6, <3>1
      <3>2. CASE k # n
        <4>1. k \in 1..(n - 1) /\ k \in 1..Len(Tree[d])
          BY <1>4, <2>1, <3>2
        <4> QED
          BY <1>6, <2>2, <3>2, <4>1
      <3> QED
        BY <3>1, <3>2
    <2>4. Kept(magic, sb.ipg, d, new)
      <3> SUFFICES ASSUME NEW k \in 1..Len(Tree[d])
                   PROVE  /\ ~Tree[d][k].live => new[k].ino = 0
                          /\ k \in Reached(d) =>
                                Resolved(magic, sb.ipg, new[k], Tree[d][k].to)
        BY <1>3 DEF Kept
      <3>1. CASE k = n
        BY <1>4, <1>5, <1>6, <3>1
      <3>2. CASE k # n
        BY <1>6, <2>2, <3>2 DEF Kept
      <3> QED
        BY <3>1, <3>2
    <2>5. First(magic, ents, d, new)
      <3> SUFFICES ASSUME NEW k \in Reached(d), Names(Tree[d][k]), Done(magic, new[k])
                   PROVE  DirDone(magic, ents, Tree[d][k].to)
        BY DEF First
      <3>1. CASE k = n
        BY <1>4, <1>5, <3>1
      <3>2. CASE k # n
        BY <1>3, <1>6, <2>1, <2>2, <3>2 DEF First
      <3> QED
        BY <3>1, <3>2
    <2>6. fr.entry - 1 = n /\ fr.entry \in 1..(Len(Tree[d]) + 1)
      BY <1>4, <2>1
    <2>7. \A k \in 1..(fr.entry - 1) : k \in Reached(d) /\ Done(magic, new[k])
      BY <2>3, <2>6
    <2>8. fr.dir = d /\ fr.buf = new /\ fr.back = FALSE /\ fr.written = Top.written
      BY <1>7
    <2> HIDE DEF fr, n
    <2> QED
      BY <1>6, <2>2, <2>4, <2>5, <2>6, <2>7, <2>8 DEF FrameInv
  <1> HIDE DEF fr
  <1>10. stack' \in Seq(FrameType) /\ Len(stack') = L /\ stack'[L] = fr
         /\ \A i \in 1..(L - 1) : stack'[i] = stack[i]
    BY <1>3, <1>7, <1>8
  <1>11. \A i \in 1..(L - 1) : FrameInv(magic, sb.ipg, ents, stack[i])
    <2>1. \A i \in 1..(L - 1) : i \in 1..L
      BY <1>3
    <2> QED
      BY <2>1 DEF IInv, StackInv
  <1>12. StackInv'
    BY <1>1, <1>2, <1>7, <1>9, <1>10, <1>11, NewTop
  <1> QED
    BY <1>1, <1>12, StackStep

\* What is done stays done while more is written.
LEMMA StillDone ==
    ASSUME NEW state, NEW ipg, NEW old, NEW new, NEW f, f.dir \in Dirs,
           FrameInv(state, ipg, old, f),
           \A d \in Dirs : \A k \in Reached(d) :
              Done(state, old[d][k]) => Done(state, new[d][k])
    PROVE  FrameInv(state, ipg, new, f)
  <1>1. ASSUME NEW d \in Dirs, DirDone(state, old, d) PROVE DirDone(state, new, d)
    BY <1>1 DEF DirDone
  <1>2. First(state, new, f.dir, f.buf)
    <2>1. First(state, old, f.dir, f.buf)
      BY DEF FrameInv
    <2> QED
      BY <1>1, <2>1 DEF First, Names
  <1>3. \A k \in Reached(f.dir) :
          Tree[f.dir][k].block <= f.written => Done(state, new[f.dir][k])
    BY DEF FrameInv
  <1>4. f.back => /\ f.entry <= Len(Tree[f.dir])
                  /\ Tree[f.dir][f.entry].to \in Dirs
                  /\ DirDone(state, new, Tree[f.dir][f.entry].to)
    BY <1>1 DEF FrameInv
  <1>5. /\ f.buf \in BufType(f.dir)
        /\ f.entry \in 1..(Len(Tree[f.dir]) + 1)
        /\ f.written \in 0..Blocks(f.dir)
        /\ \A k \in 1..(f.entry - 1) : k \in Reached(f.dir) /\ Done(state, f.buf[k])
        /\ Kept(state, ipg, f.dir, f.buf)
    BY DEF FrameInv
  <1> QED
    BY <1>2, <1>3, <1>4, <1>5 DEF FrameInv

\* A block is written when all of the buffer is done: the entries in it become so on
\* the disk, and the others stay as they are.
LEMMA WriteBlockKeeps == ASSUME IInv, WriteBlock PROVE IInv'
  <1> DEFINE d == Top.dir
             w == Top.written
             L == Len(stack)
             mixed == [k \in 1..Len(Tree[d]) |->
                         IF Tree[d][k].block = w + 1 THEN Top.buf[k] ELSE ents[d][k]]
             fr == [Top EXCEPT !.written = @ + 1]
  <1>1. pc = "pass" /\ ~AtEntry /\ w < Blocks(d)
        /\ UNCHANGED <<magic, sb, desc, backups, bits, pc, target, mem, crashes, cracks>>
    BY DEF WriteBlock, history
  <1>2. /\ stack \in Seq(FrameType) /\ L \in Nat \ {0} /\ Top = stack[L]
        /\ Top \in FrameType /\ d \in Dirs
        /\ FrameInv(magic, sb.ipg, ents, Top) /\ Top.buf \in BufType(d)
        /\ magic \in {"marking", "inums"}
    BY <1>1, TopFacts
  <1>3. DOMAIN ents = Dirs /\ ents[d] \in BufType(d)
    BY <1>2 DEF IInv, BaseType
  <1>4. Len(Tree[d]) \in Nat /\ Blocks(d) \in Nat \ {0} /\ Reached(d) \subseteq 1..Len(Tree[d])
        /\ \A k \in 1..Len(Tree[d]) : Tree[d][k].block \in 1..Blocks(d)
    BY <1>2, TreeFacts
  <1>5. ents' = [ents EXCEPT ![d] = mixed]
    <2>1. DOMAIN ents[d] = 1..Len(Tree[d])
      BY <1>3 DEF BufType
    <2> QED
      BY <2>1 DEF WriteBlock
  <1>6. \A k \in Reached(d) : Done(magic, Top.buf[k])
    BY <1>1, EndFacts
  <1>7. /\ w \in 0..Blocks(d) /\ Kept(magic, sb.ipg, d, Top.buf)
        /\ First(magic, ents, d, Top.buf)
        /\ \A k \in Reached(d) : Tree[d][k].block <= w => Done(magic, ents[d][k])
    BY <1>2 DEF FrameInv
  <1>8. mixed \in BufType(d)
        /\ \A k \in 1..Len(Tree[d]) : /\ mixed[k] \in {Top.buf[k], ents[d][k]}
                                      /\ Tree[d][k].block = w + 1 => mixed[k] = Top.buf[k]
    BY <1>2, <1>3 DEF BufType
  <1> HIDE DEF mixed
  <1>9. ents'[d] = mixed /\ DOMAIN ents' = Dirs
        /\ \A x \in Dirs : x # d => ents'[x] = ents[x]
    BY <1>2, <1>3, <1>5
  <1>10. \A x \in Dirs : \A k \in Reached(x) :
            Done(magic, ents[x][k]) => Done(magic, ents'[x][k])
    BY <1>4, <1>6, <1>8, <1>9
  <1>11. \A x \in Dirs : DirDone(magic, ents, x) => DirDone(magic, ents', x)
    BY <1>10 DEF DirDone
  <1>12. \A x \in Dirs : ents'[x] \in BufType(x)
    BY <1>8, <1>9 DEF IInv, BaseType
  <1>13. BaseType'
    BY <1>1, <1>9, <1>12 DEF IInv, BaseType
  <1>14. PhaseInv'
    BY <1>1 DEF IInv, PhaseInv
  <1>15. BitInv'
    BY <1>1 DEF IInv, BitInv
  <1>16. DiskKept'
    <2> SUFFICES ASSUME NEW x \in Dirs
                 PROVE  /\ Kept(magic, sb.ipg, x, ents'[x])
                        /\ First(magic, ents', x, ents'[x])
      BY <1>1 DEF DiskKept, Directories
    <2>1. Kept(magic, sb.ipg, x, ents[x]) /\ First(magic, ents, x, ents[x])
      BY DEF IInv, DiskKept, Directories
    <2>2. CASE x # d
      <3>1. ents'[x] = ents[x]
        BY <1>9, <2>2
      <3>2. First(magic, ents', x, ents[x])
        BY <1>11, <2>1 DEF First, Names
      <3> QED
        BY <2>1, <3>1, <3>2
    <2>3. CASE x = d
      <3>1. Kept(magic, sb.ipg, d, mixed)
        <4> SUFFICES ASSUME NEW k \in 1..Len(Tree[d])
                     PROVE  /\ ~Tree[d][k].live => mixed[k].ino = 0
                            /\ k \in Reached(d) =>
                                  /\ Resolved(magic, sb.ipg, mixed[k], Tree[d][k].to)
                                  /\ magic = "unset" => ~mixed[k].marked
          BY DEF Kept
        <4>1. mixed[k] = Top.buf[k] \/ mixed[k] = ents[d][k]
          BY <1>8
        <4> QED
          BY <1>7, <2>1, <2>3, <4>1 DEF Kept
      <3>2. First(magic, ents', d, mixed)
        <4> SUFFICES ASSUME NEW k \in Reached(d), Names(Tree[d][k]), Done(magic, mixed[k])
                     PROVE  DirDone(magic, ents', Tree[d][k].to)
          BY DEF First
        <4>1. mixed[k] = Top.buf[k] \/ mixed[k] = ents[d][k]
          BY <1>4, <1>8
        <4>2. DirDone(magic, ents, Tree[d][k].to) /\ Tree[d][k].to \in Dirs
          BY <1>2, <1>7, <2>1, <2>3, <4>1 DEF First, Names
        <4> QED
          BY <1>11, <4>2
      <3> QED
        BY <1>9, <2>3, <3>1, <3>2
    <2> QED
      BY <2>2, <2>3
  <1>17. fr \in FrameType /\ fr.dir = d /\ fr.buf = Top.buf /\ fr.entry = Top.entry
         /\ fr.back = Top.back /\ fr.written = w + 1
    <2>1. w \in Nat /\ w + 1 \in Nat
      BY <1>2 DEF FrameType
    <2>2. fr = [Top EXCEPT !.written = w + 1]
      OBVIOUS
    <2> HIDE DEF fr, w
    <2> QED
      BY <1>2, <2>1, <2>2 DEF FrameType
  <1>18. stack' = [stack EXCEPT ![L] = fr]
    BY <1>2 DEF WriteBlock
  <1> HIDE DEF fr
  <1>19. FrameInv(magic, sb.ipg, ents', fr)
    <2>1. FrameInv(magic, sb.ipg, ents', Top)
      BY <1>2, <1>10, StillDone
    <2>2. ASSUME NEW k \in Reached(d), Tree[d][k].block <= w + 1
          PROVE  Done(magic, ents'[d][k])
      <3>1. CASE Tree[d][k].block = w + 1
        BY <1>4, <1>6, <1>8, <1>9, <3>1
      <3>2. CASE Tree[d][k].block # w + 1
        <4>1. Tree[d][k].block <= w
          BY <1>4, <1>7, <2>2, <3>2
        <4> QED
          BY <1>2, <1>7, <1>10, <4>1
      <3> QED
        BY <3>1, <3>2
    <2>3. fr.written \in 0..Blocks(d)
      BY <1>1, <1>4, <1>7, <1>17
    <2> QED
      BY <1>17, <2>1, <2>2, <2>3 DEF FrameInv
  <1>20. stack' \in Seq(FrameType) /\ Len(stack') = L /\ stack'[L] = fr
         /\ \A i \in 1..(L - 1) : stack'[i] = stack[i]
    BY <1>2, <1>17, <1>18
  <1>21. \A i \in 1..(L - 1) : FrameInv(magic, sb.ipg, ents', stack[i])
    <2> SUFFICES ASSUME NEW i \in 1..(L - 1)
                 PROVE  FrameInv(magic, sb.ipg, ents', stack[i])
      OBVIOUS
    <2>1. i \in 1..L
      BY <1>2
    <2>2. FrameInv(magic, sb.ipg, ents, stack[i])
      BY <2>1 DEF IInv, StackInv
    <2>3. stack[i] \in FrameType
      BY <1>2, <2>1
    <2>4. stack[i].dir \in Dirs
      BY <2>3 DEF FrameType
    <2> QED
      BY <1>10, <2>2, <2>4, StillDone
  <1>22. StackInv'
    BY <1>1, <1>17, <1>19, <1>20, <1>21, NewTop
  <1> QED
    BY <1>13, <1>14, <1>15, <1>16, <1>22 DEF IInv

\* All of a directory is on the disk when its last block is.
LEMMA AllWritten ==
    ASSUME IInv, pc = "pass", Top.written = Blocks(Top.dir)
    PROVE  DirDone(magic, ents, Top.dir)
  <1>1. Top.dir \in Dirs /\ FrameInv(magic, sb.ipg, ents, Top)
    BY TopFacts
  <1>2. \A k \in Reached(Top.dir) : Tree[Top.dir][k].block <= Top.written
    <2>1. Blocks(Top.dir) \in Nat /\ Reached(Top.dir) \subseteq 1..Len(Tree[Top.dir])
          /\ \A k \in 1..Len(Tree[Top.dir]) :
                Tree[Top.dir][k].block \in 1..Blocks(Top.dir)
      BY <1>1, TreeFacts
    <2> QED
      BY <2>1
  <1> QED
    BY <1>1, <1>2 DEF FrameInv, DirDone

LEMMA ReturnKeeps == ASSUME IInv, Return PROVE IInv'
  <1> DEFINE L == Len(stack)
             p == stack[L - 1]
             fr == [p EXCEPT !.back = TRUE]
  <1>1. pc = "pass" /\ L > 1 /\ Top.written = Blocks(Top.dir)
        /\ UNCHANGED <<disk, pc, target, mem, history>>
    BY DEF Return
  <1>2. UNCHANGED <<magic, sb, ents, pc>>
    BY <1>1 DEF disk
  <1>3. stack \in Seq(FrameType) /\ L \in Nat \ {0} /\ Top = stack[L] /\ Top.dir \in Dirs
    BY <1>1, TopFacts
  <1>4. L - 1 \in 1..L /\ L - 1 \in 1..(L - 1) /\ L - 1 + 1 = L
    BY <1>1, <1>3
  <1>5. p \in FrameType /\ FrameInv(magic, sb.ipg, ents, p)
        /\ p.entry <= Len(Tree[p.dir]) /\ Top.dir = Tree[p.dir][p.entry].to
    BY <1>3, <1>4 DEF IInv, StackInv
  <1>6. fr \in FrameType /\ fr.dir = p.dir /\ fr.buf = p.buf /\ fr.entry = p.entry
        /\ fr.back = TRUE /\ fr.written = p.written
    BY <1>5 DEF FrameType
  <1>7. FrameInv(magic, sb.ipg, ents, fr)
    <2>1. DirDone(magic, ents, Tree[p.dir][p.entry].to) /\ Tree[p.dir][p.entry].to \in Dirs
      BY <1>1, <1>3, <1>5, AllWritten
    <2> HIDE DEF fr
    <2> QED
      BY <1>5, <1>6, <2>1 DEF FrameInv
  <1>8. stack' = [k \in 1..(L - 1) |-> IF k = L - 1 THEN fr ELSE stack[k]]
    BY DEF Return
  <1> HIDE DEF fr
  <1>9. stack' \in Seq(FrameType) /\ Len(stack') = L - 1
        /\ \A i \in 1..(L - 1) : stack'[i] = IF i = L - 1 THEN fr ELSE stack[i]
    <2>1. \A i \in 1..(L - 1) : stack[i] \in FrameType
      BY <1>3
    <2>2. stack' \in [1..(L - 1) -> FrameType] /\ L - 1 \in Nat
      BY <1>3, <1>6, <1>8, <2>1
    <2>3. stack' \in Seq(FrameType)
      BY <2>2
    <2> QED
      BY <1>8, <2>2, <2>3, LenFacts
  <1>10. \A i \in 1..Len(stack') : FrameInv(magic', sb'.ipg, ents', stack'[i])
    <2> SUFFICES ASSUME NEW i \in 1..(L - 1)
                 PROVE  FrameInv(magic, sb.ipg, ents, stack'[i])
      BY <1>2, <1>9
    <2>1. CASE i = L - 1
      BY <1>7, <1>9, <2>1
    <2>2. CASE i # L - 1
      <3>1. stack'[i] = stack[i] /\ i \in 1..L
        BY <1>3, <1>9, <2>2
      <3> QED
        BY <3>1 DEF IInv, StackInv
    <2> QED
      BY <2>1, <2>2
  <1>11. \A i \in 1..(Len(stack') - 1) :
          /\ stack'[i].entry <= Len(Tree[stack'[i].dir])
          /\ stack'[i + 1].dir = Tree[stack'[i].dir][stack'[i].entry].to
    <2> SUFFICES ASSUME NEW i \in 1..(L - 2)
                 PROVE  /\ stack'[i].entry <= Len(Tree[stack'[i].dir])
                        /\ stack'[i + 1].dir = Tree[stack'[i].dir][stack'[i].entry].to
      BY <1>3, <1>9
    <2>1. i \in 1..(L - 1) /\ i # L - 1 /\ i + 1 \in 1..(L - 1)
      BY <1>3
    <2>2. stack'[i] = stack[i] /\ stack'[i + 1].dir = stack[i + 1].dir
      BY <1>6, <1>9, <2>1
    <2> QED
      BY <2>1, <2>2 DEF IInv, StackInv
  <1>12. stack' # << >> /\ stack'[1].dir = Root
    <2>1. stack[1].dir = Root /\ 1 \in 1..(L - 1)
      BY <1>1, <1>3 DEF IInv, StackInv
    <2>2. stack'[1].dir = stack[1].dir
      BY <1>6, <1>9, <2>1
    <2> QED
      BY <1>1, <1>3, <1>9, <2>1, <2>2
  <1>13. StackInv'
    BY <1>1, <1>2, <1>9, <1>10, <1>11, <1>12 DEF StackInv
  <1> QED
    BY <1>1, <1>13, StackStep

\* The root is done, and so is every directory that an entry which is done leads to:
\* these are all.
LEMMA PassOverKeeps == ASSUME IInv, PassOver PROVE IInv'
  <1> USE DEF IInv
  <1> DEFINE S == { d \in Dirs : DirDone(magic, ents, d) }
  <1>1. pc = "pass" /\ Top.written = Blocks(Top.dir) /\ Len(stack) = 1
        /\ stack' = << >> /\ pc' = "magic" /\ target' = After(magic)
        /\ UNCHANGED <<magic, sb, desc, backups, bits, ents, mem, crashes, cracks>>
    BY DEF PassOver, disk, history
  <1>2. magic \in {"marking", "inums"} /\ mem.ipg = sb.ipg /\ Top = stack[1]
        /\ Top.dir = Root /\ Root \in Dirs
    BY <1>1, TopFacts, TreeAssumption DEF StackInv
  <1>3. Root \in S
    BY <1>1, <1>2, AllWritten
  <1>4. \A d \in S : \A k \in Reached(d) : Names(Tree[d][k]) => Tree[d][k].to \in S
    BY <1>2 DEF DiskKept, Directories, First, DirDone, Names
  <1>5. S \in SUBSET Dirs
    OBVIOUS
  <1> HIDE DEF S
  <1>6. S = Dirs
    BY <1>3, <1>4, <1>5, TreeAssumption
  <1>7. \A d \in Dirs : DirDone(magic, ents, d)
    BY <1>6 DEF S
  <1>8. BaseType'
    BY <1>1, <1>2 DEF BaseType, After, States
  <1>9. PhaseInv'
    BY <1>1, <1>2, <1>7 DEF PhaseInv, After
  <1>10. DiskKept'
    BY <1>1, DiskStable
  <1>11. StackInv'
    BY <1>1, NoStack
  <1>12. BitInv'
    BY <1>1 DEF BitInv
  <1> QED
    BY <1>8, <1>9, <1>10, <1>11, <1>12

-----------------------------------------------------------------------------
(* What holds in every run. *)

LEMMA Inductive == IInv /\ [Next]_vars => IInv'
  <1> SUFFICES ASSUME IInv, [Next]_vars PROVE IInv'
    OBVIOUS
  <1>1. CASE Start
    BY <1>1, StartKeeps
  <1>2. CASE SanityCheck
    BY <1>2, SanityCheckKeeps
  <1>3. CASE SetMagic
    BY <1>3, SetMagicKeeps
  <1>4. CASE SetBit
    BY <1>4, SetBitKeeps
  <1>5. CASE Descend
    BY <1>5, DescendKeeps
  <1>6. CASE Visit
    BY <1>6, VisitKeeps
  <1>7. CASE WriteBlock
    BY <1>7, WriteBlockKeeps
  <1>8. CASE Return
    BY <1>8, ReturnKeeps
  <1>9. CASE PassOver
    BY <1>9, PassOverKeeps
  <1>10. CASE FixBitmap
    BY <1>10, FixBitmapKeeps
  <1>11. CASE WriteSb
    BY <1>11, WriteSbKeeps
  <1>12. CASE WriteDesc
    BY <1>12, WriteDescKeeps
  <1>13. CASE SkipGroup
    BY <1>13, SkipGroupKeeps
  <1>14. CASE Crash
    BY <1>14, CrashKeeps
  <1>15. CASE UNCHANGED vars
    <2>1. UNCHANGED <<magic, sb, desc, backups, bits, ents, pc, target, mem, stack,
                      crashes, cracks>>
      BY <1>15 DEF vars, disk, process, history
    <2>2. BaseType'
      BY <2>1 DEF IInv, BaseType
    <2>3. PhaseInv'
      BY <2>1 DEF IInv, PhaseInv
    <2>4. StackInv'
      BY <2>1 DEF IInv, StackInv
    <2>5. BitInv'
      BY <2>1 DEF IInv, BitInv
    <2> QED
      BY <2>1, <2>2, <2>3, <2>4, <2>5, DiskStable DEF IInv
  <1> QED
    BY <1>1, <1>2, <1>3, <1>4, <1>5, <1>6, <1>7, <1>8, <1>9, <1>10, <1>11, <1>12,
       <1>13, <1>14, <1>15 DEF Next, Step

LEMMA Typed == IInv => TypeOK
  <1> SUFFICES ASSUME IInv PROVE TypeOK
    OBVIOUS
  <1>1. stack \in Seq(FrameType) /\ (pc = "pass" => stack # << >>)
        /\ \A i \in 1..Len(stack) : FrameInv(magic, sb.ipg, ents, stack[i])
    BY DEF IInv, StackInv
  <1>2. ASSUME NEW i \in DOMAIN stack
        PROVE  /\ stack[i].dir \in Dirs
               /\ stack[i].buf \in BufType(stack[i].dir)
               /\ stack[i].entry \in 1..(Len(Tree[stack[i].dir]) + 1)
               /\ stack[i].back \in BOOLEAN
               /\ stack[i].written \in 0..Blocks(stack[i].dir)
    <2>1. stack[i] \in FrameType /\ FrameInv(magic, sb.ipg, ents, stack[i])
      BY <1>1
    <2> QED
      BY <2>1 DEF FrameType, FrameInv
  <1> QED
    BY <1>1, <1>2 DEF IInv, BaseType, TypeOK

LEMMA Resolving == IInv => EntriesResolve
  <1> SUFFICES ASSUME IInv, NEW d \in Dirs, NEW k \in Reached(d)
               PROVE  Resolved(magic, sb.ipg, ents[d][k], Tree[d][k].to)
    BY DEF EntriesResolve
  <1>1. k \in 1..Len(Tree[d])
    BY TreeFacts
  <1> QED
    BY <1>1 DEF IInv, DiskKept, Directories, Kept

LEMMA FirstChildren == IInv => ChildrenFirst
  BY DEF IInv, DiskKept, Directories, First, ChildrenFirst

\* Where the bit is not set the work is over or has not begun.
LEMMA Sound == IInv => MountableIsSound
  <1> SUFFICES ASSUME IInv, ~sb.bit, "bit" \notin cracks,
                      NEW d \in Dirs, NEW k \in Reached(d)
               PROVE  /\ ~ents[d][k].marked
                      /\ Place(sb.ipg, ents[d][k].ino) = Tree[d][k].to
    BY DEF MountableIsSound
  <1>1. k \in 1..Len(Tree[d]) /\ Tree[d][k].to \in Places
    BY TreeFacts
  <1>2. sb.ipg \in {OldIpg, NewIpg}
    BY DEF IInv, PhaseInv
  <1>3. /\ Resolved(magic, sb.ipg, ents[d][k], Tree[d][k].to)
        /\ magic = "unset" => ~ents[d][k].marked
    BY <1>1 DEF IInv, DiskKept, Directories, Kept
  <1>4. magic = "unset" \/ (magic = "marking" /\ pc = "bit")
    BY DEF IInv, BitInv
  <1>5. ~ents[d][k].marked
    BY <1>3, <1>4 DEF IInv, BitInv
  <1>6. ents[d][k].ino = Number(sb.ipg, Tree[d][k].to)
    BY <1>3, <1>4 DEF Resolved
  <1> QED
    BY <1>1, <1>2, <1>5, <1>6, Numbers

\* The invariant holds in every state of every run, however often the program is
\* interrupted and run again.
THEOREM Invariant == Spec => []IInv
  <1>1. Init => IInv
    BY Initially
  <1>2. IInv /\ [Next]_vars => IInv'
    BY Inductive
  <1> QED
    BY <1>1, <1>2, PTL DEF Spec

\* What main() and ext4fixup_internal() keep has its type; in particular recurse_dir()
\* never points behind the last entry of a buffer or writes more blocks than there
\* are, and no superblock is written for a group behind the last one.
THEOREM TypeCorrect == Spec => []TypeOK
  BY Invariant, Typed, PTL

\* No interruption makes recurse_dir() change the number of an entry twice, or leaves
\* one that can no longer be told to be old or new.
THEOREM NumbersKept == Spec => []EntriesResolve
  BY Invariant, Resolving, PTL

\* An entry that leads to a directory is done after the directory: recurse_dir(),
\* which does not follow it again, leaves nothing behind.
THEOREM ChildrenComeFirst == Spec => []ChildrenFirst
  BY Invariant, FirstChildren, PTL

\* A file system whose superblock does not say that it cannot be mounted has every
\* entry in front of a deleted one lead to its inode, but for an interruption
\* between the two writes of set_fs_fixup_state().
THEOREM Mountable == Spec => []MountableIsSound
  BY Invariant, Sound, PTL

-----------------------------------------------------------------------------
(* The image that is left: what is on the disk beside the directories goes together  *)
(* with what the program has counted, wherever it is.                               *)

\* Entries behind a deleted one are as they were made, on the disk and in a buffer.
Untouched(d, buf) ==
    \A k \in 1..Len(Tree[d]) : k \notin Reached(d) => buf[k] = OldEntry(Tree[d][k])

BehindInv ==
    /\ \A d \in Dirs : Untouched(d, ents[d])
    /\ \A i \in 1..Len(stack) : Untouched(stack[i].dir, stack[i].buf)

\* A superblock counts the inodes of as many groups as there are.
Counts(s) == /\ s.inodes = Groups * s.ipg
             /\ s.free = Groups * (s.ipg - UsedInodes)

CountInv ==
    /\ Counts(sb)
    /\ pc \in {"sb", "desc"} => Counts(mem.sb)

\* What read_ext() has read is on the disk until the groups are counted.
ReadInv ==
    pc \in {"check", "pass"} \/ (pc \in {"magic", "bit"} /\ target # "unset") =>
        mem.ipg = sb.ipg /\ mem.desc = desc /\ mem.group = 0

\* The descriptors go with the superblock, except between the writes of the two; in
\* memory the groups gain their inodes one after the other.
DescInv ==
    /\ "desc" \notin cracks /\ ~(pc = "desc" /\ mem.group = 0) =>
          \A g \in 0..(Groups - 1) : desc[g] = sb.ipg - UsedInodes
    /\ pc = "bitmaps" =>
          /\ mem.ipg = sb.ipg
          /\ \A g \in 0..(Groups - 1) :
                mem.desc[g] = IF g < mem.group THEN desc[g] + More ELSE desc[g]
    /\ pc \in {"sb", "desc"} => /\ "desc" \notin cracks => mem.desc = NewDesc
                                /\ mem.group # 0 => desc = mem.desc

\* The bits behind the last inode are cleared before a superblock counts the inodes.
BitsInv ==
    /\ sb.ipg = NewIpg \/ pc \in {"sb", "desc"} => \A g \in 0..(Groups - 1) : bits[g] = {}
    /\ pc = "bitmaps" => \A g \in 0..(Groups - 1) : g < mem.group => bits[g] = {}

\* The groups that have been passed have the superblock and the descriptors.
BackedUp(g) == backups[g] = [sb |-> NewSb, desc |-> desc]

BackupInv ==
    /\ pc \in {"sb", "desc"} => \A g \in Supers \ {0} : g < mem.group => BackedUp(g)
    /\ pc = "desc" /\ mem.group # 0 => backups[mem.group].sb = NewSb
    /\ pc = "done" \/ (pc \in {"magic", "bit"} /\ target = "unset") =>
          \A g \in Supers \ {0} : BackedUp(g)

EndInv == pc = "done" => magic = "unset" /\ sb.ipg = NewIpg /\ ~sb.bit

FixInv ==
    BehindInv /\ CountInv /\ ReadInv /\ DescInv /\ BitsInv /\ BackupInv /\ EndInv

LEMMA GroupFacts ==
    /\ Groups \in Nat \ {0} /\ UsedInodes \in Nat /\ 0 \in Supers
    /\ Supers \subseteq 0..(Groups - 1)
    /\ OldIpg \in Nat /\ NewIpg \in Nat /\ UsedInodes <= OldIpg /\ OldIpg <= NewIpg
  BY SizesAssumption, Ipgs

\* Adding the same to each group adds it as many times as there are groups.
LEMMA Distributes ==
    ASSUME NEW n \in Nat, NEW a \in Int, NEW b \in Int
    PROVE  n * a + n * (b - a) = n * b
  OBVIOUS

LEMMA CountsMore ==
    ASSUME NEW old, NEW new, NEW from \in Nat, NEW to \in Nat, Counts(old),
           old.ipg = from, new.ipg = to,
           new.inodes = old.inodes + Groups * (to - from),
           new.free = old.free + Groups * (to - from)
    PROVE  Counts(new)
  <1>1. Groups \in Nat /\ UsedInodes \in Nat
    BY GroupFacts
  <1>2. new.inodes = Groups * from + Groups * (to - from)
    BY DEF Counts
  <1>3. Groups * from + Groups * (to - from) = Groups * to
    BY <1>1, Distributes
  <1>4. new.free = Groups * (from - UsedInodes) + Groups * (to - from)
    BY DEF Counts
  <1>5. Groups * (from - UsedInodes)
          + Groups * ((to - UsedInodes) - (from - UsedInodes)) = Groups * (to - UsedInodes)
    BY <1>1, Distributes
  <1>6. (to - UsedInodes) - (from - UsedInodes) = to - from
    BY <1>1
  <1> QED
    BY <1>2, <1>3, <1>4, <1>5, <1>6 DEF Counts

\* The superblock that counts the new inodes is the one that is looked for.
LEMMA SbIsNew ==
    ASSUME NEW s \in SbType, Counts(s), s.ipg = NewIpg
    PROVE  [s EXCEPT !.bit = FALSE] = NewSb /\ (~s.bit => s = NewSb)
  <1>1. s.inodes = Groups * NewIpg /\ s.free = Groups * (NewIpg - UsedInodes)
    BY DEF Counts
  <1> DEFINE i == Groups * NewIpg
             f == Groups * (NewIpg - UsedInodes)
  <1>2. NewSb = [ipg |-> NewIpg, inodes |-> i, free |-> f, bit |-> FALSE]
    BY DEF NewSb
  <1>3. s.inodes = i /\ s.free = f
    BY <1>1
  <1> HIDE DEF i, f
  <1>4. s \in [ipg : Nat, inodes : Nat, free : Nat, bit : BOOLEAN]
    BY DEF SbType
  <1>5. s = [ipg |-> s.ipg, inodes |-> s.inodes, free |-> s.free, bit |-> s.bit]
    BY <1>4
  <1>6. [s EXCEPT !.bit = FALSE] = [ipg |-> s.ipg, inodes |-> s.inodes, free |-> s.free,
                                    bit |-> FALSE]
    <2> DEFINE t == [s EXCEPT !.bit = FALSE]
    <2>1. t \in [ipg : Nat, inodes : Nat, free : Nat, bit : BOOLEAN]
      BY <1>4
    <2>2. t.ipg = s.ipg /\ t.inodes = s.inodes /\ t.free = s.free /\ t.bit = FALSE
      BY <1>4
    <2> HIDE DEF t
    <2>3. t = [ipg |-> t.ipg, inodes |-> t.inodes, free |-> t.free, bit |-> t.bit]
      BY <2>1
    <2>4. t = [ipg |-> s.ipg, inodes |-> s.inodes, free |-> s.free, bit |-> FALSE]
      BY <2>2, <2>3
    <2> QED
      BY <2>4 DEF t
  <1>7. ~s.bit => s.bit = FALSE
    BY <1>4
  <1> QED
    BY <1>2, <1>3, <1>5, <1>6, <1>7

LEMMA FixInitially == Init => FixInv
  <1> SUFFICES ASSUME Init PROVE FixInv
    OBVIOUS
  <1>1. /\ sb = OldSb /\ desc = OldDesc /\ ents = OldEnts /\ stack = << >>
        /\ pc = "start" /\ target = "unset" /\ cracks = {}
        /\ bits = [g \in 0..(Groups - 1) |-> OldIpg..(NewIpg - 1)]
    BY DEF Init
  <1>2. BehindInv
    BY <1>1 DEF BehindInv, Untouched, OldEnts
  <1>3. CountInv
    <2>1. sb.ipg = OldIpg /\ sb.inodes = Groups * OldIpg
          /\ sb.free = Groups * (OldIpg - UsedInodes)
      BY <1>1 DEF OldSb
    <2> QED
      BY <1>1, <2>1 DEF CountInv, Counts
  <1>4. ReadInv /\ EndInv
    BY <1>1 DEF ReadInv, EndInv
  <1>5. DescInv
    BY <1>1 DEF DescInv, OldDesc, OldSb
  <1>6. BitsInv
    <2>1. sb.ipg = OldIpg
      BY <1>1 DEF OldSb
    <2>2. OldIpg = NewIpg => OldIpg..(NewIpg - 1) = {}
      BY GroupFacts
    <2> QED
      BY <1>1, <2>1, <2>2 DEF BitsInv
  <1>7. BackupInv
    BY <1>1 DEF BackupInv
  <1> QED
    BY <1>2, <1>3, <1>4, <1>5, <1>6, <1>7 DEF FixInv

\* The entries on the disk do not change, and there is no frame or a first one.
LEMMA BehindFirst ==
    ASSUME BehindInv, ents' = ents, NEW state, stack' \in {<< >>, FirstFrame(state)}
    PROVE  BehindInv'
  <1>1. Root \in Dirs
    BY TreeAssumption
  <1>2. stack' = << >> \/ stack' = <<Frame(Root)>>
    BY DEF FirstFrame
  <1>3. Frame(Root).dir = Root /\ Frame(Root).buf = ents[Root]
    BY DEF Frame
  <1>4. Untouched(Root, ents[Root])
    BY <1>1 DEF BehindInv
  <1>5. ASSUME NEW i \in 1..Len(stack')
        PROVE  Untouched(stack'[i].dir, stack'[i].buf)
    <2>1. CASE stack' = << >>
      BY <1>5, <2>1
    <2>2. CASE stack' = <<Frame(Root)>>
      <3>1. stack'[i] = Frame(Root)
        BY <1>5, <2>2
      <3> QED
        BY <1>3, <1>4, <3>1
    <2> QED
      BY <1>2, <2>1, <2>2
  <1> QED
    BY <1>5 DEF BehindInv

\* A step of a pass leaves all but the entries and the frames.
LEMMA FixInPass ==
    ASSUME FixInv, pc = "pass", BehindInv',
           UNCHANGED <<magic, sb, desc, backups, bits, pc, target, mem, crashes, cracks>>
    PROVE  FixInv'
  <1> USE DEF FixInv
  <1>1. CountInv' /\ ReadInv' /\ EndInv'
    BY DEF CountInv, ReadInv, EndInv, Counts
  <1>2. DescInv'
    BY DEF DescInv
  <1>3. BitsInv'
    BY DEF BitsInv
  <1>4. BackupInv'
    BY DEF BackupInv
  <1> QED
    BY <1>1, <1>2, <1>3, <1>4

LEMMA StartFixes == ASSUME IInv, FixInv, Start PROVE FixInv'
  <1> USE DEF FixInv
  <1>1. UNCHANGED <<magic, sb, desc, backups, bits, ents, target, crashes, cracks>>
        /\ pc = "start" /\ pc' = Phase(magic) /\ stack' = FirstFrame(magic)
    BY DEF Start, disk, history
  <1>2. mem' = [ipg |-> sb.ipg, sb |-> sb, desc |-> desc, group |-> 0]
    BY DEF Start
  <1>3. mem'.ipg = sb.ipg /\ mem'.desc = desc /\ mem'.group = 0
    BY <1>2
  <1>4. pc' \in {"check", "pass", "bitmaps"}
    BY <1>1 DEF IInv, BaseType, States, Phase
  <1>5. BehindInv'
    BY <1>1, BehindFirst
  <1>6. CountInv'
    BY <1>1, <1>4 DEF CountInv, Counts
  <1>7. ReadInv' /\ EndInv'
    BY <1>1, <1>3, <1>4 DEF ReadInv, EndInv
  <1>8. DescInv'
    BY <1>1, <1>3, <1>4 DEF DescInv
  <1>9. BitsInv'
    BY <1>1, <1>3, <1>4 DEF BitsInv
  <1>10. BackupInv'
    BY <1>1, <1>4 DEF BackupInv
  <1> QED
    BY <1>5, <1>6, <1>7, <1>8, <1>9, <1>10

LEMMA SanityCheckFixes == ASSUME IInv, FixInv, SanityCheck PROVE FixInv'
  <1> USE DEF FixInv
  <1>1. UNCHANGED <<magic, sb, desc, backups, bits, ents, mem, stack, crashes, cracks>>
        /\ pc = "check" /\ pc' = "magic" /\ target' = "marking"
    BY DEF SanityCheck, disk, history
  <1>2. stack' = << >>
    BY <1>1 DEF IInv, StackInv
  <1>3. BehindInv'
    BY <1>1, <1>2, BehindFirst
  <1>4. CountInv' /\ ReadInv' /\ EndInv'
    BY <1>1 DEF CountInv, ReadInv, EndInv, Counts
  <1>5. DescInv'
    BY <1>1 DEF DescInv
  <1>6. BitsInv'
    BY <1>1 DEF BitsInv
  <1>7. BackupInv'
    BY <1>1 DEF BackupInv
  <1> QED
    BY <1>3, <1>4, <1>5, <1>6, <1>7

LEMMA SetMagicFixes == ASSUME IInv, FixInv, SetMagic PROVE FixInv'
  <1> USE DEF FixInv
  <1>1. UNCHANGED <<sb, desc, backups, bits, ents, target, mem, stack, crashes, cracks>>
        /\ pc = "magic" /\ pc' = "bit" /\ magic' = target
    BY DEF SetMagic, history
  <1>2. stack' = << >>
    BY <1>1 DEF IInv, StackInv
  <1>3. BehindInv'
    BY <1>1, <1>2, BehindFirst
  <1>4. CountInv' /\ ReadInv' /\ EndInv'
    BY <1>1 DEF CountInv, ReadInv, EndInv, Counts
  <1>5. DescInv'
    BY <1>1 DEF DescInv
  <1>6. BitsInv'
    BY <1>1 DEF BitsInv
  <1>7. BackupInv'
    BY <1>1 DEF BackupInv, BackedUp
  <1> QED
    BY <1>3, <1>4, <1>5, <1>6, <1>7

LEMMA SetBitFixes == ASSUME IInv, FixInv, SetBit PROVE FixInv'
  <1> USE DEF FixInv
  <1>1. UNCHANGED <<magic, desc, backups, bits, ents, target, mem, crashes, cracks>>
        /\ pc = "bit" /\ stack' = FirstFrame(target)
        /\ pc' = IF target = "unset" THEN "done" ELSE Phase(target)
    BY DEF SetBit, history
  <1>2. /\ sb' \in SbType /\ sb'.ipg = sb.ipg /\ sb'.inodes = sb.inodes
        /\ sb'.free = sb.free /\ sb'.bit = (target # "unset")
    BY Zenon DEF SetBit, BitFor, IInv, BaseType, SbType
  <1>3. target = magic /\ magic \in States /\ (target = "unset" => sb.ipg = NewIpg)
    BY <1>1 DEF IInv, PhaseInv, BaseType
  <1>4. /\ pc' \in {"check", "pass", "bitmaps", "done"}
        /\ pc' = "done" <=> target = "unset"
    BY <1>1, <1>3 DEF Phase, States
  <1>5. BehindInv'
    BY <1>1, BehindFirst
  <1>6. CountInv'
    BY <1>1, <1>2, <1>4 DEF CountInv, Counts
  <1>7. ReadInv' /\ EndInv'
    BY <1>1, <1>2, <1>3, <1>4 DEF ReadInv, EndInv
  <1>8. DescInv'
    <2>1. pc' = "bitmaps" => mem.ipg = sb.ipg /\ mem.desc = desc /\ mem.group = 0
      BY <1>1, <1>4 DEF ReadInv
    <2> QED
      BY <1>1, <1>2, <1>4, <2>1 DEF DescInv
  <1>9. BitsInv'
    <2>1. pc' = "bitmaps" => mem.group = 0
      BY <1>1, <1>4 DEF ReadInv
    <2> QED
      BY <1>1, <1>2, <1>4, <2>1 DEF BitsInv
  <1>10. BackupInv'
    BY <1>1, <1>4 DEF BackupInv, BackedUp
  <1> QED
    BY <1>5, <1>6, <1>7, <1>8, <1>9, <1>10

LEMMA CrashFixes == ASSUME IInv, FixInv, Crash PROVE FixInv'
  <1> USE DEF FixInv
  <1>1. UNCHANGED <<magic, sb, desc, backups, bits, ents>>
        /\ pc' = "start" /\ target' = "unset" /\ stack' = << >>
        /\ cracks \subseteq cracks'
        /\ (pc = "desc" /\ mem.group = 0 => "desc" \in cracks')
    BY DEF Crash, disk
  <1>2. BehindInv'
    BY <1>1, BehindFirst
  <1>3. CountInv' /\ ReadInv' /\ EndInv'
    BY <1>1 DEF CountInv, ReadInv, EndInv, Counts
  <1>4. DescInv'
    BY <1>1 DEF DescInv
  <1>5. BitsInv'
    BY <1>1 DEF BitsInv
  <1>6. BackupInv'
    BY <1>1 DEF BackupInv
  <1> QED
    BY <1>2, <1>3, <1>4, <1>5, <1>6

\* The inodes of a group are counted in memory, and its bits are cleared: behind the
\* last inode of an image that has the new ones there are none.
LEMMA FixBitmapFixes == ASSUME IInv, FixInv, FixBitmap PROVE FixInv'
  <1> USE DEF FixInv
  <1> DEFINE g == mem.group
             G == 0..(Groups - 1)
             next == IF g = Groups - 1 THEN 0 ELSE g + 1
             newDesc == [mem.desc EXCEPT ![g] = @ + More]
             newSb == [ipg    |-> Aligned(mem.ipg),
                       inodes |-> sb.inodes + Groups * More,
                       free   |-> sb.free + Groups * More,
                       bit    |-> sb.bit]
  <1>1. UNCHANGED <<magic, sb, desc, backups, ents, target, stack, crashes, cracks>>
        /\ pc = "bitmaps" /\ pc' = IF g = Groups - 1 THEN "sb" ELSE "bitmaps"
    BY DEF FixBitmap, history
  <1>2. g \in G /\ Groups \in Nat \ {0}
    BY GroupFacts DEF IInv, BaseType
  <1>3. /\ mem.ipg = sb.ipg /\ sb.ipg \in {OldIpg, NewIpg} /\ OldIpg \in Nat /\ NewIpg \in Nat
        /\ Aligned(mem.ipg) = NewIpg /\ More = NewIpg - sb.ipg /\ More \in Nat
    BY <1>1, MoreInodes, GroupFacts DEF IInv, PhaseInv, DescInv, More
  <1>4. mem'.ipg = mem.ipg /\ mem'.sb = newSb /\ mem'.group = next /\ mem'.desc = newDesc
    <2>1. mem \in [ipg : Nat, sb : SbType, desc : DescType, group : G]
      BY DEF IInv, BaseType
    <2>2. mem' = [mem EXCEPT !.desc = newDesc, !.group = next, !.sb = newSb]
      BY <2>1 DEF FixBitmap
    <2> HIDE DEF newDesc, next, newSb
    <2> QED
      BY <2>1, <2>2
  <1>5. Counts(newSb)
    <2>1. newSb.ipg = NewIpg /\ newSb.inodes = sb.inodes + Groups * (NewIpg - sb.ipg)
          /\ newSb.free = sb.free + Groups * (NewIpg - sb.ipg)
      BY <1>3
    <2>2. Counts(sb) /\ sb.ipg \in Nat
      BY <1>3 DEF CountInv
    <2> HIDE DEF newSb
    <2> QED
      BY <1>3, <2>1, <2>2, CountsMore
  <1> HIDE DEF newSb
  <1>6. mem.desc \in DescType /\ desc \in DescType
    BY DEF IInv, BaseType
  <1>7. \A h \in G : mem.desc[h] = IF h < g THEN desc[h] + More ELSE desc[h]
    BY <1>1 DEF DescInv
  <1>8. \A h \in G : newDesc[h] = IF h < g + 1 THEN desc[h] + More ELSE desc[h]
    <2> SUFFICES ASSUME NEW h \in G
                 PROVE  newDesc[h] = IF h < g + 1 THEN desc[h] + More ELSE desc[h]
      OBVIOUS
    <2>1. DOMAIN mem.desc = G
      BY <1>6 DEF DescType
    <2>2. newDesc[h] = IF h = g THEN mem.desc[h] + More ELSE mem.desc[h]
      BY <1>2, <2>1
    <2>3. mem.desc[h] = IF h < g THEN desc[h] + More ELSE desc[h]
      BY <1>7
    <2>4. desc[h] \in Nat /\ g \in Int /\ h \in Int
      BY <1>2, <1>6 DEF DescType
    <2> HIDE DEF newDesc, g
    <2>5. CASE h = g
      <3>1. newDesc[h] = desc[h] + More
        BY <2>2, <2>3, <2>4, <2>5
      <3> QED
        BY <2>4, <2>5, <3>1
    <2>6. CASE h # g
      <3>1. newDesc[h] = IF h < g THEN desc[h] + More ELSE desc[h]
        BY <2>2, <2>3, <2>6
      <3>2. h < g <=> h < g + 1
        BY <2>4, <2>6
      <3> QED
        BY <3>1, <3>2
    <2> QED
      BY <2>5, <2>6
  <1>9. newDesc \in DescType
    <2>1. mem.desc[g] + More \in Nat
      <3>1. mem.desc[g] \in Nat
        BY <1>2, <1>6 DEF DescType
      <3> QED
        BY <1>3, <3>1
    <2> QED
      BY <1>2, <1>6, <2>1 DEF DescType
  <1> HIDE DEF newDesc
  <1>10. BehindInv'
    <2>1. stack' = << >>
      BY <1>1 DEF IInv, StackInv
    <2> QED
      BY <1>1, <2>1, BehindFirst
  <1>11. CountInv'
    BY <1>1, <1>4, <1>5 DEF CountInv, Counts
  <1>12. ReadInv' /\ EndInv'
    BY <1>1 DEF ReadInv, EndInv
  <1>13. DescInv'
    <2>1. More' = More
      BY <1>1, <1>4 DEF More
    <2>2. "desc" \notin cracks => \A h \in G : desc[h] = sb.ipg - UsedInodes
      BY <1>1 DEF DescInv
    <2>3. CASE g = Groups - 1
      <3>1. pc' = "sb" /\ mem'.group = 0
        BY <1>1, <1>4, <2>3
      <3>2. \A h \in G : newDesc[h] = desc[h] + More
        BY <1>2, <1>8, <2>3
      <3>3. ASSUME "desc" \notin cracks PROVE newDesc = NewDesc
        <4>1. \A h \in G : newDesc[h] = NewIpg - UsedInodes
          <5> SUFFICES ASSUME NEW h \in G PROVE newDesc[h] = NewIpg - UsedInodes
            OBVIOUS
          <5>1. newDesc[h] = desc[h] + More /\ desc[h] = sb.ipg - UsedInodes
            BY <2>2, <3>2, <3>3
          <5>2. UsedInodes \in Nat
            BY GroupFacts
          <5> QED
            BY <1>3, <5>1, <5>2
        <4> QED
          BY <1>9, <4>1 DEF DescType, NewDesc
      <3> QED
        BY <1>1, <1>4, <2>2, <3>1, <3>3 DEF DescInv
    <2>4. CASE g # Groups - 1
      <3>1. pc' = "bitmaps" /\ mem'.group = g + 1
        BY <1>1, <1>4, <2>4
      <3> QED
        BY <1>1, <1>3, <1>4, <1>8, <2>1, <2>2, <3>1 DEF DescInv
    <2> QED
      BY <2>3, <2>4
  <1>14. BitsInv'
    <2>1. bits \in [G -> SUBSET (OldIpg..(NewIpg - 1))]
      BY DEF IInv, BaseType
    <2>2. bits' = [bits EXCEPT ![g] = @ \ (mem.ipg..(NewIpg - 1))]
      BY <1>3 DEF FixBitmap
    <2>3. /\ sb.ipg = NewIpg => \A h \in G : bits[h] = {}
          /\ \A h \in G : h < g => bits[h] = {}
      BY <1>1 DEF BitsInv
    <2>4. bits[g] \ (mem.ipg..(NewIpg - 1)) = {}
      <3>1. CASE mem.ipg = NewIpg
        BY <1>2, <1>3, <2>3, <3>1
      <3>2. CASE mem.ipg = OldIpg
        BY <1>2, <2>1, <3>2
      <3> QED
        BY <1>3, <3>1, <3>2
    <2>5. bits'[g] = {} /\ \A h \in G : h # g => bits'[h] = bits[h]
      BY <1>2, <2>1, <2>2, <2>4
    <2>6. \A h \in G : h < g + 1 => bits'[h] = {}
      <3> SUFFICES ASSUME NEW h \in G, h < g + 1 PROVE bits'[h] = {}
        OBVIOUS
      <3>1. h = g \/ h < g
        BY <1>2
      <3> QED
        BY <2>3, <2>5, <3>1
    <2>7. sb.ipg = NewIpg => \A h \in G : bits'[h] = {}
      BY <2>3, <2>5
    <2>8. CASE g = Groups - 1
      <3>1. \A h \in G : bits'[h] = {}
        BY <1>2, <2>6, <2>8
      <3> QED
        BY <1>1, <2>8, <3>1 DEF BitsInv
    <2>9. CASE g # Groups - 1
      <3>1. pc' = "bitmaps" /\ mem'.group = g + 1
        BY <1>1, <1>4, <2>9
      <3> QED
        BY <1>1, <2>6, <2>7, <3>1 DEF BitsInv
    <2> QED
      BY <2>8, <2>9
  <1>15. BackupInv'
    <2>1. pc' = "sb" => mem'.group = 0
      BY <1>1, <1>2, <1>4
    <2>2. \A h \in Supers \ {0} : ~(h < 0)
      BY GroupFacts
    <2> QED
      BY <1>1, <2>1, <2>2 DEF BackupInv
  <1> QED
    BY <1>10, <1>11, <1>12, <1>13, <1>14, <1>15

\* The primary superblock is written with all bits cleared; the others are written
\* without the bit that makes the file system unmountable.
LEMMA WriteSbFixes == ASSUME IInv, FixInv, WriteSb PROVE FixInv'
  <1> USE DEF FixInv
  <1> DEFINE g == mem.group
  <1>1. UNCHANGED <<magic, desc, bits, ents, target, mem, stack, crashes, cracks>>
        /\ pc = "sb" /\ pc' = "desc" /\ g \in Supers
    BY DEF WriteSb, history
  <1>2. mem.sb \in SbType /\ mem.sb.ipg = NewIpg /\ Counts(mem.sb)
    BY <1>1 DEF IInv, BaseType, PhaseInv, CountInv
  <1>3. /\ g = 0 => sb' = mem.sb /\ backups' = backups
        /\ g # 0 => /\ sb' = sb
                    /\ backups' = [backups EXCEPT ![g].sb = [mem.sb EXCEPT !.bit = FALSE]]
    BY DEF WriteSb
  <1>4. [mem.sb EXCEPT !.bit = FALSE] = NewSb
    BY <1>2, SbIsNew
  <1>5. BehindInv'
    <2>1. stack' = << >>
      BY <1>1 DEF IInv, StackInv
    <2> QED
      BY <1>1, <2>1, BehindFirst
  <1>6. CountInv'
    <2>1. Counts(sb')
      BY <1>2, <1>3 DEF CountInv
    <2> QED
      BY <1>1, <1>2, <2>1 DEF CountInv, Counts
  <1>7. ReadInv' /\ EndInv'
    BY <1>1 DEF ReadInv, EndInv
  <1>8. DescInv'
    BY <1>1, <1>3 DEF DescInv
  <1>9. BitsInv'
    BY <1>1 DEF BitsInv
  <1>10. BackupInv'
    <2>1. backups \in [Supers \ {0} -> [sb : SbType, desc : DescType]]
      BY DEF IInv, BaseType
    <2>2. \A h \in Supers \ {0} : h # g => backups'[h] = backups[h]
      BY <1>3, <2>1
    <2>3. \A h \in Supers \ {0} : h < g => backups[h] = [sb |-> NewSb, desc |-> desc]
      BY <1>1 DEF BackupInv, BackedUp
    <2>4. \A h \in Supers \ {0} : h < g => backups'[h] = [sb |-> NewSb, desc |-> desc]
      <3>1. \A h \in Supers \ {0} : h < g => h # g
        BY GroupFacts
      <3> QED
        BY <2>2, <2>3, <3>1
    <2>5. g # 0 => backups'[g].sb = NewSb
      <3> SUFFICES ASSUME g # 0 PROVE backups'[g].sb = NewSb
        OBVIOUS
      <3>1. backups' = [backups EXCEPT ![g] = [backups[g] EXCEPT !.sb = NewSb]]
        BY <1>3, <1>4
      <3>2. backups'[g] = [backups[g] EXCEPT !.sb = NewSb] /\ backups[g] \in [sb : SbType, desc : DescType]
        BY <1>1, <2>1, <3>1
      <3> QED
        BY <3>2
    <2> QED
      BY <1>1, <2>4, <2>5 DEF BackupInv, BackedUp
  <1> QED
    BY <1>5, <1>6, <1>7, <1>8, <1>9, <1>10

\* A group is passed: those in front of it, and it, have been written.
LEMMA NextGroupFixes ==
    ASSUME IInv, FixInv, pc \in {"sb", "desc"}, NextGroup, sb.ipg = NewIpg,
           UNCHANGED <<magic, sb, bits, ents, stack, crashes, cracks>>,
           desc' = mem.desc,
           \A h \in Supers \ {0} :
              h <= mem.group => backups'[h] = [sb |-> NewSb, desc |-> mem.desc]
    PROVE  FixInv'
  <1> USE DEF FixInv
  <1>1. mem.group \in 0..(Groups - 1) /\ Groups \in Nat \ {0}
    BY GroupFacts DEF IInv, BaseType
  <1>2. mem'.sb = mem.sb /\ mem'.desc = mem.desc /\ pc' \in {"sb", "magic"}
        /\ (pc' = "magic" => target' = "unset")
    BY DEF NextGroup, IInv, BaseType
  <1>3. BehindInv'
    <2>1. stack' = << >>
      BY DEF IInv, StackInv
    <2> QED
      BY <2>1, BehindFirst
  <1>4. CountInv'
    BY <1>2 DEF CountInv, Counts
  <1>5. ReadInv' /\ EndInv'
    BY <1>2 DEF ReadInv, EndInv
  <1>6. DescInv'
    <2>1. "desc" \notin cracks => mem.desc = NewDesc
      BY DEF DescInv
    <2>2. "desc" \notin cracks => \A h \in 0..(Groups - 1) : desc'[h] = sb.ipg - UsedInodes
      BY <2>1 DEF NewDesc
    <2> QED
      BY <1>2, <2>1, <2>2 DEF DescInv
  <1>7. BitsInv'
    BY <1>2 DEF BitsInv
  <1>8. BackupInv'
    <2>1. CASE LastGroup(mem.group)
      <3>1. pc' = "magic"
        BY <2>1 DEF NextGroup
      <3>2. \A h \in Supers \ {0} : h <= mem.group
        BY <1>1, <2>1, GroupFacts DEF LastGroup
      <3> QED
        BY <3>1, <3>2 DEF BackupInv, BackedUp
    <2>2. CASE ~LastGroup(mem.group)
      <3>1. pc' = "sb" /\ mem'.group = mem.group + 1
        BY <2>2 DEF NextGroup, IInv, BaseType
      <3>2. \A h \in Supers \ {0} : h < mem.group + 1 => h <= mem.group
        BY <1>1, GroupFacts
      <3> QED
        BY <3>1, <3>2 DEF BackupInv, BackedUp
    <2> QED
      BY <2>1, <2>2
  <1> QED
    BY <1>3, <1>4, <1>5, <1>6, <1>7, <1>8

LEMMA WriteDescFixes == ASSUME IInv, FixInv, WriteDesc PROVE FixInv'
  <1> DEFINE g == mem.group
  <1>1. pc = "desc" /\ NextGroup /\ sb.ipg = NewIpg
        /\ UNCHANGED <<magic, sb, bits, ents, stack, crashes, cracks>>
    BY DEF WriteDesc, history, IInv, PhaseInv
  <1>2. /\ g = 0 => desc' = mem.desc /\ backups' = backups
        /\ g # 0 => desc' = desc /\ backups' = [backups EXCEPT ![g].desc = mem.desc]
    BY DEF WriteDesc
  <1>3. g # 0 => desc = mem.desc
    BY <1>1 DEF FixInv, DescInv
  <1>4. desc' = mem.desc
    BY <1>2, <1>3
  <1>5. backups \in [Supers \ {0} -> [sb : SbType, desc : DescType]]
        /\ g \in 0..(Groups - 1) /\ Supers \subseteq 0..(Groups - 1) /\ Groups \in Nat
    BY GroupFacts DEF IInv, BaseType
  <1>6. /\ \A h \in Supers \ {0} : h < g => backups[h] = [sb |-> NewSb, desc |-> desc]
        /\ g # 0 => backups[g].sb = NewSb
    BY <1>1 DEF FixInv, BackupInv, BackedUp
  <1>7. ASSUME NEW h \in Supers \ {0}, h <= g
        PROVE  backups'[h] = [sb |-> NewSb, desc |-> mem.desc]
    <2>1. g # 0
      BY <1>5, <1>7
    <2>2. CASE h = g
      <3>1. backups' = [backups EXCEPT ![g] = [backups[g] EXCEPT !.desc = mem.desc]]
        BY <1>2, <2>1
      <3>2. backups'[g] = [backups[g] EXCEPT !.desc = mem.desc]
            /\ backups[g] \in [sb : SbType, desc : DescType]
        BY <1>5, <2>2, <3>1
      <3> QED
        BY <1>6, <2>1, <2>2, <3>2
    <2>3. CASE h # g
      <3>1. h < g
        BY <1>5, <1>7, <2>3
      <3>2. backups'[h] = backups[h]
        BY <1>2, <1>5, <2>1, <2>3
      <3> QED
        BY <1>3, <1>6, <2>1, <3>1, <3>2
    <2> QED
      BY <2>2, <2>3
  <1> QED
    BY <1>1, <1>4, <1>7, NextGroupFixes

LEMMA SkipGroupFixes == ASSUME IInv, FixInv, SkipGroup PROVE FixInv'
  <1>1. pc = "sb" /\ NextGroup /\ mem.group \notin Supers
        /\ UNCHANGED <<magic, sb, desc, backups, bits, ents, stack, crashes, cracks>>
    BY DEF SkipGroup, history, disk
  <1>2. mem.group # 0 /\ mem.group \in 0..(Groups - 1)
        /\ Supers \subseteq 0..(Groups - 1) /\ Groups \in Nat
    BY <1>1, GroupFacts DEF IInv, BaseType
  <1>3. sb.ipg = NewIpg /\ desc = mem.desc
    BY <1>1, <1>2 DEF IInv, PhaseInv, FixInv, DescInv
  <1>4. \A h \in Supers \ {0} :
          h <= mem.group => backups[h] = [sb |-> NewSb, desc |-> mem.desc]
    <2>1. \A h \in Supers \ {0} : h <= mem.group => h < mem.group
      BY <1>1, <1>2
    <2> QED
      BY <1>1, <1>3, <2>1 DEF FixInv, BackupInv, BackedUp
  <1> QED
    BY <1>1, <1>3, <1>4, NextGroupFixes

-----------------------------------------------------------------------------
(* The entries behind a deleted one, in a pass. *)

LEMMA DescendFixes == ASSUME IInv, FixInv, Descend PROVE FixInv'
  <1> DEFINE fr == Frame(Said.to)
             L == Len(stack)
  <1>1. pc = "pass" /\ AtEntry /\ Followed
        /\ UNCHANGED <<magic, sb, desc, backups, bits, ents, pc, target, mem, crashes, cracks>>
    BY DEF Descend, disk, history
  <1>2. stack' = Append(stack, fr) /\ Said.to \in Dirs
    BY <1>1, FollowedFacts DEF Descend
  <1>3. fr.dir = Said.to /\ fr.buf = ents[Said.to]
    BY DEF Frame
  <1> HIDE DEF fr
  <1>4. stack \in Seq(FrameType) /\ L \in Nat
    BY <1>1, TopFacts
  <1>5. Len(stack') = L + 1 /\ stack'[L + 1] = fr /\ \A i \in 1..L : stack'[i] = stack[i]
    BY <1>2, <1>4
  <1>6. ASSUME NEW i \in 1..Len(stack')
        PROVE  Untouched(stack'[i].dir, stack'[i].buf)
    <2>1. CASE i = L + 1
      BY <1>2, <1>3, <1>5, <2>1 DEF FixInv, BehindInv
    <2>2. CASE i # L + 1
      <3>1. i \in 1..L
        BY <1>4, <1>5, <2>2
      <3> QED
        BY <1>5, <3>1 DEF FixInv, BehindInv
    <2> QED
      BY <2>1, <2>2
  <1>7. BehindInv'
    BY <1>1, <1>6 DEF FixInv, BehindInv
  <1> QED
    BY <1>1, <1>7, FixInPass

\* dirp is in front of the first deleted entry.
LEMMA VisitFixes == ASSUME IInv, FixInv, Visit PROVE FixInv'
  <1> DEFINE n == Top.entry
             L == Len(stack)
             new == [Top.buf EXCEPT ![n] = Processed(Dirp)]
             fr == [dir |-> Top.dir, buf |-> new, entry |-> n + 1,
                    back |-> FALSE, written |-> Top.written]
  <1>1. pc = "pass" /\ AtEntry
        /\ UNCHANGED <<magic, sb, desc, backups, bits, ents, pc, target, mem, crashes, cracks>>
    BY DEF Visit, disk, history
  <1>2. /\ stack \in Seq(FrameType) /\ L \in Nat \ {0} /\ Top = stack[L]
        /\ Top.dir \in Dirs /\ Top.buf \in BufType(Top.dir)
    BY <1>1, TopFacts
  <1>3. n \in Reached(Top.dir)
    BY <1>1, EntryFacts
  <1>4. \A k \in 1..Len(Tree[Top.dir]) : k # n => new[k] = Top.buf[k]
    BY <1>2 DEF BufType
  <1>5. Untouched(Top.dir, Top.buf)
    BY <1>2 DEF FixInv, BehindInv
  <1>6. Untouched(Top.dir, new)
    BY <1>3, <1>4, <1>5 DEF Untouched
  <1>7. fr.dir = Top.dir /\ fr.buf = new
    OBVIOUS
  <1>8. stack' = [stack EXCEPT ![L] = fr]
    BY DEF Visit
  <1> HIDE DEF fr, new
  <1>9. Len(stack') = L /\ stack'[L] = fr /\ \A i \in 1..L : i # L => stack'[i] = stack[i]
    BY <1>2, <1>8
  <1>10. BehindInv'
    BY <1>1, <1>6, <1>7, <1>9 DEF FixInv, BehindInv
  <1> QED
    BY <1>1, <1>10, FixInPass

LEMMA WriteBlockFixes == ASSUME IInv, FixInv, WriteBlock PROVE FixInv'
  <1> DEFINE d == Top.dir
             L == Len(stack)
             mixed == [k \in 1..Len(Tree[d]) |->
                         IF Tree[d][k].block = Top.written + 1 THEN Top.buf[k] ELSE ents[d][k]]
             fr == [Top EXCEPT !.written = @ + 1]
  <1>1. pc = "pass"
        /\ UNCHANGED <<magic, sb, desc, backups, bits, pc, target, mem, crashes, cracks>>
    BY DEF WriteBlock, history
  <1>2. /\ stack \in Seq(FrameType) /\ L \in Nat \ {0} /\ Top = stack[L]
        /\ Top \in FrameType /\ d \in Dirs
    BY <1>1, TopFacts
  <1>3. DOMAIN ents = Dirs /\ ents[d] \in BufType(d)
    BY <1>2 DEF IInv, BaseType
  <1>4. ents' = [ents EXCEPT ![d] = mixed]
    <2>1. DOMAIN ents[d] = 1..Len(Tree[d])
      BY <1>3 DEF BufType
    <2> QED
      BY <2>1 DEF WriteBlock
  <1>5. Untouched(d, Top.buf) /\ \A x \in Dirs : Untouched(x, ents[x])
    BY <1>2 DEF FixInv, BehindInv
  <1>6. Untouched(d, mixed)
    BY <1>2, <1>5 DEF Untouched
  <1> HIDE DEF mixed
  <1>7. \A x \in Dirs : ents'[x] = IF x = d THEN mixed ELSE ents[x]
    BY <1>2, <1>3, <1>4
  <1>8. \A x \in Dirs : Untouched(x, ents'[x])
    BY <1>5, <1>6, <1>7
  <1>9. fr.dir = d /\ fr.buf = Top.buf
    BY <1>2 DEF FrameType
  <1>10. stack' = [stack EXCEPT ![L] = fr]
    BY <1>2 DEF WriteBlock
  <1> HIDE DEF fr
  <1>11. Len(stack') = L /\ stack'[L] = fr /\ \A i \in 1..L : i # L => stack'[i] = stack[i]
    BY <1>2, <1>10
  <1>12. BehindInv'
    BY <1>5, <1>8, <1>9, <1>11 DEF FixInv, BehindInv
  <1> QED
    BY <1>1, <1>12, FixInPass

LEMMA ReturnFixes == ASSUME IInv, FixInv, Return PROVE FixInv'
  <1> DEFINE L == Len(stack)
             p == stack[L - 1]
             fr == [p EXCEPT !.back = TRUE]
             new == [k \in 1..(L - 1) |-> IF k = L - 1 THEN fr ELSE stack[k]]
  <1>1. pc = "pass" /\ L > 1
        /\ UNCHANGED <<magic, sb, desc, backups, bits, ents, pc, target, mem, crashes, cracks>>
    BY DEF Return, disk, history
  <1>2. stack \in Seq(FrameType) /\ L \in Nat
    BY <1>1, TopFacts
  <1>3. p \in FrameType /\ L - 1 \in 1..L /\ L - 1 \in Nat
    BY <1>1, <1>2
  <1>4. fr.dir = p.dir /\ fr.buf = p.buf /\ fr \in FrameType
    BY <1>3 DEF FrameType
  <1>5. stack' = new
    BY DEF Return
  <1> HIDE DEF fr
  <1>6. new \in [1..(L - 1) -> FrameType]
    BY <1>2, <1>4
  <1>7. Len(stack') = L - 1
    BY <1>3, <1>5, <1>6, LenFacts
  <1>8. ASSUME NEW i \in 1..(L - 1)
        PROVE  Untouched(stack'[i].dir, stack'[i].buf)
    <2>1. i \in 1..L
      BY <1>2
    <2>2. stack'[i].dir = stack[i].dir /\ stack'[i].buf = stack[i].buf
      BY <1>4, <1>5
    <2> QED
      BY <2>1, <2>2 DEF FixInv, BehindInv
  <1>9. BehindInv'
    BY <1>1, <1>7, <1>8 DEF FixInv, BehindInv
  <1> QED
    BY <1>1, <1>9, FixInPass

LEMMA PassOverFixes == ASSUME IInv, FixInv, PassOver PROVE FixInv'
  <1> USE DEF FixInv
  <1>1. pc = "pass" /\ stack' = << >> /\ pc' = "magic" /\ target' = After(magic)
        /\ UNCHANGED <<magic, sb, desc, backups, bits, ents, mem, crashes, cracks>>
    BY DEF PassOver, disk, history
  <1>2. target' # "unset"
    BY <1>1 DEF After
  <1>3. BehindInv'
    BY <1>1, BehindFirst
  <1>4. CountInv' /\ ReadInv' /\ EndInv'
    BY <1>1, <1>2 DEF CountInv, ReadInv, EndInv, Counts
  <1>5. DescInv'
    BY <1>1 DEF DescInv
  <1>6. BitsInv'
    BY <1>1 DEF BitsInv
  <1>7. BackupInv'
    BY <1>1, <1>2 DEF BackupInv
  <1> QED
    BY <1>3, <1>4, <1>5, <1>6, <1>7

LEMMA FixInductive == IInv /\ FixInv /\ [Next]_vars => FixInv'
  <1> SUFFICES ASSUME IInv, FixInv, [Next]_vars PROVE FixInv'
    OBVIOUS
  <1>1. CASE Start
    BY <1>1, StartFixes
  <1>2. CASE SanityCheck
    BY <1>2, SanityCheckFixes
  <1>3. CASE SetMagic
    BY <1>3, SetMagicFixes
  <1>4. CASE SetBit
    BY <1>4, SetBitFixes
  <1>5. CASE Descend
    BY <1>5, DescendFixes
  <1>6. CASE Visit
    BY <1>6, VisitFixes
  <1>7. CASE WriteBlock
    BY <1>7, WriteBlockFixes
  <1>8. CASE Return
    BY <1>8, ReturnFixes
  <1>9. CASE PassOver
    BY <1>9, PassOverFixes
  <1>10. CASE FixBitmap
    BY <1>10, FixBitmapFixes
  <1>11. CASE WriteSb
    BY <1>11, WriteSbFixes
  <1>12. CASE WriteDesc
    BY <1>12, WriteDescFixes
  <1>13. CASE SkipGroup
    BY <1>13, SkipGroupFixes
  <1>14. CASE Crash
    BY <1>14, CrashFixes
  <1>15. CASE UNCHANGED vars
    <2> USE DEF FixInv
    <2>1. UNCHANGED <<magic, sb, desc, backups, bits, ents, pc, target, mem, stack,
                      crashes, cracks>>
      BY <1>15 DEF vars, disk, process, history
    <2>2. BehindInv'
      BY <2>1 DEF BehindInv
    <2>3. CountInv' /\ ReadInv' /\ EndInv'
      BY <2>1 DEF CountInv, ReadInv, EndInv, Counts
    <2>4. DescInv'
      BY <2>1 DEF DescInv, More
    <2>5. BitsInv' /\ BackupInv'
      BY <2>1 DEF BitsInv, BackupInv, BackedUp
    <2> QED
      BY <2>2, <2>3, <2>4, <2>5
  <1> QED
    BY <1>1, <1>2, <1>3, <1>4, <1>5, <1>6, <1>7, <1>8, <1>9, <1>10, <1>11, <1>12,
       <1>13, <1>14, <1>15 DEF Next, Step

LEMMA Fixed == IInv /\ FixInv => FixedAsUninterrupted
  <1> SUFFICES ASSUME IInv, FixInv, pc = "done"
               PROVE  /\ magic = "unset" /\ sb = NewSb
                      /\ \A d \in Dirs : \A k \in 1..Len(Tree[d]) :
                            ents[d][k] = IF k \in Reached(d)
                                         THEN [ino |-> Number(NewIpg, Tree[d][k].to),
                                               marked |-> FALSE]
                                         ELSE OldEntry(Tree[d][k])
                      /\ \A g \in 0..(Groups - 1) : bits[g] = {}
                      /\ \A g \in Supers \ {0} : backups[g] = [sb |-> NewSb, desc |-> desc]
                      /\ desc = NewDesc \/ "desc" \in cracks
    BY DEF FixedAsUninterrupted
  <1>1. magic = "unset" /\ sb.ipg = NewIpg /\ ~sb.bit
    BY DEF FixInv, EndInv
  <1>2. sb = NewSb
    BY <1>1, SbIsNew DEF IInv, BaseType, FixInv, CountInv
  <1>3. ASSUME NEW d \in Dirs, NEW k \in 1..Len(Tree[d])
        PROVE  ents[d][k] = IF k \in Reached(d)
                            THEN [ino |-> Number(NewIpg, Tree[d][k].to), marked |-> FALSE]
                            ELSE OldEntry(Tree[d][k])
    <2>1. ents[d][k] \in [ino : Nat, marked : BOOLEAN]
      BY DEF IInv, BaseType, BufType
    <2>2. k \in Reached(d) => ents[d][k].ino = Number(NewIpg, Tree[d][k].to)
                              /\ ~ents[d][k].marked
      BY <1>1 DEF IInv, DiskKept, Directories, Kept, Resolved
    <2>3. k \notin Reached(d) => ents[d][k] = OldEntry(Tree[d][k])
      BY DEF FixInv, BehindInv, Untouched
    <2> QED
      BY <2>1, <2>2, <2>3
  <1>4. \A g \in 0..(Groups - 1) : bits[g] = {}
    BY <1>1 DEF FixInv, BitsInv
  <1>5. \A g \in Supers \ {0} : backups[g] = [sb |-> NewSb, desc |-> desc]
    BY DEF FixInv, BackupInv, BackedUp
  <1>6. desc = NewDesc \/ "desc" \in cracks
    BY <1>1 DEF IInv, BaseType, DescType, FixInv, DescInv, NewDesc
  <1> QED
    BY <1>1, <1>2, <1>3, <1>4, <1>5, <1>6

\* Wherever and however often ext4fixup is interrupted, the run that comes to its end
\* leaves the image it would have left without: superblocks, descriptors, bitmaps and
\* entries, but for the counts of free inodes after an interruption between the
\* primary superblock and its descriptors.
THEOREM LeftAsUninterrupted == Spec => []FixedAsUninterrupted
  <1>1. Init => FixInv
    BY FixInitially
  <1>2. IInv /\ FixInv /\ [Next]_vars => FixInv'
    BY FixInductive
  <1>3. IInv /\ FixInv => FixedAsUninterrupted
    BY Fixed
  <1> QED
    BY <1>1, <1>2, <1>3, Invariant, PTL DEF Spec
=============================================================================
