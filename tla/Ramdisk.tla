------------------------------- MODULE Ramdisk -------------------------------
(***************************************************************************)
(* mkbootfs packs directories into a cpio archive on its standard output    *)
(* (cpio/mkbootfs.c).  The directories are read while the archive is being  *)
(* written, and may change: a file is looked at, and read later.            *)
(*                                                                         *)
(* A path is a sequence of names; names are numbers in the order of         *)
(* strcmp().  What the archive holds is a sequence of records with their    *)
(* offsets.  The built-in fs_config() is external.                          *)
(***************************************************************************)
EXTENDS Integers, Sequences, FiniteSets, SequencesExt

CONSTANTS
    Names,          \* names of files
    Skipped,        \* those that begin with a dot, and "root"
    TrailerName,    \* "TRAILER!!!"
    Trees,          \* file systems: path |-> [kind, size], without the start
    Configs,        \* files given with -f, or BuiltIn
    BuiltIn,        \* fs_config() is used
    NameLen,        \* length of a name
    MaxChanges      \* bound: changes of the file system

ASSUME NamesAssumption ==
    /\ Names \subseteq Nat /\ IsFiniteSet(Names)
    /\ Skipped \subseteq Names /\ TrailerName \in Nat \ Names
    /\ NameLen \in Nat /\ MaxChanges \in Nat

\* A file system: what lies below something lies in directories.
IsTree(t) ==
    /\ DOMAIN t \subseteq Seq(Names) \ {<< >>}
    /\ \A p \in DOMAIN t :
          /\ t[p] \in [kind : {"dir", "link", "file", "device"}, size : Nat]
          /\ \A k \in 1..(Len(p) - 1) :
                SubSeq(p, 1, k) \in DOMAIN t /\ t[SubSeq(p, 1, k)].kind = "dir"

ASSUME TreesAssumption == \A t \in Trees : IsTree(t)

VARIABLES
    fs,         \* the file system
    config,     \* canned_config: a sequence of [path, mode], or BuiltIn
    todo,       \* what _archive_dir() has still to archive, in order
    file,       \* the file that has been looked at: its path and size
    archive,    \* the records written
    total,      \* total_size
    packing,    \* "todo", "read", "packed", "died", "crashed"
    changes

ramdisk == <<fs, config, todo, file, archive, total, packing, changes>>

-----------------------------------------------------------------------------
\* As it is not: nothing is ignored.
VisibleAll(name) == name \in Names

Visible(name) == name \notin Skipped

\* compare() and qsort(): at each place the name with as many names up to it.
Ascending(S) ==
    [i \in 1..Cardinality(S) |->
        CHOOSE n \in S : Cardinality({ m \in S : m <= n }) = i]

\* _archive_dir(): the entries of a directory that are not ignored, sorted.
Children(dir) ==
    LET order == Ascending({ n \in Names : Append(dir, n) \in DOMAIN fs /\ Visible(n) })
    IN  [i \in DOMAIN order |-> Append(dir, order[i])]

RamdiskInit ==
    /\ fs \in Trees
    /\ config \in Configs
    /\ todo = Children(<< >>)
    /\ file = [path |-> << >>, size |-> 0]
    /\ archive = << >> /\ total = 0
    /\ packing = "todo" /\ changes = 0

\* fix_stat(): the first line for the path, or else the last for no path.
Lines(path) == { i \in DOMAIN config : config[i].path = path }

HasMode(path) ==
    config = BuiltIn \/ Lines(path) # {} \/ Lines(<< >>) # {}

ModeOf(path) ==
    IF config = BuiltIn THEN "builtin"
    ELSE IF Lines(path) # {} THEN config[Min(Lines(path))].mode
    ELSE config[Max(Lines(<< >>))].mode

\* Zeros are written up to a multiple of four.
Padded(n) == ((n + 3) \div 4) * 4

PathLen(path) ==
    IF path = <<TrailerName>> THEN 10 ELSE Len(path) * (NameLen + 1) - 1

FirstIno == 300000

\* _eject(): a header of 110 bytes with the name, then the data.  Without a
\* line for the path the program crashes.
Eject(path, kind, size) ==
    LET at   == Padded(total)
        data == Padded(at + 110 + PathLen(path) + 1)
    IN  IF ~HasMode(path)
        THEN packing' = "crashed" /\ UNCHANGED <<archive, total>>
        ELSE /\ archive' = Append(archive,
                   [path |-> path, kind |-> kind, ino |-> FirstIno + Len(archive),
                    mode |-> ModeOf(path), at |-> at, data |-> data, size |-> size])
             /\ total' = IF kind = "trailer" THEN ((data + 255) \div 256) * 256
                         ELSE data + size
             /\ packing' = IF kind = "trailer" THEN "packed" ELSE "todo"

Die == packing' = "died" /\ UNCHANGED <<archive, total>>

\* _archive(): lstat() of the next entry.  A directory is opened and its
\* entries come first, a link is read, a file is read in a step of its own.
Visit ==
    /\ packing = "todo" /\ todo # << >>
    /\ LET path == Head(todo)
       IN  \/ /\ path \notin DOMAIN fs
              /\ Die
              /\ UNCHANGED <<todo, file>>
           \/ /\ path \in DOMAIN fs /\ fs[path].kind = "dir"
              /\ Eject(path, "dir", 0)
              /\ todo' = Children(path) \o Tail(todo)
              /\ UNCHANGED file
           \/ /\ path \in DOMAIN fs /\ fs[path].kind = "link"
              /\ Eject(path, "link",
                       IF fs[path].size > 1024 THEN 1024 ELSE fs[path].size)
              /\ todo' = Tail(todo)
              /\ UNCHANGED file
           \/ /\ path \in DOMAIN fs /\ fs[path].kind = "file"
              /\ file' = [path |-> path, size |-> fs[path].size]
              /\ packing' = "read"
              /\ todo' = Tail(todo)
              /\ UNCHANGED <<archive, total>>
           \/ /\ path \in DOMAIN fs /\ fs[path].kind = "device"
              /\ Die
              /\ UNCHANGED <<todo, file>>
    /\ UNCHANGED <<fs, config, changes>>

\* open() and read() of as many bytes as the file had.
ReadFile ==
    /\ packing = "read"
    /\ IF file.path \in DOMAIN fs /\ fs[file.path].size >= file.size
       THEN Eject(file.path, "file", file.size)
       ELSE Die
    /\ UNCHANGED <<fs, config, todo, file, changes>>

\* _eject_trailer(); then zeros up to a multiple of 256.
Trailer ==
    /\ packing = "todo" /\ todo = << >>
    /\ Eject(<<TrailerName>>, "trailer", 0)
    /\ UNCHANGED <<fs, config, todo, file, changes>>

\* Meanwhile somebody removes a file, or writes to it.
Change ==
    /\ packing \in {"todo", "read"}
    /\ changes < MaxChanges /\ changes' = changes + 1
    /\ \E p \in DOMAIN fs :
          /\ fs[p].kind = "file"
          /\ \/ fs' = [q \in DOMAIN fs \ {p} |-> fs[q]]
             \/ \E size \in {fs[p].size - 1, fs[p].size + 1} \cap Nat :
                   fs' = [fs EXCEPT ![p].size = size]
    /\ UNCHANGED <<config, todo, file, archive, total, packing>>

RamdiskNext == Visit \/ ReadFile \/ Trailer \/ Change

-----------------------------------------------------------------------------
\* Properties.
Records == DOMAIN archive

RamdiskTypeOK ==
    /\ packing \in {"todo", "read", "packed", "died", "crashed"}
    /\ total \in Nat
    /\ changes \in 0..MaxChanges
    /\ \A p \in Range(todo) : p \in Seq(Names)

\* The kernel unpacks record after record: each begins where the one before it
\* ends, headers and data at multiples of four, with numbers of their own; and
\* what is behind the trailer fills blocks of 256 bytes.
ArchiveParses ==
    /\ \A i \in Records :
          /\ archive[i].at % 4 = 0 /\ archive[i].data % 4 = 0
          /\ archive[i].at =
                IF i = 1 THEN 0 ELSE Padded(archive[i - 1].data + archive[i - 1].size)
    /\ IsInjective([i \in Records |-> archive[i].ino])
    /\ packing = "packed" => total % 256 = 0

\* What is packed is the tree: a directory before what it holds, nothing twice,
\* nothing that is to be ignored, and all that has been there all the time.
ArchiveIsTree ==
    LET paths == { archive[i].path : i \in Records }
    IN  /\ IsInjective([i \in Records |-> archive[i].path])
        /\ \A i \in Records : archive[i].kind # "trailer" =>
              /\ \A n \in Range(archive[i].path) : n \notin Skipped
              /\ Len(archive[i].path) > 1 =>
                    \E j \in 1..(i - 1) : /\ archive[j].path = Front(archive[i].path)
                                          /\ archive[j].kind = "dir"
        /\ packing = "packed" =>
              { p \in DOMAIN fs : \A n \in Range(p) : n \notin Skipped } \subseteq paths

\* The same tree gives the same archive: the records are in the order of their
\* names, whatever the order of the directories.
ArchiveSorted ==
    \A i, j \in Records :
        LET p == archive[i].path
            q == archive[j].path
        IN  i < j /\ archive[j].kind # "trailer" /\ Len(p) = Len(q)
                  /\ Front(p) = Front(q) => Last(p) < Last(q)
=============================================================================
