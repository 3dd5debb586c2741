------------------------------ MODULE BootImage ------------------------------
(***************************************************************************)
(* mkbootimg puts a kernel, a ramdisk and, if they are given, a second      *)
(* stage and a device tree into an image of whole pages behind a header     *)
(* (mkbootimg/mkbootimg.c, bootimg.h).  It runs when the ramdisk has been   *)
(* packed by mkbootfs; the compression in between is external.              *)
(***************************************************************************)
EXTENDS Ramdisk

CONSTANTS
    PageSizes,      \* --pagesize
    KernelSizes, RamdiskSizes, SecondSizes, DtSizes,
                    \* sizes of the files; a ramdisk of 0 is "NONE"
    None,           \* an option that is not given, a file that is not there
    Old,            \* what the output file held before
    HeaderSize,     \* sizeof(boot_img_hdr)
    Rooms           \* whether the board and the command line fit

\* load_file() keeps a size in an int.
IntMax == 2147483647

ASSUME SizesAssumption ==
    /\ \A sizes \in {KernelSizes, RamdiskSizes, SecondSizes, DtSizes} :
          sizes \ {None} \subseteq 0..IntMax
    /\ HeaderSize \in 1..2048

VARIABLES
    args,       \* the arguments
    hdr,        \* the sizes in the header, as far as they are known
    image,      \* the output file: Old, None or a sequence of sections
    pos,        \* its size
    step        \* what mkbootimg is about to do

bootimg == <<args, hdr, image, pos, step>>
vars    == <<ramdisk, bootimg>>

Files == <<"kernel", "ramdisk", "second", "dt">>
Given(f) == args[f] # None

NoHdr == [f \in Range(Files) |-> 0]

Args == [page : PageSizes, kernel : KernelSizes, ramdisk : RamdiskSizes,
         second : SecondSizes, dt : DtSizes, fits : Rooms]

NoArgs == [page |-> 2048, kernel |-> None, ramdisk |-> None, second |-> None,
           dt |-> None, fits |-> TRUE]

BootInit ==
    /\ args = NoArgs
    /\ hdr = NoHdr
    /\ image \in {Old, None}
    /\ pos = 0
    /\ step = "args"

Init == RamdiskInit /\ BootInit

\* As it is not: what was written is left behind.
FailKept == step' = "failed" /\ UNCHANGED <<image, pos>>

\* The output is removed.
Fail == step' = "failed" /\ image' = None /\ pos' = 0

Refuse == step' = "failed" /\ UNCHANGED <<hdr, image, pos>>

\* The options are checked before anything is loaded.
CheckArgs ==
    /\ step = "args"
    /\ args' \in Args
    /\ step' = IF /\ args'.kernel # None /\ args'.ramdisk # None /\ args'.fits
                  /\ args'.page \in {2048, 4096, 8192, 16384}
               THEN "kernel" ELSE "failed"
    /\ UNCHANGED <<hdr, image, pos>>

NextFile(f) ==
    CASE f = "kernel"  -> "ramdisk"
      [] f = "ramdisk" -> "second"
      [] f = "second"  -> "dt"
      [] f = "dt"      -> "header"

\* load_file(): the size is that of the file, which an int holds
\* (SizesAssumption).  A file that cannot be loaded ends the program; one that
\* is not given is not loaded.
Load(f) ==
    /\ step = f
    /\ \/ /\ Given(f) /\ (f = "ramdisk" => args[f] > 0)
          /\ Refuse
       \/ /\ hdr' = [hdr EXCEPT ![f] = IF Given(f) THEN args[f] ELSE 0]
          /\ step' = NextFile(f)
          /\ UNCHANGED <<image, pos>>
    /\ UNCHANGED args

\* As it is not: whole pages are padded by a page.
PaddingOfPages(item) == args.page - (item % args.page)

\* As it is not: down to a page.
PaddingBack(item) == 0 - (item % args.page)

\* write_padding().
Padding(item) ==
    IF item % args.page = 0 THEN 0 ELSE args.page - (item % args.page)

\* A section is written, and padded as if it were of the size "like".
Put(what, size, like, next) ==
    \/ Fail
    \/ /\ image' = Append(image, [what |-> what, at |-> pos, size |-> size])
       /\ pos' = pos + size + Padding(like)
       /\ step' = next

WriteHeader ==
    /\ step = "header"
    /\ \/ /\ Refuse
       \/ /\ UNCHANGED hdr
          /\ \/ Fail
             \/ /\ image' = << [what |-> "header", at |-> 0, size |-> HeaderSize] >>
                /\ pos' = HeaderSize + Padding(HeaderSize)
                /\ step' = "write kernel"
    /\ UNCHANGED args

WriteKernel ==
    /\ step = "write kernel"
    /\ Put("kernel", hdr["kernel"], hdr["kernel"], "write ramdisk")
    /\ UNCHANGED <<args, hdr>>

WriteRamdisk ==
    /\ step = "write ramdisk"
    /\ Put("ramdisk", hdr["ramdisk"], hdr["ramdisk"], "write second")
    /\ UNCHANGED <<args, hdr>>

\* The second stage is padded by the size of the ramdisk.
WriteSecond ==
    /\ step = "write second"
    /\ IF Given("second")
       THEN Put("second", hdr["second"], hdr["ramdisk"], "write dt")
       ELSE step' = "write dt" /\ UNCHANGED <<image, pos>>
    /\ UNCHANGED <<args, hdr>>

WriteDt ==
    /\ step = "write dt"
    /\ IF Given("dt")
       THEN Put("dt", hdr["dt"], hdr["dt"], "done")
       ELSE step' = "done" /\ UNCHANGED <<image, pos>>
    /\ UNCHANGED <<args, hdr>>

BootNext ==
    \/ CheckArgs
    \/ \E f \in Range(Files) : Load(f)
    \/ WriteHeader \/ WriteKernel \/ WriteRamdisk \/ WriteSecond \/ WriteDt

Next ==
    \/ RamdiskNext /\ UNCHANGED bootimg
    \/ packing = "packed" /\ BootNext /\ UNCHANGED ramdisk

Spec == Init /\ [][Next]_vars

-----------------------------------------------------------------------------
\* Properties.
TypeOK ==
    /\ RamdiskTypeOK
    /\ \A f \in Range(Files) : hdr[f] \in {0, args[f]}
    /\ image \in {Old, None} \/
          \A i \in DOMAIN image :
              /\ image[i].what \in Range(Files) \cup {"header"}
              /\ image[i].at + image[i].size <= pos
    /\ pos \in Nat

\* The ramdisk is a sound archive of the tree, at every moment it is written.
ArchiveSound == TypeOK /\ ArchiveParses /\ ArchiveIsTree /\ ArchiveSorted

\* The pages a boot loader reads a section from, by the header alone.
Pages(size) == (size + args.page - 1) \div args.page
PageOf(f) ==
    CASE f = "kernel"  -> 1
      [] f = "ramdisk" -> 1 + Pages(hdr["kernel"])
      [] f = "second"  -> 1 + Pages(hdr["kernel"]) + Pages(hdr["ramdisk"])
      [] f = "dt"      -> 1 + Pages(hdr["kernel"]) + Pages(hdr["ramdisk"])
                            + Pages(hdr["second"])

\* A loader that reads the header finds each file in full at the page the sizes
\* before it say, unless a device tree follows a second stage of another
\* remainder than the ramdisk's.
LoaderFinds ==
    step = "done" =>
        \A f \in Range(Files) :
            Given(f) /\ (f = "dt" /\ Given("second") =>
                            hdr["second"] % args.page = hdr["ramdisk"] % args.page)
            => \E i \in DOMAIN image :
                  /\ image[i].what = f /\ image[i].size = args[f]
                  /\ image[i].at = PageOf(f) * args.page

\* What a failed run leaves is what was there before or nothing: never a part
\* of an image.
NoPartOfImage == step = "failed" => image \in {Old, None}

\* "all entities are page_size aligned in flash" (bootimg.h).
PageAligned ==
    image \notin {Old, None} =>
        \A i \in DOMAIN image : image[i].at % args.page = 0
=============================================================================
