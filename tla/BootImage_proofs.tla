--------------------------- MODULE BootImage_proofs ---------------------------
(***************************************************************************)
(* Proofs about mkbootimg, for files of any sizes and any page size, and   *)
(* about mkbootfs, for any tree that changes while it is read.             *)
(*                                                                         *)
(* What mkbootimg has written by the time it comes to a section depends on *)
(* how far it is: Layout says what, for each step.                         *)
(*                                                                         *)
(* What mkbootfs has archived, is reading and has still to do is one Line  *)
(* in the order of the archive.  A file or a link only moves on in it; a   *)
(* directory has its entries inserted behind it.  The line is sorted, has  *)
(* nothing twice and each directory before what it holds; and whatever is  *)
(* in the tree is in the line, or below something that is to come.         *)
(***************************************************************************)
EXTENDS BootImage, FiniteSetTheorems, TLAPS

LEMMA Quotient ==
    ASSUME NEW b \in Nat \ {0}, NEW q \in Nat, NEW r \in 0..(b - 1)
    PROVE  (q * b + r) \div b = q /\ (q * b + r) % b = r
OBVIOUS

LEMMA Product ==
    ASSUME NEW b \in Nat, NEW q \in Nat
    PROVE  q * b \in Nat /\ (q + 1) * b = q * b + b
OBVIOUS

LEMMA Behind ==
    ASSUME NEW a \in Nat, NEW b \in Nat, NEW c \in Nat, NEW m, b + c = m
    PROVE  (a + b) + c = a + m
OBVIOUS

\* Whole pages hold a section and its padding: q of them, or one more.
LEMMA PaddedFrom ==
    ASSUME NEW page \in Nat \ {0}, NEW q \in Nat, NEW r \in 0..(page - 1)
    PROVE  /\ r = 0 => (q * page + r + page - 1) \div page = q
           /\ r # 0 => /\ (q * page + r + page - 1) \div page = q + 1
                       /\ q * page + r + (page - r) = (q + 1) * page
<1>1. q * page \in Nat /\ (q + 1) * page = q * page + page
  BY Product
<1>2. CASE r = 0
  <2>1. q * page + r + page - 1 = q * page + (page - 1)
    BY <1>1, <1>2
  <2>2. QED
    BY <1>2, <2>1, Quotient
<1>3. CASE r # 0
  <2>1. r - 1 \in 0..(page - 1) /\ q + 1 \in Nat
    BY <1>3
  <2>2. q * page + r + page - 1 = (q + 1) * page + (r - 1)
    BY <1>1
  <2>3. (q * page + r + page - 1) \div page = q + 1
    BY <2>1, <2>2, Quotient
  <2>4. QED
    BY <1>1, <1>3, <2>3
<1>4. QED
  BY <1>2, <1>3

\* Less than a page is its own rest.
LEMMA SmallRest ==
    ASSUME NEW page \in Nat \ {0}, NEW s \in Nat, s < page
    PROVE  s % page = s
<1>1. s \div page \in Nat /\ s % page \in 0..(page - 1)
      /\ s = page * (s \div page) + (s % page)
  OBVIOUS
<1>2. CASE s \div page = 0
  BY <1>1, <1>2
<1>3. CASE s \div page # 0
  <2>1. PICK q \in Nat : s \div page = q + 1
    <3>1. (s \div page) - 1 \in Nat /\ s \div page = ((s \div page) - 1) + 1
      BY <1>1, <1>3
    <3>2. QED
      BY <3>1
  <2>2. page * (q + 1) = page * q + page /\ page * q \in Nat
    OBVIOUS
  <2>3. QED
    BY <1>1, <2>1, <2>2
<1>4. QED
  BY <1>2, <1>3

LEMMA WholePages ==
    ASSUME NEW page \in Nat \ {0}, NEW s \in Nat
    PROVE  /\ (s + page - 1) \div page \in Nat
           /\ s % page = 0 => s = ((s + page - 1) \div page) * page
           /\ s % page # 0 =>
                 s + (page - (s % page)) = ((s + page - 1) \div page) * page
<1>1. PICK q \in Nat, r \in 0..(page - 1) : s = q * page + r /\ s % page = r
  <2>1. s \div page \in Nat /\ s % page \in 0..(page - 1)
        /\ s = page * (s \div page) + (s % page)
    OBVIOUS
  <2>2. page * (s \div page) = (s \div page) * page
    BY <2>1
  <2>3. QED
    BY <2>1, <2>2
<1>2. CASE r = 0
  <2>1. (s + page - 1) \div page = q
    BY <1>1, <1>2, PaddedFrom
  <2>2. QED
    BY <1>1, <1>2, <2>1
<1>3. CASE r # 0
  <2>1. /\ (s + page - 1) \div page = q + 1
        /\ s + (page - r) = (q + 1) * page
    BY <1>1, <1>3, PaddedFrom
  <2>2. QED
    BY <1>1, <1>3, <2>1
<1>4. QED
  BY <1>2, <1>3

LEMMA Distributes ==
    ASSUME NEW a \in Nat, NEW b \in Nat, NEW c \in Nat
    PROVE  (a + b) * c = a * c + b * c /\ (a + b) * c \in Nat
OBVIOUS

-------------------------------------------------------------------------------
Names4 == {"kernel", "ramdisk", "second", "dt"}
Writing == {"write kernel", "write ramdisk", "write second", "write dt", "done"}
Section == [what : Names4 \cup {"header"}, at : Nat, size : Nat]

\* Past the check of the options.
ArgsInv ==
    /\ step \in Names4 \cup Writing \cup {"args", "header", "failed"}
    /\ step \notin {"args", "failed"} =>
          /\ args \in Args
          /\ args["kernel"] # None /\ args["ramdisk"] # None
          /\ args.page \in {2048, 4096, 8192, 16384}

\* The header tells the sizes of the files that have been looked at.
Size(f) == IF Given(f) THEN args[f] ELSE 0

HdrInv ==
    /\ step \notin {"args", "failed", "kernel"} => hdr["kernel"] = Size("kernel")
    /\ step \notin {"args", "failed", "kernel", "ramdisk"} => hdr["ramdisk"] = Size("ramdisk")
    /\ step \in {"dt", "header"} \cup Writing => hdr["second"] = Size("second")
    /\ step \in {"header"} \cup Writing => hdr["dt"] = Size("dt")
    /\ DOMAIN hdr = Names4

\* A section lies in full where the loader looks for it.
At(f) ==
    \E i \in DOMAIN image :
        /\ image[i].what = f /\ image[i].size = args[f]
        /\ image[i].at = PageOf(f) * args.page

SameRest == hdr["second"] % args.page = hdr["ramdisk"] % args.page

\* What has been written.
Layout ==
    /\ step \notin Writing => image \in {Old, None}
    /\ step \in Writing => image \in Seq(Section) /\ pos \in Nat
    /\ step = "write kernel" => pos = args.page
    /\ step \in Writing \ {"write kernel"} => At("kernel")
    /\ step = "write ramdisk" => pos = PageOf("ramdisk") * args.page
    /\ step \in Writing \ {"write kernel", "write ramdisk"} => At("ramdisk")
    /\ step = "write second" => pos = PageOf("second") * args.page
    /\ step \in {"write dt", "done"} => (Given("second") => At("second"))
    /\ step = "write dt" => ((Given("second") => SameRest) => pos = PageOf("dt") * args.page)
    /\ step = "done" => ((Given("second") => SameRest) => (Given("dt") => At("dt")))

BInv == ArgsInv /\ HdrInv /\ Layout

LEMMA TheFiles == Range(Files) = Names4
BY DEF Range, Files, Names4

\* Sizes are numbers, and so are the pages they take.
LEMMA Numbers ==
    ASSUME BInv, step \notin {"args", "failed"}
    PROVE  /\ args.page \in Nat \ {0} /\ args.page >= 2048
           /\ \A f \in Names4 : Size(f) \in Nat
           /\ \A f \in Names4 : args[f] # None => args[f] \in Nat /\ Size(f) = args[f]
<1>1. /\ args["kernel"] \in KernelSizes /\ args["ramdisk"] \in RamdiskSizes
      /\ args["second"] \in SecondSizes /\ args["dt"] \in DtSizes
      /\ args.page \in {2048, 4096, 8192, 16384}
  BY DEF BInv, ArgsInv, Args
<1>2. \A f \in Names4 : args[f] # None => args[f] \in Nat
  BY <1>1, SizesAssumption DEF Names4
<1>3. QED
  BY <1>1, <1>2 DEF Size, Given

LEMMA PagesType ==
    ASSUME BInv, step \notin {"args", "failed"}, NEW s \in Nat
    PROVE  /\ Pages(s) \in Nat
           /\ s + Padding(s) = Pages(s) * args.page /\ Padding(s) \in Nat
           /\ \A r \in Nat : s % args.page = r % args.page => Padding(r) = Padding(s)
<1>1. args.page \in Nat \ {0}
  BY Numbers
<1>2. s % args.page \in 0..(args.page - 1)
  BY <1>1
<1>3. Padding(s) \in Nat
  BY <1>1, <1>2 DEF Padding
<1>4. Pages(s) \in Nat
  BY <1>1, WholePages DEF Pages
<1>5. s + Padding(s) = Pages(s) * args.page
  <2>1. CASE s % args.page = 0
    <3>1. Padding(s) = 0 /\ s + 0 = s
      BY <2>1 DEF Padding
    <3>2. s = Pages(s) * args.page
      BY <1>1, <2>1, WholePages DEF Pages
    <3>3. QED
      BY <3>1, <3>2
  <2>2. CASE s % args.page # 0
    BY <1>1, <2>2, WholePages DEF Pages, Padding
  <2>3. QED
    BY <2>1, <2>2
<1>6. \A r \in Nat : s % args.page = r % args.page => Padding(r) = Padding(s)
  BY DEF Padding
<1>7. QED
  BY <1>3, <1>4, <1>5, <1>6

-------------------------------------------------------------------------------
(* Writing.                                                                    *)

\* What has been written stays where it is, and a section is where it begins.
LEMMA Appended ==
    ASSUME image \in Seq(Section), NEW r \in Section, image' = Append(image, r),
           UNCHANGED <<args, hdr>>
    PROVE  /\ image' \in Seq(Section)
           /\ \A f \in Names4 : At(f) => At(f)'
           /\ \A f \in Names4 :
                 r.what = f /\ r.size = args[f] /\ r.at = PageOf(f) * args.page => At(f)'
<1>1. /\ image' \in Seq(Section) /\ Len(image') = Len(image) + 1 /\ Len(image) \in Nat
      /\ \A i \in 1..Len(image) : image'[i] = image[i]
      /\ image'[Len(image) + 1] = r
  OBVIOUS
<1>2. DOMAIN image = 1..Len(image) /\ DOMAIN image' = 1..(Len(image) + 1)
  BY <1>1
<1>3. \A f \in Names4 : PageOf(f)' = PageOf(f)
  BY DEF PageOf, Pages
<1>4. ASSUME NEW f \in Names4, At(f)
      PROVE  At(f)'
  <2>1. PICK i \in DOMAIN image : /\ image[i].what = f /\ image[i].size = args[f]
                                  /\ image[i].at = PageOf(f) * args.page
    BY <1>4 DEF At
  <2>2. i \in DOMAIN image' /\ image'[i] = image[i]
    BY <1>1, <1>2, <2>1
  <2>3. QED
    BY <1>3, <2>1, <2>2 DEF At
<1>5. ASSUME NEW f \in Names4,
             r.what = f, r.size = args[f], r.at = PageOf(f) * args.page
      PROVE  At(f)'
  <2>1. Len(image) + 1 \in DOMAIN image'
    BY <1>1, <1>2
  <2>2. QED
    BY <1>1, <1>3, <1>5, <2>1 DEF At
<1>6. QED
  BY <1>1, <1>4, <1>5

\* The pages a file begins at, one file after the other.
LEMMA PagesOf ==
    ASSUME BInv, step \in Writing
    PROVE  /\ \A f \in Names4 : hdr[f] = Size(f) /\ hdr[f] \in Nat
           /\ \A f \in Names4 : PageOf(f) \in Nat
           /\ PageOf("kernel") * args.page = args.page
           /\ PageOf("ramdisk") * args.page
                = PageOf("kernel") * args.page + Pages(hdr["kernel"]) * args.page
           /\ PageOf("second") * args.page
                = PageOf("ramdisk") * args.page + Pages(hdr["ramdisk"]) * args.page
           /\ PageOf("dt") * args.page
                = PageOf("second") * args.page + Pages(hdr["second"]) * args.page
<1>1. step \notin {"args", "failed", "kernel", "ramdisk", "second", "dt"}
  BY DEF Writing
<1>2. \A f \in Names4 : hdr[f] = Size(f)
  BY <1>1 DEF BInv, HdrInv, Names4
<1>3. \A f \in Names4 : hdr[f] \in Nat
  BY <1>1, <1>2, Numbers
<1>4. \A f \in Names4 : Pages(hdr[f]) \in Nat
  BY <1>1, <1>3, PagesType
<1>5. /\ Pages(hdr["kernel"]) \in Nat /\ Pages(hdr["ramdisk"]) \in Nat
      /\ Pages(hdr["second"]) \in Nat
  BY <1>4 DEF Names4
<1>6. /\ PageOf("kernel") = 1
      /\ PageOf("ramdisk") = PageOf("kernel") + Pages(hdr["kernel"])
      /\ PageOf("second") = PageOf("ramdisk") + Pages(hdr["ramdisk"])
      /\ PageOf("dt") = PageOf("second") + Pages(hdr["second"])
  BY DEF PageOf
<1>7. /\ PageOf("kernel") \in Nat /\ PageOf("ramdisk") \in Nat
      /\ PageOf("second") \in Nat /\ PageOf("dt") \in Nat
  BY <1>5, <1>6
<1>8. args.page \in Nat /\ 1 * args.page = args.page
  BY <1>1, Numbers
<1>9. /\ PageOf("ramdisk") * args.page
           = PageOf("kernel") * args.page + Pages(hdr["kernel"]) * args.page
      /\ PageOf("second") * args.page
           = PageOf("ramdisk") * args.page + Pages(hdr["ramdisk"]) * args.page
      /\ PageOf("dt") * args.page
           = PageOf("second") * args.page + Pages(hdr["second"]) * args.page
  BY <1>5, <1>6, <1>7, <1>8, Distributes
<1>10. QED
  BY <1>2, <1>3, <1>6, <1>7, <1>8, <1>9 DEF Names4

\* Before anything is written, and when the program has failed.
LEMMA NothingWritten ==
    ASSUME HdrInv', ArgsInv', step' \notin Writing, image' \in {Old, None}
    PROVE  BInv'
BY DEF BInv, Layout, Writing

LEMMA FailsClean ==
    ASSUME BInv, step' = "failed", UNCHANGED hdr, image' \in {Old, None}
    PROVE  BInv'
<1>1. ArgsInv'
  BY DEF ArgsInv
<1>2. HdrInv'
  BY DEF BInv, HdrInv, Writing
<1>3. Layout'
  BY DEF Layout, Writing
<1>4. QED
  BY <1>1, <1>2, <1>3 DEF BInv

\* What holds of options and header while they stay.
LEMMA WritingKeeps ==
    ASSUME BInv, UNCHANGED <<args, hdr>>, step \in {"header"} \cup Writing, step' \in Writing
    PROVE  ArgsInv' /\ HdrInv'
<1>1. ArgsInv'
  <2>1. step \notin {"args", "failed"} /\ args' = args
    BY DEF Writing
  <2>2. QED
    BY <2>1 DEF BInv, ArgsInv
<1>2. HdrInv'
  BY DEF BInv, HdrInv, Size, Given, Writing
<1>3. QED
  BY <1>1, <1>2

LEMMA CheckStep == BInv /\ CheckArgs => BInv'
<1> SUFFICES ASSUME BInv, CheckArgs
             PROVE  BInv'
  OBVIOUS
<1>1. ArgsInv'
  <2>1. args' \in Args /\ step' \in {"kernel", "failed"}
    BY DEF CheckArgs
  <2>2. step' = "kernel" =>
          /\ args'["kernel"] # None /\ args'["ramdisk"] # None
          /\ args'.page \in {2048, 4096, 8192, 16384}
    BY <2>1 DEF CheckArgs, Args
  <2>3. QED
    BY <2>1, <2>2 DEF ArgsInv, Names4
<1>2. HdrInv' /\ step' \notin Writing
  BY DEF CheckArgs, BInv, HdrInv, Writing
<1>3. image' \in {Old, None}
  BY DEF CheckArgs, BInv, Layout, Writing
<1>4. QED
  BY <1>1, <1>2, <1>3, NothingWritten

LEMMA LoadStep == ASSUME BInv, NEW f \in Names4, Load(f) PROVE BInv'
<1>1. step = f /\ step \notin Writing /\ image \in {Old, None} /\ UNCHANGED <<args, image>>
  BY DEF Load, Refuse, BInv, Layout, Names4, Writing
<1>2. CASE step' = "failed" /\ UNCHANGED hdr
  BY <1>1, <1>2, FailsClean
<1>3. CASE hdr' = [hdr EXCEPT ![f] = Size(f)] /\ step' = NextFile(f)
  <2>1. step' \in {"ramdisk", "second", "dt", "header"}
    BY <1>3 DEF NextFile, Names4
  <2>2. ArgsInv'
    BY <1>1, <2>1 DEF BInv, ArgsInv, Names4
  <2>3. \A x : Size(x)' = Size(x)
    BY <1>1 DEF Size, Given
  <2>4. HdrInv'
    BY <1>1, <1>3, <2>3 DEF BInv, HdrInv, NextFile, Names4, Writing
  <2>5. QED
    BY <1>1, <2>1, <2>2, <2>4, NothingWritten DEF Writing
<1>4. QED
  BY <1>2, <1>3 DEF Load, Refuse, Size

\* The header takes the first page.
LEMMA HeaderStep == BInv /\ WriteHeader => BInv'
<1> SUFFICES ASSUME BInv, WriteHeader
             PROVE  BInv'
  OBVIOUS
<1>2. CASE step' = "failed"
  <2>1. UNCHANGED hdr /\ image' \in {Old, None}
    BY <1>2 DEF WriteHeader, Refuse, Fail, BInv, Layout, Writing
  <2>2. QED
    BY <1>2, <2>1, FailsClean
<1>3. CASE /\ UNCHANGED <<args, hdr>>
           /\ image' = << [what |-> "header", at |-> 0, size |-> HeaderSize] >>
           /\ pos' = HeaderSize + Padding(HeaderSize)
           /\ step' = "write kernel" /\ step = "header"
  <2>1. ArgsInv' /\ HdrInv'
    BY <1>3, WritingKeeps DEF Writing
  <2>2. args.page \in {2048, 4096, 8192, 16384}
    <3>1. step \notin {"args", "failed"}
      BY <1>3
    <3>2. QED
      BY <3>1 DEF BInv, ArgsInv
  <2>3. HeaderSize + Padding(HeaderSize) = args.page
    <3>1. HeaderSize \in 1..2048
      BY SizesAssumption
    <3>2. CASE HeaderSize = args.page /\ args.page = 2048
      <4>1. Padding(HeaderSize) = 0
        BY <3>2 DEF Padding
      <4>2. QED
        BY <3>2, <4>1
    <3>3. CASE HeaderSize < args.page
      <4>1. HeaderSize % args.page = HeaderSize /\ HeaderSize # 0
        <5>1. args.page \in Nat \ {0} /\ HeaderSize \in Nat /\ HeaderSize # 0
          BY <2>2, <3>1
        <5>2. HeaderSize % args.page = HeaderSize
          BY <3>3, <5>1, SmallRest, Zenon
        <5>3. QED
          BY <5>1, <5>2
      <4>2. Padding(HeaderSize) = args.page - HeaderSize
        BY <4>1 DEF Padding
      <4>3. args.page \in Nat /\ HeaderSize \in Nat
        BY <2>2, <3>1
      <4>4. QED
        BY <4>2, <4>3
    <3>4. HeaderSize <= 2048 /\ 2048 <= args.page /\ HeaderSize \in Nat /\ args.page \in Nat
      BY <2>2, <3>1
    <3>5. (HeaderSize = args.page /\ args.page = 2048) \/ HeaderSize < args.page
      BY <3>4
    <3>6. QED
      BY <3>2, <3>3, <3>5
  <2>4. [what |-> "header", at |-> 0, size |-> HeaderSize] \in Section
    BY SizesAssumption DEF Section
  <2>5. image' \in Seq(Section) /\ pos' = args'.page /\ pos' \in Nat
    <3> DEFINE h == [what |-> "header", at |-> 0, size |-> HeaderSize]
    <3>4. image' = <<h>> /\ h \in Section
      BY <1>3, <2>4
    <3> HIDE DEF h
    <3>1. image' \in Seq(Section)
      BY <3>4
    <3>2. pos' = args.page /\ args' = args
      BY <1>3, <2>3
    <3>3. QED
      BY <2>2, <3>1, <3>2
  <2>6. Layout'
    BY <1>3, <2>5 DEF Layout, Writing
  <2>7. QED
    BY <2>1, <2>6 DEF BInv
<1>4. QED
  BY <1>2, <1>3 DEF WriteHeader, Refuse, Fail

\* A section is written behind the others.
LEMMA PutEffect ==
    ASSUME BInv, NEW f \in Names4, NEW like \in Names4, NEW next,
           Put(f, hdr[f], hdr[like], next), args[f] # None,
           UNCHANGED <<args, hdr>>, step \in Writing
    PROVE  \/ step' = "failed" /\ BInv'
           \/ /\ step' = next
              /\ image' \in Seq(Section) /\ pos' \in Nat
              /\ pos' = pos + hdr[f] + Padding(hdr[like])
              /\ \A x \in Names4 : At(x) => At(x)'
              /\ pos = PageOf(f) * args.page => At(f)'
<1>1. CASE Fail
  BY <1>1, FailsClean DEF Fail
<1>2. CASE /\ image' = Append(image, [what |-> f, at |-> pos, size |-> hdr[f]])
           /\ pos' = pos + hdr[f] + Padding(hdr[like])
           /\ step' = next
  <2> DEFINE r == [what |-> f, at |-> pos, size |-> hdr[f]]
  <2>1. image \in Seq(Section) /\ pos \in Nat
    BY DEF BInv, Layout
  <2>2. hdr[f] \in Nat /\ hdr[like] \in Nat /\ hdr[f] = Size(f)
    BY PagesOf
  <2>3. hdr[f] = args[f]
    BY <2>2 DEF Size, Given
  <2>4. r \in Section
    BY <2>1, <2>2 DEF Section
  <2>5. Padding(hdr[like]) \in Nat
    BY <2>2, PagesType DEF Writing
  <2>6. r.what = f /\ r.size = args[f] /\ r.at = pos /\ image' = Append(image, r)
    BY <1>2, <2>3
  <2> HIDE DEF r
  <2>7. /\ image' \in Seq(Section)
        /\ \A x \in Names4 : At(x) => At(x)'
        /\ pos = PageOf(f) * args.page => At(f)'
    BY <2>1, <2>4, <2>6, Appended
  <2>8. pos' \in Nat
    BY <1>2, <2>1, <2>2, <2>5
  <2>9. QED
    BY <1>2, <2>7, <2>8
<1>3. QED
  BY <1>1, <1>2 DEF Put

LEMMA KernelStep == BInv /\ WriteKernel => BInv'
<1> SUFFICES ASSUME BInv, WriteKernel
             PROVE  BInv'
  OBVIOUS
<1>1. /\ step = "write kernel" /\ UNCHANGED <<args, hdr>>
      /\ Put("kernel", hdr["kernel"], hdr["kernel"], "write ramdisk")
  BY DEF WriteKernel
<1>2. step \in Writing /\ step \notin {"args", "failed"} /\ "kernel" \in Names4
  BY <1>1 DEF Writing, Names4
<1>3. args["kernel"] # None /\ pos = args.page /\ pos \in Nat
  <2>1. args["kernel"] # None
    BY <1>2 DEF BInv, ArgsInv
  <2>2. pos = args.page /\ pos \in Nat
    BY <1>1, <1>2 DEF BInv, Layout
  <2>3. QED
    BY <2>1, <2>2
<1>4. /\ PageOf("kernel") * args.page = args.page
      /\ PageOf("ramdisk") * args.page = args.page + Pages(hdr["kernel"]) * args.page
      /\ hdr["kernel"] \in Nat
  BY <1>2, PagesOf
<1>5. /\ hdr["kernel"] + Padding(hdr["kernel"]) = Pages(hdr["kernel"]) * args.page
      /\ Padding(hdr["kernel"]) \in Nat
  BY <1>2, <1>4, PagesType
<1>6. CASE /\ step' = "write ramdisk" /\ image' \in Seq(Section) /\ pos' \in Nat
           /\ pos' = pos + hdr["kernel"] + Padding(hdr["kernel"])
           /\ At("kernel")'
  <2>1. pos' = PageOf("ramdisk") * args.page
    <3> DEFINE h == hdr["kernel"]
               pad == Padding(h)
               m == Pages(h) * args.page
    <3>1. h \in Nat /\ pad \in Nat /\ pos \in Nat /\ h + pad = m /\ pos' = (pos + h) + pad
      BY <1>3, <1>4, <1>5, <1>6
    <3> HIDE DEF h, pad, m
    <3>2. pos' = pos + m
      BY <3>1, Behind
    <3>3. pos' = pos + Pages(hdr["kernel"]) * args.page
      BY <3>2 DEF m, h
    <3>4. QED
      BY <1>3, <1>4, <3>3
  <2>2. (PageOf("ramdisk") * args.page)' = PageOf("ramdisk") * args.page
    BY <1>1 DEF PageOf, Pages
  <2>3. Layout'
    BY <1>6, <2>1, <2>2 DEF Layout, Writing
  <2>4. ArgsInv' /\ HdrInv'
    BY <1>1, <1>2, <1>6, WritingKeeps DEF Writing
  <2>5. QED
    BY <2>3, <2>4 DEF BInv
<1>7. QED
  BY <1>1, <1>2, <1>3, <1>4, <1>6, PutEffect

LEMMA RamdiskStep == BInv /\ WriteRamdisk => BInv'
<1> SUFFICES ASSUME BInv, WriteRamdisk
             PROVE  BInv'
  OBVIOUS
<1>1. /\ step = "write ramdisk" /\ UNCHANGED <<args, hdr>>
      /\ Put("ramdisk", hdr["ramdisk"], hdr["ramdisk"], "write second")
  BY DEF WriteRamdisk
<1>2. step \in Writing /\ step \notin {"args", "failed"} /\ {"kernel", "ramdisk"} \subseteq Names4
  BY <1>1 DEF Writing, Names4
<1>3. /\ args["ramdisk"] # None /\ pos = PageOf("ramdisk") * args.page /\ pos \in Nat
      /\ At("kernel")
  <2>1. args["ramdisk"] # None
    BY <1>2 DEF BInv, ArgsInv
  <2>2. pos = PageOf("ramdisk") * args.page /\ pos \in Nat /\ At("kernel")
    BY <1>1, <1>2 DEF BInv, Layout
  <2>3. QED
    BY <2>1, <2>2
<1>4. /\ PageOf("second") * args.page
           = PageOf("ramdisk") * args.page + Pages(hdr["ramdisk"]) * args.page
      /\ hdr["ramdisk"] \in Nat
  BY <1>2, PagesOf
<1>5. /\ hdr["ramdisk"] + Padding(hdr["ramdisk"]) = Pages(hdr["ramdisk"]) * args.page
      /\ Padding(hdr["ramdisk"]) \in Nat
  BY <1>2, <1>4, PagesType
<1>6. CASE /\ step' = "write second" /\ image' \in Seq(Section) /\ pos' \in Nat
           /\ pos' = pos + hdr["ramdisk"] + Padding(hdr["ramdisk"])
           /\ At("kernel")' /\ At("ramdisk")'
  <2>1. pos' = PageOf("second") * args.page
    <3> DEFINE h == hdr["ramdisk"]
               pad == Padding(h)
               m == Pages(h) * args.page
    <3>1. h \in Nat /\ pad \in Nat /\ pos \in Nat /\ h + pad = m /\ pos' = (pos + h) + pad
      BY <1>3, <1>4, <1>5, <1>6
    <3> HIDE DEF h, pad, m
    <3>2. pos' = pos + m
      BY <3>1, Behind
    <3>3. pos' = pos + Pages(hdr["ramdisk"]) * args.page
      BY <3>2 DEF m, h
    <3>4. QED
      BY <1>3, <1>4, <3>3
  <2>2. (PageOf("second") * args.page)' = PageOf("second") * args.page
    BY <1>1 DEF PageOf, Pages
  <2>3. Layout'
    BY <1>6, <2>1, <2>2 DEF Layout, Writing
  <2>4. ArgsInv' /\ HdrInv'
    BY <1>1, <1>2, <1>6, WritingKeeps DEF Writing
  <2>5. QED
    BY <2>3, <2>4 DEF BInv
<1>7. QED
  BY <1>1, <1>2, <1>3, <1>6, PutEffect

\* The second stage is padded as the ramdisk is: it fills its pages if both leave the
\* same remainder.
LEMMA SecondStep == BInv /\ WriteSecond => BInv'
<1> SUFFICES ASSUME BInv, WriteSecond
             PROVE  BInv'
  OBVIOUS
<1>1. /\ step = "write second" /\ UNCHANGED <<args, hdr>>
      /\ IF Given("second")
         THEN Put("second", hdr["second"], hdr["ramdisk"], "write dt")
         ELSE step' = "write dt" /\ UNCHANGED <<image, pos>>
  BY DEF WriteSecond
<1>2. /\ step \in Writing /\ step \notin {"args", "failed"}
      /\ {"kernel", "ramdisk", "second"} \subseteq Names4
  BY <1>1 DEF Writing, Names4
<1>3. /\ pos = PageOf("second") * args.page /\ pos \in Nat /\ image \in Seq(Section)
      /\ At("kernel") /\ At("ramdisk")
  BY <1>1, <1>2 DEF BInv, Layout
<1>4. /\ PageOf("dt") * args.page
           = PageOf("second") * args.page + Pages(hdr["second"]) * args.page
      /\ hdr["ramdisk"] \in Nat /\ hdr["second"] \in Nat /\ hdr["second"] = Size("second")
  BY <1>2, PagesOf
<1>5. /\ hdr["second"] + Padding(hdr["second"]) = Pages(hdr["second"]) * args.page
      /\ Padding(hdr["second"]) \in Nat
      /\ SameRest => Padding(hdr["ramdisk"]) = Padding(hdr["second"])
  BY <1>2, <1>4, PagesType DEF SameRest
<1>6. /\ (PageOf("dt") * args.page)' = PageOf("dt") * args.page /\ SameRest' = SameRest
      /\ Given("second")' = Given("second")
  BY <1>1 DEF PageOf, Pages, SameRest, Given
<1>7. ASSUME step' = "write dt", image' \in Seq(Section), pos' \in Nat,
             At("kernel")', At("ramdisk")', Given("second") => At("second")',
             (Given("second") => SameRest) => pos' = PageOf("dt") * args.page
      PROVE  BInv'
  <2>1. Layout'
    BY <1>6, <1>7 DEF Layout, Writing
  <2>2. ArgsInv' /\ HdrInv'
    BY <1>1, <1>2, <1>7, WritingKeeps DEF Writing
  <2>3. QED
    BY <2>1, <2>2 DEF BInv
<1>8. CASE Given("second")
  <2>1. CASE /\ step' = "write dt" /\ image' \in Seq(Section) /\ pos' \in Nat
             /\ pos' = pos + hdr["second"] + Padding(hdr["ramdisk"])
             /\ At("kernel")' /\ At("ramdisk")' /\ At("second")'
    <3>1. SameRest => pos' = PageOf("dt") * args.page
      <4> DEFINE h == hdr["second"]
                 pad == Padding(h)
                 m == Pages(h) * args.page
      <4>1. /\ h \in Nat /\ pad \in Nat /\ pos \in Nat /\ h + pad = m
            /\ SameRest => pos' = (pos + h) + pad
        BY <1>3, <1>4, <1>5, <2>1
      <4> HIDE DEF h, pad, m
      <4>2. SameRest => pos' = pos + m
        BY <4>1, Behind
      <4>3. SameRest => pos' = pos + Pages(hdr["second"]) * args.page
        BY <4>2 DEF m, h
      <4>4. QED
        BY <1>3, <1>4, <4>3
    <3>2. QED
      BY <1>7, <1>8, <2>1, <3>1
  <2>2. QED
    BY <1>1, <1>2, <1>3, <1>8, <2>1, PutEffect DEF Given
<1>9. CASE ~Given("second")
  <2>1. hdr["second"] = 0
    BY <1>4, <1>9 DEF Size
  <2>2. Padding(0) = 0 /\ Pages(0) * args.page = 0
    <3>1. args.page \in Nat \ {0}
      BY <1>2, Numbers
    <3>2. 0 % args.page = 0
      BY <3>1
    <3>3. 0 = Pages(0) * args.page
      BY <3>1, <3>2, WholePages DEF Pages
    <3>4. QED
      BY <3>2, <3>3 DEF Padding
  <2>3. pos = PageOf("dt") * args.page
    BY <1>3, <1>4, <2>1, <2>2
  <2>4. \A x : At(x)' = At(x)
    BY <1>1, <1>9 DEF At, PageOf, Pages
  <2>5. QED
    BY <1>1, <1>3, <1>7, <1>9, <2>3, <2>4
<1>10. QED
  BY <1>8, <1>9

LEMMA DtStep == BInv /\ WriteDt => BInv'
<1> SUFFICES ASSUME BInv, WriteDt
             PROVE  BInv'
  OBVIOUS
<1>1. /\ step = "write dt" /\ UNCHANGED <<args, hdr>>
      /\ IF Given("dt")
         THEN Put("dt", hdr["dt"], hdr["dt"], "done")
         ELSE step' = "done" /\ UNCHANGED <<image, pos>>
  BY DEF WriteDt
<1>2. step \in Writing /\ {"kernel", "ramdisk", "second", "dt"} \subseteq Names4
  BY <1>1 DEF Writing, Names4
<1>3. /\ pos \in Nat /\ image \in Seq(Section)
      /\ At("kernel") /\ At("ramdisk") /\ (Given("second") => At("second"))
      /\ (Given("second") => SameRest) => pos = PageOf("dt") * args.page
  BY <1>1, <1>2 DEF BInv, Layout
<1>4. SameRest' = SameRest /\ \A x : Given(x)' = Given(x)
  BY <1>1 DEF SameRest, Given
<1>5. ASSUME step' = "done", image' \in Seq(Section), pos' \in Nat,
             At("kernel")', At("ramdisk")', Given("second") => At("second")',
             (Given("second") => SameRest) /\ Given("dt") => At("dt")'
      PROVE  BInv'
  <2>1. Layout'
    BY <1>4, <1>5 DEF Layout, Writing
  <2>2. ArgsInv' /\ HdrInv'
    BY <1>1, <1>2, <1>5, WritingKeeps DEF Writing
  <2>3. QED
    BY <2>1, <2>2 DEF BInv
<1>6. CASE Given("dt")
  <2>1. CASE /\ step' = "done" /\ image' \in Seq(Section) /\ pos' \in Nat
             /\ \A x \in Names4 : At(x) => At(x)'
             /\ pos = PageOf("dt") * args.page => At("dt")'
    BY <1>2, <1>3, <1>5, <2>1
  <2>2. QED
    BY <1>1, <1>2, <1>6, <2>1, PutEffect DEF Given
<1>7. CASE ~Given("dt")
  <2>1. \A x : At(x)' = At(x)
    BY <1>1, <1>7 DEF At, PageOf, Pages
  <2>2. QED
    BY <1>1, <1>3, <1>5, <1>7, <2>1
<1>8. QED
  BY <1>6, <1>7

-------------------------------------------------------------------------------
LEMMA BInvInit == Init => BInv
<1> SUFFICES ASSUME Init
             PROVE  BInv
  OBVIOUS
<1>1. DOMAIN hdr = Names4
  BY TheFiles DEF Init, BootInit, NoHdr
<1>2. QED
  BY <1>1 DEF Init, BootInit, BInv, ArgsInv, HdrInv, Layout, Writing

LEMMA BInvStep == BInv /\ [Next]_vars => BInv'
<1> SUFFICES ASSUME BInv, [Next]_vars
             PROVE  BInv'
  OBVIOUS
<1>1. CASE BootNext
  <2>1. ASSUME NEW f \in Range(Files), Load(f)
        PROVE  BInv'
    BY <2>1, TheFiles, LoadStep
  <2>2. QED
    BY <1>1, <2>1, CheckStep, HeaderStep, KernelStep, RamdiskStep, SecondStep, DtStep
       DEF BootNext
<1>2. CASE UNCHANGED bootimg
  <2>1. UNCHANGED <<args, hdr, image, pos, step>>
    BY <1>2 DEF bootimg
  <2>2. ArgsInv' /\ HdrInv'
    BY <2>1 DEF BInv, ArgsInv, HdrInv, Size, Given
  <2>3. \A x : At(x)' = At(x) /\ PageOf(x)' = PageOf(x) /\ Given(x)' = Given(x)
    BY <2>1 DEF At, PageOf, Pages, Given
  <2>4. SameRest' = SameRest
    BY <2>1 DEF SameRest
  <2>5. Layout'
    BY <2>1, <2>3, <2>4 DEF BInv, Layout
  <2>6. QED
    BY <2>2, <2>5 DEF BInv
<1>3. QED
  BY <1>1, <1>2 DEF Next, vars

\* A run of mkbootimg that fails, at whichever call, leaves no part of an image.
THEOREM NothingHalfDone == Spec => []NoPartOfImage
<1>1. BInv => NoPartOfImage
  BY DEF BInv, Layout, Writing, NoPartOfImage
<1>2. QED
  BY <1>1, BInvInit, BInvStep, PTL DEF Spec

\* A loader finds every file in full where the header says, whatever the page size and
\* the sizes; but for a device tree behind a second stage of another remainder.
THEOREM FoundByHeader == Spec => []LoaderFinds
<1>1. BInv => LoaderFinds
  <2> SUFFICES ASSUME BInv, step = "done", NEW f \in Names4, Given(f),
                      f = "dt" /\ Given("second") => SameRest
               PROVE  At(f)
    BY TheFiles DEF LoaderFinds, At, SameRest
  <2>1. step \in Writing \ {"write kernel", "write ramdisk"}
    BY DEF Writing
  <2>2. QED
    BY <2>1 DEF BInv, Layout, Names4
<1>2. QED
  BY <1>1, BInvInit, BInvStep, PTL DEF Spec

-------------------------------------------------------------------------------
(* mkbootfs.                                                                    *)

Paths == Seq(Names) \ {<< >>}

\* A sequence, of whatever records.
IsSeq(s) == Len(s) \in Nat /\ DOMAIN s = 1..Len(s) /\ s = [i \in 1..Len(s) |-> s[i]]

Reading == IF packing = "read" THEN 1 ELSE 0

\* What is in the archive, what is being read and what is to come.
Line ==
    [i \in 1..(Len(archive) + Reading + Len(todo)) |->
        IF i <= Len(archive) THEN archive[i].path
        ELSE IF i = Len(archive) + Reading THEN file.path
        ELSE todo[i - Len(archive) - Reading]]

\* Nothing on the path is ignored.
IsVisible(p) == \A n \in Range(p) : n \notin Skipped

\* Entries of one directory.
Siblings(p, q) == Len(p) = Len(q) /\ Front(p) = Front(q)

\* Sorted, nothing twice, nothing that is ignored.
Orderly(line) ==
    /\ line \in Seq(Paths)
    /\ \A i \in 1..Len(line) : IsVisible(line[i])
    /\ \A i, j \in 1..Len(line) : line[i] = line[j] => i = j
    /\ \A i, j \in 1..Len(line) :
          i < j /\ Siblings(line[i], line[j]) => Last(line[i]) < Last(line[j])

\* What is in a directory comes when the directory has been archived.
DirsFirst(line) ==
    \A j \in 1..Len(line) : Len(line[j]) > 1 =>
        \E i \in 1..Len(archive) : /\ i < j /\ archive[i].path = Front(line[j])
                                   /\ archive[i].kind = "dir"

LineInv ==
    packing \in {"todo", "read"} =>
        /\ Orderly(Line) /\ DirsFirst(Line)
        /\ packing = "read" => file.path \in Paths /\ file.size \in Nat
        /\ \A i \in 1..Len(archive) : archive[i].kind # "trailer"

\* Archived, being read, or to come with a directory it is in.
Covered(p) ==
    \/ \E i \in 1..Len(archive) : archive[i].path = p
    \/ packing = "read" /\ file.path = p
    \/ \E k \in 1..Len(p) : \E i \in 1..Len(todo) : todo[i] = SubSeq(p, 1, k)

CoverInv ==
    packing \in {"todo", "read", "packed"} =>
        \A p \in DOMAIN fs : IsVisible(p) => Covered(p)

\* Where the last record ends: total_size, until the trailer is written.
EndOf(records) ==
    IF Len(records) = 0 THEN 0
    ELSE records[Len(records)].data + records[Len(records)].size

Offsets ==
    /\ total \in Nat
    /\ \A i \in 1..Len(archive) :
         /\ archive[i].at \in Nat /\ archive[i].data \in Nat /\ archive[i].size \in Nat
         /\ archive[i].at % 4 = 0 /\ archive[i].data % 4 = 0
         /\ archive[i].ino = FirstIno + i - 1
         /\ archive[i].at =
                IF i = 1 THEN 0 ELSE Padded(archive[i - 1].data + archive[i - 1].size)
    /\ packing # "packed" => total = EndOf(archive)
    /\ packing = "packed" => total % 256 = 0

Types ==
    /\ packing \in {"todo", "read", "packed", "died", "crashed"}
    /\ changes \in 0..MaxChanges
    /\ IsTree(fs)
    /\ todo \in Seq(Paths)
    /\ IsSeq(archive)
    /\ packing = "packed" => todo = << >>

RInv == Types /\ Offsets /\ LineInv /\ CoverInv /\ ArchiveIsTree /\ ArchiveSorted

\* Where the places of the line are.
LineSays ==
    /\ Len(archive) \in Nat /\ Len(todo) \in Nat /\ Reading \in {0, 1}
    /\ Len(Line) = Len(archive) + Reading + Len(todo)
    /\ DOMAIN Line = 1..Len(Line)
    /\ \A i \in 1..Len(archive) : i \in 1..Len(Line) /\ Line[i] = archive[i].path
    /\ packing = "read" => /\ Len(archive) + 1 \in 1..Len(Line)
                           /\ Line[Len(archive) + 1] = file.path
    /\ \A i \in 1..Len(todo) : /\ Len(archive) + Reading + i \in 1..Len(Line)
                               /\ Line[Len(archive) + Reading + i] = todo[i]

\* A set of numbers in order: each once, and none left out.
LEMMA Ordered ==
    ASSUME NEW S \in SUBSET Nat, IsFiniteSet(S)
    PROVE  /\ Cardinality(S) \in Nat
           /\ Ascending(S) \in [1..Cardinality(S) -> S]
           /\ \A i, j \in 1..Cardinality(S) : i < j => Ascending(S)[i] < Ascending(S)[j]
           /\ \A n \in S : \E i \in 1..Cardinality(S) : Ascending(S)[i] = n
<1> DEFINE N == Cardinality(S)
           Upto(n) == { m \in S : m <= n }
           rank == [n \in S |-> Cardinality(Upto(n))]
<1>1. N \in Nat
  BY FS_CardinalityType
<1>2. \A n \in S : IsFiniteSet(Upto(n)) /\ Cardinality(Upto(n)) \in 1..N
  <2> SUFFICES ASSUME NEW n \in S
               PROVE  IsFiniteSet(Upto(n)) /\ Cardinality(Upto(n)) \in 1..N
    OBVIOUS
  <2>1. Upto(n) \in SUBSET S /\ n \in Upto(n)
    OBVIOUS
  <2>2. IsFiniteSet(Upto(n)) /\ Cardinality(Upto(n)) <= N
    <3> HIDE DEF Upto
    <3> QED BY <2>1, FS_Subset
  <2>3. Cardinality(Upto(n)) \in Nat /\ Cardinality(Upto(n)) # 0
    <3> HIDE DEF Upto
    <3> QED BY <2>1, <2>2, FS_EmptySet, FS_CardinalityType
  <2> HIDE DEF Upto
  <2>4. QED
    BY <1>1, <2>2, <2>3
<1>3. \A n, m \in S : n < m => Cardinality(Upto(n)) < Cardinality(Upto(m))
  <2> SUFFICES ASSUME NEW n \in S, NEW m \in S, n < m
               PROVE  Cardinality(Upto(n)) < Cardinality(Upto(m))
    OBVIOUS
  <2>1. Upto(n) \in SUBSET Upto(m) /\ m \in Upto(m) /\ m \notin Upto(n)
    <3>1. \A x \in S : x \in Nat
      OBVIOUS
    <3>2. \A x \in S : x <= n => x <= m
      BY <3>1
    <3>3. m <= m /\ ~(m <= n)
      BY <3>1
    <3>4. QED
      BY <3>2, <3>3
  <2>2. /\ IsFiniteSet(Upto(m)) /\ Cardinality(Upto(n)) \in Nat /\ Cardinality(Upto(m)) \in Nat
    <3> HIDE DEF Upto
    <3> QED BY <1>2
  <2> HIDE DEF Upto
  <2>3. Cardinality(Upto(n)) <= Cardinality(Upto(m)) /\ Cardinality(Upto(m)) # Cardinality(Upto(n))
    BY <2>1, <2>2, FS_Subset
  <2>4. QED
    BY <2>2, <2>3
<1>4. rank \in Injection(S, 1..N)
  <2>1. rank \in [S -> 1..N]
    <3> HIDE DEF Upto, N
    <3> QED BY <1>2
  <2>2. \A n, m \in S : rank[n] = rank[m] => n = m
    <3> SUFFICES ASSUME NEW n \in S, NEW m \in S, rank[n] = rank[m]
                 PROVE  n = m
      OBVIOUS
    <3>1. n \in Nat /\ m \in Nat
      OBVIOUS
    <3>2. Cardinality(Upto(n)) \in Nat /\ Cardinality(Upto(n)) = Cardinality(Upto(m))
      <4> HIDE DEF Upto, N
      <4> QED BY <1>2
    <3> HIDE DEF Upto, N
    <3>3. QED
      BY <1>3, <3>1, <3>2
  <2> HIDE DEF rank, N
  <2>3. QED
    BY <2>1, <2>2 DEF Injection, IsInjective
<1>5. rank \in Surjection(S, 1..N)
  <2> HIDE DEF rank
  <2>1. IsFiniteSet(1..N) /\ Cardinality(1..N) = N
    BY <1>1, FS_Interval
  <2>2. QED
    BY <1>4, <2>1, FS_Injection
<1>6. \A i \in 1..N : \E n \in S : Cardinality(Upto(n)) = i
  BY <1>5 DEF Surjection
<1>7. \A i \in 1..N : Ascending(S)[i] \in S /\ Cardinality(Upto(Ascending(S)[i])) = i
  <2> SUFFICES ASSUME NEW i \in 1..N
               PROVE  Ascending(S)[i] \in S /\ Cardinality(Upto(Ascending(S)[i])) = i
    OBVIOUS
  <2>1. Ascending(S)[i] = CHOOSE n \in S : Cardinality(Upto(n)) = i
    BY DEF Ascending
  <2> HIDE DEF Upto
  <2>2. QED
    BY <1>6, <2>1
<1>8. Ascending(S) \in [1..N -> S]
  <2> HIDE DEF Upto
  <2>1. Ascending(S) = [i \in 1..N |-> Ascending(S)[i]]
    BY DEF Ascending
  <2>2. QED
    BY <1>7, <2>1
<1> HIDE DEF Upto
<1>9. \A i, j \in 1..N : i < j => Ascending(S)[i] < Ascending(S)[j]
  <2> SUFFICES ASSUME NEW i \in 1..N, NEW j \in 1..N, i < j
               PROVE  Ascending(S)[i] < Ascending(S)[j]
    OBVIOUS
  <2> DEFINE a == Ascending(S)[i]
             b == Ascending(S)[j]
  <2>1. a \in S /\ b \in S /\ Cardinality(Upto(a)) = i /\ Cardinality(Upto(b)) = j
    BY <1>7
  <2> HIDE DEF a, b
  <2>2. a # b /\ ~(b < a)
    BY <1>1, <1>3, <2>1
  <2>3. a \in Nat /\ b \in Nat
    BY <2>1
  <2>4. QED
    BY <2>2, <2>3 DEF a, b
<1>10. \A n \in S : \E i \in 1..N : Ascending(S)[i] = n
  <2> SUFFICES ASSUME NEW n \in S
               PROVE  \E i \in 1..N : Ascending(S)[i] = n
    OBVIOUS
  <2>1. PICK i \in 1..N : i = Cardinality(Upto(n))
    BY <1>2
  <2> DEFINE a == Ascending(S)[i]
  <2>2. a \in S /\ Cardinality(Upto(a)) = i
    BY <1>7
  <2> HIDE DEF a
  <2>3. ~(a < n) /\ ~(n < a) /\ a \in Nat /\ n \in Nat
    BY <1>3, <2>1, <2>2
  <2>4. QED
    BY <2>3 DEF a
<1>11. QED
  BY <1>1, <1>8, <1>9, <1>10

\* A path and the name it ends with.
LEMMA Longer ==
    ASSUME NEW d \in Seq(Names), NEW n \in Names
    PROVE  /\ Append(d, n) \in Paths /\ Len(Append(d, n)) = Len(d) + 1
           /\ Front(Append(d, n)) = d /\ Last(Append(d, n)) = n
           /\ IsVisible(d) /\ n \notin Skipped => IsVisible(Append(d, n))
<1>1. /\ Append(d, n) \in Seq(Names) /\ Len(Append(d, n)) = Len(d) + 1 /\ Len(d) \in Nat
      /\ \A i \in 1..Len(d) : Append(d, n)[i] = d[i]
      /\ Append(d, n)[Len(d) + 1] = n
  OBVIOUS
<1>2. Append(d, n) # << >>
  BY <1>1
<1>3. Front(Append(d, n)) = d
  <2>1. Front(Append(d, n)) = SubSeq(Append(d, n), 1, Len(d))
    BY <1>1 DEF Front
  <2>2. QED
    BY <1>1, <2>1
<1>4. Last(Append(d, n)) = n
  BY <1>1 DEF Last
<1>5. ASSUME IsVisible(d), n \notin Skipped
      PROVE  IsVisible(Append(d, n))
  <2>1. \A i \in 1..Len(d) : d[i] \notin Skipped
    BY <1>5 DEF IsVisible, Range
  <2>2. \A i \in 1..(Len(d) + 1) : Append(d, n)[i] \notin Skipped
    BY <1>1, <1>5, <2>1
  <2>3. DOMAIN Append(d, n) = 1..(Len(d) + 1)
    BY <1>1
  <2>4. QED
    BY <2>2, <2>3 DEF IsVisible, Range
<1>6. QED
  BY <1>1, <1>2, <1>3, <1>4, <1>5 DEF Paths

\* The entries of a directory: in order, all that are not ignored, nothing else.
LEMMA Kids ==
    ASSUME NEW dir \in Seq(Names), IsVisible(dir)
    PROVE  /\ Children(dir) \in Seq(Paths)
           /\ \A i \in 1..Len(Children(dir)) :
                 /\ Children(dir)[i] \in DOMAIN fs /\ IsVisible(Children(dir)[i])
                 /\ Len(Children(dir)[i]) = Len(dir) + 1
                 /\ Front(Children(dir)[i]) = dir
           /\ \A i, j \in 1..Len(Children(dir)) :
                 i < j => Last(Children(dir)[i]) < Last(Children(dir)[j])
           /\ \A n \in Names : Append(dir, n) \in DOMAIN fs /\ n \notin Skipped =>
                 \E i \in 1..Len(Children(dir)) : Children(dir)[i] = Append(dir, n)
<1> DEFINE S == { n \in Names : Append(dir, n) \in DOMAIN fs /\ Visible(n) }
           N == Cardinality(S)
           a == Ascending(S)
<1>1. S \in SUBSET Nat /\ S \in SUBSET Names
  BY NamesAssumption
<1>2. IsFiniteSet(S)
  <2> HIDE DEF S
  <2> QED
    BY <1>1, NamesAssumption, FS_Subset
<1>3. /\ N \in Nat /\ a \in [1..N -> S]
      /\ \A i, j \in 1..N : i < j => a[i] < a[j]
      /\ \A n \in S : \E i \in 1..N : a[i] = n
  <2> HIDE DEF S
  <2> QED
    BY <1>1, <1>2, Ordered
<1>4. \A i \in 1..N : a[i] \in Names /\ Append(dir, a[i]) \in DOMAIN fs /\ a[i] \notin Skipped
  <2>1. \A n \in S : n \in Names /\ Append(dir, n) \in DOMAIN fs /\ n \notin Skipped
    BY DEF Visible
  <2> HIDE DEF S, a, N
  <2>2. QED
    BY <1>3, <2>1
<1>5. Children(dir) = [i \in 1..N |-> Append(dir, a[i])]
  <2>1. Children(dir) = [i \in DOMAIN a |-> Append(dir, a[i])]
    BY DEF Children
  <2> HIDE DEF S, a, N
  <2>2. QED
    BY <1>3, <2>1
<1>6. \A n \in Names : Append(dir, n) \in DOMAIN fs /\ n \notin Skipped => n \in S
  BY DEF Visible
<1> HIDE DEF S, a, N
<1>7. \A i \in 1..N :
         /\ Append(dir, a[i]) \in Paths /\ Len(Append(dir, a[i])) = Len(dir) + 1
         /\ Front(Append(dir, a[i])) = dir /\ Last(Append(dir, a[i])) = a[i]
         /\ IsVisible(Append(dir, a[i]))
  BY <1>4, Longer
<1>8. /\ Children(dir) \in [1..N -> Paths]
      /\ \A i \in 1..N : Children(dir)[i] = Append(dir, a[i])
  BY <1>5, <1>7
<1>9. Children(dir) \in Seq(Paths) /\ Len(Children(dir)) = N
  BY <1>3, <1>8
<1>10. \A i \in 1..N : /\ Children(dir)[i] \in DOMAIN fs /\ IsVisible(Children(dir)[i])
                         /\ Len(Children(dir)[i]) = Len(dir) + 1
                         /\ Front(Children(dir)[i]) = dir
                         /\ Last(Children(dir)[i]) = a[i]
  BY <1>4, <1>7, <1>8
<1>11. \A i, j \in 1..N : i < j => Last(Children(dir)[i]) < Last(Children(dir)[j])
  BY <1>3, <1>10
<1>12. \A n \in Names : Append(dir, n) \in DOMAIN fs /\ n \notin Skipped =>
          \E i \in 1..N : Children(dir)[i] = Append(dir, n)
  BY <1>3, <1>6, <1>8
<1>13. QED
  BY <1>9, <1>10, <1>11, <1>12

-------------------------------------------------------------------------------
\* The entries of a directory take their place behind it.
LEMMA Inserted ==
    ASSUME NEW line, Orderly(line), NEW m \in 0..Len(line),
           NEW kids \in Seq(Paths), NEW dir \in Seq(Names),
           NEW new, new = [i \in 1..(Len(line) + Len(kids)) |->
                              IF i <= m THEN line[i]
                              ELSE IF i <= m + Len(kids) THEN kids[i - m]
                              ELSE line[i - Len(kids)]],
           \A i \in 1..Len(kids) : /\ IsVisible(kids[i]) /\ Len(kids[i]) = Len(dir) + 1
                                   /\ Front(kids[i]) = dir,
           \A i, j \in 1..Len(kids) : i < j => Last(kids[i]) < Last(kids[j]),
           \A i \in 1..Len(line) : Len(line[i]) = Len(dir) + 1 => Front(line[i]) # dir
    PROVE  Orderly(new) /\ Len(new) = Len(line) + Len(kids)
<1> DEFINE N == Len(line)
           c == Len(kids)
<1>1. line \in Seq(Paths) /\ N \in Nat /\ c \in Nat /\ m \in 0..N /\ Len(dir) \in Nat
  BY DEF Orderly
<1>2. new \in Seq(Paths) /\ Len(new) = N + c
  <2>1. \A i \in 1..N : line[i] \in Paths
    BY <1>1
  <2>2. \A i \in 1..c : kids[i] \in Paths
    BY <1>1
  <2> HIDE DEF N, c
  <2>3. new = [i \in 1..(N + c) |->
                 IF i <= m THEN line[i] ELSE IF i <= m + c THEN kids[i - m] ELSE line[i - c]]
    BY DEF N, c
  <2>4. \A i \in 1..(N + c) : new[i] \in Paths
    <3> TAKE i \in 1..(N + c)
    <3>1. new[i] = IF i <= m THEN line[i] ELSE IF i <= m + c THEN kids[i - m] ELSE line[i - c]
      BY <2>3
    <3>2. CASE i <= m
      BY <1>1, <2>1, <3>1, <3>2
    <3>3. CASE ~(i <= m) /\ i <= m + c
      BY <1>1, <2>2, <3>1, <3>3
    <3>4. CASE ~(i <= m) /\ ~(i <= m + c)
      BY <1>1, <2>1, <3>1, <3>4
    <3>5. QED
      BY <3>2, <3>3, <3>4
  <2> DEFINE K == N + c
  <2>5. K \in Nat
    BY <1>1
  <2>6. new = [i \in 1..K |-> new[i]]
    BY <2>3
  <2>7. \A i \in 1..K : new[i] \in Paths
    BY <2>4
  <2> HIDE DEF K
  <2>8. new \in [1..K -> Paths]
    BY <2>6, <2>7
  <2>9. new \in Seq(Paths) /\ Len(new) = K
    BY <2>5, <2>8
  <2>10. QED
    BY <2>9 DEF K
<1>3. \A i \in 1..(N + c) :
         \/ i <= m /\ i \in 1..N /\ new[i] = line[i]
         \/ i > m /\ i <= m + c /\ i - m \in 1..c /\ new[i] = kids[i - m]
         \/ i > m + c /\ i - c \in 1..N /\ i - c > m /\ new[i] = line[i - c]
  BY <1>1
<1> HIDE DEF N, c
<1> DEFINE BothOld(i, j) == \E k, l \in 1..N : k < l /\ new[i] = line[k] /\ new[j] = line[l]
           BothKids(i, j) == \E k, l \in 1..c : k < l /\ new[i] = kids[k] /\ new[j] = kids[l]
           Mixed(i, j) ==
              \E k \in 1..N, l \in 1..c :
                 (new[i] = line[k] /\ new[j] = kids[l]) \/ (new[j] = line[k] /\ new[i] = kids[l])
<1>3a. \A i, j \in 1..(N + c) : i < j => BothOld(i, j) \/ BothKids(i, j) \/ Mixed(i, j)
  <2> SUFFICES ASSUME NEW i \in 1..(N + c), NEW j \in 1..(N + c), i < j
               PROVE  BothOld(i, j) \/ BothKids(i, j) \/ Mixed(i, j)
    OBVIOUS
  <2>1. PICK k \in Int :
          \/ k \in 1..N /\ new[i] = line[k] /\ ((k <= m /\ k = i) \/ (k > m /\ k = i - c))
          \/ k \in 1..c /\ new[i] = kids[k] /\ k = i - m /\ ~(i <= m) /\ i <= m + c
    <3>1. CASE i <= m /\ i \in 1..N /\ new[i] = line[i]
      BY <3>1
    <3>2. CASE i > m /\ i <= m + c /\ i - m \in 1..c /\ new[i] = kids[i - m]
      <4>1. i - m \in Int /\ ~(i <= m)
        BY <1>1, <3>2
      <4>2. QED
        BY <3>2, <4>1, Zenon
    <3>3. CASE i > m + c /\ i - c \in 1..N /\ i - c > m /\ new[i] = line[i - c]
      <4>1. i - c \in Int
        BY <1>1, <3>3
      <4>2. QED
        BY <3>3, <4>1, Zenon
    <3>4. QED
      BY <1>3, <3>1, <3>2, <3>3
  <2>2. PICK l \in Int :
          \/ l \in 1..N /\ new[j] = line[l] /\ ((l <= m /\ l = j) \/ (l > m /\ l = j - c))
          \/ l \in 1..c /\ new[j] = kids[l] /\ l = j - m /\ ~(j <= m) /\ j <= m + c
    <3>1. CASE j <= m /\ j \in 1..N /\ new[j] = line[j]
      BY <3>1
    <3>2. CASE j > m /\ j <= m + c /\ j - m \in 1..c /\ new[j] = kids[j - m]
      <4>1. j - m \in Int /\ ~(j <= m)
        BY <1>1, <3>2
      <4>2. QED
        BY <3>2, <4>1, Zenon
    <3>3. CASE j > m + c /\ j - c \in 1..N /\ j - c > m /\ new[j] = line[j - c]
      <4>1. j - c \in Int
        BY <1>1, <3>3
      <4>2. QED
        BY <3>3, <4>1, Zenon
    <3>4. QED
      BY <1>3, <3>1, <3>2, <3>3
  <2>3. CASE k \in 1..N /\ new[i] = line[k] /\ l \in 1..N /\ new[j] = line[l] /\ k < l
    BY <2>3
  <2>4. CASE k \in 1..c /\ new[i] = kids[k] /\ l \in 1..c /\ new[j] = kids[l] /\ k < l
    BY <2>4
  <2>5. CASE k \in 1..N /\ new[i] = line[k] /\ l \in 1..c /\ new[j] = kids[l]
    <3>1. \E y \in 1..c : new[i] = line[k] /\ new[j] = kids[y]
      BY <2>5
    <3>2. Mixed(i, j)
      BY <2>5, <3>1
    <3>3. QED
      BY <3>2
  <2>6. CASE k \in 1..c /\ new[i] = kids[k] /\ l \in 1..N /\ new[j] = line[l]
    BY <2>6, Zenon
  <2> HIDE DEF BothOld, BothKids, Mixed
  <2>7. QED
    BY <1>1, <2>1, <2>2, <2>3, <2>4, <2>5, <2>6
<1>4. \A k \in 1..N : IsVisible(line[k])
  BY DEF Orderly, N
<1>5. \A k \in 1..c : IsVisible(kids[k]) /\ Len(kids[k]) = Len(dir) + 1 /\ Front(kids[k]) = dir
  BY DEF c
<1>6. \A i \in 1..(N + c) : IsVisible(new[i])
  BY <1>3, <1>4, <1>5
<1>7. \A k \in 1..N, l \in 1..c : line[k] # kids[l] /\ ~Siblings(line[k], kids[l])
                                  /\ ~Siblings(kids[l], line[k])
  BY <1>5 DEF Siblings, N
<1>8. \A k, l \in 1..N : line[k] = line[l] => k = l
  BY DEF Orderly, N
<1>9. \A k, l \in 1..c : kids[k] = kids[l] => k = l
  <2> SUFFICES ASSUME NEW k \in 1..c, NEW l \in 1..c, kids[k] = kids[l], k # l
               PROVE  FALSE
    OBVIOUS
  <2>1. Last(kids[k]) \in Nat
    <3>1. kids[k] \in Paths
      BY DEF c
    <3>2. kids[k][Len(kids[k])] \in Names
      BY <3>1 DEF Paths
    <3>3. QED
      BY <3>2, NamesAssumption DEF Last
  <2>2. k < l \/ l < k
    BY <1>1
  <2>3. Last(kids[k]) < Last(kids[l]) \/ Last(kids[l]) < Last(kids[k])
    BY <2>2 DEF c
  <2>4. QED
    BY <2>1, <2>3
<1>10. \A i, j \in 1..(N + c) : i < j => new[i] # new[j]
  <2> SUFFICES ASSUME NEW i \in 1..(N + c), NEW j \in 1..(N + c), i < j
               PROVE  new[i] # new[j]
    OBVIOUS
  <2>1. CASE BothOld(i, j)
    <3>1. PICK k, l \in 1..N : k < l /\ new[i] = line[k] /\ new[j] = line[l]
      BY <2>1
    <3>2. k # l
      BY <3>1
    <3>3. QED
      BY <1>8, <3>1, <3>2
  <2>2. CASE BothKids(i, j)
    <3>1. PICK k, l \in 1..c : k < l /\ new[i] = kids[k] /\ new[j] = kids[l]
      BY <2>2
    <3>2. k # l
      BY <3>1
    <3>3. QED
      BY <1>9, <3>1, <3>2
  <2>3. CASE Mixed(i, j)
    BY <1>7, <2>3, Zenon
  <2> HIDE DEF BothOld, BothKids, Mixed
  <2>4. QED
    BY <1>3a, <2>1, <2>2, <2>3
<1>11. \A k, l \in 1..N : k < l /\ Siblings(line[k], line[l]) => Last(line[k]) < Last(line[l])
  BY DEF Orderly, N
<1>12. \A k, l \in 1..c : k < l => Last(kids[k]) < Last(kids[l])
  BY DEF c
<1>13. \A i, j \in 1..(N + c) :
          i < j /\ Siblings(new[i], new[j]) => Last(new[i]) < Last(new[j])
  <2> SUFFICES ASSUME NEW i \in 1..(N + c), NEW j \in 1..(N + c), i < j,
                      Siblings(new[i], new[j])
               PROVE  Last(new[i]) < Last(new[j])
    OBVIOUS
  <2>1. CASE BothOld(i, j)
    BY <1>11, <2>1
  <2>2. CASE BothKids(i, j)
    BY <1>12, <2>2
  <2>3. CASE Mixed(i, j)
    BY <1>7, <2>3, Zenon
  <2> HIDE DEF BothOld, BothKids, Mixed
  <2>4. QED
    BY <1>3a, <2>1, <2>2, <2>3
<1>14. \A i, j \in 1..(N + c) : new[i] = new[j] => i = j
  <2> TAKE i, j \in 1..(N + c)
  <2>1. i < j \/ j < i \/ i = j
    BY <1>1
  <2>2. QED
    BY <1>10, <2>1
<1>15. QED
  BY <1>2, <1>6, <1>13, <1>14 DEF Orderly, N, c

-------------------------------------------------------------------------------
LEMMA LineFacts ==
    ASSUME Types
    PROVE  LineSays
<1> DEFINE n == Len(archive)
           r == Reading
           t == Len(todo)
           K == n + r + t
<1>1. n \in Nat /\ t \in Nat /\ r \in {0, 1} /\ (packing = "read" <=> r = 1)
  BY DEF Types, IsSeq, Reading
<1>2. Line = [i \in 1..K |-> IF i <= n THEN archive[i].path
                             ELSE IF i = n + r THEN file.path ELSE todo[i - n - r]]
  BY DEF Line
<1> HIDE DEF n, r, t
<1>3. K \in Nat
  BY <1>1
<1>4. Len(Line) = K /\ DOMAIN Line = 1..K
  <2> HIDE DEF K
  <2> QED BY <1>2, <1>3
<1>5. \A i \in 1..n : i \in 1..K /\ Line[i] = archive[i].path
  BY <1>1, <1>2
<1>6. r = 1 => n + 1 \in 1..K /\ Line[n + 1] = file.path
  BY <1>1, <1>2
<1>7. \A i \in 1..t : n + r + i \in 1..K /\ Line[n + r + i] = todo[i]
  <2> TAKE i \in 1..t
  <2>1. n + r + i \in 1..K /\ ~(n + r + i <= n) /\ n + r + i # n + r /\ (n + r + i) - n - r = i
    BY <1>1
  <2>2. QED
    BY <1>2, <2>1
<1>8. QED
  BY <1>1, <1>4, <1>5, <1>6, <1>7 DEF LineSays, n, r, t

LEMMA SeqIs == ASSUME NEW T, NEW s \in Seq(T) PROVE IsSeq(s)
<1>1. Len(s) \in Nat /\ DOMAIN s = 1..Len(s)
  OBVIOUS
<1>2. s = [i \in 1..Len(s) |-> s[i]]
  OBVIOUS
<1>3. QED
  BY <1>1, <1>2 DEF IsSeq

\* A record more.
LEMMA Grown ==
    ASSUME IsSeq(archive), NEW r, archive' = Append(archive, r)
    PROVE  /\ IsSeq(archive') /\ Len(archive') = Len(archive) + 1
           /\ \A i \in 1..Len(archive) : archive'[i] = archive[i]
           /\ archive'[Len(archive) + 1] = r
<1> DEFINE T == { archive[i] : i \in 1..Len(archive) } \cup {r}
           n == Len(archive)
<1>1. n \in Nat /\ archive = [i \in 1..n |-> archive[i]] /\ \A i \in 1..n : archive[i] \in T
  BY DEF IsSeq
<1>2. r \in T
  OBVIOUS
<1> HIDE DEF T, n
<1>3. archive \in [1..n -> T]
  BY <1>1
<1>4. archive \in Seq(T) /\ Len(archive) = n
  BY <1>1, <1>3
<1>5. /\ archive' \in Seq(T) /\ Len(archive') = n + 1
      /\ \A i \in 1..n : archive'[i] = archive[i]
      /\ archive'[n + 1] = r
  BY <1>1, <1>2, <1>4
<1>6. IsSeq(archive')
  BY <1>5, SeqIs
<1>7. QED
  BY <1>5, <1>6 DEF n

LEMMA AnIno == FirstIno \in Nat
BY DEF FirstIno

LEMMA Fours ==
    ASSUME NEW n \in Nat
    PROVE  Padded(n) \in Nat /\ Padded(n) % 4 = 0
<1>1. (n + 3) \div 4 \in Nat
  OBVIOUS
<1>2. PICK q \in Nat : Padded(n) = q * 4
  BY <1>1 DEF Padded
<1>3. QED
  BY <1>2

LEMMA Blocks ==
    ASSUME NEW n \in Nat
    PROVE  ((n + 255) \div 256) * 256 \in Nat /\ (((n + 255) \div 256) * 256) % 256 = 0
<1>1. (n + 255) \div 256 \in Nat
  OBVIOUS
<1>2. PICK q \in Nat : q = (n + 255) \div 256
  BY <1>1
<1>3. (q * 256) % 256 = 0 /\ q * 256 \in Nat
  OBVIOUS
<1>4. QED
  BY <1>2, <1>3

LEMMA NameLength ==
    ASSUME NEW p \in Paths \cup {<<TrailerName>>}
    PROVE  PathLen(p) \in Nat
<1>1. CASE p = <<TrailerName>>
  BY <1>1 DEF PathLen
<1>2. CASE p # <<TrailerName>>
  <2>1. Len(p) \in Nat \ {0} /\ NameLen \in Nat
    BY <1>2, NamesAssumption DEF Paths
  <2>2. \A a \in Nat \ {0}, b \in Nat : a * (b + 1) - 1 \in Nat
    <3>1. \A a \in Nat, b \in Nat : a * b \in Nat /\ a * (b + 1) = a * b + a
      OBVIOUS
    <3>2. QED
      BY <3>1
  <2>3. QED
    BY <1>2, <2>1, <2>2 DEF PathLen
<1>3. QED
  BY <1>1, <1>2

\* A record is written where the one before it ends; or the program crashes.
LEMMA Ejected ==
    ASSUME Types, Offsets, packing \in {"todo", "read"},
           NEW p \in Paths \cup {<<TrailerName>>}, NEW kind, NEW size \in Nat,
           kind = "trailer" => size = 0,
           Eject(p, kind, size)
    PROVE  /\ Offsets'
           /\ \/ packing' = "crashed" /\ UNCHANGED archive
              \/ /\ packing' = (IF kind = "trailer" THEN "packed" ELSE "todo")
                 /\ IsSeq(archive') /\ Len(archive') = Len(archive) + 1
                 /\ \A i \in 1..Len(archive) : archive'[i] = archive[i]
                 /\ archive'[Len(archive) + 1].path = p
                 /\ archive'[Len(archive) + 1].kind = kind
<1>1. CASE packing' = "crashed" /\ UNCHANGED <<archive, total>>
  BY <1>1 DEF Offsets, EndOf
<1>2. CASE packing' # "crashed"
  <2> DEFINE at == Padded(total)
             data == Padded(at + 110 + PathLen(p) + 1)
             r == [path |-> p, kind |-> kind, ino |-> FirstIno + Len(archive),
                    mode |-> ModeOf(p), at |-> at, data |-> data, size |-> size]
             n == Len(archive)
  <2>1. /\ archive' = Append(archive, r)
        /\ total' = IF kind = "trailer" THEN ((data + 255) \div 256) * 256 ELSE data + size
        /\ packing' = IF kind = "trailer" THEN "packed" ELSE "todo"
    BY <1>2 DEF Eject
  <2>2. /\ r.path = p /\ r.kind = kind /\ r.ino = FirstIno + n /\ r.at = at /\ r.data = data
        /\ r.size = size
    OBVIOUS
  <2>3. at \in Nat /\ at % 4 = 0 /\ data \in Nat /\ data % 4 = 0
    <3>1. total \in Nat /\ PathLen(p) \in Nat
      BY NameLength DEF Offsets
    <3>2. at \in Nat /\ at % 4 = 0
      BY <3>1, Fours
    <3> HIDE DEF at
    <3>3. QED
      BY <3>1, <3>2, Fours
  <2>4. at = IF n = 0 THEN 0 ELSE Padded(archive[n].data + archive[n].size)
    <3>1. total = EndOf(archive)
      BY DEF Offsets
    <3>2. Padded(0) = 0
      BY DEF Padded
    <3>3. QED
      BY <3>1, <3>2 DEF EndOf
  <2> HIDE DEF r, at, data
  <2>5. /\ IsSeq(archive') /\ Len(archive') = n + 1 /\ n \in Nat
        /\ \A i \in 1..n : archive'[i] = archive[i]
        /\ archive'[n + 1] = r
    BY <2>1, Grown DEF Types, IsSeq
  <2> HIDE DEF n
  <2>6. /\ total' \in Nat
        /\ packing' # "packed" => total' = data + size
        /\ packing' = "packed" => total' % 256 = 0
    BY <2>1, <2>3, Blocks
  <2>7. EndOf(archive') = data + size
    BY <2>2, <2>5 DEF EndOf
  <2>8. \A i \in 1..n :
         /\ archive[i].at \in Nat /\ archive[i].data \in Nat /\ archive[i].size \in Nat
         /\ archive[i].at % 4 = 0 /\ archive[i].data % 4 = 0
         /\ archive[i].ino = FirstIno + i - 1
         /\ archive[i].at =
                IF i = 1 THEN 0 ELSE Padded(archive[i - 1].data + archive[i - 1].size)
    BY DEF Offsets, n
  <2>9. \A i \in 1..(n + 1) :
         /\ archive'[i].at \in Nat /\ archive'[i].data \in Nat /\ archive'[i].size \in Nat
         /\ archive'[i].at % 4 = 0 /\ archive'[i].data % 4 = 0
         /\ archive'[i].ino = FirstIno + i - 1
         /\ archive'[i].at =
                IF i = 1 THEN 0 ELSE Padded(archive'[i - 1].data + archive'[i - 1].size)
    <3> TAKE i \in 1..(n + 1)
    <3>1. CASE i \in 1..n
      <4>1. i # 1 => i - 1 \in 1..n
        BY <2>5, <3>1
      <4>2. QED
        BY <2>5, <2>8, <3>1, <4>1
    <3>2. CASE i = n + 1
      <4>1. i # 1 => i - 1 = n /\ n \in 1..n
        BY <2>5, <3>2
      <4>2. i = 1 => n = 0
        BY <2>5, <3>2
      <4>3. archive'[i].at = at
        BY <2>2, <2>5, <3>2
      <4>4. archive'[i].at =
                IF i = 1 THEN 0 ELSE Padded(archive'[i - 1].data + archive'[i - 1].size)
        BY <2>4, <2>5, <4>1, <4>2, <4>3
      <4>5. archive'[i].ino = FirstIno + i - 1
        BY <2>2, <2>5, <3>2, AnIno
      <4>6. QED
        BY <2>2, <2>3, <2>5, <3>2, <4>4, <4>5
    <3>3. QED
      BY <2>5, <3>1, <3>2
  <2>10. Offsets'
    BY <2>5, <2>6, <2>7, <2>9 DEF Offsets
  <2>11. QED
    BY <2>1, <2>2, <2>5, <2>10 DEF n
<1>3. QED
  BY <1>1, <1>2 DEF Eject

-------------------------------------------------------------------------------
\* What is in line is what the archive will be.
LEMMA FromLine ==
    Types /\ LineInv /\ packing \in {"todo", "read"} => ArchiveIsTree /\ ArchiveSorted
<1> SUFFICES ASSUME Types, LineInv, packing \in {"todo", "read"}
             PROVE  ArchiveIsTree /\ ArchiveSorted
  OBVIOUS
<1> DEFINE n == Len(archive)
<1>1. n \in Nat /\ DOMAIN archive = 1..n /\ Records = 1..n
  BY DEF Types, IsSeq, Records
<1>2. \A i \in 1..n : i \in 1..Len(Line) /\ Line[i] = archive[i].path
  BY LineFacts DEF LineSays
<1>3. Orderly(Line) /\ DirsFirst(Line)
  BY DEF LineInv
<1>4. \A i \in 1..n : IsVisible(archive[i].path)
  BY <1>2, <1>3 DEF Orderly
<1>5. \A i, j \in 1..n : archive[i].path = archive[j].path => i = j
  BY <1>2, <1>3 DEF Orderly
<1>6. \A i, j \in 1..n : i < j /\ Siblings(archive[i].path, archive[j].path)
                            => Last(archive[i].path) < Last(archive[j].path)
  BY <1>2, <1>3 DEF Orderly
<1>7. \A i \in 1..n : Len(archive[i].path) > 1 =>
         \E j \in 1..(i - 1) : archive[j].path = Front(archive[i].path) /\ archive[j].kind = "dir"
  <2> SUFFICES ASSUME NEW i \in 1..n, Len(archive[i].path) > 1
               PROVE  \E j \in 1..(i - 1) : /\ archive[j].path = Front(archive[i].path)
                                            /\ archive[j].kind = "dir"
    OBVIOUS
  <2>1. i \in 1..Len(Line) /\ Line[i] = archive[i].path
    BY <1>2
  <2>2. PICK j \in 1..n : j < i /\ archive[j].path = Front(Line[i]) /\ archive[j].kind = "dir"
    BY <1>3, <2>1 DEF DirsFirst
  <2>3. j \in 1..(i - 1)
    BY <1>1, <2>2
  <2>4. QED
    BY <2>1, <2>2, <2>3
<1> HIDE DEF n
<1>8. IsInjective([i \in Records |-> archive[i].path])
  <2>1. Records = 1..n
    BY <1>1
  <2>2. QED
    BY <1>5, <2>1 DEF IsInjective
<1>9. ArchiveIsTree
  BY <1>1, <1>4, <1>7, <1>8 DEF ArchiveIsTree, IsVisible
<1>10. ArchiveSorted
  <2>1. \A i, j \in 1..n : i < j /\ Len(archive[i].path) = Len(archive[j].path)
                                /\ Front(archive[i].path) = Front(archive[j].path)
                            => Last(archive[i].path) < Last(archive[j].path)
    BY <1>6 DEF Siblings
  <2>2. QED
    BY <1>1, <2>1 DEF ArchiveSorted
<1>11. QED
  BY <1>9, <1>10

\* The program ends early: what it has written stays as it is.
LEMMA Stops ==
    ASSUME RInv, packing \in {"todo", "read"}, packing' \in {"died", "crashed"},
           UNCHANGED archive, Offsets', todo' \in Seq(Paths),
           UNCHANGED <<fs, changes>>
    PROVE  RInv'
<1>1. Types'
  BY DEF RInv, Types
<1>2. LineInv' /\ CoverInv'
  BY DEF LineInv, CoverInv
<1>3. ArchiveIsTree'
  BY DEF RInv, ArchiveIsTree, Records
<1>4. ArchiveSorted'
  BY DEF RInv, ArchiveSorted, Records
<1>5. QED
  BY <1>1, <1>2, <1>3, <1>4 DEF RInv

LEMMA GoesOn ==
    ASSUME Types', Offsets', LineInv', CoverInv', packing' \in {"todo", "read"}
    PROVE  RInv'
<1>1. (Types /\ LineInv /\ packing \in {"todo", "read"} => ArchiveIsTree /\ ArchiveSorted)'
  BY FromLine, PTL
<1>2. QED
  BY <1>1 DEF RInv

LEMMA LineKnown == Types => LineSays
BY LineFacts

LEMMA LineFactsNext ==
    ASSUME Types'
    PROVE  LineSays'
BY LineKnown, PTL

\* The first that is still to come, and the rest.
LEMMA TodoFacts ==
    ASSUME Types, todo # << >>
    PROVE  /\ Len(todo) \in Nat \ {0} /\ Head(todo) = todo[1] /\ Head(todo) \in Paths
           /\ Tail(todo) \in Seq(Paths) /\ Len(Tail(todo)) = Len(todo) - 1
           /\ \A i \in 1..(Len(todo) - 1) : Tail(todo)[i] = todo[i + 1]
BY DEF Types

\* What is under way goes on to the next place: the line stays as it is.
LEMMA SameLine ==
    ASSUME RInv, packing \in {"todo", "read"}, packing' \in {"todo", "read"}, Types',
           Line' = Line,
           Len(archive') >= Len(archive), IsSeq(archive'),
           \A i \in 1..Len(archive) : archive'[i] = archive[i],
           \A i \in 1..Len(archive') : i > Len(archive) => archive'[i].kind # "trailer",
           packing' = "read" => file'.path \in Paths /\ file'.size \in Nat
    PROVE  LineInv'
<1>1. /\ Len(archive) \in Nat /\ Len(archive') \in Nat
  BY DEF RInv, Types, IsSeq
<1>2. Orderly(Line) /\ DirsFirst(Line) /\ \A i \in 1..Len(archive) : archive[i].kind # "trailer"
  BY DEF RInv, LineInv
<1>3. \A i \in 1..Len(archive') : archive'[i].kind # "trailer"
  BY <1>1, <1>2
<1>4. Orderly(Line')
  BY <1>2
<1>5. DirsFirst(Line)'
  <2> SUFFICES ASSUME NEW j \in 1..Len(Line), Len(Line[j]) > 1
               PROVE  \E i \in 1..Len(archive') :
                         i < j /\ archive'[i].path = Front(Line[j]) /\ archive'[i].kind = "dir"
    BY DEF DirsFirst
  <2>1. PICK i \in 1..Len(archive) :
               i < j /\ archive[i].path = Front(Line[j]) /\ archive[i].kind = "dir"
    BY <1>2 DEF DirsFirst
  <2>2. i \in 1..Len(archive') /\ archive'[i] = archive[i]
    BY <1>1
  <2>3. QED
    BY <2>1, <2>2
<1>6. Orderly(Line)'
  BY <1>4 DEF Orderly, IsVisible, Siblings
<1>7. QED
  BY <1>3, <1>5, <1>6 DEF LineInv

\* Below a path of the tree there is something only when it is a directory.
LEMMA Below ==
    ASSUME IsTree(fs), NEW p \in DOMAIN fs, IsVisible(p), NEW k \in 1..Len(p)
    PROVE  \/ k = Len(p) /\ p = SubSeq(p, 1, k)
           \/ /\ k < Len(p) /\ fs[SubSeq(p, 1, k)].kind = "dir"
              /\ SubSeq(p, 1, k + 1) \in DOMAIN fs
              /\ SubSeq(p, 1, k + 1) = Append(SubSeq(p, 1, k), p[k + 1])
              /\ p[k + 1] \in Names /\ p[k + 1] \notin Skipped
<1>1. p \in Seq(Names) /\ Len(p) \in Nat
  BY DEF IsTree
<1>2. p = SubSeq(p, 1, Len(p))
  BY <1>1
<1>3. CASE k = Len(p)
  BY <1>2, <1>3
<1>4. CASE k # Len(p)
  <2>1. k \in 1..(Len(p) - 1) /\ k + 1 \in 1..Len(p) /\ k < Len(p) /\ k \in Nat
    BY <1>1, <1>4
  <2>2. fs[SubSeq(p, 1, k)].kind = "dir"
    BY <2>1 DEF IsTree
  <2>3. SubSeq(p, 1, k + 1) \in DOMAIN fs
    <3>1. CASE k + 1 = Len(p)
      BY <1>2, <3>1
    <3>2. CASE k + 1 # Len(p)
      <4>1. k + 1 \in 1..(Len(p) - 1)
        BY <1>1, <2>1, <3>2
      <4>2. QED
        BY <4>1 DEF IsTree
    <3>3. QED
      BY <3>1, <3>2
  <2>4. SubSeq(p, 1, k + 1) = Append(SubSeq(p, 1, k), p[k + 1])
    BY <1>1, <2>1
  <2>5. p[k + 1] \in Names /\ p[k + 1] \notin Skipped
    BY <1>1, <2>1 DEF IsVisible, Range
  <2>6. QED
    BY <2>1, <2>2, <2>3, <2>4, <2>5
<1>5. QED
  BY <1>3, <1>4

LEMMA Moved ==
    ASSUME Types, Types', NEW p,
           \A i \in 1..Len(archive) : i \in 1..Len(archive') /\ archive'[i] = archive[i],
           Len(Line) = Len(archive) + 1 + Len(todo'), Len(Line') = Len(Line),
           Line[Len(archive) + 1] = p, Line'[Len(archive) + 1] = p,
           \A j \in 1..Len(todo') : /\ Line[Len(archive) + 1 + j] = todo'[j]
                                    /\ Line'[Len(archive) + 1 + j] = todo'[j]
    PROVE  Line' = Line
<1> DEFINE n == Len(archive)
           s == Len(todo')
           L == Len(Line)
<1>1. n \in Nat /\ s \in Nat /\ L = n + 1 + s /\ L \in Nat
  BY LineFacts, LineFactsNext DEF LineSays
<1>2. Line = [i \in 1..L |-> Line[i]] /\ Line' = [i \in 1..L |-> Line'[i]]
  <2>1. L = Len(archive) + Reading + Len(todo) /\ L = Len(archive') + Reading' + Len(todo')
    BY LineFacts, LineFactsNext DEF LineSays
  <2>2. Line = [i \in 1..(Len(archive) + Reading + Len(todo)) |-> Line[i]]
    BY DEF Line
  <2>3. Line' = [i \in 1..(Len(archive') + Reading' + Len(todo')) |-> Line'[i]]
    BY DEF Line
  <2> HIDE DEF L
  <2>4. QED
    BY <2>1, <2>2, <2>3
<1>3. \A i \in 1..n : Line'[i] = Line[i]
  BY LineFacts, LineFactsNext DEF LineSays
<1>4. Line[n + 1] = p /\ Line'[n + 1] = p
  OBVIOUS
<1>5. \A j \in 1..s : Line[n + 1 + j] = todo'[j] /\ Line'[n + 1 + j] = todo'[j]
  OBVIOUS
<1> HIDE DEF n, s, L
<1>6. \A i \in 1..L : Line'[i] = Line[i]
  <2> TAKE i \in 1..L
  <2>1. CASE i \in 1..n
    BY <1>3, <2>1
  <2>2. CASE i = n + 1
    BY <1>4, <2>2
  <2>3. CASE i > n + 1
    <3>1. PICK j \in 1..s : i = n + 1 + j
      <4>1. i - n - 1 \in 1..s /\ i = n + 1 + (i - n - 1)
        BY <1>1, <2>3
      <4>2. QED
        BY <4>1
    <3>2. QED
      BY <1>5, <3>1
  <2>4. QED
    BY <1>1, <2>1, <2>2, <2>3
<1>7. QED
  BY <1>2, <1>6

\* A link, and a file that has been read.
LEMMA LinkStep ==
    ASSUME RInv, packing = "todo", todo # << >>, Head(todo) \in DOMAIN fs,
           fs[Head(todo)].kind = "link", NEW size \in Nat, Eject(Head(todo), "link", size),
           todo' = Tail(todo), UNCHANGED <<fs, changes, file>>
    PROVE  RInv'
<1> DEFINE path == Head(todo)
           n == Len(archive)
<1>1. Types /\ Offsets /\ LineInv /\ CoverInv
  BY DEF RInv
<1>2. /\ Len(todo) \in Nat \ {0} /\ path = todo[1] /\ path \in Paths
      /\ Tail(todo) \in Seq(Paths) /\ Len(todo') = Len(todo) - 1
      /\ \A i \in 1..(Len(todo) - 1) : todo'[i] = todo[i + 1]
  BY <1>1, TodoFacts
<1>3. /\ Offsets'
      /\ \/ packing' = "crashed" /\ UNCHANGED archive
         \/ /\ packing' = "todo"
            /\ IsSeq(archive') /\ Len(archive') = n + 1
            /\ \A i \in 1..n : archive'[i] = archive[i]
            /\ archive'[n + 1].path = path
            /\ archive'[n + 1].kind = "link"
  BY <1>1, <1>2, Ejected
<1>4. CASE packing' = "crashed" /\ UNCHANGED archive
  BY <1>2, <1>3, <1>4, Stops
<1>5. CASE /\ packing' = "todo"
           /\ IsSeq(archive') /\ Len(archive') = n + 1
           /\ \A i \in 1..n : archive'[i] = archive[i]
           /\ archive'[n + 1].path = path
           /\ archive'[n + 1].kind = "link"
  <2> HIDE DEF path
  <2>1. Types'
    BY <1>1, <1>2, <1>5 DEF Types
  <2>2. n \in Nat /\ Reading = 0 /\ Reading' = 0
    BY <1>1, <1>5 DEF Types, IsSeq, Reading
  <2>3. Line' = Line
    <3>1. \A i \in 1..n : i \in 1..Len(archive') /\ archive'[i] = archive[i]
      BY <1>5, <2>2
    <3>2. Len(Line) = n + 1 + Len(todo') /\ Len(Line') = Len(Line)
      <4>1. Len(Line) = Len(archive) + Reading + Len(todo)
        BY <1>1, LineFacts DEF LineSays
      <4>2. Len(Line') = Len(archive') + Reading' + Len(todo')
        BY <2>1, LineFactsNext DEF LineSays
      <4>3. QED
        BY <1>2, <1>5, <2>2, <4>1, <4>2
    <3>3. Line[n + 1] = path
      <4>1. Line[n + Reading + 1] = todo[1]
        BY <1>1, <1>2, LineFacts DEF LineSays
      <4>2. QED
        BY <1>2, <2>2, <4>1
    <3>4. Line'[n + 1] = path
      BY <1>5, <2>1, <2>2, LineFactsNext DEF LineSays
    <3>5. \A j \in 1..Len(todo') : Line[n + 1 + j] = todo'[j] /\ Line'[n + 1 + j] = todo'[j]
      <4> TAKE j \in 1..Len(todo')
      <4>1. Line'[Len(archive') + Reading' + j] = todo'[j]
        BY <2>1, LineFactsNext DEF LineSays
      <4>2. j + 1 \in 1..Len(todo) /\ todo'[j] = todo[j + 1]
        BY <1>2
      <4>3. Line[Len(archive) + Reading + (j + 1)] = todo[j + 1]
        BY <1>1, <4>2, LineFacts DEF LineSays
      <4>4. /\ Len(archive') + Reading' + j = n + 1 + j
            /\ Len(archive) + Reading + (j + 1) = n + 1 + j
        BY <1>2, <1>5, <2>2
      <4>5. QED
        BY <4>1, <4>2, <4>3, <4>4
    <3>6. QED
      BY <1>1, <2>1, <3>1, <3>2, <3>3, <3>4, <3>5, Moved
  <2>4. LineInv'
    <3>1. /\ Len(archive') >= Len(archive)
          /\ \A i \in 1..Len(archive') : i > Len(archive) => archive'[i].kind # "trailer"
      BY <1>5, <2>2
    <3>2. QED
      BY <1>5, <2>1, <2>3, <3>1, SameLine
  <2>5. CoverInv'
    <3> SUFFICES ASSUME NEW q \in DOMAIN fs, IsVisible(q)
                 PROVE  Covered(q)'
      BY DEF CoverInv, IsVisible
    <3>1. Covered(q)
      BY <1>1 DEF CoverInv
    <3>2. CASE \E i \in 1..n : archive[i].path = q
      BY <1>5, <2>2, <3>2 DEF Covered
    <3>3. ASSUME NEW k \in 1..Len(q), NEW i \in 1..Len(todo), todo[i] = SubSeq(q, 1, k)
          PROVE  Covered(q)'
      <4>1. CASE i = 1
        <5>1. q = path
          BY <1>1, <1>2, <3>3, <4>1, Below DEF Types, path
        <5>2. n + 1 \in 1..Len(archive')
          BY <1>5, <2>2
        <5>3. QED
          BY <1>5, <5>1, <5>2 DEF Covered
      <4>2. CASE i # 1
        <5>1. i - 1 \in 1..Len(todo') /\ todo'[i - 1] = todo[i]
          BY <1>2, <4>2
        <5>2. QED
          BY <3>3, <5>1 DEF Covered
      <4>3. QED
        BY <4>1, <4>2
    <3>4. QED
      BY <3>1, <3>2, <3>3 DEF Covered
  <2>6. QED
    BY <1>3, <1>5, <2>1, <2>4, <2>5, GoesOn
<1>6. QED
  BY <1>3, <1>4, <1>5

\* A file is looked at.
LEMMA FileStep ==
    ASSUME RInv, packing = "todo", todo # << >>, Head(todo) \in DOMAIN fs,
           fs[Head(todo)].kind = "file",
           file' = [path |-> Head(todo), size |-> fs[Head(todo)].size],
           packing' = "read", todo' = Tail(todo),
           UNCHANGED <<fs, changes, archive, total>>
    PROVE  RInv'
<1> DEFINE path == Head(todo)
           n == Len(archive)
<1>1. Types /\ Offsets /\ LineInv /\ CoverInv
  BY DEF RInv
<1>2. /\ Len(todo) \in Nat \ {0} /\ path = todo[1] /\ path \in Paths
      /\ Tail(todo) \in Seq(Paths) /\ Len(todo') = Len(todo) - 1
      /\ \A i \in 1..(Len(todo) - 1) : todo'[i] = todo[i + 1]
  BY <1>1, TodoFacts
<1>3. file'.path = path /\ file'.size \in Nat
  BY <1>1 DEF Types, IsTree
<1> HIDE DEF path
<1>4. Types' /\ Offsets'
  BY <1>1, <1>2 DEF Types, Offsets, EndOf
<1>5. n \in Nat /\ Reading = 0 /\ Reading' = 1
  BY <1>1 DEF Types, IsSeq, Reading
<1>6. Line' = Line
  <2>1. \A i \in 1..n : i \in 1..Len(archive') /\ archive'[i] = archive[i]
    OBVIOUS
  <2>2. Len(Line) = n + 1 + Len(todo') /\ Len(Line') = Len(Line)
    <3>1. Len(Line) = Len(archive) + Reading + Len(todo)
      BY <1>1, LineFacts DEF LineSays
    <3>2. Len(Line') = Len(archive') + Reading' + Len(todo')
      BY <1>4, LineFactsNext DEF LineSays
    <3>3. QED
      BY <1>2, <1>5, <3>1, <3>2
  <2>3. Line[n + 1] = path
    <3>1. Line[n + Reading + 1] = todo[1]
      BY <1>1, <1>2, LineFacts DEF LineSays
    <3>2. QED
      BY <1>2, <1>5, <3>1
  <2>4. Line'[n + 1] = path
    BY <1>3, <1>4, <1>5, LineFactsNext DEF LineSays
  <2>5. \A j \in 1..Len(todo') : Line[n + 1 + j] = todo'[j] /\ Line'[n + 1 + j] = todo'[j]
    <3> TAKE j \in 1..Len(todo')
    <3>1. Line'[Len(archive') + Reading' + j] = todo'[j]
      BY <1>4, LineFactsNext DEF LineSays
    <3>2. j + 1 \in 1..Len(todo) /\ todo'[j] = todo[j + 1]
      BY <1>2
    <3>3. Line[Len(archive) + Reading + (j + 1)] = todo[j + 1]
      BY <1>1, <3>2, LineFacts DEF LineSays
    <3>4. /\ Len(archive') + Reading' + j = n + 1 + j
          /\ Len(archive) + Reading + (j + 1) = n + 1 + j
      BY <1>2, <1>5
    <3>5. QED
      BY <3>1, <3>2, <3>3, <3>4
  <2>6. QED
    BY <1>1, <1>4, <2>1, <2>2, <2>3, <2>4, <2>5, Moved
<1>7. LineInv'
  <2>1. /\ Len(archive') >= Len(archive) /\ IsSeq(archive')
        /\ \A i \in 1..Len(archive') : i > Len(archive) => archive'[i].kind # "trailer"
    BY <1>1, <1>5 DEF Types
  <2>2. QED
    BY <1>2, <1>3, <1>4, <1>6, <2>1, SameLine
<1>8. CoverInv'
  <2> SUFFICES ASSUME NEW q \in DOMAIN fs, IsVisible(q)
               PROVE  Covered(q)'
    BY DEF CoverInv, IsVisible
  <2>1. Covered(q)
    BY <1>1 DEF CoverInv
  <2>2. CASE \E i \in 1..n : archive[i].path = q
    BY <2>2 DEF Covered
  <2>3. ASSUME NEW k \in 1..Len(q), NEW i \in 1..Len(todo), todo[i] = SubSeq(q, 1, k)
        PROVE  Covered(q)'
    <3>1. CASE i = 1
      <4>1. q = path
        BY <1>1, <1>2, <2>3, <3>1, Below DEF Types, path
      <4>2. QED
        BY <1>3, <4>1 DEF Covered
    <3>2. CASE i # 1
      <4>1. i - 1 \in 1..Len(todo') /\ todo'[i - 1] = todo[i]
        BY <1>2, <3>2
      <4>2. QED
        BY <2>3, <4>1 DEF Covered
    <3>3. QED
      BY <3>1, <3>2
  <2>4. QED
    BY <2>1, <2>2, <2>3 DEF Covered
<1>9. QED
  BY <1>4, <1>7, <1>8, GoesOn

\* And read.
LEMMA ReadStep ==
    ASSUME RInv, packing = "read", Eject(file.path, "file", file.size),
           UNCHANGED <<fs, todo, file, changes>>
    PROVE  RInv'
<1> DEFINE path == file.path
           n == Len(archive)
<1>1. Types /\ Offsets /\ LineInv /\ CoverInv
  BY DEF RInv
<1>2. path \in Paths /\ file.size \in Nat /\ todo \in Seq(Paths)
  BY <1>1 DEF LineInv, Types
<1>3. /\ Offsets'
      /\ \/ packing' = "crashed" /\ UNCHANGED archive
         \/ /\ packing' = "todo"
            /\ IsSeq(archive') /\ Len(archive') = n + 1
            /\ \A i \in 1..n : archive'[i] = archive[i]
            /\ archive'[n + 1].path = path
            /\ archive'[n + 1].kind = "file"
  BY <1>1, <1>2, Ejected
<1>4. CASE packing' = "crashed" /\ UNCHANGED archive
  BY <1>2, <1>3, <1>4, Stops
<1>5. CASE /\ packing' = "todo"
           /\ IsSeq(archive') /\ Len(archive') = n + 1
           /\ \A i \in 1..n : archive'[i] = archive[i]
           /\ archive'[n + 1].path = path
           /\ archive'[n + 1].kind = "file"
  <2> HIDE DEF path
  <2>1. Types'
    BY <1>1, <1>2, <1>5 DEF Types
  <2>2. n \in Nat /\ Reading = 1 /\ Reading' = 0
    BY <1>1, <1>5 DEF Types, IsSeq, Reading
  <2>3. Line' = Line
    <3>1. \A i \in 1..n : i \in 1..Len(archive') /\ archive'[i] = archive[i]
      BY <1>5, <2>2
    <3>2. Len(Line) = n + 1 + Len(todo') /\ Len(Line') = Len(Line)
      BY <1>1, <1>5, <2>1, <2>2, LineFacts, LineFactsNext DEF LineSays
    <3>3. Line[n + 1] = path
      BY <1>1, LineFacts DEF LineSays, path
    <3>4. Line'[n + 1] = path
      BY <1>5, <2>1, <2>2, LineFactsNext DEF LineSays
    <3>5. \A j \in 1..Len(todo') : Line[n + 1 + j] = todo'[j] /\ Line'[n + 1 + j] = todo'[j]
      <4> TAKE j \in 1..Len(todo')
      <4>1. Line'[Len(archive') + Reading' + j] = todo'[j]
        BY <2>1, LineFactsNext DEF LineSays
      <4>2. Line[Len(archive) + Reading + j] = todo[j]
        BY <1>1, LineFacts DEF LineSays
      <4>3. /\ Len(archive') + Reading' + j = n + 1 + j
            /\ Len(archive) + Reading + j = n + 1 + j
        BY <1>5, <2>2
      <4>4. QED
        BY <4>1, <4>2, <4>3
    <3>6. QED
      BY <1>1, <2>1, <3>1, <3>2, <3>3, <3>4, <3>5, Moved
  <2>4. LineInv'
    <3>1. /\ Len(archive') >= Len(archive)
          /\ \A i \in 1..Len(archive') : i > Len(archive) => archive'[i].kind # "trailer"
      BY <1>5, <2>2
    <3>2. QED
      BY <1>5, <2>1, <2>3, <3>1, SameLine
  <2>5. CoverInv'
    <3> SUFFICES ASSUME NEW q \in DOMAIN fs, IsVisible(q)
                 PROVE  Covered(q)'
      BY DEF CoverInv, IsVisible
    <3>1. Covered(q)
      BY <1>1 DEF CoverInv
    <3>2. CASE \E i \in 1..n : archive[i].path = q
      BY <1>5, <2>2, <3>2 DEF Covered
    <3>3. CASE file.path = q
      <4>1. n + 1 \in 1..Len(archive')
        BY <1>5, <2>2
      <4>2. QED
        BY <1>5, <3>3, <4>1 DEF Covered, path
    <3>4. CASE \E k \in 1..Len(q) : \E i \in 1..Len(todo) : todo[i] = SubSeq(q, 1, k)
      BY <3>4 DEF Covered
    <3>5. QED
      BY <3>1, <3>2, <3>3, <3>4 DEF Covered
  <2>6. QED
    BY <1>3, <1>5, <2>1, <2>4, <2>5, GoesOn
<1>6. QED
  BY <1>3, <1>4, <1>5

\* A directory: its entries come next.
LEMMA DirStep ==
    ASSUME RInv, packing = "todo", todo # << >>, Head(todo) \in DOMAIN fs,
           Eject(Head(todo), "dir", 0),
           todo' = Children(Head(todo)) \o Tail(todo), UNCHANGED <<fs, changes, file>>
    PROVE  RInv'
<1> DEFINE path == Head(todo)
           kids == Children(path)
           c == Len(kids)
           n == Len(archive)
           t == Len(todo)
<1>1. Types /\ Offsets /\ LineInv /\ CoverInv
  BY DEF RInv
<1>2. /\ t \in Nat \ {0} /\ path = todo[1] /\ path \in Paths
      /\ Tail(todo) \in Seq(Paths) /\ Len(Tail(todo)) = t - 1
      /\ \A i \in 1..(t - 1) : Tail(todo)[i] = todo[i + 1]
  BY <1>1, TodoFacts
<1>3. /\ Offsets'
      /\ \/ packing' = "crashed" /\ UNCHANGED archive
         \/ /\ packing' = "todo"
            /\ IsSeq(archive') /\ Len(archive') = n + 1
            /\ \A i \in 1..n : archive'[i] = archive[i]
            /\ archive'[n + 1].path = path
            /\ archive'[n + 1].kind = "dir"
  BY <1>1, <1>2, Ejected
<1>4. n \in Nat /\ Reading = 0
  BY <1>1 DEF Types, IsSeq, Reading
<1>5. /\ Orderly(Line) /\ DirsFirst(Line)
      /\ \A i \in 1..n : archive[i].kind # "trailer"
  BY <1>1 DEF LineInv
<1>6. /\ Len(Line) = n + t
      /\ \A i \in 1..n : Line[i] = archive[i].path /\ i \in 1..Len(Line)
      /\ \A i \in 1..t : Line[n + i] = todo[i]
      /\ Line[n + 1] = path /\ n + 1 \in 1..Len(Line)
  <2>1. /\ Len(Line) = n + Reading + t
        /\ \A i \in 1..n : Line[i] = archive[i].path /\ i \in 1..Len(Line)
        /\ \A i \in 1..t : n + Reading + i \in 1..Len(Line) /\ Line[n + Reading + i] = todo[i]
    BY <1>1, LineFacts DEF LineSays
  <2>2. \A i \in 1..t : n + Reading + i = n + i
    BY <1>2, <1>4
  <2>3. Len(Line) = n + t
    BY <1>2, <1>4, <2>1
  <2>4. \A i \in 1..t : n + i \in 1..Len(Line) /\ Line[n + i] = todo[i]
    BY <2>1, <2>2
  <2>5. 1 \in 1..t
    BY <1>2
  <2> HIDE DEF path, n, t
  <2>6. QED
    BY <1>2, <2>1, <2>3, <2>4, <2>5
<1>7. path \in Seq(Names) /\ IsVisible(path)
  BY <1>2, <1>5, <1>6 DEF Orderly, Paths
<1>8. /\ kids \in Seq(Paths) /\ c \in Nat
      /\ \A i \in 1..c : /\ kids[i] \in DOMAIN fs /\ IsVisible(kids[i])
                         /\ Len(kids[i]) = Len(path) + 1 /\ Front(kids[i]) = path
      /\ \A i, j \in 1..c : i < j => Last(kids[i]) < Last(kids[j])
      /\ \A m \in Names : Append(path, m) \in DOMAIN fs /\ m \notin Skipped =>
            \E i \in 1..c : kids[i] = Append(path, m)
  <2>1. kids \in Seq(Paths)
    BY <1>7, Kids
  <2>2. c \in Nat
    BY <2>1
  <2> HIDE DEF path
  <2>3. QED
    BY <1>7, <2>1, <2>2, Kids
<1> HIDE DEF path, kids
<1>9. /\ todo' \in Seq(Paths) /\ Len(todo') = c + (t - 1)
      /\ \A i \in 1..c : todo'[i] = kids[i]
      /\ \A i \in 1..(t - 1) : todo'[c + i] = todo[i + 1]
  <2>1. todo' = kids \o Tail(todo)
    BY DEF path, kids
  <2> DEFINE rest == Tail(todo)
  <2>2. rest \in Seq(Paths) /\ Len(rest) = t - 1 /\ \A i \in 1..(t - 1) : rest[i] = todo[i + 1]
    BY <1>2
  <2>3. todo' = kids \o rest
    BY <2>1
  <2> HIDE DEF rest
  <2>4. /\ todo' \in Seq(Paths) /\ Len(todo') = c + Len(rest)
        /\ \A i \in 1..c : todo'[i] = kids[i]
        /\ \A i \in 1..Len(rest) : todo'[c + i] = rest[i]
    <3>1. /\ kids \o rest \in Seq(Paths) /\ Len(kids \o rest) = Len(kids) + Len(rest)
          /\ \A i \in 1..Len(kids) : (kids \o rest)[i] = kids[i]
          /\ \A i \in 1..Len(rest) : (kids \o rest)[Len(kids) + i] = rest[i]
      <4>1. kids \in Seq(Paths) /\ rest \in Seq(Paths)
        BY <1>8, <2>2
      <4>2. QED
        BY <4>1
    <3>2. QED
      BY <2>3, <3>1, Zenon
  <2>5. QED
    BY <2>2, <2>4
<1>10. CASE packing' = "crashed" /\ UNCHANGED archive
  BY <1>3, <1>9, <1>10, Stops
<1>11. CASE /\ packing' = "todo"
            /\ IsSeq(archive') /\ Len(archive') = n + 1
            /\ \A i \in 1..n : archive'[i] = archive[i]
            /\ archive'[n + 1].path = path
            /\ archive'[n + 1].kind = "dir"
  <2>1. Types'
    BY <1>1, <1>9, <1>11 DEF Types
  <2>2. /\ Len(Line') = n + t + c
        /\ \A i \in 1..(n + 1) : Line'[i] = archive'[i].path
        /\ \A i \in 1..(c + (t - 1)) : Line'[n + 1 + i] = todo'[i]
        /\ DOMAIN Line' = 1..Len(Line')
    <3>1. Reading' = 0
      BY <1>11 DEF Reading
    <3>2. /\ Len(Line') = Len(archive') + Reading' + Len(todo')
          /\ \A i \in 1..Len(archive') : Line'[i] = archive'[i].path
          /\ \A i \in 1..Len(todo') : Line'[Len(archive') + Reading' + i] = todo'[i]
          /\ DOMAIN Line' = 1..Len(Line')
      BY <2>1, LineFactsNext DEF LineSays
    <3>3. \A i \in 1..Len(todo') : Len(archive') + Reading' + i = n + 1 + i
      BY <1>4, <1>9, <1>11, <3>1
    <3>4. Len(Line') = n + t + c
      BY <1>2, <1>4, <1>8, <1>9, <1>11, <3>1, <3>2
    <3>5. QED
      BY <1>9, <1>11, <3>2, <3>3, <3>4
  <2> DEFINE L == Len(Line)
             new == [i \in 1..(L + c) |->
                         IF i <= n + 1 THEN Line[i]
                         ELSE IF i <= n + 1 + c THEN kids[i - (n + 1)] ELSE Line[i - c]]
  <2>3. \A i \in 1..(n + 1) : Line'[i] = Line[i]
    <3> TAKE i \in 1..(n + 1)
    <3>1. CASE i \in 1..n
      BY <1>6, <1>11, <2>2, <3>1
    <3>2. CASE i = n + 1
      BY <1>4, <1>6, <1>11, <2>2, <3>2
    <3>3. QED
      BY <1>4, <3>1, <3>2
  <2>4. \A i \in 1..c : Line'[n + 1 + i] = kids[i]
    BY <1>2, <1>8, <1>9, <2>2
  <2>5. \A i \in 1..(t - 1) : Line'[n + 1 + c + i] = Line[n + 1 + i]
    <3> TAKE i \in 1..(t - 1)
    <3>1. c + i \in 1..(c + (t - 1)) /\ n + 1 + (c + i) = n + 1 + c + i
      BY <1>2, <1>4, <1>8
    <3>2. Line'[n + 1 + c + i] = todo'[c + i]
      BY <2>2, <3>1
    <3>3. i + 1 \in 1..t /\ n + (i + 1) = n + 1 + i
      BY <1>2, <1>4
    <3>4. Line[n + 1 + i] = todo[i + 1]
      BY <1>6, <3>3
    <3>5. QED
      BY <1>9, <3>2, <3>4
  <2>6. Line' = new
    <3>1. Line' = [i \in 1..Len(Line') |-> Line'[i]]
      <4>1. Line' = [i \in DOMAIN Line' |-> Line'[i]]
        BY DEF Line
      <4>2. QED
        BY <2>2, <4>1
    <3>2. L = n + t /\ Len(Line') = L + c
      BY <1>2, <1>4, <1>6, <1>8, <2>2
    <3> HIDE DEF n, t, c, L
    <3>3. \A i \in 1..(L + c) : Line'[i] = new[i]
      <4> TAKE i \in 1..(L + c)
      <4>1. CASE i <= n + 1
        BY <1>4, <2>3, <4>1
      <4>2. CASE ~(i <= n + 1) /\ i <= n + 1 + c
        <5>1. i - (n + 1) \in 1..c /\ n + 1 + (i - (n + 1)) = i
          BY <1>4, <1>8, <4>2 DEF c
        <5>2. Line'[n + 1 + (i - (n + 1))] = kids[i - (n + 1)]
          BY <2>4, <5>1
        <5>3. QED
          BY <4>2, <5>1, <5>2
      <4>3. CASE ~(i <= n + 1) /\ ~(i <= n + 1 + c)
        <5> DEFINE j == i - c - n - 1
        <5>1. j \in 1..(t - 1) /\ n + 1 + c + j = i /\ n + 1 + j = i - c
          BY <1>2, <1>4, <1>8, <3>2, <4>3 DEF c
        <5> HIDE DEF j
        <5>2. Line'[i] = Line[i - c]
          BY <2>5, <5>1
        <5>3. QED
          BY <4>3, <5>2
      <4>4. QED
        BY <4>1, <4>2, <4>3
    <3> HIDE DEF new
    <3>4. new = [i \in 1..(L + c) |-> new[i]]
      BY DEF new
    <3>5. QED
      BY <3>1, <3>2, <3>3, <3>4
  <2>7. \A i \in 1..Len(Line) : Len(Line[i]) = Len(path) + 1 => Front(Line[i]) # path
    <3> SUFFICES ASSUME NEW i \in 1..Len(Line), Len(Line[i]) = Len(path) + 1, Front(Line[i]) = path
                 PROVE  FALSE
      OBVIOUS
    <3>1. Len(Line[i]) > 1
      BY <1>2 DEF Paths
    <3>2. PICK k \in 1..n : archive[k].path = path
      BY <1>5, <3>1 DEF DirsFirst
    <3>3. Line[k] = Line[n + 1] /\ k \in 1..Len(Line) /\ n + 1 \in 1..Len(Line) /\ k # n + 1
      BY <1>4, <1>6, <3>2
    <3>4. QED
      BY <1>5, <3>3 DEF Orderly
  <2>8. Orderly(Line') /\ Len(Line') = L + c
    <3>1. n + 1 \in 0..L
      BY <1>2, <1>4, <1>6
    <3>2. Line' = [i \in 1..(Len(Line) + Len(kids)) |->
                         IF i <= n + 1 THEN Line[i]
                         ELSE IF i <= n + 1 + Len(kids) THEN kids[i - (n + 1)]
                         ELSE Line[i - Len(kids)]]
      BY <2>6
    <3> HIDE DEF n
    <3>3. QED
      BY <1>5, <1>7, <1>8, <2>7, <3>1, <3>2, Inserted
  <2>9. DirsFirst(Line)'
    <3> SUFFICES ASSUME NEW j \in 1..(L + c), Len(Line'[j]) > 1
                 PROVE  \E i \in 1..Len(archive') :
                           i < j /\ archive'[i].path = Front(Line'[j]) /\ archive'[i].kind = "dir"
      BY <2>8 DEF DirsFirst
    <3>1. ASSUME NEW k \in 1..Len(Line), k <= j, Line'[j] = Line[k]
          PROVE  \E i \in 1..Len(archive') :
                    i < j /\ archive'[i].path = Front(Line'[j]) /\ archive'[i].kind = "dir"
      <4>1. PICK i \in 1..n : i < k /\ archive[i].path = Front(Line[k]) /\ archive[i].kind = "dir"
        BY <1>5, <3>1 DEF DirsFirst
      <4>2. i \in 1..Len(archive') /\ i < j
        BY <1>4, <1>6, <1>11, <3>1, <4>1
      <4>3. QED
        BY <1>11, <3>1, <4>1, <4>2
    <3>2. CASE j <= n + 1
      <4>1. j \in 1..Len(Line) /\ j <= j /\ Line'[j] = Line[j]
        BY <1>2, <1>4, <1>6, <2>3, <3>2
      <4>2. QED
        BY <3>1, <4>1
    <3>3. CASE ~(j <= n + 1) /\ j <= n + 1 + c
      <4>1. j - (n + 1) \in 1..c /\ n + 1 + (j - (n + 1)) = j
        BY <1>4, <1>8, <3>3
      <4>2. Front(Line'[j]) = path
        BY <1>8, <2>4, <4>1
      <4>3. n + 1 \in 1..Len(archive') /\ n + 1 < j
        BY <1>4, <1>11, <3>3
      <4>4. QED
        BY <1>11, <4>2, <4>3
    <3>4. CASE ~(j <= n + 1) /\ ~(j <= n + 1 + c)
      <4> DEFINE k == j - c - n - 1
      <4>1. k \in 1..(t - 1) /\ n + 1 + c + k = j
        BY <1>2, <1>4, <1>6, <1>8, <3>4
      <4>2. n + 1 + k \in 1..Len(Line) /\ n + 1 + k <= j
        BY <1>2, <1>4, <1>6, <1>8, <4>1
      <4> HIDE DEF k
      <4>3. Line'[j] = Line[n + 1 + k]
        BY <2>5, <4>1
      <4>4. QED
        BY <3>1, <4>2, <4>3
    <3>5. QED
      BY <3>2, <3>3, <3>4
  <2>10. LineInv'
    <3>1. Orderly(Line)'
      BY <2>8 DEF Orderly, IsVisible, Siblings
    <3>2. \A i \in 1..Len(archive') : archive'[i].kind # "trailer"
      BY <1>4, <1>5, <1>11
    <3>3. QED
      BY <1>11, <2>9, <3>1, <3>2 DEF LineInv
  <2>11. CoverInv'
    <3> SUFFICES ASSUME NEW q \in DOMAIN fs, IsVisible(q)
                 PROVE  Covered(q)'
      BY DEF CoverInv, IsVisible
    <3>1. Covered(q)
      BY <1>1 DEF CoverInv
    <3>2. CASE \E i \in 1..n : archive[i].path = q
      BY <1>4, <1>11, <3>2 DEF Covered
    <3>3. ASSUME NEW k \in 1..Len(q), NEW i \in 1..t, todo[i] = SubSeq(q, 1, k)
          PROVE  Covered(q)'
      <4>1. CASE i = 1
        <5>1. \/ q = path
              \/ /\ k < Len(q) /\ Append(path, q[k + 1]) \in DOMAIN fs
                 /\ SubSeq(q, 1, k + 1) = Append(path, q[k + 1])
                 /\ q[k + 1] \in Names /\ q[k + 1] \notin Skipped
          <6>1. SubSeq(q, 1, k) = path
            BY <1>2, <3>3, <4>1
          <6>2. IsTree(fs)
            BY <1>1 DEF Types
          <6>3. \/ k = Len(q) /\ q = SubSeq(q, 1, k)
                \/ /\ k < Len(q) /\ fs[SubSeq(q, 1, k)].kind = "dir"
                   /\ SubSeq(q, 1, k + 1) \in DOMAIN fs
                   /\ SubSeq(q, 1, k + 1) = Append(SubSeq(q, 1, k), q[k + 1])
                   /\ q[k + 1] \in Names /\ q[k + 1] \notin Skipped
            BY <3>3, <6>2, Below
          <6>4. QED
            BY <6>1, <6>3, Zenon
        <5>2. CASE q = path
          <6>1. n + 1 \in 1..Len(archive')
            BY <1>4, <1>11
          <6>2. QED
            BY <1>11, <5>2, <6>1 DEF Covered
        <5>3. CASE /\ k < Len(q) /\ Append(path, q[k + 1]) \in DOMAIN fs
                   /\ SubSeq(q, 1, k + 1) = Append(path, q[k + 1])
                   /\ q[k + 1] \in Names /\ q[k + 1] \notin Skipped
          <6>1. PICK m \in 1..c : kids[m] = SubSeq(q, 1, k + 1)
            BY <1>8, <5>3
          <6>2. m \in 1..Len(todo') /\ todo'[m] = SubSeq(q, 1, k + 1)
            <7>1. c \in Nat /\ t \in Nat \ {0} /\ Len(todo') = c + (t - 1)
              BY <1>2, <1>8, <1>9
            <7>2. m \in 1..Len(todo')
              <8> HIDE DEF c, t
              <8> QED BY <7>1 DEF c
            <7>3. todo'[m] = kids[m]
              BY <1>9
            <7>4. QED
              BY <6>1, <7>2, <7>3
          <6>3. k + 1 \in 1..Len(q)
            <7>1. Len(q) \in Nat
              BY <1>1 DEF Types, IsTree
            <7>2. QED
              BY <5>3, <7>1
          <6>4. QED
            BY <6>2, <6>3 DEF Covered
        <5>4. QED
          BY <5>1, <5>2, <5>3
      <4>2. CASE i # 1
        <5>1. i - 1 \in 1..(t - 1) /\ (i - 1) + 1 = i
          BY <1>2, <4>2
        <5>2. todo'[c + (i - 1)] = todo[i] /\ c + (i - 1) \in 1..Len(todo')
          BY <1>2, <1>8, <1>9, <5>1
        <5>3. QED
          BY <3>3, <5>2 DEF Covered
      <4>3. QED
        BY <4>1, <4>2
    <3>4. QED
      BY <3>1, <3>2, <3>3 DEF Covered
  <2>12. QED
    BY <1>3, <1>11, <2>1, <2>10, <2>11, GoesOn
<1>12. QED
  BY <1>3, <1>10, <1>11

\* At last: everything that is to be packed has been, and the trailer ends it.
LEMMA TrailerStep == RInv /\ Trailer => RInv'
<1> SUFFICES ASSUME RInv, Trailer
             PROVE  RInv'
  OBVIOUS
<1> DEFINE n == Len(archive)
           end == <<TrailerName>>
<1>1. Types /\ Offsets /\ LineInv /\ CoverInv /\ ArchiveIsTree /\ ArchiveSorted
  BY DEF RInv
<1>2. /\ packing = "todo" /\ todo = << >> /\ Eject(end, "trailer", 0)
      /\ UNCHANGED <<fs, config, todo, file, changes>>
  BY DEF Trailer
<1>3. /\ Offsets'
      /\ \/ packing' = "crashed" /\ UNCHANGED archive
         \/ /\ packing' = "packed"
            /\ IsSeq(archive') /\ Len(archive') = n + 1
            /\ \A i \in 1..n : archive'[i] = archive[i]
            /\ archive'[n + 1].path = end
            /\ archive'[n + 1].kind = "trailer"
  BY <1>1, <1>2, Ejected
<1>4. CASE packing' = "crashed" /\ UNCHANGED archive
  <2>1. todo' \in Seq(Paths)
    BY <1>1, <1>2 DEF Types
  <2>2. QED
    BY <1>2, <1>3, <1>4, <2>1, Stops
<1>5. CASE /\ packing' = "packed"
           /\ IsSeq(archive') /\ Len(archive') = n + 1
           /\ \A i \in 1..n : archive'[i] = archive[i]
           /\ archive'[n + 1].path = end
           /\ archive'[n + 1].kind = "trailer"
  <2>1. Types'
    BY <1>1, <1>2, <1>5 DEF Types
  <2>2. n \in Nat /\ DOMAIN archive = 1..n /\ DOMAIN archive' = 1..(n + 1)
    BY <1>1, <1>5 DEF Types, IsSeq
  <2>3. /\ Orderly(Line) /\ \A i \in 1..n : archive[i].kind # "trailer"
    BY <1>1, <1>2 DEF LineInv
  <2>4. \A i \in 1..n : archive[i].path \in Seq(Names)
    <3>1. \A i \in 1..n : i \in 1..Len(Line) /\ Line[i] = archive[i].path
      BY <1>1, LineFacts DEF LineSays
    <3>2. \A i \in 1..Len(Line) : Line[i] \in Paths
      BY <2>3 DEF Orderly
    <3>3. QED
      BY <3>1, <3>2 DEF Paths
  <2>5. \A i \in 1..n : archive[i].path # end
    <3> SUFFICES ASSUME NEW i \in 1..n, archive[i].path = end
                 PROVE  FALSE
      OBVIOUS
    <3>1. end \in Seq(Names) /\ Len(end) = 1 /\ end[1] = TrailerName
      BY <2>4
    <3> HIDE DEF end
    <3>2. TrailerName \in Names
      BY <3>1
    <3>3. QED
      BY <3>2, NamesAssumption
  <2>6. CoverInv'
    <3> SUFFICES ASSUME NEW q \in DOMAIN fs, IsVisible(q)
                 PROVE  Covered(q)'
      BY <1>2 DEF CoverInv, IsVisible
    <3>1. Covered(q)
      BY <1>1, <1>2 DEF CoverInv
    <3>2. PICK i \in 1..n : archive[i].path = q
      BY <1>2, <3>1 DEF Covered
    <3>3. QED
      BY <1>5, <2>2, <3>2 DEF Covered
  <2> HIDE DEF end, n
  <2>7. ArchiveIsTree'
    <3>1. IsInjective([i \in Records |-> archive[i].path])'
      <4>1. \A i, j \in 1..n : archive[i].path = archive[j].path => i = j
        BY <1>1, <2>2 DEF ArchiveIsTree, IsInjective, Records
      <4>2. \A i, j \in 1..(n + 1) : archive'[i].path = archive'[j].path => i = j
        <5> TAKE i, j \in 1..(n + 1)
        <5>1. (i \in 1..n \/ i = n + 1) /\ (j \in 1..n \/ j = n + 1)
          BY <2>2
        <5>2. QED
          BY <1>5, <2>5, <4>1, <5>1
      <4>3. Records' = 1..(n + 1)
        BY <2>2 DEF Records
      <4>4. QED
        BY <4>2, <4>3 DEF IsInjective
    <3>2. \A i \in 1..(n + 1) : archive'[i].kind # "trailer" =>
              /\ \A m \in Range(archive'[i].path) : m \notin Skipped
              /\ Len(archive'[i].path) > 1 =>
                    \E j \in 1..(i - 1) : /\ archive'[j].path = Front(archive'[i].path)
                                          /\ archive'[j].kind = "dir"
      <4> SUFFICES ASSUME NEW i \in 1..(n + 1), archive'[i].kind # "trailer"
                   PROVE  /\ \A m \in Range(archive'[i].path) : m \notin Skipped
                          /\ Len(archive'[i].path) > 1 =>
                                \E j \in 1..(i - 1) : /\ archive'[j].path = Front(archive'[i].path)
                                                      /\ archive'[j].kind = "dir"
        OBVIOUS
      <4>1. i \in 1..n /\ archive'[i] = archive[i] /\ archive[i].kind # "trailer"
        BY <1>5, <2>2
      <4>2. \A j \in 1..(i - 1) : archive'[j] = archive[j]
        BY <1>5, <2>2, <4>1
      <4>3. /\ \A m \in Range(archive[i].path) : m \notin Skipped
            /\ Len(archive[i].path) > 1 =>
                  \E j \in 1..(i - 1) : /\ archive[j].path = Front(archive[i].path)
                                        /\ archive[j].kind = "dir"
        BY <1>1, <2>2, <4>1 DEF ArchiveIsTree, Records
      <4>4. QED
        BY <4>1, <4>2, <4>3
    <3>3. { p \in DOMAIN fs : \A m \in Range(p) : m \notin Skipped }
             \subseteq { archive'[i].path : i \in 1..(n + 1) }
      <4> SUFFICES ASSUME NEW p \in DOMAIN fs, IsVisible(p)
                   PROVE  \E i \in 1..(n + 1) : archive'[i].path = p
        BY DEF IsVisible
      <4>1. Covered(p)'
        BY <1>2, <1>5, <2>6 DEF CoverInv, IsVisible
      <4>2. QED
        BY <1>2, <1>5, <4>1 DEF Covered, n
    <3>4. QED
      <4>1. Records' = 1..(n + 1)
        BY <2>2 DEF Records
      <4>2. fs' = fs
        BY <1>2
      <4>3. QED
        BY <3>1, <3>2, <3>3, <4>1, <4>2 DEF ArchiveIsTree
  <2>8. ArchiveSorted'
    <3> SUFFICES ASSUME NEW i \in 1..(n + 1), NEW j \in 1..(n + 1), i < j,
                        archive'[j].kind # "trailer",
                        Len(archive'[i].path) = Len(archive'[j].path),
                        Front(archive'[i].path) = Front(archive'[j].path)
                 PROVE  Last(archive'[i].path) < Last(archive'[j].path)
      BY <2>2 DEF ArchiveSorted, Records
    <3>1. j \in 1..n /\ i \in 1..n
      BY <1>5, <2>2
    <3>2. archive'[i] = archive[i] /\ archive'[j] = archive[j]
      BY <1>5, <3>1
    <3>3. QED
      BY <1>1, <2>2, <3>1, <3>2 DEF ArchiveSorted, Records
  <2>9. LineInv'
    BY <1>5 DEF LineInv
  <2>10. QED
    BY <1>3, <2>1, <2>6, <2>7, <2>8, <2>9 DEF RInv
<1>6. QED
  BY <1>3, <1>4, <1>5

\* What somebody else does to the files.
LEMMA ChangeStep == RInv /\ Change => RInv'
<1> SUFFICES ASSUME RInv, Change
             PROVE  RInv'
  OBVIOUS
<1>1. Types /\ Offsets /\ LineInv /\ CoverInv
  BY DEF RInv
<1>2. /\ packing \in {"todo", "read"} /\ changes < MaxChanges /\ changes' = changes + 1
      /\ UNCHANGED <<config, todo, file, archive, total, packing>>
  BY DEF Change
<1>3. IsTree(fs)' /\ DOMAIN fs' \subseteq DOMAIN fs
  <2>1. PICK p \in DOMAIN fs :
          /\ fs[p].kind = "file"
          /\ \/ fs' = [q \in DOMAIN fs \ {p} |-> fs[q]]
             \/ \E size \in {fs[p].size - 1, fs[p].size + 1} \cap Nat :
                   fs' = [fs EXCEPT ![p].size = size]
    BY DEF Change
  <2>2. IsTree(fs)
    BY <1>1 DEF Types
  <2>3. CASE fs' = [q \in DOMAIN fs \ {p} |-> fs[q]]
    <3>1. DOMAIN fs' = DOMAIN fs \ {p} /\ \A q \in DOMAIN fs' : fs'[q] = fs[q]
      BY <2>3
    <3>2. \A q \in DOMAIN fs : \A k \in 1..(Len(q) - 1) : SubSeq(q, 1, k) \in DOMAIN fs'
      BY <2>1, <2>2, <3>1 DEF IsTree
    <3>3. \A q \in DOMAIN fs' :
             /\ fs'[q] \in [kind : {"dir", "link", "file", "device"}, size : Nat]
             /\ \A k \in 1..(Len(q) - 1) :
                   SubSeq(q, 1, k) \in DOMAIN fs' /\ fs'[SubSeq(q, 1, k)].kind = "dir"
      <4> SUFFICES ASSUME NEW q \in DOMAIN fs'
                   PROVE  /\ fs'[q] \in [kind : {"dir", "link", "file", "device"}, size : Nat]
                          /\ \A k \in 1..(Len(q) - 1) :
                                SubSeq(q, 1, k) \in DOMAIN fs' /\ fs'[SubSeq(q, 1, k)].kind = "dir"
        OBVIOUS
      <4>1. q \in DOMAIN fs /\ fs'[q] = fs[q]
        BY <3>1
      <4>2. fs[q] \in [kind : {"dir", "link", "file", "device"}, size : Nat]
        BY <2>2, <4>1 DEF IsTree
      <4>3. ASSUME NEW k \in 1..(Len(q) - 1)
            PROVE  SubSeq(q, 1, k) \in DOMAIN fs' /\ fs'[SubSeq(q, 1, k)].kind = "dir"
        <5>1. SubSeq(q, 1, k) \in DOMAIN fs'
          BY <3>2, <4>1
        <5>2. fs'[SubSeq(q, 1, k)] = fs[SubSeq(q, 1, k)]
          BY <3>1, <5>1
        <5>3. fs[SubSeq(q, 1, k)].kind = "dir"
          BY <2>2, <4>1 DEF IsTree
        <5>4. QED
          BY <5>1, <5>2, <5>3
      <4>4. QED
        BY <4>1, <4>2, <4>3
    <3>4. QED
      BY <2>2, <3>1, <3>3 DEF IsTree
  <2>4. ASSUME NEW size \in Nat, fs' = [fs EXCEPT ![p].size = size]
        PROVE  IsTree(fs)' /\ DOMAIN fs' \subseteq DOMAIN fs
    <3>1. DOMAIN fs' = DOMAIN fs /\ \A q \in DOMAIN fs : q # p => fs'[q] = fs[q]
      BY <2>4
    <3>2. fs[p] \in [kind : {"dir", "link", "file", "device"}, size : Nat]
      BY <2>2 DEF IsTree
    <3>3. fs'[p] = [fs[p] EXCEPT !.size = size]
      BY <2>4
    <3>4. /\ fs'[p] \in [kind : {"dir", "link", "file", "device"}, size : Nat]
          /\ fs'[p].kind = fs[p].kind
      BY <3>2, <3>3
    <3>5. \A q \in DOMAIN fs :
             /\ fs'[q] \in [kind : {"dir", "link", "file", "device"}, size : Nat]
             /\ fs'[q].kind = fs[q].kind
      BY <2>2, <3>1, <3>4 DEF IsTree
    <3>6. QED
      BY <2>2, <3>1, <3>5 DEF IsTree
  <2>5. QED
    BY <2>1, <2>3, <2>4
<1>4. Types'
  <2>1. changes' \in 0..MaxChanges
    BY <1>1, <1>2, NamesAssumption DEF Types
  <2>2. QED
    BY <1>1, <1>2, <1>3, <2>1 DEF Types
<1>5. Offsets'
  BY <1>1, <1>2 DEF Offsets, EndOf
<1>6. Line' = Line
  BY <1>2 DEF Line, Reading
<1>7. LineInv'
  BY <1>1, <1>2, <1>6 DEF LineInv, Orderly, DirsFirst, IsVisible, Siblings
<1>8. CoverInv'
  BY <1>1, <1>2, <1>3 DEF CoverInv, Covered, IsVisible
<1>9. QED
  BY <1>2, <1>4, <1>5, <1>7, <1>8, GoesOn

LEMMA VisitStep == RInv /\ Visit => RInv'
<1> SUFFICES ASSUME RInv, Visit
             PROVE  RInv'
  OBVIOUS
<1> DEFINE path == Head(todo)
<1>1. Types /\ Offsets
  BY DEF RInv
<1>2. packing = "todo" /\ todo # << >> /\ UNCHANGED <<fs, config, changes>>
  BY DEF Visit
<1>3. CASE Die /\ UNCHANGED <<todo, file>>
  <2>1. Offsets' /\ todo' \in Seq(Paths)
    BY <1>1, <1>2, <1>3 DEF Die, Offsets, EndOf, Types
  <2>2. QED
    BY <1>2, <1>3, <2>1, Stops DEF Die
<1>4. CASE /\ path \in DOMAIN fs /\ fs[path].kind = "dir"
           /\ Eject(path, "dir", 0)
           /\ todo' = Children(path) \o Tail(todo)
           /\ UNCHANGED file
  BY <1>2, <1>4, DirStep
<1>5. CASE /\ path \in DOMAIN fs /\ fs[path].kind = "link"
           /\ Eject(path, "link", IF fs[path].size > 1024 THEN 1024 ELSE fs[path].size)
           /\ todo' = Tail(todo)
           /\ UNCHANGED file
  <2>1. (IF fs[path].size > 1024 THEN 1024 ELSE fs[path].size) \in Nat
    BY <1>1, <1>5 DEF Types, IsTree
  <2>2. QED
    BY <1>2, <1>5, <2>1, LinkStep
<1>6. CASE /\ path \in DOMAIN fs /\ fs[path].kind = "file"
           /\ file' = [path |-> path, size |-> fs[path].size]
           /\ packing' = "read"
           /\ todo' = Tail(todo)
           /\ UNCHANGED <<archive, total>>
  BY <1>2, <1>6, FileStep
<1>7. QED
  BY <1>3, <1>4, <1>5, <1>6 DEF Visit

LEMMA ReadFileStep == RInv /\ ReadFile => RInv'
<1> SUFFICES ASSUME RInv, ReadFile
             PROVE  RInv'
  OBVIOUS
<1>1. packing = "read" /\ UNCHANGED <<fs, config, todo, file, changes>>
  BY DEF ReadFile
<1>2. CASE Eject(file.path, "file", file.size)
  BY <1>1, <1>2, ReadStep
<1>3. CASE Die
  <2>1. Offsets' /\ todo' \in Seq(Paths)
    BY <1>1, <1>3 DEF RInv, Die, Offsets, EndOf, Types
  <2>2. QED
    BY <1>1, <1>3, <2>1, Stops DEF Die
<1>4. QED
  BY <1>2, <1>3 DEF ReadFile

LEMMA RInvStep == RInv /\ [RamdiskNext]_ramdisk => RInv'
<1> SUFFICES ASSUME RInv, [RamdiskNext]_ramdisk
             PROVE  RInv'
  OBVIOUS
<1>1. CASE UNCHANGED ramdisk
  <2>1. UNCHANGED <<fs, config, todo, file, archive, total, packing, changes>>
    BY <1>1 DEF ramdisk
  <2>2. Types' /\ Offsets' /\ CoverInv'
    BY <2>1 DEF RInv, Types, Offsets, CoverInv, Covered, EndOf, IsVisible
  <2>3. Line' = Line
    BY <2>1 DEF Line, Reading
  <2>4. LineInv'
    BY <2>1, <2>3 DEF RInv, LineInv, Orderly, DirsFirst, IsVisible, Siblings
  <2>5. ArchiveIsTree' /\ ArchiveSorted'
    BY <2>1 DEF RInv, ArchiveIsTree, ArchiveSorted, Records
  <2>6. QED
    BY <2>2, <2>4, <2>5 DEF RInv
<1>2. QED
  BY <1>1, VisitStep, ReadFileStep, TrailerStep, ChangeStep DEF RamdiskNext

LEMMA RInvInit == RamdiskInit => RInv
<1> SUFFICES ASSUME RamdiskInit
             PROVE  RInv
  OBVIOUS
<1> DEFINE kids == Children(<< >>)
<1>1. /\ fs \in Trees /\ todo = kids /\ archive = << >> /\ total = 0 /\ packing = "todo"
      /\ changes = 0
  BY DEF RamdiskInit
<1>2. << >> \in Seq(Names) /\ IsVisible(<< >>) /\ Len(<< >>) = 0
  BY DEF IsVisible, Range
<1>3. /\ kids \in Seq(Paths)
      /\ \A i \in 1..Len(kids) : /\ IsVisible(kids[i]) /\ Len(kids[i]) = 1
      /\ \A i, j \in 1..Len(kids) : i < j => Last(kids[i]) < Last(kids[j])
      /\ \A n \in Names : Append(<< >>, n) \in DOMAIN fs /\ n \notin Skipped =>
            \E i \in 1..Len(kids) : kids[i] = Append(<< >>, n)
  <2>1. PICK d \in Seq(Names) : d = << >> /\ IsVisible(d) /\ Len(d) = 0
    BY <1>2
  <2>2. /\ Children(d) \in Seq(Paths)
        /\ \A i \in 1..Len(Children(d)) :
              IsVisible(Children(d)[i]) /\ Len(Children(d)[i]) = Len(d) + 1
        /\ \A i, j \in 1..Len(Children(d)) :
              i < j => Last(Children(d)[i]) < Last(Children(d)[j])
        /\ \A n \in Names : Append(d, n) \in DOMAIN fs /\ n \notin Skipped =>
              \E i \in 1..Len(Children(d)) : Children(d)[i] = Append(d, n)
    BY <2>1, Kids
  <2>3. Len(d) + 1 = 1 /\ Children(d) = kids
    BY <2>1
  <2> HIDE DEF kids
  <2>4. /\ \A i \in 1..Len(kids) : IsVisible(kids[i]) /\ Len(kids[i]) = 1
        /\ \A i, j \in 1..Len(kids) : i < j => Last(kids[i]) < Last(kids[j])
    BY <2>2, <2>3
  <2>5. \A n \in Names : Append(<< >>, n) \in DOMAIN fs /\ n \notin Skipped =>
           \E i \in 1..Len(kids) : kids[i] = Append(<< >>, n)
    BY <2>1, <2>2, <2>3
  <2>6. QED
    BY <2>2, <2>3, <2>4, <2>5
<1> HIDE DEF kids
<1>4. Types
  <2>1. IsTree(fs)
    BY <1>1, TreesAssumption
  <2>2. IsSeq(archive)
    BY <1>1 DEF IsSeq
  <2>3. QED
    BY <1>1, <1>3, <2>1, <2>2, NamesAssumption DEF Types
<1>5. Offsets
  BY <1>1 DEF Offsets, EndOf
<1>6. Line \in Seq(Paths) /\ Len(Line) = Len(kids) /\ \A i \in 1..Len(kids) : Line[i] = kids[i]
  <2>1. Len(archive) = 0 /\ Reading = 0
    BY <1>1 DEF Reading
  <2>2. /\ Len(Line) = Len(archive) + Reading + Len(todo)
        /\ \A i \in 1..Len(todo) : Line[Len(archive) + Reading + i] = todo[i]
        /\ DOMAIN Line = 1..Len(Line)
    BY <1>4, LineFacts DEF LineSays
  <2>3. Len(kids) \in Nat /\ \A i \in 1..Len(kids) : 0 + 0 + i = i /\ kids[i] \in Paths
    BY <1>3
  <2>4. Len(Line) = Len(kids) /\ \A i \in 1..Len(kids) : Line[i] = kids[i]
    BY <1>1, <2>1, <2>2, <2>3
  <2>5. Line = [i \in 1..Len(kids) |-> Line[i]]
    <3>1. Line = [i \in DOMAIN Line |-> Line[i]]
      BY DEF Line
    <3>2. QED
      BY <2>2, <2>4, <3>1
  <2> DEFINE l == Line
             N == Len(kids)
  <2>6. l = [i \in 1..N |-> l[i]] /\ (\A i \in 1..N : l[i] \in Paths) /\ N \in Nat
    BY <2>3, <2>4, <2>5
  <2> HIDE DEF l, N
  <2>7. l \in [1..N -> Paths]
    BY <2>6
  <2>8. l \in Seq(Paths)
    BY <2>6, <2>7
  <2>9. QED
    BY <2>4, <2>8 DEF l
<1>7. Orderly(Line)
  <2>1. \A i \in 1..Len(kids) : Last(kids[i]) \in Nat
    <3> TAKE i \in 1..Len(kids)
    <3>1. kids[i] \in Paths
      BY <1>3
    <3>2. kids[i][Len(kids[i])] \in Names
      BY <3>1 DEF Paths
    <3>3. QED
      BY <3>2, NamesAssumption DEF Last
  <2>2. \A i, j \in 1..Len(kids) : kids[i] = kids[j] => i = j
    <3> SUFFICES ASSUME NEW i \in 1..Len(kids), NEW j \in 1..Len(kids), kids[i] = kids[j], i # j
                 PROVE  FALSE
      OBVIOUS
    <3>1. i < j \/ j < i
      OBVIOUS
    <3>2. Last(kids[i]) < Last(kids[j]) \/ Last(kids[j]) < Last(kids[i])
      BY <1>3, <3>1
    <3>3. Last(kids[i]) \in Nat /\ Last(kids[i]) = Last(kids[j])
      BY <2>1
    <3>4. QED
      BY <3>2, <3>3
  <2>3. \A i \in 1..Len(Line) : IsVisible(Line[i])
    BY <1>3, <1>6
  <2>4. \A i, j \in 1..Len(Line) : Line[i] = Line[j] => i = j
    BY <1>6, <2>2
  <2>5. \A i, j \in 1..Len(Line) : i < j => Last(Line[i]) < Last(Line[j])
    BY <1>3, <1>6
  <2>6. QED
    BY <1>6, <2>3, <2>4, <2>5 DEF Orderly
<1>8. LineInv
  <2>1. DirsFirst(Line)
    <3>1. \A i \in 1..Len(Line) : Len(Line[i]) = 1
      BY <1>3, <1>6
    <3>2. SUFFICES ASSUME NEW j \in 1..Len(Line), Len(Line[j]) > 1
                   PROVE  FALSE
      BY DEF DirsFirst
    <3>3. Len(Line[j]) = 1
      BY <3>1
    <3>4. QED
      BY <3>2, <3>3
  <2>2. \A i \in 1..Len(archive) : archive[i].kind # "trailer"
    BY <1>1
  <2>3. QED
    BY <1>1, <1>7, <2>1, <2>2 DEF LineInv
<1>9. CoverInv
  <2> SUFFICES ASSUME NEW p \in DOMAIN fs, IsVisible(p)
               PROVE  Covered(p)
    BY DEF CoverInv
  <2>1. p \in Seq(Names) /\ Len(p) \in Nat \ {0}
    BY <1>4 DEF Types, IsTree
  <2>2. 1 \in 1..Len(p) /\ p[1] \in Names
    BY <2>1
  <2>3. SubSeq(p, 1, 1) = Append(<< >>, p[1])
    <3>1. SubSeq(p, 1, 1) \in Seq(Names) /\ Len(SubSeq(p, 1, 1)) = 1 /\ SubSeq(p, 1, 1)[1] = p[1]
      BY <2>1, <2>2
    <3>2. SubSeq(p, 1, 1) = << SubSeq(p, 1, 1)[1] >>
      <4> DEFINE s == SubSeq(p, 1, 1)
      <4>1. s \in Seq(Names) /\ Len(s) = 1
        BY <3>1
      <4> HIDE DEF s
      <4>2. s = <<s[1]>>
        BY <4>1
      <4>3. QED
        BY <4>2 DEF s
    <3>3. Append(<< >>, p[1]) = <<p[1]>>
      OBVIOUS
    <3>4. QED
      BY <3>1, <3>2, <3>3
  <2>4. p[1] \notin Skipped
    BY <2>1, <2>2 DEF IsVisible, Range
  <2>5. SubSeq(p, 1, 1) \in DOMAIN fs
    <3>1. CASE Len(p) = 1
      <4>1. SubSeq(p, 1, 1) = p
        <5>1. p = SubSeq(p, 1, Len(p))
          BY <2>1
        <5>2. QED
          BY <3>1, <5>1
      <4>2. QED
        BY <4>1
    <3>2. CASE Len(p) # 1
      <4>1. 1 \in 1..(Len(p) - 1)
        <5> DEFINE m == Len(p)
        <5>1. m \in Nat \ {0} /\ m # 1
          BY <2>1, <3>2
        <5> HIDE DEF m
        <5>2. 1 \in 1..(m - 1)
          BY <5>1
        <5>3. QED
          BY <5>2 DEF m
      <4>2. QED
        BY <1>4, <4>1 DEF Types, IsTree
    <3>3. QED
      BY <3>1, <3>2
  <2>6. \E i \in 1..Len(kids) : kids[i] = SubSeq(p, 1, 1)
    BY <1>3, <2>2, <2>3, <2>4, <2>5
  <2>7. QED
    BY <1>1, <2>2, <2>6 DEF Covered
<1>10. ArchiveIsTree /\ ArchiveSorted
  BY <1>1, <1>4, <1>8, FromLine
<1>11. QED
  BY <1>4, <1>5, <1>8, <1>9, <1>10 DEF RInv

LEMMA ParsesFromOffsets == RInv => ArchiveParses
<1> SUFFICES ASSUME RInv
             PROVE  ArchiveParses
  OBVIOUS
<1>1. Records = 1..Len(archive) /\ Len(archive) \in Nat
  BY DEF RInv, Types, IsSeq, Records
<1>2. \A i \in 1..Len(archive) :
         /\ archive[i].at % 4 = 0 /\ archive[i].data % 4 = 0
         /\ archive[i].ino = FirstIno + i - 1
         /\ archive[i].at =
                IF i = 1 THEN 0 ELSE Padded(archive[i - 1].data + archive[i - 1].size)
  BY DEF RInv, Offsets
<1>3. \A i, j \in 1..Len(archive) : archive[i].ino = archive[j].ino => i = j
  BY <1>1, <1>2, AnIno
<1>4. IsInjective([i \in Records |-> archive[i].ino])
  BY <1>1, <1>3 DEF IsInjective
<1>5. packing = "packed" => total % 256 = 0
  BY DEF RInv, Offsets
<1>6. QED
  BY <1>1, <1>2, <1>4, <1>5 DEF ArchiveParses

LEMMA RamdiskTyped == RInv => RamdiskTypeOK
<1> SUFFICES ASSUME RInv
             PROVE  RamdiskTypeOK
  OBVIOUS
<1>1. \A p \in Range(todo) : p \in Seq(Names)
  BY DEF RInv, Types, Range, Paths
<1>2. QED
  BY <1>1 DEF RInv, Types, Offsets, RamdiskTypeOK

-------------------------------------------------------------------------------
(* The whole of what the run checks of the archive.                            *)

\* What has been written ends where the output does; the header tells what the
\* arguments say or nothing.
EndsInv ==
    /\ pos \in Nat
    /\ step \in Writing => \A i \in DOMAIN image : image[i].at + image[i].size <= pos
    /\ \A f \in Names4 : hdr[f] \in {0, args[f]}
    /\ step = "args" => \A f \in Names4 : hdr[f] = 0

LEMMA PutEnds ==
    ASSUME BInv, EndsInv, NEW f \in Names4, NEW like \in Names4, NEW next, next # "args",
           Put(f, hdr[f], hdr[like], next), UNCHANGED <<args, hdr>>, step \in Writing
    PROVE  EndsInv'
<1>1. CASE Fail
  <2>1. pos' = 0 /\ step' = "failed"
    BY <1>1 DEF Fail
  <2>2. QED
    BY <2>1 DEF EndsInv, Writing
<1>2. CASE /\ image' = Append(image, [what |-> f, at |-> pos, size |-> hdr[f]])
           /\ pos' = pos + hdr[f] + Padding(hdr[like])
           /\ step' = next
  <2> DEFINE r == [what |-> f, at |-> pos, size |-> hdr[f]]
  <2>1. image \in Seq(Section) /\ pos \in Nat
    BY DEF BInv, Layout
  <2>2. hdr[f] \in Nat /\ hdr[like] \in Nat
    BY PagesOf
  <2>3. Padding(hdr[like]) \in Nat
    BY <2>2, PagesType DEF Writing
  <2>4. r \in Section /\ r.at = pos /\ r.size = hdr[f]
    BY <2>1, <2>2 DEF Section
  <2>5. image' = Append(image, r)
    BY <1>2
  <2> HIDE DEF r
  <2>6. pos' \in Nat /\ pos + hdr[f] <= pos' /\ pos <= pos'
    BY <1>2, <2>1, <2>2, <2>3
  <2>7. /\ DOMAIN image = 1..Len(image) /\ DOMAIN image' = 1..(Len(image) + 1) /\ Len(image) \in Nat
        /\ \A i \in 1..Len(image) : image'[i] = image[i] /\ image[i] \in Section
        /\ image'[Len(image) + 1] = r
    BY <2>1, <2>4, <2>5
  <2>8. ASSUME NEW i \in DOMAIN image'
        PROVE  image'[i].at + image'[i].size <= pos'
    <3>1. CASE i \in 1..Len(image)
      <4>1. image[i].at + image[i].size <= pos
        BY <2>7, <3>1 DEF EndsInv
      <4>2. image[i].at + image[i].size \in Nat
        BY <2>7, <3>1 DEF Section
      <4>3. image[i].at + image[i].size <= pos'
        BY <2>1, <2>6, <4>1, <4>2
      <4>4. QED
        BY <2>7, <3>1, <4>3
    <3>2. CASE i = Len(image) + 1
      BY <2>4, <2>6, <2>7, <3>2
    <3>3. QED
      BY <2>7, <3>1, <3>2
  <2>9. QED
    BY <1>2, <2>6, <2>8 DEF EndsInv
<1>3. QED
  BY <1>1, <1>2 DEF Put

\* A step that writes nothing.
LEMMA NoSection ==
    ASSUME EndsInv, UNCHANGED <<args, hdr, image, pos>>, step' # "args",
           step' \in Writing => step \in Writing
    PROVE  EndsInv'
BY DEF EndsInv

LEMMA EndsInit == Init => EndsInv
<1> SUFFICES ASSUME Init
             PROVE  EndsInv
  OBVIOUS
<1>1. hdr = [f \in Names4 |-> 0] /\ pos = 0 /\ step = "args"
  BY TheFiles DEF Init, BootInit, NoHdr
<1>2. QED
  BY <1>1 DEF EndsInv, Writing

LEMMA EndsStep == BInv /\ EndsInv /\ [Next]_vars => EndsInv'
<1> SUFFICES ASSUME BInv, EndsInv, [Next]_vars
             PROVE  EndsInv'
  OBVIOUS
<1>1. CASE UNCHANGED bootimg
  BY <1>1 DEF bootimg, EndsInv
<1>2. ASSUME CheckArgs
      PROVE  EndsInv'
  <2>1. step = "args" /\ step' \in {"kernel", "failed"} /\ UNCHANGED <<hdr, image, pos>>
    BY <1>2 DEF CheckArgs
  <2>2. QED
    BY <2>1 DEF EndsInv, Writing
<1>3. ASSUME NEW f \in Names4, Load(f)
      PROVE  EndsInv'
  <2>1. UNCHANGED <<args, image, pos>> /\ step = f
    BY <1>3 DEF Load, Refuse
  <2>2. CASE step' = "failed" /\ UNCHANGED hdr
    BY <2>1, <2>2, NoSection DEF Writing
  <2>3. CASE /\ hdr' = [hdr EXCEPT ![f] = IF Given(f) THEN args[f] ELSE 0]
             /\ step' = NextFile(f)
    <3>1. step' \in {"ramdisk", "second", "dt", "header"}
      BY <2>3 DEF NextFile, Names4
    <3>2. \A x \in Names4 : hdr'[x] \in {0, args[x]}
      BY <2>3 DEF EndsInv, BInv, HdrInv
    <3>3. QED
      BY <2>1, <3>1, <3>2 DEF EndsInv, Writing
  <2>4. QED
    BY <1>3, <2>2, <2>3 DEF Load, Refuse
<1>4. ASSUME WriteHeader
      PROVE  EndsInv'
  <2>1. UNCHANGED <<args, hdr>> /\ step = "header"
    BY <1>4 DEF WriteHeader, Refuse
  <2>2. CASE Refuse
    BY <2>1, <2>2, NoSection DEF Refuse, Writing
  <2>3. CASE Fail
    <3>1. pos' = 0 /\ step' = "failed"
      BY <2>3 DEF Fail
    <3>2. QED
      BY <2>1, <3>1 DEF EndsInv, Writing
  <2>4. CASE /\ image' = << [what |-> "header", at |-> 0, size |-> HeaderSize] >>
             /\ pos' = HeaderSize + Padding(HeaderSize)
             /\ step' = "write kernel"
    <3>1. HeaderSize \in Nat
      BY SizesAssumption
    <3>2. Padding(HeaderSize) \in Nat
      BY <2>1, <3>1, PagesType
    <3>3. pos' \in Nat /\ HeaderSize <= pos'
      <4>1. pos' = HeaderSize + Padding(HeaderSize)
        BY <2>4
      <4>2. QED
        BY <3>1, <3>2, <4>1
    <3>4. \A i \in DOMAIN image' : image'[i].at = 0 /\ image'[i].size = HeaderSize
      <4> DEFINE h == [what |-> "header", at |-> 0, size |-> HeaderSize]
      <4>1. image' = <<h>> /\ h.at = 0 /\ h.size = HeaderSize
        BY <2>4
      <4> HIDE DEF h
      <4>2. DOMAIN <<h>> = {1} /\ <<h>>[1] = h
        OBVIOUS
      <4>3. QED
        BY <4>1, <4>2
    <3>5. \A i \in DOMAIN image' : image'[i].at + image'[i].size <= pos'
      BY <3>1, <3>3, <3>4
    <3>6. QED
      BY <2>1, <2>4, <3>3, <3>5 DEF EndsInv
  <2>5. QED
    BY <1>4, <2>2, <2>3, <2>4 DEF WriteHeader
<1>5. ASSUME WriteKernel
      PROVE  EndsInv'
  BY <1>5, PutEnds DEF WriteKernel, Names4, Writing
<1>6. ASSUME WriteRamdisk
      PROVE  EndsInv'
  BY <1>6, PutEnds DEF WriteRamdisk, Names4, Writing
<1>7. ASSUME WriteSecond
      PROVE  EndsInv'
  <2>1. CASE Given("second")
    BY <1>7, <2>1, PutEnds DEF WriteSecond, Names4, Writing
  <2>2. CASE ~Given("second")
    BY <1>7, <2>2, NoSection DEF WriteSecond, Writing
  <2>3. QED
    BY <2>1, <2>2
<1>8. ASSUME WriteDt
      PROVE  EndsInv'
  <2>1. CASE Given("dt")
    BY <1>8, <2>1, PutEnds DEF WriteDt, Names4, Writing
  <2>2. CASE ~Given("dt")
    BY <1>8, <2>2, NoSection DEF WriteDt, Writing
  <2>3. QED
    BY <2>1, <2>2
<1>9. CASE BootNext
  BY <1>2, <1>3, <1>4, <1>5, <1>6, <1>7, <1>8, <1>9, TheFiles DEF BootNext
<1>10. QED
  BY <1>1, <1>9 DEF Next, vars

LEMMA TypesFrom == RInv /\ BInv /\ EndsInv => TypeOK
<1> SUFFICES ASSUME RInv, BInv, EndsInv
             PROVE  TypeOK
  OBVIOUS
<1>1. RamdiskTypeOK
  BY RamdiskTyped
<1>2. \A f \in Range(Files) : hdr[f] \in {0, args[f]}
  BY TheFiles DEF EndsInv
<1>3. image \in {Old, None} \/
        \A i \in DOMAIN image : /\ image[i].what \in Range(Files) \cup {"header"}
                                /\ image[i].at + image[i].size <= pos
  <2>1. CASE step \notin Writing
    BY <2>1 DEF BInv, Layout
  <2>2. CASE step \in Writing
    <3>1. image \in Seq(Section)
      BY <2>2 DEF BInv, Layout
    <3>2. \A i \in DOMAIN image : image[i] \in Section
      BY <3>1
    <3>3. \A i \in DOMAIN image : image[i].what \in Names4 \cup {"header"}
      BY <3>2 DEF Section
    <3>4. QED
      BY <2>2, <3>3, TheFiles DEF EndsInv
  <2>3. QED
    BY <2>1, <2>2
<1>4. QED
  BY <1>1, <1>2, <1>3 DEF TypeOK, EndsInv

\* Whatever the trees, the lines of the configuration and the changes while mkbootfs
\* reads: the archive parses, is a part of the tree with each directory before what it
\* holds, and is sorted; and when it is packed nothing is missing that was there.
THEOREM ArchiveIsSound == Spec => []ArchiveSound
<1>1. Init => RInv
  BY RInvInit DEF Init
<1>2. RInv /\ [Next]_vars => RInv'
  <2> SUFFICES ASSUME RInv, [Next]_vars
               PROVE  RInv'
    OBVIOUS
  <2>1. [RamdiskNext]_ramdisk
    BY DEF Next, vars
  <2>2. QED
    BY <2>1, RInvStep
<1>3. RInv /\ BInv /\ EndsInv => ArchiveSound
  <2>1. RInv => ArchiveIsTree /\ ArchiveSorted
    BY DEF RInv
  <2>2. QED
    BY <2>1, TypesFrom, ParsesFromOffsets DEF ArchiveSound
<1>4. QED
  BY <1>1, <1>2, <1>3, BInvInit, BInvStep, EndsInit, EndsStep, PTL DEF Spec
=============================================================================
