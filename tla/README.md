# B2G Installer: a verification project

The B2G Installer is a Firefox add-on that puts Firefox OS on a phone. It
downloads a *blob-free distribution*, pulls the missing binary blobs from the
phone itself, builds the partition images on the user's computer with tools of Android
that the repository compiles to be shipped with it, reboots the phone
into fastboot mode and flashes it. These modules model the add-on and the tools,
from the code in `src/`; TLC checks them on small instances and TLAPS proves some of
the results for every instance.

## 1. The system

| part | state it keeps | operations | talks to |
|---|---|---|---|
| **page** (`about.js`, `about.xhtml`) | the step shown, the lists of builds, the dialogs, `_isRisky`, `distributionContext`, `deviceContext` | `install()` and its four steps, `deviceConnected()`, `downloadBuildsList()`, the page events | Device module, imaging tools, TelemetryController |
| **Device module** (`about.js` 783-868) | `devicePromise` | `connected`, `disconnected`, `get` | Devices.jsm and the ADB Helper add-on (events, calls on device objects) |
| **builders** (`about.js` 172-431) | a listener and a promise each | `buildRamdisk`, `buildBootable`, `buildSystemImg`, `buildDataImg` | main process, by asynchronous messages |
| **imaging tools** (`imaging_tools.js`, main process) | message listeners, paths of the tools found | `init`, `uninit`, `receiveMessage`, one wrapper per tool | subprocess, files |
| **make_ext4fs** (`tools/ext4_utils`) | groups, bitmaps, inodes, the recursion over the tree | allocation, inodes, directories, superblock | libsparse, libselinux |
| **ext4fixup** (`tools/ext4_utils`) | a state on the disk, the recursion in memory | two passes, bitmaps, superblocks | the image, in place |
| **libsparse** and its four tools (`tools/libsparse`) | a cookie: a sorted list of backed blocks with a hint | add, merge, split, write, read, cut, append, expand | files |
| **mkbootfs**, **mkbootimg** (`tools/cpio`, `tools/mkbootimg`) | the archive or image so far | pack a directory; lay out the sections | each other through a file |
| **libselinux** (`tools/libselinux`) | labels: specifications and stems; avc: a pool of nodes, SIDs, a lock | open, lookup, partial and best match; has_perm, compute_create, notices | files; the kernel's netlink socket |
| **subprocess**, **environment checks**, **bootstrap** | pipes and a pid; none | | |
| pcre, zlib, libmincrypt | third-party copies | | |

What is hard here:

* *messages without an address*: a builder recognises its answer by its name only, and
  several builders wait for the same name (`about.js:190`);
* *promises that never settle* (`imaging_tools.js:250`, `about.js:561`), *chains that nobody
  cancels*, and *a device that is replaced* by root and by reboots while promises hold the old
  object (`about.js:824`, `1117`, `1291`);
* *failures that are swallowed*: exit codes, blobs, flashes, write errors of libsparse;
* *a cached pointer* into a list whose nodes are freed (`backed_block.c:266`);
* *several allocators that must agree*: what is allocated in regions, given back, walked from
  the front and queued for the sparse file (`allocate.c:455`);
* *an interruption between any two writes* of a program that changes a file system in place
  (`ext4fixup.c:649`);
* *a cache next to a thread that empties it*, over a socket that may lose notices
  (`avc.c:1036`, `avc_internal.c:251`);
* *files read twice*, or looked at and read later, while somebody changes them
  (`label_file.c:469`, `mkbootfs.c:228`).

`PROJECT.json` lists each of them at its line under "hazards", with the properties that
cover it or the reason none does.

## 2. The modules

```
ImageBuild            page builders + main process + tools as processes + files
  MC_ImageBuild         its instances for TLC
  ImageBuild_proofs     its theorems
Connect               phones + ADB Helper + Device module + connect/select steps
  Install               EXTENDS Connect: install(), beside everything above
  MC_Connect, MC_Install
  Install_proofs        the theorems of both
BackedBlocks          the sorted list of libsparse, as operators on records
  SparseFile            EXTENDS it: the library's calls and the four tools
  SparseImage           what a cookie promises: the abstract specification
  MC_SparseFile
  SparseFile_proofs     theorems about the lists and how they are cut
  SparseImage_proofs    EXTENDS it: theorems about what lists and files hold
Ext4Groups            geometry and the allocator, as operators
  Ext4Maker             EXTENDS it: make_ext4fs over a tree
  MC_Ext4Maker
Ext4Fixup             ext4fixup with interruptions
  MC_Ext4Fixup, Ext4Fixup_proofs
Ramdisk               mkbootfs over a directory that changes
  BootImage             EXTENDS it: mkbootimg, fed by mkbootfs
  MC_BootImage, BootImage_proofs
Avc                   the access vector cache with its thread and the kernel
  MC_Avc, Avc_proofs
Labels                the label backends
  MC_Labels, Labels_proofs
```

### ImageBuild

A *round* is one call of `imageStep()`. `pc` is where each builder stands: the stages
`"ramdisk"`, `"bootable"` and `"ext4"` mean that its listener for that kind of answer is
registered; `"cmdline"` and `"reading"` that it waits for files. `status` follows a
request from `"sent"` to the running tool, its exit, the answer (`"replied"`,
`"delivered"`) or to `"silent"`: it will have no answer. `replies` is the queue of
answers, in the order sent (one message manager, hence FIFO). `file` says of each output
file whose complete output it is: a round's, or nobody's (`"spoiled"`: partial, made from
incomplete inputs, or written by two tools), or that it is absent. The files are shared by all
rounds because their paths are.

`Deliver` is the heart: it hands the first answer to *every* builder whose listener has that
name (`Hears`), as the message manager does, and settles `Promise.all` in the same
turn. `Start` evaluates the array literal of `imageStep()` in order, so that a
missing fstab entry throws and leaves the builders before it running. `ClosePage`
sends Cleanup synchronously, after the requests still queued; `LeavePage` is the user
who answers the browser's question by leaving, in a risky path, without Cleanup.
Each tool is a process: `Open`, `Finish`, `FailsEarly` and `FailsLate` of all of them
interleave. mkbootimg reads its ramdisk at `Open`. mkbootfs writes nothing itself: the
main process writes its stream, whatever the exit code. The faults are constants.

### Connect and Install

`mode` is the truth about each phone, `registered` what the add-on knows. Each
registration makes a new *object* (`dev`), numbered in order; `devicePromise` and each
chain hold object numbers, so that a stale reference is seen as such. `Settle` runs the
callbacks of a promise; `chain[n]` is the `deviceConnected()` that promise n started.
Several chains may be alive at once and all write the page.

In `Install`, `run` is the install: its phase is what it waits for, and the code that
runs between two waits is one action. It shares the phones, `devicePromise` and the
telemetry with `Connect`, whose actions go on in between, so that root and reboot really
unregister the phone and start new chains. `held` is the device the step under way got from
`Device.get()`; `adb` is `deviceContext.adbDevice`; `wrote` is what each phone has been flashed
with. What `imageStep()` does inside is the subject of ImageBuild; here it succeeds, fails, or stays
silent: a builder waits for a tool whose wrapper rejected (`imaging_tools.js:245`, `"silent"`). `"hung"` is the install that waits for
one of the four calls whose failure nobody handles.

### BackedBlocks, SparseFile, SparseImage

A list is a record: its cells in order, the position of the `last_used` hint, and whether the
cell under the hint has been freed by a merge. The next search then looks at freed memory; what it
finds depends on whether the allocator hands that cell out again for the new block (`ReusesCells`;
`StartOf`, `Prepended`, `MayBeLost`). Cells come from `calloc()`, and whether it gives back what `free()` has just taken is the C library's
choice, hence a constant. Inserting, merging, splitting
and moving between lists are operators. `SparseFile` has an action for every call a client or
a tool makes: adding (`AddFill`, `AddData`, `AddFile`), writing as a sparse or raw file with a device that may be full
from some write on, importing with every way it is refused, counting and cutting twice
(`sparse_file_resparse()` in `simg2simg`), appending, expanding. Lengths are in words of
four bytes, and two words make a block, so that ragged ends, merges within a block's rounding
and cuts at whole blocks all happen.

`SparseImage` is the abstract specification: an image, word by word, that only grows until the
cookie is given up; where the allocator `Loses`, words that are put may be missing, but only while the cookie is `open`, that is, while something is queued. `ImageKept` says that `SparseFile` implements it, with the image read off
the cells of all lists a cookie is spread over (`Content`) as the refinement mapping.

### Ext4Groups and Ext4Maker

`bgs` holds the groups with their bitmaps as sets; an allocation is the list of its regions,
its `list.last` and its iterator, as positions. `Ext4Maker` reads the tree while it makes the image,
as the recursion of `build_directory_structure()` does: `stack` holds its frames, the entries of a directory are
chosen when it is read, and every allocation that may fail does so in the order of the code,
with what was taken before not given back. `image` is what is queued for each block of the sparse
file.

### Ext4Fixup

An inode is its place, a group and an offset; its number follows from the inodes per group. The
variables `magic` to `ents` are the disk, the others the process. A frame of
`recurse_dir()` holds the buffer a directory was read into; `WriteBlock` writes one block of it. `Crash`
takes away the process between any two writes (a fatal error, a failing write, a signal; not a loss of power, after which the
disk may lack writes that came before others, since there is no `fsync()`) and `Start` runs the program again from what is on
the disk. A deleted entry ends the loop over a directory, as in the code: `Reached` are the entries before it.

### Ramdisk and BootImage

`Visit` (lstat) and `ReadFile` of a file are two steps of `mkbootfs`, and `Change` may come in between:
files grow, shrink and disappear. `BootImage` starts when `mkbootfs` has packed the archive, and goes
through options, loads, header, sections and paddings; every write may fail.

### Avc

`chains`, `free`, `entry` and `hint` are the pool; `call` is what each caller is about, `ref` the
reference it keeps from call to call, which may be to a node that has been flushed or given to another pair. The lock is
held from the lookup to the answer, and is taken anew for each step of a reset: emptying the cache, the
callbacks, and noting the sequence number are separate steps (`handling`). The kernel loads policies and switches
enforcing. A decision says whether the domain is permissive: then, as when nothing is enforced, what is denied is added to the
cached entry (`Granted`). The kernel's messages wait in a socket that may overrun. In mode
`"thread"` one process reads them, in mode `"poll"` each caller before it looks into the cache.

### Labels

Opening a handle reads the files a line at a time, twice, and an edit may come at any line. The
array is sized by the first pass. Expressions are sequences of names and what may follow them, which
is enough to tell stems, prefixes, exact and partial matches apart. Lookups are
made of every key and type. The properties speak of the *positions* of lines in the files, in the order they are read,
and never of the array.

## 3. The runs

| run (states) | instance | what it shows |
|---|---|---|
| `build_round` (156,900) | 1 page, 1 round, 4 kinds of fstab, every fault | the anonymous answers may wake a builder too early but never strand one (`WaitingHasRequest`); no builder passes a stage unanswered (`SettledByAnswer`); waiting for a ramdisk always ends (`UnfailingKindsSettle`) |
| `build_reload` (1,014,498) | 2 page loads, 2 rounds, the first failing at once | when data is kept, system.img is complete at the end of the round (`SystemSound`); Cleanup of the old page does not silence the new (`ServedWhenOpen`); only the mix-up leaves a request unanswered (`SilenceIsMixUp`) |
| `images_built` (violation) | 1 round, no fault | imageStep() resolves before its images are complete |
| `connect` (31,364) | 2 phones, 2 objects, unplugging, list late or missing | `Device.get()` never hands out a phone that left or an earlier object (`HandedOutIsRegistered`); the warning follows the number of devices (`TooManyShown`); a phone in use reaches the select step (`ReadyIsSelectable`) |
| `install` (187,928) | 1 phone running B2G, 4 objects, calls, steps and flashes failing, slow restarts, with root and without | user data are only overwritten when asked for (`DataKept`); no ping from the click to the end of the install, whatever chains its reconnections start (`SilentUnderway`); success reported once, a failure never as one, and always unless the device has no properties to report (`ReportsRight`); every image is tried (`EveryImageTried`); the install ends unless the phone stops answering, an unhandled call fails or imageStep() never settles (`InstallEnds`) |
| `sparse` (236,222) | 4 blocks of 2 words, 3 additions of fills, buffers and files in any order; 5 raw images, one of 16 blocks; parts of 28 and 30 words | lists stay sorted and disjoint whatever is freed under the hint (`ListsSound`); a file is expanded to its image or refused for a reason, and a damaged one never taken for a whole one (`ToolsAgree`); the second cut makes as many parts as the first counted (`SecondCutAgrees`), each shorter than asked but for its gaps beyond one (`PartsFitButForGaps`); every step is one of the abstract image's (`ImageKept`) |
| `mkfs` (117,974) | 12 lengths of image in 1 to 5 groups of 16 blocks, with few inodes and many, with and without journal; trees of up to 6 inodes of 7 kinds | bitmaps, counters, owners and reserved blocks agree at every moment (`AccountsRight`); every inode reads back what was put in (`FilesReadBack`); no block is queued twice (`QueuedOnce`); directory records fill their blocks (`DirectoriesTile`); the maker ends with the whole tree or with a reason (`TreeOrReason`) |
| `fixup` (1,986) | 3 groups of 3 inodes that become 4, a root of three blocks with a deleted entry, a directory in a directory, entries without a type; 2 interruptions anywhere | the disk always tells which inode an entry leads to (`EntriesResolve`); what can be mounted is sound (`MountableIsSound`); the image left is that of an uninterrupted run (`FixedAsUninterrupted`); the program ends (`Completes`) |
| `avc` (290,492) | 2 callers, one keeping its reference; 2 pairs, 2 nodes, 2 slots; 1 load, after which a domain is permissive no more, and 1 switch; a socket of one message, a failing callback; with the thread and without | the pool is never torn and an answer always comes from an entry of its pair; while enforcing, entries allow what their policy does, and more only in a permissive domain (`CacheSound`); no answer is older than the notices read before it (`AnswerNotStale`); a load empties the cache at last, unless the thread has ended (`TakesEffect`) |
| `boot` (780,832) | trees with files, a directory, a link, a device, ignored names, 2 changes while they are packed; 3 page sizes, sections on both sides of a page, all combinations | the archive parses and is the tree, in order (`ArchiveSound`); a loader finds every section by the header, but a device tree behind a second stage (`LoaderFinds`); a failure leaves no part of an image (`NoPartOfImage`) |
| `boot_second` (violation) | the same | a device tree behind a second stage does not begin at a page |
| `labels` (550,119) | all files of two lines of a pool of 12, alone and with additions; properties of three lines of a pool of 6; 6 keys, 3 types, one edit while reading | lookups, fits and best matches are what the file says (`FileAnswersRight`); a directory skipped by a partial match has no labels below it, but for those of the root and where a line says `<<none>>` (`SkippedHasNoLabels`); properties go by the longest prefix, and a file with two opinions is refused (`PropertyAnswersRight`) |

A violation is a disagreement of the code with its own messages or comments; each is a
finding in `PROJECT.json` with the line it contradicts.

### Bounds

* `build_*`: the mix-up needs two builders of one round, leftovers need a
  second round; a third would only add more of the same answers to one queue. `MaxOpen` = 1: with two
  pages open, closing one silences the other (`imaging_tools.js:64`), so `ServedWhenOpen` is about one page.
* `connect`, `install`: 2 objects (an object and its successor, or two phones at once), 4 in `install`
  (plugged in, twice root, fastboot). One install per page. `Partitions` is the data partition and another.
* `sparse`: a merge that frees the hint needs two cells and a third between or behind them, hence three additions; five raw
  images hold runs of zeros, alike and different blocks, a ragged end and one that is cut into several parts. Sizes for
  cutting leave room for one block next to the overhead, which `simg2simg` needs (`MaxLensAssumption`).
  `LenWidth` is larger than any image (`SizesAssumption`): the wrap of a length is a hazard without a property. `ReusesCells` is TRUE: an allocator
  that hands out the cell freed last first. With FALSE the same instance has 519,346 states, more than fit a run, and was checked by hand with the same result;
  the theorems are about both kinds.
* `mkfs`: a file of 17 blocks takes more than three groups, hence a block for its extents; the lengths
  of images run through those that fit, hardly fit, and do not, including a last group too small for its header. With few inodes, one group of 16 blocks has
  two left for files, and the maker runs out of inodes before it runs out of blocks. Blocks hold
  few entries, so that directories of two blocks occur.
* `fixup`: two interruptions, so that the program is interrupted also while it makes up for the first; a directory of three blocks is interrupted
  between any two. The invariants are proved for any tree and any number of interruptions.
* `avc`: two nodes for two pairs. An entry made for a label decides no permission, so that the pair takes a second node when
  one is asked for, the pool runs out, and nodes are taken from one another; three calls, so that a caller comes back with a reference
  to a node that has been flushed or has become another's. A socket of one message overruns with two notices.
* `boot`: sizes below, at and above a page, and page sizes that are refused (512).
* `labels`: two lines are enough for every pair of specifications to compete for a path, also across files. `MaxSpecs` stands for
  `UINT_MAX / sizeof(spec_t)`, out of the reach of any file (`DisksAssumption`).

Deadlock is checked only in `labels`: the user may stop at any point, an install may wait for ever for
a call that was lost, and the tools end.

### Fairness, and why

* `ImageBuild`: weak fairness of `Progress`, all steps of browser and tools together. Event
  loops keep turning and tools terminate. Each such step moves a builder, a request or an answer forward and none can
  be repeated for ever, so fairness of the whole suffices. Nothing obliges the user.
* `Connect`: a phone that is there answers (`Prompt`), and the add-on, which polls, notices
  the one that is gone (`Lose`). A call on an unreachable phone may or may not be answered.
* `Install`: as above, plus a restarting phone comes back (`Return`) and is noticed
  (`Detect`). The install's own calls progress while the phone is there (`Answering`). A countdown is a timer and
  fires whatever else happens; because `BackInTime` lets it end only when the phone is back (unless
  `"slow"`), its guard may come and go, hence strong fairness. Downloads and archives are assumed to come to an end; `imageStep()` is not: `Create` may
  end in `"silent"`, where nothing goes on.
* `Ext4Fixup`: weak fairness of `Step`: a program that runs goes on, and whoever started it starts it
  again. Interruptions are bounded.
* `Avc`: weak fairness of each caller, which runs inside one call, and of `ReceiveFails`, the socket's word for
  an overrun; strong fairness of the thread, which competes with the callers for the lock and gets it
  sometimes.

## 4. What is proved

Eight modules hold proofs. The assumptions of all are the named ones on the constants, except where a theorem states one of its own. Liveness and
all other properties are checked by TLC only.

**`ImageBuild_proofs`**, for all pages, rounds, distributions, missing tools and faults: `TypeCorrect`,
`NeverStranded` (`WaitingHasRequest`) and `NeverUnanswered` (`SettledByAnswer`). The two
properties are not inductive: a round that starts, or a builder that sends its second
request, must not reuse a request already answered, and what is delivered must have been sent. The inductive
invariant `IInv` adds `IdleUntouched` (a round that has not started has sent nothing),
`NotYetSent` (a builder about to send a request has not sent it before) and
`QueueSent` (an answer in the queue answers a request that was sent). The heart of the argument: an
answer that arrives resumes *every* builder waiting for its kind, so that whoever still waits
afterwards waits for another kind, and its own request is not the one just used up.

Three more invariants stand beside `IInv`, each of them inductive with its help:

* `ServeInv`, for `AlwaysServed` (`ServedWhenOpen`): builders run only in a page that is open (`Attached`), at most one is
  (`OneOpen`), and a request on its way is heard (`SentHeard`). It needs `MaxOpen <= 1`, the hypothesis of the theorem: the code is
  wrong about two pages (section 3, bounds);
* `SilenceInv`, for `OnlyTheMixUpIsSilent` (`SilenceIsMixUp`), under the same hypothesis. A request is not answered when its tool
  left no file. Tools that do not fail leave one (`Written`, `FilesStay`), but `mkbootimg` does not begin without a ramdisk. It is asked for a
  bootable image only after some ramdisk was answered (`AfterRamdisk`), whose file is there; if the one it needs is not, the answer
  was for another image (`NoRamdisk`), and remains so until the wrapper comes to look for the output (`Exited`);
* `SystemInv`, for `SystemIsSound` (`SystemSound`), for any number of pages. With nobody else asking for a filesystem, `make_ext4fs` has
  system.img to itself (`SystemAlone`), so that its exit leaves it whole (`SystemWritten`); a round that keeps the data has no builder for
  them that could ask (`DataUnasked`), and imageStep() resolves only after an answer (`AllStarted`, from `SettledByAnswer`): the answer
  is that of the one request there is.

**`Install_proofs`** proves of `Connect`, for any phones and any number of connections: `TypeCorrect`,
`NeverStale` (`HandedOutIsRegistered`) and `WarningExact` (`TooManyShown`). `HandedOutIsRegistered`
needs to know that an object just made is not one already handed out, and that the object a phone is known
by was made for that phone. The inductive invariant `CInv` therefore adds that the objects in
use have been made: those asked for their model (`MadeSound`), the one handed out
(`PromiseMade`), those registered, each under the phone it stands for (`RegisteredSound`), and those
a chain works on (`ChainSound`). `WarningExact` rests on an invariant of its own, `WarnInv`: finitely
many devices are registered at any time, so that counting them means something even when the
set of phones is not finite.

Of `Install` it proves, for any phones, partitions, distributions and faults, with phones that come and go beside the install:
`InstallTypeCorrect` (`InstallTypeOK`), `ReportsCorrect` (`ReportsRight`), `AllTried` (`EveryImageTried`),
`SilentTillEnd` (`SilentUnderway`) and, for one phone, `DataIsKept` (`DataKept`). The devices'
`CInv` is part of the inductive invariant, because root and reboots go through the Device module. `IInv` adds
`Reported` (nothing is reported before an install has ended), `AskedOfDevice` (what a phone is asked, it is
asked through an object that was made), that `_isRisky` is up from the click to the end, though the chains beside the install send through the same function, and `DataPruned` (from `imageStep()` on, a fstab that names data is one
that data may be written by). The many steps of `install()` that can fail share one lemma about what any of them may do (`Outcome`,
`StepOutcome`), so that each invariant is looked at in the few steps that matter to it. `DataIsKept` needs one fact more, that
the answer on which the keep-data box was taken into account is the answer of the phone that is flashed (`AnswerKnown`). That
is where one phone is assumed: with two, the code does not have it (section 5).

**`BootImage_proofs`**, for all page sizes that `mkbootimg` accepts, and files of any sizes: `NothingHalfDone` (`NoPartOfImage`) and `FoundByHeader` (`LoaderFinds`).
`LoaderFinds` speaks of the end only; `BInv` therefore says what has been written, and where the file ends, after each section
(`Layout`), that the options have been checked by then (`ArgsInv`), and that the header tells the sizes of the files looked at (`HdrInv`). The
arithmetic is that of paddings: a section that begins at a page and is padded by its own size ends at a page, the one
the loader computes (`WholePages`, `PagesOf`). The second stage is padded by the size of the ramdisk, hence `SameRest`
in the invariant: what follows it is at a page only if the two sizes leave the same rest.
`SizesAssumption` says that sizes are numbers an `int` holds (`load_file()` keeps the result of `lseek()` in one) and that a header is not empty and fits into the smallest page.

Of `mkbootfs`, for any trees, configurations and changes while it reads: `ArchiveIsSound` (`ArchiveSound`). What is archived, what is being read and what
is to come are one `Line`, in the order of the archive. To archive a link or to look at a file only moves the mark in it, and a
directory has its entries inserted behind itself (`Inserted`); so that sorted, without repetition and each directory before its entries
(`Orderly`, `DirsFirst`) are facts about the line that four of the five kinds of step leave alone. The entries are not in
the line before, because then their directory would have been archived, and it is the one at the mark. That nothing is missing at the end is `CoverInv`:
each path of the tree is archived, being read, or has itself or a directory above it among what is to come; no induction over depth is needed, since
only the place of the mark descends. `Ordered` is that `qsort` gives each name once, in order: the rank of a name is an injection into as many places. `NamesAssumption` says that there are
finitely many names; `TreesAssumption` that what lies below something lies in directories.

**`SparseFile_proofs`**, for any images, sources, raw inputs, additions and part sizes, and with either kind of allocator: `SparseListsSound` (`ListsSound`), `PartsFit`
(`PartsFitButForGaps`) and `SecondCut` (`SecondCutAgrees`). A list is sound (`IsList`) if each cell is well formed, ends where or before any later one begins, and the hint leads into the list. That one call keeps this for the
list it inserts into is a fact about `queue_bb()`, whatever cell the search begins at (`StartOf`): what is inserted lies between what is before it
and what is behind, or in front of all, and merging two neighbours leaves one cell that ends where the second did. The rest of the invariant `SparseInv` is what makes the calls inductive:

* every cell ends within `MaxBlocks` blocks, hence merged lengths do not wrap (`CookieOK`, `RestOK`);
* while `simg2simg` counts and cuts, everything moved to the other cookie ends before what is left begins (`Behind`). A run
  is put as a whole where its first cell belongs, without looking where its last one ends, so that order is a matter of how the two lists stand to one another. A chunk is split at whole blocks,
  and not into nothing, because what is left of the part has room for one;
* a sparse file holds chunks whose blocks, added up, give where each begins and do not exceed the image (`FileOK`); so what is read back is a list. The
  sums are folds in the model, and are reasoned about as functions on sets of positions.

The assumptions: what is added is not empty; raw images and what is appended fit into the largest image, and that is shorter than the 4 GiB at which the `unsigned int`
of `backed_block.c:239` wraps (`SizesAssumption`); the size asked for leaves room for the overhead and a block, and for a block
wherever a chunk is cut (`MaxLensAssumption`; less, and `simg2simg` would make no progress); the words of fills and sources are numbers (`WordsAssumption`).

`PartsFit` relates two ways of counting. `move_chunks_up_to_len()` adds up what each cell costs alone; `sparse_file_len()` is the fold of what `write_all_blocks()`
lays out, skips included. Both are written as sums over the cells (`Upto`): the chunk of a cell stands at its place in the file (`ChunkAt`), and every other
chunk is a gap. So a file is its header, the costs of its cells, a chunk header for each gap, and one for what lacks at the end
(`LengthBound`). The invariant `FitInv` bounds the costs of each part by the size asked for without the overhead, and one chunk header more: the piece
that is split off to fill a part is measured without its header (`PieceCost`), which is what the overhead's "split chunk" is for. What is left of the overhead
has room for one gap: a part with at most one is shorter than asked, as `sparse.h:255` promises, and the bound is strict.

`SecondCut` is that counting, which splits the chunks as it goes, leaves a list that is cut again at the same places. The invariant `CutInv` speaks of one
list, `tmp` with what is left behind it while counting and the list that counting has left while cutting, and of boundaries `b` in it (`Cuts`). Between two
boundaries lies what a round takes of the list from there on: cells that fit, with the next one too large and no more than an eighth of the size to spare (`IsPlain`),
or cells of which the last one, a piece, costs more than there is room, by its header (`IsSoft`): it is found not to fit again, and is short enough not to be split again. A later round may change one cell that an earlier one has looked
at, the first behind its last boundary, by splitting it. That does not move the boundary, because the piece that stays costs more than an eighth of the size (`KeepsNext`):
either no earlier cell was taken, and the piece fills the part, or more than an eighth was left when it was split (sparse.c:259). The last round
takes all that is left, as it did while counting (`MakeInv`). This is where `MaxLensAssumption` is used: for sizes of which an eighth
is less than a block, alignment could make the piece too cheap, or nothing.

**`SparseImage_proofs`** proves, on those invariants and for either kind of allocator, `ImageStays` (`ImageKept`) and
`ToolsDoAgree` (`ToolsAgree`). `ImageStays` is the refinement: `Content`, read off the cells of all lists, maps every step of `SparseFile` to a `Put`, a `GiveUp` or a stutter of
`SparseImage`. What a list holds is a relation, which value its cells show at which word (`Shows`), so that a merge, a split or a move is
an equivalence (`MergeShows`, `SplitShows`, `MovedShow`). The invariant `ImageInv` says that the lists of the cookie, `tmp` and the parts show, between them, the
wanted image and nothing else, and that a file that has been written is a beginning of what `write_all_blocks()` lays out for this cookie. Such a beginning is imported only if it
is whole (`ImportedWhole`: the header's count is no smaller than the number of chunks laid out, `CountCovers`), its chunks are then those of the cells, each at the
block its cell starts at (`PlaceBlocks`), and queueing them shows what the cells show (`CarriedShows`). That no cell is cut away uses `CutInv`: the second cut has
room for every round.

An allocator that does not hand out a freed cell at once may lose what is queued (`backed_block.c:266`). The invariant is therefore in two halves: what
lists and files tell is what was wanted, never anything else (`Tells`), and all that was wanted is told unless the allocator loses. A list that is queued into only gains
or drops words; those that move, split and cut hold the same words before and after, so that nothing is lost behind the queue, whichever the allocator.

`ToolsDoAgree` needs, besides `ImageInv`, what each tool hands to the next (`ToolsInv`): a cookie is of whole blocks and no cell reaches behind its end
(`IsWhole`), unless `img2simg` read a last block that lacks something, and then the last cell does and `assert(pad >= 0)` stops it (`LengthInv`); every part is as long as the image
(`PartsInv`); the file is marked as damaged just when it has fewer chunks than its header counts (`OutputInv`), so that one that is imported was not (`ImportedNotLost`, for `DamageNoticed`); the raw file is empty until it is written (`RawInv`). Of a cookie of whole blocks
`sparse_count_chunks()` counts exactly the chunks that `write_all_blocks()` lays out (`WholeCount`), and their blocks add up to the image's (`WholeBlocks`), so that its file is imported
unless a checksum speaks against it (`WholeOutcome`): one that the reader was told not to check, or one over gaps or fills of more than a block (`SumsAlike`: without these both sides
add up the same words). `simg2img` lays the parts over one another in the same raw file. After `k` of them it has what they show, and elsewhere zeros (`Expanded`): where a later part does not write, what was there
stays, and the padding of a last block, which is sought over, is of zeros that the image has there too (`Overlaid`, `PartLaid`). Where the allocator loses, a word is the image's or zero (`IsOrLost`), and
the ragged end that the writer's assertion stops at may be among what was lost (`EndLost`).

**`Avc_proofs`**, for any callers, pools and tables of any size, any sequence of policies, a socket of any length, with the thread or
without: `CacheCurrent` (`CacheNotOlder`) and `AnswersCurrent` (`AnswerNotStale`). The invariant `AInv` says why the cache is not
older than the last noted notice although it is emptied in one step, the notice is noted in another, and callers insert in between:

* only the caller that holds the lock is between its lookup and its answer (`CallTypes`), so that a reset finds no answer half given,
  and a decision computed before the reset is in nobody's hands when the lock is free;
* nodes outside the cache are blank (`OthersBlank`), so that a reference kept from an earlier call does not match, and an answer comes from a
  node in the cache (`AnsweredFrom`);
* between the reset and the noting, what comes in has been decided by a policy at least as new as the notice (`NoticeKept`);
* if nothing was dropped, the policy of the kernel is the one noted, or its notice is in the socket or being handled (`Pending`).
  A caller that finds the socket empty, with nobody handling a notice, therefore knows that the cache is of that policy (`FloorNoted`).

On top of it `CacheIsSound` (`CacheSound`), by the invariant `SoundInv`: what callers ask and what they are about to insert is of SIDs
that have been given out, and is what the policy says of their contexts (`Asks`). SIDs are never taken back (`Grown`), so that a pair means
the same for ever. Most steps leave the shape of the pool alone (`SameShape`); those that move a node, taking one from the free list or from
a chain, are shown to put it in one place, the head of the chain its pair hashes to, and to leave the counter right. `PolicyKept` strengthens `CacheIsPolicy` (an entry allows what its policy says or, in a domain that policy makes permissive, that and what has been asked): the cache is the policy's already when it has been emptied,
before the notice of the switch has been noted.

The assumptions are that the pool is not empty, that policies are numbered from 0 and allow permissions that exist, that labels, permissive domains and what callers ask about are contexts, that it
starts with the thread or without, and that `None` is nothing else.

**`Ext4Fixup_proofs`**, for any tree of directories of any size, any geometry and any number of interruptions:
`TypeCorrect`, `NumbersKept` (`EntriesResolve`), `ChildrenComeFirst` (`ChildrenFirst`), `Mountable` (`MountableIsSound`) and
`LeftAsUninterrupted` (`FixedAsUninterrupted`).
The assumptions are that sizes are positive (`SizesAssumption`) and that the tree is one: entries tell the
type of what they name, unless they leave it out, and every directory is reached from the root (`TreeAssumption`).
Why the invariant is what it is:

* that an entry can be told to be old or new is not enough to go on. `SetMagic` changes what every
  entry means, and is right only when the pass before has been through *all* entries (`PhaseInv`: all directories are
  done when the state is about to change);
* that a pass has been through everything when it has come back to the root is not obvious when it began
  after an interruption, since `recurse_dir()` does not follow an entry that has its new number. It holds
  because a directory is done before the entry that leads to it (`First`, the property `ChildrenFirst`): the
  set of directories that are done holds the root and is closed under entries, hence is everything (`PassOverKeeps`);
* `First` has to be kept through buffers: a frame holds entries changed in memory and not on the disk, and others on the disk
  that are not yet overwritten. `FrameInv` says of each frame on the stack what its buffer and the blocks already written hold; `StackInv` that
  each frame is that of the directory its parent's entry leads to;
* that the same number read by the old and by the new inodes per group is the same place is arithmetic, for any
  divisor (`Quotient`, `AlignedUp`, `Numbers`);
* `BitInv` ties the bit to the states, with the one window, between the two writes of `set_fs_fixup_state()`, recorded in `cracks`.
* what is left in the end has an invariant of its own, `FixInv`. The directories are `IInv`'s, except for the entries behind a deleted one, which no
  step touches on the disk or in a buffer (`BehindInv`). For the rest it says, wherever the program is, how superblock,
  descriptors, bitmaps and backups stand to one another and to what the program read when it was started: the counts are those of as many groups as
  there are (`CountInv`), what was read is what is there (`ReadInv`), each is changed once (`DescInv`, `BitsInv`), the
  backups up to the group the program is at are those of the primary (`BackupInv`). The hard steps are the one between superblock and
  descriptors, after which an interruption makes the program count from a superblock already changed, and the restart, which takes up in the middle.

**`Labels_proofs`**, for any files of contexts, options, paths and aliases, edited while they are read or not (what is promised of an edited file, or of one with
an expression that does not compile, is less: `Sound`, `LabelFits`; and `SkippedHasNoLabels` exempts directories of the root and specifications of `<<none>>`): `FileAnswers` (`FileAnswersRight`), `SkippedHoldsNothing`
(`SkippedHasNoLabels`) and `PropertyAnswers` (`PropertyAnswersRight`). The properties say what the lines of the files mean; the code
searches an array. What ties them together is a way `at` from the slots of the array to the positions of the lines, which the invariant `IInv`
only says to exist:

* while the files are read, and until somebody edits them, the first pass has counted the lines that are kept (`Counting`); the second has stored those that are effective, each in the slot
  of its rank, in the order of the files (`InFileOrder`). A line of a type there is not is counted in the first pass and not in the second, so that the
  array may be longer than what is in it and the second pass still ends at the end of the files, never before (`AtTheEnd`, `NoneLeft`);
* when the handle is opened, `at` follows the specifications where they are moved: every effective line is still met, and in the order
  of the search (`InTriedOrder`). That holds of the exact ones put last (`ExactLastIs`) as of any order that `qsort()` may make
  of the properties (`PropertyOrdersAre`), which is all that is used of it;
* what has been compiled is the expression of the line that is in the slot (`CompiledRight`), unless, with validation, a line
  of a wrong type has left its own there (`Untouched`); and duplicates in what was stored are duplicates in the file (`NodupsMeans`).

A lookup then finds what is meant because a specification is tried if and only if it may fit: two stems that differ cannot match one path
(`StemNeeded`), and what matches behind the stem matches with it (`BehindStem`). A directory above a path that matches is
matched in part (`FitsAbove`). The best match is a fold, which is unrolled into a walk over the aliases (`WalkIs`) with the first of the longest as
its invariant (`BestSoFar`). `DisksAssumption` says that expressions are sequences of names and that files are shorter than the largest array;
`LookupsAssumption` the same of paths and aliases.

## 5. Disagreements that have no run of their own

Met while modelling, and visible in the modules:

* `about.js:824`: the page forgets the device in use whichever one is disconnected; the one left is not
  taken up. `about.js:1502`: builds are not drawn when their list arrives after the phone.
* `about.js:1153`: a failed flash is passed over without a word and the install is a success. `about.js:1117`: the phone flashed may be another than the one
  the blobs came from; if that is one that runs B2G and the first was not, its data are overwritten although the box to keep them is
  checked. (With two phones and unplugging, TLC finds `DataKept` violated that way.) `imaging_tools.js:250`: a wrapper that rejects is never answered.
* `backed_block.c:266`: where the allocator does not hand out the cell freed last first (`calloc()` of glibc 2.26 to 2.40 passes by the cache `free()` fills), a search
  may begin at a freed cell, and the block that is added hangs on it and is lost. The model has both kinds; `ImageKept` allows the loss, and nothing else.
* `sparse.h:255`, of `sparse_file_resparse()`: "each sparse file is less than max_len". `move_chunks_up_to_len()` counts the chunks and not the gaps between them, for which a skip chunk
  each is written. Fills of one block at the blocks 1, 3, 5 and 7 of nine, cut at 36 words (16 beside the overhead), are one part: of 38 words.
  `PartsFitButForGaps` has the bound the code keeps: strictly less with one gap, a chunk header more for each further one.
* `sparse_read.c:259`: a checksum chunk in a file imported without checking is compared through a null pointer (`"crashed"`). `sparse_read.c:481`: a checked
  import that fails falls back to reading the file, from its beginning (lines 486 and 491), as a raw image. `output_file.c:389` and `sparse_read.c` feed the checksum differently for fills longer than a block and for gaps, so
  a file that was written well may be refused (`RefusedForAReason` names the cases).
* `allocate.c:455`: the allocation's last pointer names its first region; blocks are then given back from the front, and with a first region of one block
  the list is lost: the maker crashes instead of reporting that there is no space (`EndsForAReason`).
* `ext4fixup.c:117`: the magic number and the bit are two writes; in between a file system that is being changed can
  be mounted. Nothing is synced, so that after a loss of power (not modelled) the disk may hold the writes in another order. `ext4fixup.c:311`: interrupted between superblock and descriptors, it leaves the groups with
  their old counts. `ext4fixup.c:593`: a deleted entry ends a directory for the program, and the entries behind it keep old numbers.
* `label_file.c:631`: a specification that does not compile hides those before it in the file. Partial matching
  skips directories of the root that hold labels (they have no stem, and their own specifications are not tried), and `label_file.c:651` those where the last specification that may match below is
  `<<none>>`, whatever is labelled before it. `label_file.c:717`: an alias whose specification begins with nothing fixed is never the best match, even if it is the only one.
* `mkbootfs.c:228`: a configuration without a line for the empty path makes the program read through a null pointer.

## 6. What is not modelled

* *Subprocess worker*: a third-party module kept in the repository; what its reader may lose is a hazard without a property.
* *Environment checks and bootstrap*: run once, no state shared with the rest.
* *A second install on one page*, two overlapping installs, two pages open at once; the contents of archives,
  blobs maps and `devices.json` beyond the entries of the fstab.
* *make_ext4fs*: indirect trees (`indirect.c` 55-311: nothing calls them), images whose first data block is 1, `-f`, times,
  the permissions of `canned_fs_config.c`, wiping, the block list file. Data in files is abstracted to whose block it is.
* *ext4fixup*: the correction of a short `rec_len`, the verbose and no-write flags; losses of power.
* *libsparse*: images of 4 GiB and more, whose lengths wrap (the run and the proof assume shorter ones); compression; the checksum is an injective function of what goes into it.
* *mkbootimg*: the hash and the load addresses, files larger than an `int` holds (`mkbootimg.c:38`); *mkbootfs*: the format of a header, abstracted to its length.
* *libselinux*: `avc_control()` with the events nothing sends, `avc_destroy()`, auditing and statistics; `android.c` and the
  wrappers of `/proc` and selinuxfs, code for the device. `avc.c` itself is in the copy but not in the list its `moz.build` compiles.
* *pcre, zlib, libmincrypt*: third-party, functions of their input.

## 7. Plan

*Done*: the page, the devices and the install; libsparse with its abstract image; the file system maker; ext4fixup; mkbootfs
and mkbootimg; the label backends and the vector cache; the proofs of section 4. What would come next:

1. Proofs: the file system maker's `AccountsRight`. `InstallEnds`, `TakesEffect` and `ReadyIsSelectable` are liveness and stay with TLC.
2. The subprocess worker: the reader's poll, read and waitpid against the child, with the promise "all output, then done once" as its abstract specification.
3. A second install on one page, with the contexts of the first.
4. The refinement of `ImageBuild` from a protocol with addressed answers, as far as it goes.
