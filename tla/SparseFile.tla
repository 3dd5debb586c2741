----------------------------- MODULE SparseFile -----------------------------
(***************************************************************************)
(* libsparse and the tools that are little more than calls of it: a cookie  *)
(* is filled block by block (make_ext4fs, ext2simg) or from a raw image     *)
(* (img2simg), written as a sparse or as a raw file, imported again, cut    *)
(* into parts (simg2simg), appended to (append2simg), and the parts are put *)
(* together as a raw image (simg2img).                                      *)
(*                                                                         *)
(* One action is one call of the library or one round of a tool's loop; the *)
(* output device may be full from some write on.                            *)
(***************************************************************************)
EXTENDS BackedBlocks

CONSTANTS
    ImageBlocks,    \* blocks of the image a client makes
    MaxBlocks,      \* bound: blocks of any image
    Appendix,       \* blocks append2simg adds
    MaxAdds,        \* bound: calls of sparse_file_add_*
    FillVals,       \* fill values a client uses
    Lens,           \* lengths a client adds, in words
    Sources,        \* the buffers, files and descriptors: name |-> words
    RawImages,      \* raw images img2simg reads
    MaxLens,        \* sizes simg2simg is asked for, in words
    CrcAsked        \* what the client of sparse_file_write() may pass for crc

\* sparse_format.h, in words: the file header, a chunk header, a fill value
\* or a checksum.
FileHeader  == 7
ChunkHeader == 3
OneWord     == 1

\* As it is not: the file header is left out.
OverheadOfChunks == 4 * ChunkHeader + OneWord

\* move_chunks_up_to_len(): "sparse file header, initial skip chunk, split
\* chunk, end skip chunk, and crc chunk".
Overhead == FileHeader + 4 * ChunkHeader + OneWord

\* What is added is not empty, and an image is shorter than the 4 GiB at which
\* a length wraps; img2simg's input and append2simg's fit the largest image.
ASSUME LensAssumption  == Lens \subseteq Nat \ {0}
ASSUME CrcAssumption   == CrcAsked \subseteq BOOLEAN
ASSUME SizesAssumption ==
    /\ ImageBlocks \in Nat /\ MaxBlocks \in Nat /\ Appendix \in Nat \ {0}
    /\ MaxAdds \in Nat \ {0}
    /\ ImageBlocks + Appendix <= MaxBlocks
    /\ MaxBlocks * BlockSize < LenWidth
ASSUME RawImagesAssumption ==
    \A img \in RawImages : img \in Seq(Nat) /\ Len(img) <= MaxBlocks * BlockSize
\* A word holds a number.
ASSUME WordsAssumption ==
    /\ FillVals \subseteq Nat
    /\ \A f \in DOMAIN Sources : Sources[f].data \in Seq(Nat)
\* A part has room for the overhead and a block, and so has what is left of it
\* whenever a chunk is cut: simg2simg is not asked for less.
ASSUME MaxLensAssumption ==
    \A m \in MaxLens :
        /\ m \in Nat /\ m >= Overhead + BlockSize
        /\ (m - Overhead) \div 8 + 1 >= BlockSize

VARIABLES
    s,          \* the cookie: length in words and list of backed blocks
    phase,      \* what the tools have done with it
    added,      \* calls of sparse_file_add_* so far
    file,       \* the sparse file last written
    asked,      \* crc was asked for when it was written
    ret,        \* what the last sparse_file_write() returned
    limit,      \* simg2simg's max_size
    tmp,        \* sparse_file_resparse(): the cookie of the parts not asked for
    rounds,     \* rounds of the running resparse
    count,      \* parts found by the first resparse
    parts,      \* out_s: the cookies of the second resparse
    files,      \* the sparse files simg2img has yet to expand
    raw,        \* the raw output file
    lost,       \* a write was not, or not wholly, carried out
    wanted      \* what its users have asked to be in the image

written  == <<file, asked, ret, lost>>
cutting  == <<limit, tmp, rounds, count, parts>>
expanded == <<files, raw>>
vars == <<s, phase, added, wanted, written, cutting, expanded>>

Size == MaxBlocks * BlockSize
Words == 0..(Size - 1)

NewCookie(len) == [len |-> len, list |-> EmptyList]
NoFile == [total |-> 0, chunks |-> << >>, nchunks |-> 0, torn |-> FALSE]
NoRaw  == [len |-> 0, words |-> [w \in Words |-> 0]]

-----------------------------------------------------------------------------
\* Writing.

\* As it is not: the hole at the end is not counted.
CountChunksButEnd(c) ==
    LET cells == c.list.cells
    IN  Len(cells)
        + Cardinality({ i \in 1..Len(cells) :
              cells[i].block > IF i = 1 THEN 0 ELSE EndBlock(cells[i - 1]) })

\* sparse_count_chunks(): the cells, the gaps in front of them, and the end.
CountChunks(c) ==
    LET cells == c.list.cells
        endOf(i) == IF i = 0 THEN 0 ELSE EndBlock(cells[i])
    IN  Len(cells)
        + Cardinality({ i \in 1..Len(cells) : cells[i].block > endOf(i - 1) })
        + (IF endOf(Len(cells)) < DivUp(c.len) THEN 1 ELSE 0)

Skip(blocks) == [kind |-> "skip", blocks |-> blocks, val |-> 0, data |-> << >>]

\* write_sparse_fill_chunk(), write_sparse_data_chunk().
ChunkOf(bb) ==
    [kind   |-> IF bb.type = "fill" THEN "fill" ELSE "raw",
     blocks |-> DivUp(bb.len),
     val    |-> IF bb.type = "fill" THEN bb.src ELSE 0,
     data   |-> IF bb.type = "fill" THEN << >>
                ELSE [i \in 1..AlignUp(bb.len) |-> CellWord(bb, i - 1)]]

\* write_all_blocks(): a skip chunk for each gap, a chunk for each cell, and a
\* skip chunk for the rest.  The chunk of a rest that is no whole number of
\* blocks is refused by write_sparse_skip_chunk(), which nobody notices.
ChunksOf(c) ==
    LET step(acc, bb) ==
            [next |-> EndBlock(bb),
             out  |-> acc.out
                        \o (IF bb.block > acc.next
                            THEN <<Skip(bb.block - acc.next)>> ELSE << >>)
                        \o <<ChunkOf(bb)>>]
        all == FoldLeft(step, [next |-> 0, out |-> << >>], c.list.cells)
        pad == c.len - all.next * BlockSize
    IN  all.out \o (IF pad > 0 /\ pad % BlockSize = 0
                    THEN <<Skip(pad \div BlockSize)>> ELSE << >>)

\* assert(pad >= 0): the cells end within the image.
EndsWithin(c) ==
    IF c.list.cells = << >> THEN TRUE
    ELSE EndBlock(Last(c.list.cells)) * BlockSize <= c.len

\* A checksum is the words it was computed from.  The writer counts one block
\* of a fill chunk and nothing of a skip chunk.
WriterCrc(chunks) ==
    LET words(k) == CASE k.kind = "raw"  -> k.data
                      [] k.kind = "fill" -> [i \in 1..BlockSize |-> k.val]
                      [] OTHER           -> << >>
        step(acc, k) == acc \o words(k)
    IN  FoldLeft(step, << >>, chunks)

CrcChunk(chunks) ==
    [kind |-> "crc", blocks |-> 0, val |-> 0, data |-> WriterCrc(chunks)]

\* sparse_file_write() with the sparse format: the header, the chunks, the
\* checksum.  From some write on the device may be full: n chunks are whole
\* and the next one may have got as far as its header.
FileOf(c, crc, n, torn) ==
    LET chunks == ChunksOf(c)
        all == chunks \o (IF crc THEN <<CrcChunk(chunks)>> ELSE << >>)
    IN  [total   |-> c.len \div BlockSize,
         nchunks |-> CountChunks(c) + (IF crc THEN 1 ELSE 0),
         chunks  |-> SubSeq(all, 1, n + (IF torn THEN 1 ELSE 0)),
         torn    |-> torn]

\* The chunks of a whole file.
Wanted(c, crc) == Len(ChunksOf(c)) + (IF crc THEN 1 ELSE 0)

\* As it is not: zeros are written for the holes.
RawOfZeroed(c, over) ==
    LET cells == c.list.cells
        hit(w) == { i \in 1..Len(cells) : w \in Covered(cells[i]) }
    IN  [len   |-> c.len,
         words |-> [w \in Words |->
                      IF hit(w) = {} THEN 0
                      ELSE LET bb == cells[Max(hit(w))]
                           IN  CellWord(bb, w - bb.block * BlockSize)]]

\* sparse_file_write() with the raw format, over what the output file holds
\* (its words are 0 beyond its length): fill and data chunks are written,
\* holes and the padding of a last block are sought over, and the file is cut
\* or extended to the length of the image.
RawOf(c, over) ==
    LET cells == c.list.cells
        hit(w) == { i \in 1..Len(cells) :
                      /\ w >= cells[i].block * BlockSize
                      /\ w < cells[i].block * BlockSize + cells[i].len }
    IN  [len   |-> c.len,
         words |-> [w \in Words |->
                      CASE w >= c.len -> 0
                        [] w < c.len /\ hit(w) = {} -> over.words[w]
                        [] OTHER -> LET bb == cells[Max(hit(w))]
                                    IN CellWord(bb, w - bb.block * BlockSize)]]

\* sparse_file_len() with the sparse format and no checksum: the cost of the
\* chunks, and of the file.
CellCost(bb) == ChunkHeader + (IF bb.type = "fill" THEN OneWord ELSE AlignUp(bb.len))

SparseLen(c) ==
    FileHeader
    + FoldLeft(LAMBDA n, k : n + ChunkHeader + CASE k.kind = "fill" -> OneWord
                                                 [] k.kind = "raw" -> Len(k.data)
                                                 [] OTHER -> 0,
               0, ChunksOf(c))

-----------------------------------------------------------------------------
\* Reading.

\* The reader counts all of a fill chunk, and zeros for a skip chunk.
ReaderCrc(chunks) ==
    LET words(k) == CASE k.kind = "raw" -> k.data
                      [] k.kind = "crc" -> << >>
                      [] OTHER -> [i \in 1..(k.blocks * BlockSize) |-> k.val]
        step(acc, k) == acc \o words(k)
    IN  FoldLeft(step, << >>, chunks)

\* The block each chunk starts at: cur_block.
CurBlock(chunks, i) ==
    FoldLeft(LAMBDA n, k : n + k.blocks, 0, SubSeq(chunks, 1, i - 1))

\* process_chunk(): the cell a chunk adds to the cookie, if it adds one.  A raw
\* chunk becomes a cell on the file itself, at an offset of its own.
NoCell == Cell("none", 0, 0, 0, 0)

CellOf(chunks, i) ==
    LET k   == chunks[i]
        len == k.blocks * BlockSize
    IN  CASE k.kind = "fill" -> Cell("fill", k.val, 0, len, CurBlock(chunks, i))
          [] k.kind = "raw"  -> Cell("fd", [name |-> "img", at |-> i, data |-> k.data],
                                     0, len, CurBlock(chunks, i))
          [] OTHER           -> NoCell

CellsOf(chunks) == [i \in 1..Len(chunks) |-> CellOf(chunks, i)]

\* The lists that queueing these cells one after the other may leave.
QueuedAll(cells) ==
    FoldLeft(LAMBDA lists, bb : IF bb.type = "none" THEN lists
                                ELSE UNION { Queued(l, bb) : l \in lists },
             {EmptyList}, cells)

\* sparse_file_import(): what comes of reading f, with or without crc.  A raw
\* chunk whose checksum is not wanted is sought over, present or not; a
\* checksum chunk that is not wanted is compared through a null pointer.
Outcome(f, crc) ==
    LET n == Len(f.chunks)
        whole == n = f.nchunks /\ CurBlock(f.chunks, n + 1) = f.total
        summed == n > 0 /\ f.chunks[n].kind = "crc"
    IN  CASE summed /\ ~crc -> "crashed"
          [] ~(summed /\ ~crc) /\ ~whole -> "rejected"
          [] ~(summed /\ ~crc) /\ whole /\ f.torn ->
                IF f.chunks[n].kind = "raw" /\ ~crc THEN "truncated"
                                                    ELSE "rejected"
          [] OTHER ->
                IF summed => f.chunks[n].data = ReaderCrc(f.chunks)
                THEN "imported" ELSE "rejected"

\* sparse_file_read_normal(): a block of equal words becomes a fill, any other
\* block, and a last one that is not whole, a piece of the file.
RawCells(img) ==
    LET cell(b) ==
            LET from == b * BlockSize
                words == SubSeq(img, from + 1, Min({from + BlockSize, Len(img)}))
            IN  IF Len(words) = BlockSize /\ Cardinality(Range(words)) = 1
                THEN Cell("fill", words[1], 0, BlockSize, b)
                ELSE Cell("fd", [name |-> "raw", data |-> img], from,
                          Len(words), b)
    IN  [i \in 1..DivUp(Len(img)) |-> cell(i - 1)]

-----------------------------------------------------------------------------
\* Cutting.

\* move_chunks_up_to_len(): the list the cells are taken from, how many of
\* them are taken, and whether a cell was found that did not fit.
Taken(cells, max) ==
    LET len == max - Overhead
        used(n) == FoldLeft(LAMBDA sum, bb : sum + CellCost(bb), 0,
                            SubSeq(cells, 1, n))
        fit == Max({ n \in 0..Len(cells) : used(n) <= len })
        room == len - used(fit)
    IN  IF fit = Len(cells)
        THEN [cells |-> cells, n |-> fit, more |-> FALSE]
        ELSE IF fit = 0 \/ room > len \div 8
        THEN [cells |-> Split(cells, fit + 1, room), n |-> fit + 1, more |-> TRUE]
        ELSE [cells |-> cells, n |-> fit, more |-> TRUE]

-----------------------------------------------------------------------------
Init ==
    /\ s = NewCookie(ImageBlocks * BlockSize)
    /\ phase = "queue"
    /\ added = 0
    /\ wanted = [w \in Words |-> Hole]
    /\ file = NoFile /\ asked = FALSE /\ ret = "none" /\ lost = FALSE
    /\ limit = 0 /\ tmp = EmptyList /\ rounds = 0 /\ count = 0 /\ parts = << >>
    /\ files = << >> /\ raw = NoRaw

\* sparse_file_add_*(): "the region must not already be used" (sparse.h), also
\* where what its client put there has been lost.
Add(bb) ==
    /\ phase = "queue"
    /\ added < MaxAdds
    /\ EndBlock(bb) <= ImageBlocks
    /\ \A w \in Covered(bb) : wanted[w] = Hole
    /\ \A i \in 1..Len(s.list.cells) :
          \/ EndBlock(bb) <= s.list.cells[i].block
          \/ EndBlock(s.list.cells[i]) <= bb.block
    /\ \E l \in Queued(s.list, bb) : s' = [s EXCEPT !.list = l]
    /\ added' = added + 1
    /\ wanted' = Lay(wanted, bb)
    /\ UNCHANGED <<phase, written, cutting, expanded>>

\* sparse_file_add_fill(): its callers fill whole blocks.
AddFill ==
    \E v \in FillVals, len \in Lens, b \in 0..(ImageBlocks - 1) :
        /\ len % BlockSize = 0
        /\ Add(Cell("fill", v, 0, len, b))

\* sparse_file_add_data(), sparse_file_add_fd(): of all of a source or the
\* rest of it; sparse_file_add_file() copies the name each time.
AddFrom(type) ==
    \E f \in DOMAIN Sources, len \in Lens, b \in 0..(ImageBlocks - 1) :
        \E off \in {0, len} :
            /\ Sources[f].type = type
            /\ off + len <= Len(Sources[f].data)
            /\ Add(Cell(type, [name |-> f, at |-> IF type = "file" THEN b ELSE 0,
                               data |-> Sources[f].data], off, len, b))

AddData == AddFrom("data")
AddFd   == AddFrom("fd")
AddFile == AddFrom("file")

\* img2simg: a cookie as long as the image, read with sparse_file_read().
ReadRaw ==
    /\ phase = "queue"
    /\ added = 0
    /\ \E img \in RawImages :
          /\ \E l \in QueuedAll(RawCells(img)) : s' = [len |-> Len(img), list |-> l]
          /\ wanted' = [w \in Words |-> CASE w < Len(img) -> img[w + 1]
                                         [] w \in Len(img)..(AlignUp(Len(img)) - 1) -> 0
                                         [] OTHER -> Hole]
    /\ added' = MaxAdds
    /\ UNCHANGED <<phase, written, cutting, expanded>>

\* The cookie is written as a sparse file; append2simg asks for no checksum.
Write ==
    /\ phase \in {"queue", "appended"}
    /\ EndsWithin(s)
    /\ \E crc \in IF phase = "queue" THEN CrcAsked ELSE {FALSE},
          torn \in BOOLEAN :
          \E n \in 0..Wanted(s, crc) :
            /\ torn => /\ n < Wanted(s, crc)
                       /\ FileOf(s, crc, n + 1, FALSE).chunks[n + 1].kind # "skip"
            /\ file' = FileOf(s, crc, n, torn)
            /\ asked' = crc
            /\ lost' = (n < Wanted(s, crc))
    /\ ret' = "ok"
    /\ phase' = "written"
    /\ UNCHANGED <<s, added, wanted, cutting, expanded>>

\* The header cannot be written: the one error that is passed on.
WriteFails ==
    /\ phase \in {"queue", "appended"}
    /\ phase' = "failed"
    /\ ret' = "error"
    /\ UNCHANGED <<s, added, wanted, file, asked, lost, cutting, expanded>>

\* assert(pad >= 0).
WriteAborts ==
    /\ phase \in {"queue", "appended"}
    /\ ~EndsWithin(s)
    /\ phase' = "aborted"
    /\ UNCHANGED <<s, added, wanted, written, cutting, expanded>>

\* The cookie is written as a raw file, zipped or not, of which the first n
\* cells find room.
WriteRaw ==
    /\ phase \in {"queue", "imported"}
    /\ EndsWithin(s)
    /\ \E n \in 0..Len(s.list.cells) :
          /\ raw' = [RawOf([s EXCEPT !.list.cells = SubSeq(@, 1, n)], NoRaw)
                        EXCEPT !.len = s.len]
          /\ lost' = (lost \/ n < Len(s.list.cells))
    /\ ret' = "ok"
    /\ phase' = "expanded"
    /\ UNCHANGED <<s, added, wanted, file, asked, cutting, files>>

\* simg2img and simg2simg: sparse_file_import(in, true, false).
Import ==
    /\ phase = "written"
    /\ phase' = Outcome(file, FALSE)
    /\ IF phase' = "imported"
       THEN \E l \in QueuedAll(CellsOf(file.chunks)) :
               s' = [len |-> file.total * BlockSize, list |-> l]
       ELSE UNCHANGED s
    /\ UNCHANGED <<added, wanted, written, cutting, expanded>>

\* append2simg: sparse_file_import_auto(output, true), and the input behind
\* the image.  What is not imported is taken for a raw image.
Append2simg ==
    /\ phase = "written"
    /\ file.total <= ImageBlocks    \* bound
    /\ IF Outcome(file, TRUE) = "imported"
       THEN \E l \in QueuedAll(CellsOf(file.chunks)) :
              LET len == Appendix * BlockSize
                  input == [name |-> "input", at |-> 0,
                            data |-> [i \in 1..len |-> 1]]
                  bb == Cell("fd", input, 0, len, file.total)
              IN  /\ \E q \in Queued(l, bb) :
                        s' = [len |-> file.total * BlockSize + len, list |-> q]
                  /\ wanted' = Lay(wanted, bb)
                  /\ phase' = "appended"
       ELSE phase' = "misread" /\ UNCHANGED <<s, wanted>>
    /\ UNCHANGED <<added, written, cutting, expanded>>

\* simg2simg counts the parts first: sparse_file_resparse(s, max_size, NULL, 0).
StartCutting ==
    /\ phase = "imported"
    /\ limit' \in MaxLens
    /\ phase' = "first"
    /\ UNCHANGED <<s, added, wanted, written, tmp, rounds, count, parts, expanded>>

\* A round: a part nobody asked for goes to tmp.  After the last one the
\* cookie gets everything back.
FirstRound ==
    LET t == Taken(s.list.cells, limit)
        from == [s.list EXCEPT !.cells = t.cells]
        left == MovedFrom(from, t.n)
        kept == MovedTo(from, t.n, tmp)
    IN  /\ phase = "first"
        /\ IF t.more
           THEN /\ s' = [s EXCEPT !.list = left]
                /\ tmp' = kept
                /\ rounds' = rounds + 1
                /\ UNCHANGED <<phase, count>>
           ELSE /\ s' = [s EXCEPT !.list = MovedTo(kept, Len(kept.cells), left)]
                /\ tmp' = EmptyList
                /\ count' = rounds + 1
                /\ rounds' = 0
                /\ phase' = "second"
        /\ UNCHANGED <<added, wanted, written, limit, parts, expanded>>

\* The same again, with room for as many parts as were counted.
SecondRound ==
    LET t == Taken(s.list.cells, limit)
        from == [s.list EXCEPT !.cells = t.cells]
        left == MovedFrom(from, t.n)
        fits == rounds < count
        kept == IF fits THEN tmp ELSE MovedTo(from, t.n, tmp)
    IN  /\ phase = "second"
        /\ parts' = IF fits
                    THEN Append(parts, [len |-> s.len,
                                        list |-> MovedTo(from, t.n, EmptyList)])
                    ELSE parts
        /\ rounds' = rounds + 1
        /\ IF t.more
           THEN /\ s' = [s EXCEPT !.list = left]
                /\ tmp' = kept
                /\ UNCHANGED phase
           ELSE /\ s' = [s EXCEPT !.list = MovedTo(kept, Len(kept.cells), left)]
                /\ tmp' = EmptyList
                /\ phase' = "parts"
        /\ UNCHANGED <<added, wanted, written, limit, count, expanded>>

\* simg2simg writes each part; simg2img is then given the files in order.
WriteParts ==
    /\ phase = "parts"
    /\ files' = [i \in 1..Len(parts) |->
                    FileOf(parts[i], FALSE, Wanted(parts[i], FALSE), FALSE)]
    /\ phase' = "expanding"
    /\ UNCHANGED <<s, added, wanted, written, cutting, raw>>

\* One round of simg2img's loop, from the start of the output file.
ExpandNext ==
    /\ phase = "expanding"
    /\ files # << >>
    /\ LET f == Head(files)
       IN  IF Outcome(f, FALSE) = "imported"
           THEN \E l \in QueuedAll(CellsOf(f.chunks)) :
                  /\ raw' = RawOf([len |-> f.total * BlockSize, list |-> l], raw)
                  /\ files' = Tail(files)
                  /\ phase' = IF Len(files) = 1 THEN "expanded" ELSE phase
           ELSE phase' = "rejected" /\ UNCHANGED expanded
    /\ UNCHANGED <<s, added, wanted, written, cutting>>

Next ==
    \/ AddFill \/ AddData \/ AddFd \/ AddFile \/ ReadRaw
    \/ Write \/ WriteFails \/ WriteAborts \/ WriteRaw
    \/ Import \/ Append2simg
    \/ StartCutting \/ FirstRound \/ SecondRound
    \/ WriteParts \/ ExpandNext

Spec == Init /\ [][Next]_vars

-----------------------------------------------------------------------------
\* Properties.

Phases == {"queue", "written", "imported", "appended", "first", "second",
           "parts", "expanding", "expanded"}
GivenUp == {"rejected", "truncated", "crashed", "misread", "aborted", "failed"}
\* The client's calls and the readers queue cells; what follows moves them.
Queueing == {"queue", "written", "appended"}

\* The cells of the image, wherever they are.
Cells ==
    UNION { Range(l.cells) :
              l \in {s.list, tmp} \cup { parts[i].list : i \in 1..Len(parts) } }

\* Its content: what the cells at a word put there, Hole if there is no cell,
\* and what is in no image if two cells disagree.
Content ==
    LET put(w) == { CellWord(bb, w - bb.block * BlockSize) :
                      bb \in { c \in Cells : w \in Covered(c) } }
        word(vals) == CASE vals = {} -> Hole
                        [] Cardinality(vals) = 1 -> Max(vals)
                        [] OTHER -> Hole - 1
    IN  [w \in Words \cup UNION { Covered(bb) : bb \in Cells } |-> word(put(w))]

TypeOK ==
    /\ s.len \in Nat
    /\ \A l \in {s.list, tmp} \cup { parts[i].list : i \in 1..Len(parts) } :
          /\ l.hint \in 0..Len(l.cells)
          /\ l.dangling \in BOOLEAN
          /\ \A i \in 1..Len(l.cells) :
                /\ l.cells[i].type \in {"fill", "data", "file", "fd"}
                /\ l.cells[i].block \in Nat /\ l.cells[i].len \in Nat
    /\ phase \in Phases \cup GivenUp
    /\ added \in 0..MaxAdds
    /\ asked \in BOOLEAN /\ lost \in BOOLEAN
    /\ ret \in {"none", "ok", "error"}
    /\ DOMAIN wanted = Words
    /\ limit \in {0} \cup MaxLens
    /\ rounds \in Nat /\ count \in Nat

\* The cells of a cookie are in order and none reaches into the next: the
\* search from the last_used hint (backed_block.c:262) finds the same place as
\* one from the head, also when merges have freed the cell it points at.
Ordered ==
    \A l \in {s.list, tmp} \cup { parts[i].list : i \in 1..Len(parts) } :
        \A i \in 1..(Len(l.cells) - 1) :
            EndBlock(l.cells[i]) <= l.cells[i + 1].block

\* The lists are sound: typed and in order, and the hint leads into its list.
ListsSound == TypeOK /\ Ordered

\* What was put into the image stays where it was put: through merges, through
\* the file and back (sparse.h:224 "recreating the same sparse cookie that was
\* used to write it"), behind an appended input, and while it is moved from
\* list to list and cut into parts.  If a freed cell is not handed out again at
\* once, a block may be lost while cells are queued (backed_block.c:266), never
\* while they are moved or cut, and no block is ever another one's.
Image == INSTANCE SparseImage WITH
            Words <- Words, Hole <- Hole, Values <- Nat, Loses <- ~ReusesCells,
            wanted <- wanted, content <- Content,
            open <- phase \in Queueing, usable <- phase \notin GivenUp

ImageKept == Image!Spec

\* The end of an image that is no whole number of blocks has been lost in the
\* queue, and with it what the writer's assertion looks at.
EndLost == ~ReusesCells /\ s.len % BlockSize # 0

\* A file is refused, or read as something it is not, only if part of it was
\* never written, or if it carries a checksum: one that counts skip and fill
\* chunks in the reader's way only, or one that was not to be checked.
RefusedForAReason ==
    /\ phase \in {"rejected", "truncated"} => lost \/ EndLost
    /\ phase = "crashed" => asked
    /\ phase = "misread" =>
          \/ lost \/ EndLost
          \/ /\ asked
             /\ \E i \in 1..Len(file.chunks) :
                    \/ file.chunks[i].kind = "skip"
                    \/ file.chunks[i].kind = "fill" /\ file.chunks[i].blocks > 1
    /\ phase = "aborted" => s.len % BlockSize # 0

\* simg2simg cuts the cookie twice: the second time, when the chunks have been
\* cut already, gives exactly as many parts as it has made room for.
SecondCutAgrees ==
    /\ phase = "second" => rounds < count
    /\ phase = "parts" => Len(parts) = count /\ s.list.cells = << >>

\* A part is shorter than it was asked to be (sparse.h:255 "each sparse file is
\* less than max_len"), but for the skip chunks between its chunks, which
\* move_chunks_up_to_len() does not count: the overhead it sets aside has room
\* for one, and each further gap may make the part a chunk header longer.
PartsFitButForGaps ==
    \A i \in 1..Len(parts) :
        LET cells == parts[i].list.cells
            gaps == { j \in 2..Len(cells) : EndBlock(cells[j - 1]) < cells[j].block }
        IN  SparseLen(parts[i]) + ChunkHeader < limit + ChunkHeader * Cardinality(gaps)

\* simg2img makes the image again from its file, or from its parts laid over
\* one another, with zeros in the holes, and where a block was lost in a queue.
ExpandedIsImage ==
    phase = "expanded" /\ ~lost =>
        /\ raw.len = s.len
        /\ DOMAIN raw.words = Words
        /\ \A w \in Words :
              \/ raw.words[w] = IF wanted[w] = Hole THEN 0 ELSE wanted[w]
              \/ ~ReusesCells /\ raw.words[w] = 0

\* A file that was not wholly written is not taken for one that was: nothing is
\* appended to it, cut from it or expanded of its parts (the tools themselves
\* are told "ok", and a last raw chunk that is torn is "truncated" above).
DamageNoticed ==
    phase \in {"imported", "appended", "first", "second", "parts", "expanding"} => ~lost

\* The tools read what the library writes: every file is expanded to its image,
\* or refused for a reason, and a damaged one is never read as a whole one.
ToolsAgree == ExpandedIsImage /\ RefusedForAReason /\ DamageNoticed
=============================================================================
