------------------------------- MODULE Labels -------------------------------
(***************************************************************************)
(* Looking up security contexts (libselinux: label.c, label_file.c,         *)
(* label_android_property.c).  A handle is opened with one of two backends;  *)
(* opening reads the specifications twice, a line at a time, first to count  *)
(* and then to keep them, while somebody may edit the files.                *)
(*                                                                         *)
(* A path is a sequence of names, in which Slash is the empty name of a      *)
(* doubled slash.  An expression is a record: the fixed names it begins with *)
(* and what may follow them -- nothing ("end"), nothing or anything below    *)
(* ("any"), or anything below ("below").  A property key is a sequence of    *)
(* letters.                                                                 *)
(***************************************************************************)
EXTENDS Integers, Sequences, FiniteSets, SequencesExt

CONSTANTS
    Disks,          \* files: [main, homedirs, local, property |-> lines or Missing]
    Missing,
    Options,        \* [backend, prefix, validating, baseonly]
    Keys, Types,    \* what is looked up; AnyType is no type in particular
    Aliases,        \* sequences of aliases
    AnyType, Slash,
    NoLabel,        \* the context <<none>>
    Star,           \* the property key that begins with *
    None,
    MaxSpecs,       \* UINT_MAX / sizeof(spec_t): as many are read at most
    MaxEdits        \* bound: edits of the files

FileNames == {"main", "homedirs", "local", "property"}

VARIABLES
    disk,       \* the specification files
    edits,
    opts,       \* the options of the handle
    phase,      \* "closed", "reading", "open", "failed"
    pass, src, line, maxnspec,  \* where init() is
    spec_arr,   \* the array of specifications
    nspec,
    stem_arr,   \* the stems
    edited,     \* the files were edited while they were read
    answer      \* the answer that is being returned

vars == <<disk, edits, opts, phase, pass, src, line, maxnspec, spec_arr, nspec,
          stem_arr, edited, answer>>

reader == <<pass, src, line, maxnspec>>

-----------------------------------------------------------------------------
(* Expressions. *)
NoStem == << >>

\* get_stem_from_spec(): the text of the first of several names.  A name with
\* an escaped letter is another text.
StemOfSpec(re) ==
    IF Len(re.names) >= 2 \/ (Len(re.names) = 1 /\ re.rest = "below")
    THEN <<re.names[1], re.escaped>> ELSE NoStem

\* get_stem_from_file_name().
StemOfFile(path) == IF Len(path) >= 2 THEN <<path[1], FALSE>> ELSE NoStem

\* spec_hasMetaChars().
HasMetaChars(re) == re.rest # "end"
PrefixLen(re) == 2 * Len(re.names) + (IF re.rest = "below" THEN 1 ELSE 0)

\* compile_regex(): what is matched behind the stem.
Behind(path, stem) == IF stem = NoStem THEN path ELSE Tail(path)

Compiled(re) ==
    [names |-> Behind(re.names, StemOfSpec(re)), rest |-> re.rest]

\* The positions of S in order, and what a sequence holds there.
InOrder(S) ==
    [k \in 1..Cardinality(S) |->
        CHOOSE i \in S : Cardinality({ j \in S : j <= i }) = k]
Picked(seq, S) == [k \in 1..Cardinality(S) |-> seq[InOrder(S)[k]]]

\* As it is not: a path above the expression's is no match yet.
PartlyMatchesAt(c, path) == c.rest = "below" /\ path = c.names

\* pcre_exec() on an anchored expression, and with PCRE_PARTIAL_SOFT.
Matches(c, path) ==
    CASE c.rest = "end"   -> path = c.names
      [] c.rest = "any"   -> IsPrefix(c.names, path)
      [] c.rest = "below" -> IsStrictPrefix(c.names, path)

PartlyMatches(c, path) ==
    IsStrictPrefix(path, c.names) \/ (c.rest = "below" /\ path = c.names)

\* What may be in the files: expressions of paths, beginnings of property keys;
\* every specification has a context.  They hold fewer lines than are read.
IsSeq(q) == Len(q) \in Nat /\ q = [i \in 1..Len(q) |-> q[i]]

IsRe(re) ==
    /\ IsSeq(re.names) /\ re.rest \in {"end", "any", "below"}
    /\ re.compiles \in BOOLEAN /\ re.escaped \in BOOLEAN
    /\ Compiled(re) # None

IsLine(l, name) ==
    l.kind = "spec" =>
        /\ l.ctx # None
        /\ IF name = "property" THEN IsSeq(l.regex) ELSE IsRe(l.regex)

ASSUME DisksAssumption ==
    /\ MaxEdits \in Nat /\ MaxSpecs \in Nat \ {0}
    /\ \A d \in Disks :
          /\ d = [name \in FileNames |-> d[name]]
          /\ \A name \in FileNames :
                d[name] # Missing =>
                    /\ IsSeq(d[name]) /\ 3 * (Len(d[name]) + MaxEdits) < MaxSpecs
                    /\ \A i \in 1..Len(d[name]) : IsLine(d[name][i], name)
ASSUME LookupsAssumption ==
    /\ \A key \in Keys : IsSeq(key)
    /\ \A aliases \in Aliases :
          IsSeq(aliases) /\ \A i \in 1..Len(aliases) : IsSeq(aliases[i])
    /\ \A o \in Options : o.validating \in BOOLEAN /\ o.baseonly \in BOOLEAN

-----------------------------------------------------------------------------
(* Reading. *)
NoOpts   == [backend |-> None, prefix |-> << >>, validating |-> FALSE, baseonly |-> TRUE]
NoAnswer == [op |-> "none"]
NoSpec   == [regex |-> None, stem |-> NoStem, compiled |-> None, type |-> AnyType, ctx |-> None]

Init ==
    /\ disk \in Disks
    /\ edits = 0
    /\ opts = NoOpts
    /\ phase = "closed"
    /\ pass = 0 /\ src = 1 /\ line = 0 /\ maxnspec = 0
    /\ spec_arr = << >> /\ nspec = 0 /\ stem_arr = {}
    /\ edited = FALSE
    /\ answer = NoAnswer

\* The files in the order they are read.
Sources ==
    IF opts.backend = "property" THEN <<"property">>
    ELSE IF opts.baseonly THEN <<"main">> ELSE <<"main", "homedirs", "local">>

Lines(name) == IF disk[name] = Missing THEN << >> ELSE disk[name]

\* selabel_open(): backends there are not are refused; so is a file there is not.
Open ==
    /\ phase \in {"closed", "failed"}
    /\ opts' \in Options
    /\ phase' = IF \/ opts'.backend \notin {"file", "property"}
                   \/ disk[IF opts'.backend = "file" THEN "main" ELSE "property"] = Missing
                THEN "failed" ELSE "reading"
    /\ pass' = 0 /\ src' = 1 /\ line' = 0 /\ maxnspec' = MaxSpecs
    /\ spec_arr' = << >> /\ nspec' = 0 /\ stem_arr' = {}
    /\ edited' = FALSE
    /\ answer' = NoAnswer
    /\ UNCHANGED <<disk, edits>>

\* The subset of the specifications that is asked for.
Within(re) ==
    \/ StemOfSpec(re) = NoStem \/ opts.prefix = << >>
    \/ StemOfSpec(re) = <<opts.prefix[1], FALSE>>

Kept(l) == l.kind = "spec" /\ (opts.backend = "file" => Within(l.regex))

\* The slot a line is stored in, whatever was left in it: an expression that
\* has been compiled is not compiled again.
Stored(slot, l) ==
    LET re    == l.regex
        stem  == StemOfSpec(re)
        fresh == opts.validating /\ slot.compiled = None /\ re.compiles
    IN  IF opts.backend = "property"
        THEN [NoSpec EXCEPT !.regex = re, !.ctx = l.ctx]
        ELSE [regex |-> re, stem |-> stem,
              compiled |-> IF fresh THEN Compiled(re) ELSE slot.compiled,
              type |-> IF l.type = "bad" THEN AnyType ELSE l.type,
              ctx |-> IF l.type = "bad" THEN slot.ctx ELSE l.ctx]

\* process_line() in the second pass.  A line of a type there is not is stored
\* but not counted.
Process(l) ==
    /\ spec_arr' = [spec_arr EXCEPT ![nspec + 1] = Stored(@, l)]
    /\ stem_arr' = IF opts.backend = "file" /\ StemOfSpec(l.regex) # NoStem
                   THEN stem_arr \cup {StemOfSpec(l.regex)} ELSE stem_arr
    /\ nspec' = IF opts.backend = "file" /\ l.type = "bad" THEN nspec ELSE nspec + 1

\* As it is not: the array is not looked at.
AtEndOfFile == line >= Len(Lines(Sources[src]))

\* The end of a file, or of the array that was allocated for it.
AtEnd == line >= Len(Lines(Sources[src])) \/ nspec >= maxnspec

ReadLine ==
    /\ phase = "reading" /\ ~AtEnd
    /\ line' = line + 1
    /\ LET l == Lines(Sources[src])[line + 1]
       IN  IF ~Kept(l) THEN UNCHANGED <<spec_arr, nspec, stem_arr>>
           ELSE IF pass = 0 THEN nspec' = nspec + 1 /\ UNCHANGED <<spec_arr, stem_arr>>
           ELSE Process(l)
    /\ UNCHANGED <<disk, edits, opts, phase, pass, src, maxnspec, edited, answer>>

\* As it is not: only for the same type.
DuplicatesOfOneType(i, j) ==
    /\ i < j /\ spec_arr[i].regex = spec_arr[j].regex
    /\ spec_arr[i].type = spec_arr[j].type

Duplicates(i, j) ==
    /\ i < j /\ spec_arr[i].regex = spec_arr[j].regex
    /\ \/ AnyType \in {spec_arr[i].type, spec_arr[j].type}
       \/ spec_arr[i].type = spec_arr[j].type

\* nodups_specs() of both backends, when the first file has been read.
Nodups == \A i, j \in 1..nspec : ~Duplicates(i, j)

Starred(key) == key # << >> /\ key[1] = Star

\* As it is not: in the order of the file.
PropertyOrdersOfFile == { [i \in 1..nspec |-> i] }

\* qsort() with the cmp() of the properties: the longest first, those that
\* begin with a star last; what compares equal may come in any order.
PropertyOrders ==
    { o \in [1..nspec -> 1..nspec] :
        /\ \A i, j \in 1..nspec : i # j => o[i] # o[j]
        /\ \A i, j \in 1..nspec : i < j =>
              LET a == spec_arr[o[i]].regex
                  b == spec_arr[o[j]].regex
              IN  ~Starred(a) /\ ~Starred(b) => Len(a) >= Len(b)
        /\ \A i, j \in 1..nspec : i < j =>
              (Starred(spec_arr[o[i]].regex) => Starred(spec_arr[o[j]].regex)) }

\* As it is not: the exact ones stay where they are.
ExactKept(specs) == specs

\* The exact specifications are moved to the end.
ExactLast(specs) ==
    LET exact == { i \in DOMAIN specs : ~HasMetaChars(specs[i].regex) }
    IN  Picked(specs, DOMAIN specs \ exact) \o Picked(specs, exact)

Opened ==
    /\ phase' = "open"
    /\ IF opts.backend = "property"
       THEN \E o \in PropertyOrders :
               spec_arr' = [i \in 1..nspec |-> spec_arr[o[i]]]
       ELSE spec_arr' = ExactLast(SubSeq(spec_arr, 1, nspec))
    /\ UNCHANGED <<reader, nspec>>

\* The end of a file: the next one; after the first of the second pass the
\* search for duplicates; after the last of the first the array is allocated.
EndOfFile ==
    /\ phase = "reading" /\ AtEnd
    /\ IF pass = 1 /\ src = 1 /\ ~Nodups
       THEN phase' = "failed" /\ UNCHANGED <<reader, spec_arr, nspec>>
       ELSE IF src < Len(Sources)
       THEN /\ src' = src + 1 /\ line' = 0
            /\ UNCHANGED <<phase, pass, maxnspec, spec_arr, nspec>>
       ELSE IF pass = 0 /\ nspec = 0
       THEN phase' = "open" /\ UNCHANGED <<reader, spec_arr, nspec>>
       ELSE IF pass = 0
       THEN /\ pass' = 1 /\ src' = 1 /\ line' = 0
            /\ maxnspec' = nspec /\ nspec' = 0
            /\ spec_arr' = [i \in 1..nspec |-> NoSpec]
            /\ UNCHANGED phase
       ELSE Opened
    /\ UNCHANGED <<disk, edits, opts, stem_arr, edited, answer>>

\* Somebody edits a file that is being read.
Edit ==
    /\ phase = "reading" /\ edits < MaxEdits
    /\ edits' = edits + 1 /\ edited' = TRUE
    /\ \E name \in {"main", "property"} : disk[name] # Missing /\
          \/ /\ disk[name] # << >>
             /\ disk' = [disk EXCEPT ![name] = Front(@)]
          \/ /\ disk[name] # << >>
             /\ disk' = [disk EXCEPT ![name] = Append(@, Head(@))]
    /\ UNCHANGED <<opts, phase, reader, spec_arr, nspec, stem_arr, answer>>

\* The caller takes the answer, and asks again or closes the handle.
Take ==
    /\ answer # NoAnswer /\ answer' = NoAnswer
    /\ UNCHANGED <<disk, edits, opts, phase, reader, spec_arr, nspec, stem_arr, edited>>

Close ==
    /\ phase = "open" /\ answer = NoAnswer
    /\ phase' = "closed" /\ opts' = NoOpts
    /\ pass' = 0 /\ src' = 1 /\ line' = 0 /\ maxnspec' = 0
    /\ spec_arr' = << >> /\ nspec' = 0 /\ stem_arr' = {} /\ answer' = NoAnswer
    /\ edited' = FALSE
    /\ UNCHANGED <<disk, edits>>

-----------------------------------------------------------------------------
(* Looking up. *)

\* Duplicate slashes are removed.
Clean(key) == Picked(key, { i \in DOMAIN key : key[i] # Slash })

FileStem(path) == IF StemOfFile(path) \in stem_arr THEN StemOfFile(path) ELSE NoStem

\* The expression that is executed: compiled now if it has not been before.
Executed(s) ==
    IF s.compiled # None THEN s.compiled
    ELSE IF s.regex.compiles THEN Compiled(s.regex) ELSE None

\* In reverse order.
Comes(S) == Max(S)

\* As it is not: whatever the type.
TriedOfAnyType(key, type) ==
    { i \in 1..nspec : spec_arr[i].stem \in {NoStem, FileStem(Clean(key))} }

\* lookup_common(): the specifications that are tried, and the one that ends
\* the search -- it matches, or it cannot be compiled.
Tried(key, type) ==
    { i \in 1..nspec :
        /\ spec_arr[i].stem \in {NoStem, FileStem(Clean(key))}
        /\ type = AnyType \/ spec_arr[i].type \in {AnyType, type} }

Ends(i, key, partial) ==
    LET c    == Executed(spec_arr[i])
        rest == Behind(Clean(key), spec_arr[i].stem)
    IN  c = None \/ Matches(c, rest) \/ (partial /\ PartlyMatches(c, rest))

LastOf(key, type, partial) ==
    LET S == { i \in Tried(key, type) : Ends(i, key, partial) }
    IN  IF S = {} THEN 0 ELSE Comes(S)

Found(key, type, partial) ==
    LET i == LastOf(key, type, partial)
    IN  IF i = 0 THEN 0
        ELSE IF Executed(spec_arr[i]) = None \/ spec_arr[i].ctx = NoLabel THEN 0
        ELSE i

\* What a search has compiled on its way.
CompiledBy(searches) ==
    [i \in DOMAIN spec_arr |->
        IF \E q \in searches :
              i \in Tried(q.key, q.type) /\ i >= LastOf(q.key, q.type, q.partial)
        THEN [spec_arr[i] EXCEPT !.compiled = Executed(spec_arr[i])]
        ELSE spec_arr[i]]

\* lookup() of the properties: the first that the key begins with, or a star.
FoundProperty(key) ==
    LET S == { i \in 1..nspec : \/ IsPrefix(spec_arr[i].regex, key)
                                \/ Starred(spec_arr[i].regex) }
    IN  IF S = {} THEN 0 ELSE Min(S)

ContextOf(i) == IF i = 0 THEN None ELSE spec_arr[i].ctx

Answered(op, key, type, aliases, spec) ==
    /\ answer' = [op |-> op, key |-> key, type |-> type, aliases |-> aliases,
                  ctx |-> ContextOf(spec)]
    /\ UNCHANGED <<disk, edits, opts, phase, reader, nspec, stem_arr, edited>>

\* selabel_lookup().
Lookup(key, type) ==
    /\ phase = "open" /\ answer = NoAnswer
    /\ IF opts.backend = "property"
       THEN /\ Answered("lookup", key, type, << >>, FoundProperty(key))
            /\ UNCHANGED spec_arr
       ELSE /\ Answered("lookup", key, type, << >>, Found(key, type, FALSE))
            /\ spec_arr' = CompiledBy({[key |-> key, type |-> type, partial |-> FALSE]})

\* selabel_partial_match(): the properties assume that there may be a match.
PartialMatch(key) ==
    /\ phase = "open" /\ answer = NoAnswer
    /\ IF opts.backend = "property"
       THEN /\ answer' = [op |-> "partial", key |-> key, may |-> TRUE]
            /\ UNCHANGED spec_arr
       ELSE /\ answer' = [op |-> "partial", key |-> key, may |-> Found(key, AnyType, TRUE) # 0]
            /\ spec_arr' = CompiledBy({[key |-> key, type |-> AnyType, partial |-> TRUE]})
    /\ UNCHANGED <<disk, edits, opts, phase, reader, nspec, stem_arr, edited>>

\* As it is not: the last one found.
LongerAlways(i, best) == TRUE

\* An alias's specification is better than the best so far.
Longer(i, best) ==
    PrefixLen(spec_arr[i].regex) > (IF best = 0 THEN 0 ELSE PrefixLen(spec_arr[best].regex))

\* lookup_best_match(): the key's exact specification, or the first alias's, or
\* else the longest fixed prefix, the earlier of equals.
ExactOnes(found) ==
    { k \in DOMAIN found : found[k] # 0 /\ ~HasMetaChars(spec_arr[found[k]].regex) }

BestOf(found) ==
    LET step(best, i) == IF i # 0 /\ Longer(i, best) THEN i ELSE best
    IN  IF ExactOnes(found) # {} THEN found[Min(ExactOnes(found))]
        ELSE FoldLeft(step, found[1], Tail(found))

BestMatch(key, aliases, type) ==
    /\ phase = "open" /\ opts.backend = "file" /\ answer = NoAnswer
    /\ LET names == <<key>> \o aliases
           found == [k \in DOMAIN names |-> Found(names[k], type, FALSE)]
           last  == IF ExactOnes(found) = {} THEN Len(names) ELSE Min(ExactOnes(found))
       IN  /\ Answered("best", key, type, aliases, BestOf(found))
           /\ spec_arr' = CompiledBy({ [key |-> names[k], type |-> type, partial |-> FALSE]
                                         : k \in 1..last })

Next ==
    \/ Open \/ ReadLine \/ EndOfFile \/ Edit \/ Take \/ Close
    \/ \E key \in Keys, type \in Types : Lookup(key, type)
    \/ \E key \in Keys : PartialMatch(key)
    \/ \E key \in Keys, aliases \in Aliases, type \in Types : BestMatch(key, aliases, type)

Spec == Init /\ [][Next]_vars
-----------------------------------------------------------------------------
\* Properties.
TypeOK ==
    /\ phase \in {"closed", "reading", "open", "failed"}
    /\ pass \in 0..1 /\ src \in 1..3 /\ edits \in 0..MaxEdits
    /\ nspec <= maxnspec
    /\ (pass = 1 => nspec <= Len(spec_arr))
    /\ \A i \in DOMAIN spec_arr : spec_arr[i].stem \in stem_arr \cup {NoStem}

\* What the files say, without reading them line by line: the lines that are
\* specifications, those of a type there is not left out.
Positions == UNION { {k} \X (1..Len(Lines(Sources[k]))) : k \in 1..Len(Sources) }
LineAt(p) == Lines(Sources[p[1]])[p[2]]
Precedes(p, q) == p[1] < q[1] \/ (p[1] = q[1] /\ p[2] < q[2])

Effective ==
    { p \in Positions : /\ Kept(LineAt(p))
                        /\ opts.backend = "file" => LineAt(p).type # "bad" }

Fits(l, path, type) ==
    Matches(l.regex, path) /\ (type = AnyType \/ l.type \in {AnyType, type})

\* The last exact specification that fits, or else the last one.
Nowhere == <<0, 0>>
LastLine(S) == CHOOSE p \in S : \A q \in S : q = p \/ Precedes(q, p)

Meant(key, type) ==
    LET fit   == { p \in Effective : Fits(LineAt(p), Clean(key), type) }
        exact == { p \in fit : ~HasMetaChars(LineAt(p).regex) }
    IN  IF exact # {} THEN LastLine(exact)
        ELSE IF fit # {} THEN LastLine(fit) ELSE Nowhere

Context(p) == IF p = Nowhere \/ LineAt(p).ctx = NoLabel THEN None ELSE LineAt(p).ctx

\* What the answers below depend on: the files stayed as they were, and hold no
\* expression that cannot be compiled or has an escaped letter in its first
\* name, nor, when they are validated, a line of a type there is not.
Sound ==
    /\ ~edited /\ opts.backend = "file"
    /\ \A p \in Positions : LineAt(p).kind = "spec" =>
          /\ LineAt(p).regex.compiles /\ ~LineAt(p).regex.escaped
          /\ opts.validating => LineAt(p).type # "bad"

\* "the last matching specification is used": the answer is that of the files,
\* though only the specifications of the path's stem are tried, the exact ones
\* have been moved and a line of a wrong type has left its slot behind.
LastMatchWins ==
    answer.op = "lookup" /\ Sound =>
        answer.ctx = Context(Meant(answer.key, answer.type))

\* Whatever the files hold, a label is that of a specification whose own
\* expression matches -- unless they are validated, where an expression of a
\* line of a wrong type stays.
LabelFits ==
    answer.op \in {"lookup", "best"} /\ opts.backend = "file" /\ ~edited
    /\ ~opts.validating /\ answer.ctx # None =>
        LET names == <<answer.key>> \o answer.aliases
        IN  \E p \in Effective, k \in DOMAIN names :
                /\ LineAt(p).ctx = answer.ctx
                /\ Fits(LineAt(p), Clean(names[k]), answer.type)

\* The best match is the first exact one, or else the first of those with the
\* longest prefix.  An alias's that begins with nothing fixed is passed over.
BestMatchIsBest ==
    answer.op = "best" /\ Sound =>
        LET names == <<answer.key>> \o answer.aliases
            of(k) == Meant(names[k], answer.type)
            re(k) == LineAt(of(k)).regex
            met   == { k \in DOMAIN names : Context(of(k)) # None }
            exact == { k \in met : ~HasMetaChars(re(k)) }
            taken == { k \in met : k = 1 \/ PrefixLen(re(k)) > 0 }
            longest == { k \in taken : \A m \in taken : PrefixLen(re(m)) <= PrefixLen(re(k)) }
        IN  answer.ctx = IF exact # {} THEN Context(of(Min(exact)))
                         ELSE IF taken # {} THEN Context(of(Min(longest))) ELSE None

\* What is answered of a file is what the specifications say of it.
FileAnswersRight == TypeOK /\ LastMatchWins /\ LabelFits /\ BestMatchIsBest

\* A specification that matches a path or one below it.
MayFit(l, path) == Matches(l.regex, path) \/ PartlyMatches(l.regex, path)

\* A directory that is skipped since nothing below it can match has no label of
\* its own and holds nothing that has one -- unless it is a directory of the
\* root, or a specification without a label is for it or something below.
SkippedHasNoLabels ==
    answer.op = "partial" /\ Sound /\ ~answer.may /\ Len(Clean(answer.key)) > 1
    /\ (\A p \in Effective : MayFit(LineAt(p), Clean(answer.key)) => LineAt(p).ctx # NoLabel) =>
        \A key \in Keys, type \in Types :
            IsPrefix(Clean(answer.key), Clean(key)) => Meant(key, type) = Nowhere

\* A property has the context of the longest key it begins with, or else that
\* of a star.
LongestPrefixWins ==
    answer.op = "lookup" /\ opts.backend = "property" /\ ~edited =>
        LET re(p) == LineAt(p).regex
            begun == { p \in Effective : ~Starred(re(p)) /\ IsPrefix(re(p), answer.key) }
            stars == { p \in Effective : Starred(re(p)) }
        IN  IF begun # {}
            THEN \E p \in begun : /\ \A q \in begun : Len(re(q)) <= Len(re(p))
                                  /\ answer.ctx = LineAt(p).ctx
            ELSE IF stars # {} THEN \E p \in stars : answer.ctx = LineAt(p).ctx
            ELSE answer.ctx = None

\* A file that says two things of one path and type is never opened.
NoConflictsOpened ==
    phase = "open" /\ ~edited =>
        \A p, q \in Effective :
            p[1] = 1 /\ q[1] = 1 /\ p # q /\ LineAt(p).regex = LineAt(q).regex =>
                /\ opts.backend = "file"
                /\ AnyType \notin {LineAt(p).type, LineAt(q).type}
                /\ LineAt(p).type # LineAt(q).type

\* What is answered of a property is what one specification says of it, and no
\* other says anything else.
PropertyAnswersRight == LongestPrefixWins /\ NoConflictsOpened
=============================================================================
