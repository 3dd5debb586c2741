------------------------------ MODULE Avc_proofs ------------------------------
(***************************************************************************)
(* Proofs about Avc, for any callers and contexts, pools of any size, any   *)
(* sequence of policies and sockets of any length.                          *)
(***************************************************************************)
EXTENDS Avc, FiniteSetTheorems, TLAPS

USE PoolAssumption, LoadsAssumption, NoneAssumption

(* The invariants.                                                            *)

Holding == {"compute", "insert", "answer"}
Handlers == Callers \cup {Netlink}

IsEntry(e) ==
    /\ DOMAIN e = {"key", "allowed", "decided", "seqno", "permissive", "create", "used"}
    /\ e.seqno \in Nat

IsCall(r) ==
    /\ DOMAIN r = {"pc", "op", "key", "asked", "got", "floor"}
    /\ r.pc \in {"idle", "poll", "wait"} \cup Holding
    /\ r.pc # "idle" => r.key \in Nat \X Nat
    /\ r.floor \in Nat
    /\ IsEntry(r.got)

IsNotice(r) ==
    /\ DOMAIN r = {"pc", "seqno", "fails", "sets"}
    /\ r.pc \in {"none", "reset", "notify"}
    /\ r.seqno \in Nat

Messages == [type : {"load", "setenforce"}, seqno : Nat, val : BOOLEAN]

CacheTypes ==
    /\ DOMAIN entry = Node /\ \A n \in Node : IsEntry(entry[n])
    /\ chains \in [0..(Slots - 1) -> Seq(Node)]
    /\ free \in Seq(Node)

CallTypes ==
    /\ DOMAIN call = Callers /\ \A c \in Callers : IsCall(call[c])
    /\ ref \in [Callers -> Node \cup {None}]
    /\ \A c \in Callers : call[c].pc \in Holding <=> lock = c

NoticeTypes ==
    /\ DOMAIN handling = Handlers /\ \A p \in Handlers : IsNotice(handling[p])
    /\ queue \in Seq(Messages)
    /\ policy \in Loads /\ latest \in Nat /\ sidtab \in Seq(Contexts)
    /\ latest <= policy
    /\ \A p \in DOMAIN handling : handling[p].seqno <= policy
    /\ \A i \in DOMAIN queue : queue[i].seqno <= policy
    /\ mode = "poll" => \A p \in DOMAIN handling \ Callers : handling[p].pc = "none"

\* Nodes out of the cache are nobody's: a reference to one of them is seen through.
OthersBlank == \A n \in Node \ Cached : entry[n].key = None

AnsweredFrom == \A c \in Callers : call[c].pc = "answer" => ref[c] \in Cached

\* Between emptying the cache and noting the notice only decisions of the new
\* policy come in.
NoticeKept ==
    \A p \in DOMAIN handling : handling[p].pc = "notify" =>
        /\ \A n \in Cached : entry[n].seqno >= handling[p].seqno
        /\ \A c \in Callers : call[c].pc = "insert" => call[c].got.seqno >= handling[p].seqno

\* If no message was dropped, the policy has been noted, or its notice is on the way.
Pending ==
    \/ lost
    \/ latest = policy
    \/ \E p \in DOMAIN handling : handling[p].pc # "none" /\ handling[p].seqno = policy
    \/ \E i \in DOMAIN queue : queue[i].type = "load" /\ queue[i].seqno = policy

SocketInv == (overrun => lost) /\ Pending

FloorNoted == mode = "poll" => \A c \in Callers : call[c].floor <= latest

CacheInv == CacheTypes /\ OthersBlank /\ CacheNotOlder
CallInv  == CallTypes /\ AnsweredFrom /\ FloorNoted
AInv == CacheInv /\ CallInv /\ NoticeTypes /\ NoticeKept /\ SocketInv

LEMMA AInvInit == Init => AInv
<1> SUFFICES ASSUME Init PROVE AInv
  OBVIOUS
<1> USE DEF Init
<1>1. IsEntry(Blank)
  BY DEF IsEntry, Blank
<1>2. Cached = {}
  BY DEF Cached, Range
<1>3. CacheInv
  <2>1. free \in Seq(Node)
    BY DEF Node
  <2>2. chains \in [0..(Slots - 1) -> Seq(Node)]
    OBVIOUS
  <2>3. DOMAIN entry = Node /\ \A n \in Node : IsEntry(entry[n]) /\ entry[n].key = None
    BY <1>1 DEF Blank
  <2>4. QED
    BY <1>2, <2>1, <2>2, <2>3 DEF CacheInv, CacheTypes, OthersBlank, CacheNotOlder
<1>4. CallInv
  <2>1. IsCall(Idle)
    BY <1>1 DEF IsCall, Idle
  <2>2. \A c \in Callers : call[c].pc = "idle" /\ call[c].floor = 0
    BY DEF Idle
  <2>3. QED
    BY <2>1, <2>2 DEF CallInv, CallTypes, AnsweredFrom, FloorNoted, Holding
<1>5. NoticeTypes /\ NoticeKept /\ SocketInv
  <2>1. IsNotice(Quiet) /\ Quiet.pc = "none" /\ Quiet.seqno = 0
    BY DEF Quiet, IsNotice
  <2>2. QED
    BY <2>1, <1>2 DEF NoticeTypes, Handlers, NoticeKept, SocketInv, Pending
<1>6. QED
  BY <1>3, <1>4, <1>5 DEF AInv

--------------------------------------------------------------------------------
(* Steps of the callers.                                                       *)

\* Entries are marked, answer more or learn a label: pair and policy are kept.
EntriesKept ==
    /\ DOMAIN entry' = Node
    /\ \A n \in Node : /\ IsEntry(entry'[n])
                       /\ entry'[n].key = entry[n].key
                       /\ entry'[n].seqno = entry[n].seqno

NoticesUntouched == UNCHANGED <<mode, latest, handling, policy, queue, overrun, lost>>

\* Only the call of c, and what belongs to it, has changed.
OnlyCallOf(c) ==
    /\ DOMAIN call' = Callers
    /\ \A d \in Callers \ {c} : call'[d] = call[d]
    /\ \A d \in Callers \ {c} : lock' = d <=> lock = d
    /\ ref' \in [Callers -> Node \cup {None}]
    /\ \A d \in Callers \ {c} : call[d].pc = "answer" => ref'[d] = ref[d]
    /\ IsCall(call'[c])
    /\ call'[c].pc \in Holding <=> lock' = c

LEMMA CachedNodes == CacheTypes => Cached \subseteq Node
BY DEF CacheTypes, Cached, Range

LEMMA CacheKept ==
    ASSUME CacheInv, EntriesKept, UNCHANGED <<chains, free, latest>>
    PROVE  CacheInv' /\ Cached' = Cached
<1>1. Cached' = Cached
  BY DEF Cached
<1>2. Cached \subseteq Node
  BY CachedNodes DEF CacheInv
<1>3. CacheTypes'
  BY DEF CacheInv, CacheTypes, EntriesKept
<1>4. OthersBlank' /\ CacheNotOlder'
  BY <1>1, <1>2 DEF CacheInv, OthersBlank, CacheNotOlder, EntriesKept
<1>5. QED
  BY <1>1, <1>3, <1>4 DEF CacheInv

\* A call goes on while the cache holds the nodes it held.
LEMMA CallsKept ==
    ASSUME CallInv, NEW c \in Callers, OnlyCallOf(c), UNCHANGED <<mode, latest>>,
           Cached' = Cached,
           call'[c].pc = "answer" => ref'[c] \in Cached,
           mode = "poll" => call'[c].floor <= latest
    PROVE  CallInv'
<1>1. CallTypes'
  BY DEF CallInv, CallTypes, OnlyCallOf
<1>2. AnsweredFrom'
  BY DEF CallInv, CallTypes, AnsweredFrom, OnlyCallOf
<1>3. FloorNoted'
  BY DEF CallInv, CallTypes, FloorNoted, OnlyCallOf
<1>4. QED
  BY <1>1, <1>2, <1>3 DEF CallInv

LEMMA NoticesKept ==
    ASSUME AInv, NoticesUntouched, sidtab' \in Seq(Contexts),
           NEW c \in Callers, OnlyCallOf(c),
           \A n \in Cached' : \/ n \in Cached /\ entry'[n].seqno = entry[n].seqno
                              \/ \E d \in Callers : call[d].pc = "insert"
                                                    /\ entry'[n].seqno = call[d].got.seqno,
           call'[c].pc = "insert" =>
               call'[c].got.seqno >= policy \/ (call[c].pc = "insert" /\ call'[c] = call[c])
    PROVE  NoticeTypes' /\ NoticeKept' /\ SocketInv'
<1>1. NoticeTypes'
  BY DEF AInv, NoticeTypes, NoticesUntouched
<1>2. SocketInv'
  BY DEF AInv, SocketInv, Pending, NoticesUntouched
<1>3. NoticeKept'
  <2> SUFFICES ASSUME NEW p \in DOMAIN handling, handling[p].pc = "notify"
               PROVE  /\ \A n \in Cached' : entry'[n].seqno >= handling[p].seqno
                      /\ \A d \in Callers : call'[d].pc = "insert" =>
                             call'[d].got.seqno >= handling[p].seqno
    BY DEF NoticeKept, NoticesUntouched
  <2>1. handling[p].seqno \in Nat /\ policy \in Nat /\ handling[p].seqno <= policy
    BY DEF AInv, NoticeTypes, IsNotice
  <2>2. \A n \in Cached : entry[n].seqno >= handling[p].seqno
    BY DEF AInv, NoticeKept
  <2>3. \A d \in Callers : call[d].pc = "insert" => call[d].got.seqno >= handling[p].seqno
    BY DEF AInv, NoticeKept
  <2>4. ASSUME NEW d \in Callers, call'[d].pc = "insert"
        PROVE  call'[d].got.seqno >= handling[p].seqno
    <3>1. CASE d = c
      <4>1. call'[c].got.seqno \in Nat
        BY DEF OnlyCallOf, IsCall, IsEntry
      <4>2. QED
        BY <2>1, <2>3, <2>4, <3>1, <4>1
    <3>2. CASE d # c
      BY <2>3, <2>4, <3>2 DEF OnlyCallOf
    <3>3. QED
      BY <3>1, <3>2
  <2>5. QED
    BY <2>2, <2>3, <2>4
<1>4. QED
  BY <1>1, <1>2, <1>3

\* What all steps of a caller that insert nothing have in common.
LEMMA CallerKeeps ==
    ASSUME AInv, NEW c \in Callers, OnlyCallOf(c), NoticesUntouched,
           EntriesKept, UNCHANGED <<chains, free>>, sidtab' \in Seq(Contexts),
           call'[c].pc = "answer" => ref'[c] \in Cached,
           mode = "poll" => call'[c].floor <= latest,
           call'[c].pc = "insert" =>
               call'[c].got.seqno >= policy \/ (call[c].pc = "insert" /\ call'[c] = call[c])
    PROVE  AInv'
<1>1. CacheInv' /\ Cached' = Cached
  BY CacheKept DEF AInv, NoticesUntouched
<1>2. CallInv'
  BY <1>1, CallsKept DEF AInv, NoticesUntouched
<1>3. \A n \in Cached : entry'[n].seqno = entry[n].seqno
  BY CachedNodes DEF AInv, CacheInv, EntriesKept
<1>4. NoticeTypes' /\ NoticeKept' /\ SocketInv'
  BY <1>1, <1>3, NoticesKept
<1>5. QED
  BY <1>1, <1>2, <1>4 DEF AInv

LEMMA SidTyped ==
    ASSUME sidtab \in Seq(Contexts), NEW ctx, HasSid(ctx)
    PROVE  SidOf(ctx) \in Nat
<1>1. \E i \in DOMAIN sidtab : sidtab[i] = ctx
  BY DEF HasSid, Range
<1>2. SidOf(ctx) \in DOMAIN sidtab
  BY <1>1 DEF SidOf
<1>3. QED
  BY <1>2

LEMMA EntriesUntouched == CacheTypes /\ UNCHANGED entry => EntriesKept
BY DEF CacheTypes, EntriesKept

LEMMA BlankEntry == IsEntry(Blank)
BY DEF IsEntry, Blank

LEMMA IdleCall == IsCall(Idle) /\ Idle.pc = "idle" /\ Idle.floor = 0
BY BlankEntry DEF IsCall, Idle

LEMMA AskKeeps ==
    ASSUME AInv, NEW c \in Callers, NEW pair,
           (\E asked : AskPerm(c, pair, asked)) \/ AskCreate(c, pair)
    PROVE  AInv'
<1>1. SidOf(pair[1]) \in Nat /\ SidOf(pair[2]) \in Nat
  BY SidTyped DEF AInv, NoticeTypes, AskPerm, AskCreate
<1>2. UNCHANGED <<chains, free, entry, lock, sidtab>> /\ NoticesUntouched
  BY DEF AskPerm, AskCreate, cache, kernel, NoticesUntouched
<1>3. IsCall(call'[c]) /\ call'[c].pc \in {"poll", "wait"} /\ call'[c].floor = 0
  <2> DEFINE asking(pc, op, asked) ==
                [pc |-> pc, op |-> op, key |-> <<SidOf(pair[1]), SidOf(pair[2])>>,
                 asked |-> asked, got |-> Blank, floor |-> 0]
  <2>1. ASSUME NEW pc \in {"poll", "wait"}, NEW op, NEW asked
        PROVE  IsCall(asking(pc, op, asked))
    BY <1>1, BlankEntry DEF IsCall
  <2>2. DOMAIN call = Callers
    BY DEF AInv, CallInv, CallTypes
  <2>3. CASE AskCreate(c, pair)
    <3>1. call'[c] = asking("wait", "create", {})
      BY <2>2, <2>3 DEF AskCreate, Idle
    <3>2. QED
      BY <2>1, <3>1
  <2>4. ASSUME NEW asked, AskPerm(c, pair, asked)
        PROVE  IsCall(call'[c]) /\ call'[c].pc \in {"poll", "wait"} /\ call'[c].floor = 0
    <3>1. PICK pc \in {"poll", "wait"} : call'[c] = asking(pc, "perm", asked)
      BY <2>2, <2>4 DEF AskPerm, Idle
    <3>2. QED
      BY <2>1, <3>1
  <2>5. QED
    BY <2>3, <2>4
<1>4. call[c].pc \notin Holding /\ lock # c
  BY DEF AskPerm, AskCreate, AInv, CallInv, CallTypes, Holding
<1>5. OnlyCallOf(c)
  <2>1. /\ DOMAIN call = Callers /\ ref \in [Callers -> Node \cup {None}]
    BY DEF AInv, CallInv, CallTypes
  <2>2. /\ DOMAIN call' = Callers
        /\ \A d \in Callers \ {c} : call'[d] = call[d]
    BY <2>1 DEF AskPerm, AskCreate
  <2>3. /\ ref' \in [Callers -> Node \cup {None}]
        /\ \A d \in Callers \ {c} : ref'[d] = ref[d]
    <3>1. PICK kept \in {ref[c], None} : ref' = [ref EXCEPT ![c] = kept]
      BY DEF AskPerm, AskCreate
    <3>2. QED
      BY <2>1, <3>1
  <2>4. call'[c].pc \in Holding <=> lock' = c
    BY <1>2, <1>3, <1>4 DEF Holding
  <2>5. QED
    BY <1>2, <1>3, <2>2, <2>3, <2>4 DEF OnlyCallOf
<1>6. QED
  BY <1>2, <1>3, <1>5, CallerKeeps, EntriesUntouched DEF AInv, CacheInv, NoticeTypes

LEMMA LatestNat == ASSUME AInv PROVE latest \in Nat /\ 0 <= latest /\ policy \in Nat
<1>1. latest \in Nat /\ policy \in Loads
  BY DEF AInv, NoticeTypes
<1>2. Loads \subseteq Nat
  BY LoadsAssumption
<1>3. policy \in Nat
  BY <1>1, <1>2
<1>4. 0 <= latest
  BY <1>1
<1>5. QED
  BY <1>1, <1>3, <1>4

\* A call that ends.
LEMMA EndsCall ==
    ASSUME AInv, NEW c \in Callers, call' = [call EXCEPT ![c] = Idle], lock' = None,
           lock = c, ref' \in [Callers -> Node \cup {None}]
    PROVE  OnlyCallOf(c) /\ call'[c].pc = "idle" /\ call'[c].floor = 0
<1>1. call'[c] = Idle /\ DOMAIN call' = Callers
      /\ \A d \in Callers \ {c} : call'[d] = call[d] /\ call[d].pc \notin Holding
  BY DEF AInv, CallInv, CallTypes
<1>2. QED
  BY <1>1, IdleCall DEF OnlyCallOf, Holding

LEMMA PolledKeeps == ASSUME AInv, NEW c \in Callers, Polled(c) PROVE AInv'
<1>1. UNCHANGED <<mode, cache, latest, sidtab, lock, ref, handling, policy, queue, lost>>
      /\ overrun' = FALSE
  BY DEF Polled
<1>2. /\ DOMAIN call' = Callers
      /\ \A d \in Callers \ {c} : call'[d] = call[d]
      /\ call[c].pc = "poll" /\ call'[c].pc = "wait" /\ IsCall(call'[c])
      /\ call'[c].floor \in {0, policy}
      /\ call'[c].floor # 0 => ~lost /\ \A p \in Callers : handling[p].pc = "none"
  <2>1. IsCall(call[c]) /\ DOMAIN call = Callers /\ policy \in Nat
    BY DEF AInv, CallInv, CallTypes, NoticeTypes
  <2>2. call'[c] = [call[c] EXCEPT !.pc = "wait", !.floor = IF lost \/ \E p \in Callers : handling[p].pc # "none"
                                                        THEN 0 ELSE policy]
        /\ DOMAIN call' = Callers
        /\ \A d \in Callers \ {c} : call'[d] = call[d]
    BY <2>1 DEF Polled
  <2>3. call[c].pc = "poll"
    BY DEF Polled
  <2>4. QED
    BY <2>1, <2>2, <2>3 DEF IsCall
<1>3. mode = "poll" => call'[c].floor <= latest
  <2>1. CASE call'[c].floor = 0
    BY <2>1 DEF AInv, NoticeTypes
  <2>2. CASE call'[c].floor # 0
    <3>1. ~lost /\ call'[c].floor = policy /\ \A p \in Callers : handling[p].pc = "none"
      BY <1>2, <2>2
    <3>2. queue = << >>
      BY <3>1 DEF Polled, Drained, AInv, SocketInv
    <3>3. mode = "poll" => latest = policy
      BY <3>1, <3>2 DEF AInv, SocketInv, Pending, NoticeTypes
    <3>4. QED
      BY <3>1, <3>3 DEF AInv, NoticeTypes
  <2>3. QED
    BY <2>1, <2>2
<1>4. OnlyCallOf(c)
  BY <1>1, <1>2 DEF OnlyCallOf, AInv, CallInv, CallTypes, Holding
<1>5. CacheInv' /\ Cached' = Cached
  BY <1>1, CacheKept, EntriesUntouched DEF cache, AInv, CacheInv
<1>6. CallInv'
  BY <1>1, <1>2, <1>3, <1>4, <1>5, CallsKept DEF AInv
<1>7. NoticeTypes' /\ SocketInv'
  BY <1>1 DEF AInv, NoticeTypes, SocketInv, Pending
<1>8. NoticeKept'
  <2>1. \A d \in Callers : call'[d].pc = "insert" => call'[d] = call[d]
    BY <1>2
  <2>2. QED
    BY <1>1, <1>5, <2>1 DEF AInv, NoticeKept, cache
<1>9. QED
  BY <1>5, <1>6, <1>7, <1>8 DEF AInv

\* A blank node has no pair, hence a reference that covers a call is to a cached one.
LEMMA CoversCached ==
    ASSUME AInv, NEW c \in Callers, call[c].pc # "idle", ref[c] # None,
           Covers(ref[c], call[c].key, call[c].asked)
    PROVE  ref[c] \in Cached
<1>1. call[c].key \in Nat \X Nat
  BY DEF AInv, CallInv, CallTypes, IsCall
<1>2. ref[c] \in Node
  BY DEF AInv, CallInv, CallTypes
<1>3. entry[ref[c]].key # None
  BY <1>1 DEF Covers
<1>4. QED
  BY <1>2, <1>3 DEF AInv, CacheInv, OthersBlank

LEMMA MarkKeeps ==
    ASSUME CacheTypes, NEW n \in Node, entry' = [entry EXCEPT ![n].used = TRUE]
    PROVE  EntriesKept
<1>1. entry'[n] = [entry[n] EXCEPT !.used = TRUE] /\ DOMAIN entry' = Node
      /\ \A m \in Node \ {n} : entry'[m] = entry[m]
  BY DEF CacheTypes
<1>2. IsEntry(entry'[n]) /\ entry'[n].key = entry[n].key /\ entry'[n].seqno = entry[n].seqno
  BY <1>1 DEF CacheTypes, IsEntry
<1>3. QED
  BY <1>1, <1>2 DEF EntriesKept, CacheTypes

LEMMA LookupKeeps == ASSUME AInv, NEW c \in Callers, Lookup(c) PROVE AInv'
<1>1. /\ UNCHANGED <<chains, free, sidtab>> /\ NoticesUntouched
      /\ call[c].pc = "wait" /\ lock = None /\ lock' = c
  BY DEF Lookup, NoticesUntouched, kernel
<1>2. IsCall(call[c]) /\ DOMAIN call = Callers /\ CacheTypes
  BY DEF AInv, CallInv, CallTypes, CacheInv
<1>3. ASSUME NEW to \in {"answer", "compute"}, call' = [call EXCEPT ![c].pc = to],
             ref' \in [Callers -> Node \cup {None}],
             to = "answer" => ref'[c] \in Cached, EntriesKept
      PROVE  AInv'
  <2>1. call'[c] = [call[c] EXCEPT !.pc = to] /\ DOMAIN call' = Callers
        /\ \A d \in Callers \ {c} : call'[d] = call[d]
    BY <1>2, <1>3
  <2>2. IsCall(call'[c]) /\ call'[c].pc = to /\ call'[c].floor = call[c].floor
    BY <1>1, <1>2, <2>1 DEF IsCall, Holding
  <2>3. OnlyCallOf(c)
    <3>1. \A d \in Callers : call[d].pc # "answer"
      BY <1>1 DEF AInv, CallInv, CallTypes, Holding
    <3>2. QED
      BY <1>1, <1>3, <2>1, <2>2, <3>1 DEF OnlyCallOf, Holding
  <2>4. mode = "poll" => call'[c].floor <= latest
    BY <2>2 DEF AInv, CallInv, FloorNoted
  <2>5. QED
    BY <1>1, <1>3, <2>2, <2>3, <2>4, CallerKeeps DEF AInv, NoticeTypes
<1>4. CASE ref[c] # None /\ Covers(ref[c], call[c].key, call[c].asked)
  <2>1. /\ call' = [call EXCEPT ![c].pc = "answer"]
        /\ entry' = [entry EXCEPT ![ref[c]].used = TRUE]
        /\ ref' = ref
    BY <1>4 DEF Lookup
  <2>2. ref[c] \in Cached
    BY <1>1, <1>4, CoversCached
  <2>3. EntriesKept
    BY <1>2, <2>1, <2>2, MarkKeeps, CachedNodes
  <2>4. QED
    BY <1>3, <2>1, <2>2, <2>3 DEF AInv, CallInv, CallTypes
<1>5. CASE ~(ref[c] # None /\ Covers(ref[c], call[c].key, call[c].asked))
  <2>1. PICK found \in Search(call[c].key) :
          LET hit == found # None /\ call[c].asked \subseteq entry[found].decided
          IN  /\ call' = [call EXCEPT ![c].pc = IF hit THEN "answer" ELSE "compute"]
              /\ ref' = IF hit THEN [ref EXCEPT ![c] = found] ELSE ref
              /\ entry' = IF found = None THEN entry
                          ELSE [entry EXCEPT ![found].used = TRUE]
    BY <1>5 DEF Lookup
  <2>2. found = None \/ found \in Cached
    <3>1. Hash(call[c].key) \in DOMAIN chains
      <4>1. call[c].key[1] + 2 * call[c].key[2] \in Nat
        BY <1>1, <1>2 DEF IsCall
      <4>2. Hash(call[c].key) \in 0..(Slots - 1)
        BY <4>1 DEF Hash
      <4>3. QED
        BY <1>2, <4>2 DEF CacheTypes
    <3>2. found = None \/ \E i \in DOMAIN chains[Hash(call[c].key)] :
                               found = chains[Hash(call[c].key)][i]
      BY DEF Search
    <3>3. QED
      BY <3>1, <3>2 DEF Cached, Range
  <2>3. EntriesKept
    BY <1>2, <2>1, <2>2, MarkKeeps, CachedNodes, EntriesUntouched
  <2>4. CASE found # None /\ call[c].asked \subseteq entry[found].decided
    <3>1. call' = [call EXCEPT ![c].pc = "answer"] /\ ref' = [ref EXCEPT ![c] = found]
      BY <2>1, <2>4
    <3>2. ref'[c] = found /\ ref' \in [Callers -> Node \cup {None}]
      BY <1>2, <2>2, <3>1, CachedNodes DEF AInv, CallInv, CallTypes
    <3>3. QED
      BY <1>3, <2>2, <2>3, <2>4, <3>1, <3>2
  <2>5. CASE ~(found # None /\ call[c].asked \subseteq entry[found].decided)
    <3>1. call' = [call EXCEPT ![c].pc = "compute"] /\ ref' = ref
      BY <2>1, <2>5
    <3>2. QED
      BY <1>3, <2>3, <3>1 DEF AInv, CallInv, CallTypes
  <2>6. QED
    BY <2>4, <2>5
<1>6. QED
  BY <1>4, <1>5

LEMMA ComputeKeeps == ASSUME AInv, NEW c \in Callers, Compute(c) PROVE AInv'
<1>1. /\ UNCHANGED <<chains, free, entry, sidtab, ref>> /\ NoticesUntouched
      /\ call[c].pc = "compute" /\ lock = c
  BY DEF Compute, cache, kernel, NoticesUntouched, AInv, CallInv, CallTypes, Holding
<1>2. EntriesKept /\ sidtab' \in Seq(Contexts) /\ ref' \in [Callers -> Node \cup {None}]
  BY <1>1, EntriesUntouched DEF AInv, CacheInv, CallInv, CallTypes, NoticeTypes
<1>3. CASE GivenUp(c)
  <2>1. OnlyCallOf(c) /\ call'[c].pc = "idle" /\ call'[c].floor = 0
    BY <1>1, <1>2, <1>3, EndsCall DEF GivenUp
  <2>2. QED
    BY <1>1, <1>2, <2>1, LatestNat, CallerKeeps
<1>4. CASE ~GivenUp(c)
  <2> DEFINE pair == <<sidtab[call[c].key[1]], sidtab[call[c].key[2]]>>
             got(decided) == [Blank EXCEPT !.allowed = Policy[policy][pair],
                                           !.permissive = pair[1] \in Permissive[policy],
                                           !.decided = decided, !.seqno = policy]
  <2>1. PICK decided \in {call[c].asked, Perms} :
            /\ call' = [call EXCEPT ![c].pc = "insert", ![c].got = got(decided)]
            /\ UNCHANGED lock
    BY <1>4 DEF Compute
  <2>2. IsEntry(got(decided)) /\ got(decided).seqno = policy
    BY BlankEntry DEF IsEntry, Blank, AInv, NoticeTypes
  <2>3. IsCall(call[c]) /\ DOMAIN call = Callers
    BY DEF AInv, CallInv, CallTypes
  <2> HIDE DEF got
  <2>4. call'[c] = [call[c] EXCEPT !.pc = "insert", !.got = got(decided)]
        /\ DOMAIN call' = Callers
        /\ \A d \in Callers \ {c} : call'[d] = call[d]
    BY <2>1, <2>3
  <2>5. IsCall(call'[c]) /\ call'[c].pc = "insert" /\ call'[c].floor = call[c].floor
        /\ call'[c].got.seqno = policy
    BY <1>1, <2>2, <2>3, <2>4 DEF IsCall, Holding
  <2>6. OnlyCallOf(c)
    BY <1>1, <1>2, <2>1, <2>4, <2>5 DEF OnlyCallOf, Holding
  <2>7. mode = "poll" => call'[c].floor <= latest
    BY <2>5 DEF AInv, CallInv, FloorNoted
  <2>8. call'[c].got.seqno >= policy
    BY <2>5, LatestNat
  <2>9. QED
    BY <1>1, <1>2, <2>5, <2>6, <2>7, <2>8, CallerKeeps
<1>5. QED
  BY <1>3, <1>4

LEMMA AnswerPermKeeps == ASSUME AInv, NEW c \in Callers, AnswerPerm(c) PROVE AInv'
<1>1. /\ UNCHANGED <<chains, free, sidtab, ref>> /\ NoticesUntouched
      /\ call[c].pc = "answer" /\ lock = c
      /\ call' = [call EXCEPT ![c] = Idle] /\ lock' = None
  BY DEF AnswerPerm, kernel, NoticesUntouched, AInv, CallInv, CallTypes, Holding
<1>2. OnlyCallOf(c) /\ call'[c].pc = "idle" /\ call'[c].floor = 0
  BY <1>1, EndsCall DEF AInv, CallInv, CallTypes
<1>3. ref[c] \in Node /\ CacheTypes
  BY <1>1, CachedNodes DEF AInv, CacheInv, CallInv, AnsweredFrom
<1>4. EntriesKept
  <2>1. CASE entry' = [entry EXCEPT ![ref[c]].allowed = entry[ref[c]].allowed \cup call[c].asked]
    <3>1. /\ entry'[ref[c]] = [entry[ref[c]] EXCEPT !.allowed = entry[ref[c]].allowed \cup call[c].asked]
          /\ DOMAIN entry' = Node
          /\ \A m \in Node \ {ref[c]} : entry'[m] = entry[m]
      BY <1>3, <2>1 DEF CacheTypes
    <3>2. IsEntry(entry'[ref[c]]) /\ entry'[ref[c]].key = entry[ref[c]].key
          /\ entry'[ref[c]].seqno = entry[ref[c]].seqno
      BY <1>3, <3>1 DEF CacheTypes, IsEntry
    <3>3. QED
      BY <1>3, <3>1, <3>2 DEF EntriesKept, CacheTypes
  <2>2. QED
    BY <1>3, <2>1, EntriesUntouched DEF AnswerPerm
<1>5. QED
  BY <1>1, <1>2, <1>4, CallerKeeps DEF AInv, NoticeTypes

LEMMA AnswerCreateKeeps == ASSUME AInv, NEW c \in Callers, AnswerCreate(c) PROVE AInv'
<1>1. /\ UNCHANGED <<chains, free>> /\ NoticesUntouched
      /\ call[c].pc = "answer" /\ lock = c
      /\ call' = [call EXCEPT ![c] = Idle] /\ lock' = None
      /\ ref' = [ref EXCEPT ![c] = None]
  BY DEF AnswerCreate, kernel, NoticesUntouched, AInv, CallInv, CallTypes, Holding
<1>2. OnlyCallOf(c) /\ call'[c].pc = "idle" /\ call'[c].floor = 0
  BY <1>1, EndsCall DEF AInv, CallInv, CallTypes
<1>3. ref[c] \in Node /\ CacheTypes
  BY <1>1, CachedNodes DEF AInv, CacheInv, CallInv, AnsweredFrom
<1>4. EntriesKept
  <2>1. ASSUME NEW sid, entry' = [entry EXCEPT ![ref[c]].create = sid]
        PROVE  EntriesKept
    <3>1. /\ entry'[ref[c]] = [entry[ref[c]] EXCEPT !.create = sid]
          /\ DOMAIN entry' = Node
          /\ \A m \in Node \ {ref[c]} : entry'[m] = entry[m]
      BY <1>3, <2>1 DEF CacheTypes
    <3>2. IsEntry(entry'[ref[c]]) /\ entry'[ref[c]].key = entry[ref[c]].key
          /\ entry'[ref[c]].seqno = entry[ref[c]].seqno
      BY <1>3, <3>1 DEF CacheTypes, IsEntry
    <3>3. QED
      BY <1>3, <3>1, <3>2 DEF EntriesKept, CacheTypes
  <2>2. QED
    BY <1>3, <2>1, EntriesUntouched DEF AnswerCreate
<1>5. sidtab' \in Seq(Contexts)
  <2>1. Label[policy] \in Contexts /\ sidtab \in Seq(Contexts)
    BY LabelAssumption DEF AInv, NoticeTypes
  <2>2. sidtab' = sidtab \/ sidtab' = Append(sidtab, Label[policy])
    BY DEF AnswerCreate
  <2>3. QED
    BY <2>1, <2>2
<1>6. QED
  BY <1>1, <1>2, <1>4, <1>5, LatestNat, CallerKeeps

LEMMA ContextKeeps == ASSUME AInv, NEW ctx \in Contexts, ContextToSid(ctx) PROVE AInv'
<1>1. UNCHANGED <<mode, cache, latest, lock, call, ref, handling, kernel>>
      /\ sidtab' \in Seq(Contexts)
  BY DEF ContextToSid, AInv, NoticeTypes
<1>2. CacheInv' /\ Cached' = Cached
  BY <1>1, CacheKept, EntriesUntouched DEF AInv, CacheInv, cache
<1>3. CallInv'
  BY <1>1, <1>2 DEF AInv, CallInv, CallTypes, AnsweredFrom, FloorNoted
<1>4. NoticeTypes' /\ SocketInv'
  BY <1>1 DEF AInv, NoticeTypes, SocketInv, Pending, kernel
<1>5. NoticeKept'
  BY <1>1, <1>2 DEF AInv, NoticeKept, cache
<1>6. QED
  BY <1>2, <1>3, <1>4, <1>5 DEF AInv

--------------------------------------------------------------------------------
(* A decision comes into the cache.                                            *)

\* The nodes a chain of the slots given holds.
InChains(slots) == UNION { Range(slots[s]) : s \in DOMAIN slots }

\* What a joined sequence holds at each place.
LEMMA Joined ==
    ASSUME NEW s \in Seq(Node), NEW t \in Seq(Node)
    PROVE  /\ s \o t \in Seq(Node) /\ Len(s \o t) = Len(s) + Len(t)
           /\ \A j \in 1..Len(s \o t) :
                 (s \o t)[j] = IF j <= Len(s) THEN s[j] ELSE t[j - Len(s)]
  OBVIOUS

\* A sequence without the element at a place.
LEMMA RemovedAt ==
    ASSUME NEW seq \in Seq(Node), NEW i \in DOMAIN seq
    PROVE  /\ RemoveAt(seq, i) \in Seq(Node) /\ Len(RemoveAt(seq, i)) = Len(seq) - 1
           /\ \A j \in 1..(i - 1) : RemoveAt(seq, i)[j] = seq[j]
           /\ \A j \in i..(Len(seq) - 1) : RemoveAt(seq, i)[j] = seq[j + 1]
<1> DEFINE front == SubSeq(seq, 1, i - 1)
           back  == SubSeq(seq, i + 1, Len(seq))
           rest  == front \o back
<1>1. /\ front \in Seq(Node) /\ Len(front) = i - 1
      /\ \A j \in 1..(i - 1) : front[j] = seq[j]
  OBVIOUS
<1>2. /\ back \in Seq(Node) /\ Len(back) = Len(seq) - i
      /\ \A j \in 1..(Len(seq) - i) : back[j] = seq[i + j]
  OBVIOUS
<1>3. RemoveAt(seq, i) = rest
  BY DEF RemoveAt
<1> HIDE DEF front, back
<1>4. rest \in Seq(Node) /\ Len(rest) = Len(front) + Len(back)
  BY <1>1, <1>2, Joined
<1>5. \A j \in 1..Len(rest) : rest[j] = IF j <= Len(front) THEN front[j]
                                                          ELSE back[j - Len(front)]
  BY <1>1, <1>2, Joined
<1> HIDE DEF rest
<1>6. /\ Len(seq) \in Nat /\ i \in 1..Len(seq)
  OBVIOUS
<1>7. Len(rest) = Len(seq) - 1
  BY <1>1, <1>2, <1>4, <1>6
<1>8. ASSUME NEW j \in 1..(i - 1) PROVE rest[j] = seq[j]
  <2>1. j \in 1..Len(rest) /\ j <= i - 1
    BY <1>6, <1>7
  <2>2. QED
    BY <1>1, <1>5, <2>1
<1>9. ASSUME NEW j \in i..(Len(seq) - 1) PROVE rest[j] = seq[j + 1]
  <2>1. j - (i - 1) \in 1..(Len(seq) - i) /\ ~(j <= i - 1) /\ j \in 1..Len(rest)
    BY <1>6, <1>7
  <2>2. back[j - (i - 1)] = seq[i + (j - (i - 1))]
    BY <1>2, <2>1
  <2>3. i + (j - (i - 1)) = j + 1
    OBVIOUS
  <2>4. QED
    BY <1>1, <1>5, <2>1, <2>2, <2>3
<1>10. QED
  BY <1>3, <1>4, <1>7, <1>8, <1>9

LEMMA RemovedFrom ==
    ASSUME NEW seq \in Seq(Node), NEW i \in DOMAIN seq
    PROVE  /\ RemoveAt(seq, i) \in Seq(Node)
           /\ Range(seq) \ {seq[i]} \subseteq Range(RemoveAt(seq, i))
           /\ Range(RemoveAt(seq, i)) \subseteq Range(seq)
<1> DEFINE rest == RemoveAt(seq, i)
<1>1. /\ rest \in Seq(Node) /\ Len(rest) = Len(seq) - 1
      /\ \A j \in 1..(i - 1) : rest[j] = seq[j]
      /\ \A j \in i..(Len(seq) - 1) : rest[j] = seq[j + 1]
  BY RemovedAt
<1> HIDE DEF rest
<1>2. ASSUME NEW j \in DOMAIN seq, j # i PROVE seq[j] \in Range(rest)
  <2>1. CASE j < i
    BY <1>1, <2>1 DEF Range
  <2>2. CASE j > i
    <3>1. j - 1 \in i..(Len(seq) - 1) /\ (j - 1) + 1 = j
      BY <2>2
    <3>2. rest[j - 1] = seq[j] /\ j - 1 \in DOMAIN rest
      BY <1>1, <3>1
    <3>3. QED
      BY <3>2 DEF Range
  <2>3. QED
    BY <1>2, <2>1, <2>2
<1>3. ASSUME NEW j \in DOMAIN rest PROVE rest[j] \in Range(seq)
  BY <1>1 DEF Range
<1>4. Range(seq) \ {seq[i]} \subseteq Range(rest)
  <2> SUFFICES ASSUME NEW m \in Range(seq), m # seq[i] PROVE m \in Range(rest)
    OBVIOUS
  <2>1. PICK j \in DOMAIN seq : m = seq[j]
    BY DEF Range
  <2>2. QED
    BY <1>2, <2>1
<1>5. Range(rest) \subseteq Range(seq)
  BY <1>3 DEF Range
<1>6. rest \in Seq(Node)
  BY <1>1
<1>7. QED
  BY <1>4, <1>5, <1>6 DEF rest

LEMMA WithoutPlace ==
    ASSUME CacheTypes, NEW p \in Places
    PROVE  /\ NodeAt(p) \in Cached
           /\ Without(p) \in [0..(Slots - 1) -> Seq(Node)]
           /\ Cached \ {NodeAt(p)} \subseteq InChains(Without(p))
           /\ InChains(Without(p)) \subseteq Cached
<1>1. p[1] \in DOMAIN chains /\ p[2] \in DOMAIN chains[p[1]]
  BY DEF Places
<1>2. chains[p[1]] \in Seq(Node) /\ DOMAIN chains = 0..(Slots - 1)
  BY <1>1 DEF CacheTypes
<1> DEFINE rest == RemoveAt(chains[p[1]], p[2])
<1>3. /\ rest \in Seq(Node)
      /\ Range(chains[p[1]]) \ {NodeAt(p)} \subseteq Range(rest)
      /\ Range(rest) \subseteq Range(chains[p[1]])
  BY <1>1, <1>2, RemovedFrom DEF NodeAt
<1> HIDE DEF rest
<1>4. /\ DOMAIN Without(p) = DOMAIN chains
      /\ Without(p)[p[1]] = rest
      /\ \A s \in DOMAIN chains \ {p[1]} : Without(p)[s] = chains[s]
  BY <1>1 DEF Without, rest
<1>5. NodeAt(p) \in Cached
  BY <1>1 DEF NodeAt, Cached, Range
<1>6. Without(p) \in [0..(Slots - 1) -> Seq(Node)]
  BY <1>2, <1>3, <1>4 DEF CacheTypes, Without
<1>7. Cached \ {NodeAt(p)} \subseteq InChains(Without(p))
  BY <1>1, <1>3, <1>4 DEF Cached, InChains
<1>8. InChains(Without(p)) \subseteq Cached
  BY <1>1, <1>3, <1>4 DEF Cached, InChains
<1>9. QED
  BY <1>5, <1>6, <1>7, <1>8

LEMMA ClaimedEffect ==
    ASSUME CacheTypes, NEW n \in Node, NEW key \in Nat \X Nat, NEW av, IsEntry(av),
           NEW from \in [0..(Slots - 1) -> Seq(Node)], NEW cleared,
           Claimed(n, key, av, from, cleared)
    PROVE  /\ chains' \in [0..(Slots - 1) -> Seq(Node)]
           /\ Cached' = {n} \cup InChains(from)
           /\ DOMAIN entry' = Node /\ \A m \in Node : IsEntry(entry'[m])
           /\ entry'[n].seqno = av.seqno
           /\ \A m \in Node \ {n} : entry'[m].key = entry[m].key
                                    /\ entry'[m].seqno = entry[m].seqno
<1>1. Hash(key) \in 0..(Slots - 1)
  <2>1. key[1] + 2 * key[2] \in Nat
    OBVIOUS
  <2>2. QED
    BY <2>1 DEF Hash
<1>2. chains' = [from EXCEPT ![Hash(key)] = <<n>> \o from[Hash(key)]]
  BY DEF Claimed
<1>3. chains' \in [0..(Slots - 1) -> Seq(Node)]
  BY <1>1, <1>2
<1>4. Range(<<n>> \o from[Hash(key)]) = {n} \cup Range(from[Hash(key)])
  <2> DEFINE old == from[Hash(key)]
             new == <<n>> \o old
  <2>1. old \in Seq(Node)
    BY <1>1
  <2> HIDE DEF old
  <2>2. /\ Len(new) = Len(old) + 1 /\ new[1] = n
        /\ DOMAIN new = 1..Len(new) /\ DOMAIN old = 1..Len(old) /\ Len(old) \in Nat
        /\ \A j \in 2..Len(new) : new[j] = old[j - 1]
    BY <2>1
  <2> HIDE DEF new
  <2>3. ASSUME NEW j \in DOMAIN old PROVE j + 1 \in DOMAIN new /\ new[j + 1] = old[j]
    <3>1. j + 1 \in 2..Len(new) /\ (j + 1) - 1 = j /\ j + 1 \in DOMAIN new
      BY <2>2
    <3>2. QED
      BY <2>2, <3>1
  <2>4. \A j \in DOMAIN new : j = 1 \/ (j - 1 \in DOMAIN old /\ new[j] = old[j - 1])
    <3> TAKE j \in DOMAIN new
    <3>1. j \in Int /\ 1 <= j /\ j <= Len(old) + 1
      BY <2>2
    <3>2. CASE j # 1
      <4>1. j \in 2..Len(new) /\ j - 1 \in 1..Len(old)
        BY <2>2, <3>1, <3>2
      <4>2. QED
        BY <2>2, <4>1
    <3>3. QED
      BY <3>2
  <2>5. 1 \in DOMAIN new /\ new[1] = n
    BY <2>2
  <2>6. Range(new) = {n} \cup Range(old)
    <3>1. \A m \in Range(new) : m = n \/ m \in Range(old)
      <4> TAKE m \in Range(new)
      <4>1. PICK j \in DOMAIN new : new[j] = m
        BY DEF Range
      <4>2. CASE j = 1
        BY <2>5, <4>1, <4>2
      <4>3. CASE j - 1 \in DOMAIN old /\ new[j] = old[j - 1]
        BY <4>1, <4>3 DEF Range
      <4>4. QED
        BY <2>4, <4>2, <4>3
    <3>2. \A m \in Range(old) : m \in Range(new)
      <4> TAKE m \in Range(old)
      <4>1. PICK j \in DOMAIN old : old[j] = m
        BY DEF Range
      <4>2. QED
        BY <2>3, <4>1 DEF Range
    <3>3. n \in Range(new)
      BY <2>5 DEF Range
    <3>4. QED
      BY <3>1, <3>2, <3>3
  <2>7. QED
    BY <2>6 DEF new, old
<1>5. Cached' = {n} \cup InChains(from)
  <2>1. DOMAIN chains' = DOMAIN from /\ Hash(key) \in DOMAIN from
    BY <1>1, <1>2
  <2>2. Range(chains'[Hash(key)]) = {n} \cup Range(from[Hash(key)])
    BY <1>2, <1>4, <2>1
  <2>3. \A s \in DOMAIN from \ {Hash(key)} : chains'[s] = from[s]
    BY <1>2
  <2>4. QED
    BY <2>1, <2>2, <2>3 DEF Cached, InChains
<1>6. DOMAIN entry' = Node
      /\ entry'[n] = [av EXCEPT !.key = key, !.used = TRUE, !.create = None]
      /\ \A m \in Node \ {n} : entry'[m] \in {entry[m], [entry[m] EXCEPT !.used = FALSE]}
  BY DEF Claimed
<1>7. IsEntry(entry'[n]) /\ entry'[n].seqno = av.seqno
  BY <1>6 DEF IsEntry
<1>8. \A m \in Node \ {n} : /\ IsEntry(entry'[m]) /\ entry'[m].key = entry[m].key
                            /\ entry'[m].seqno = entry[m].seqno
  <2> TAKE m \in Node \ {n}
  <2>1. IsEntry(entry[m])
    BY DEF CacheTypes
  <2>2. CASE entry'[m] = entry[m]
    BY <2>1, <2>2
  <2>3. CASE entry'[m] = [entry[m] EXCEPT !.used = FALSE]
    BY <2>1, <2>3 DEF IsEntry
  <2>4. QED
    BY <1>6, <2>2, <2>3
<1>9. QED
  BY <1>3, <1>5, <1>6, <1>7, <1>8

LEMMA InsertKeeps == ASSUME AInv, NEW c \in Callers, Insert(c) PROVE AInv'
<1>1. /\ NoticesUntouched /\ sidtab' \in Seq(Contexts)
      /\ call[c].pc = "insert" /\ lock = c /\ CacheTypes
      /\ DOMAIN call = Callers /\ IsCall(call[c]) /\ ref \in [Callers -> Node \cup {None}]
      /\ \A d \in Callers \ {c} : call[d].pc \notin Holding
  BY DEF Insert, kernel, NoticesUntouched, AInv, CacheInv, CallInv, CallTypes, NoticeTypes, Holding
<1>2. CASE Outdated(c)
  <2>1. GivenUp(c) /\ UNCHANGED <<chains, free, entry, ref>>
    BY <1>2 DEF Insert, cache
  <2>2. OnlyCallOf(c) /\ call'[c].pc = "idle" /\ call'[c].floor = 0
    BY <1>1, <2>1, EndsCall DEF GivenUp
  <2>3. EntriesKept
    BY <1>1, <2>1, EntriesUntouched
  <2>4. QED
    BY <1>1, <2>1, <2>2, <2>3, LatestNat, CallerKeeps
<1>3. CASE ~Outdated(c)
  <2>1. /\ call' = [call EXCEPT ![c].pc = "answer", ![c].got = Blank]
        /\ UNCHANGED lock
    BY <1>3 DEF Insert
  <2>2. /\ DOMAIN call' = Callers /\ \A d \in Callers \ {c} : call'[d] = call[d]
        /\ call'[c] = [call[c] EXCEPT !.pc = "answer", !.got = Blank]
    BY <1>1, <2>1
  <2>3. IsCall(call'[c]) /\ call'[c].pc = "answer" /\ call'[c].floor = call[c].floor
    BY <1>1, <2>2, BlankEntry DEF IsCall, Holding
  <2>4. /\ call[c].key \in Nat \X Nat /\ IsEntry(call[c].got)
        /\ call[c].got.seqno >= latest /\ call[c].got.seqno \in Nat
    BY <1>1, <1>3, LatestNat DEF IsCall, IsEntry, Outdated
  <2>5. PICK n \in Node :
          /\ ref' = [ref EXCEPT ![c] = n]
          /\ chains' \in [0..(Slots - 1) -> Seq(Node)] /\ free' \in Seq(Node)
          /\ DOMAIN entry' = Node /\ \A m \in Node : IsEntry(entry'[m])
          /\ entry'[n].seqno = call[c].got.seqno
          /\ \A m \in Node \ {n} : entry'[m].key = entry[m].key
                                   /\ entry'[m].seqno = entry[m].seqno
          /\ n \in Cached' /\ Cached \subseteq Cached' /\ Cached' \subseteq Cached \cup {n}
    <3>1. CASE ClaimFree(call[c].key, call[c].got) /\ ref' = [ref EXCEPT ![c] = Head(free)]
      <4>1. Head(free) \in Node /\ free' \in Seq(Node)
        BY <1>1, <3>1 DEF ClaimFree, CacheTypes
      <4>2. Claimed(Head(free), call[c].key, call[c].got, chains, {})
        BY <3>1 DEF ClaimFree
      <4>3. InChains(chains) = Cached
        BY DEF InChains, Cached
      <4>4. chains \in [0..(Slots - 1) -> Seq(Node)]
        BY <1>1 DEF CacheTypes
      <4> HIDE DEF Claimed
      <4>5. /\ chains' \in [0..(Slots - 1) -> Seq(Node)]
            /\ Cached' = {Head(free)} \cup Cached
            /\ DOMAIN entry' = Node /\ \A m \in Node : IsEntry(entry'[m])
            /\ entry'[Head(free)].seqno = call[c].got.seqno
            /\ \A m \in Node \ {Head(free)} : entry'[m].key = entry[m].key
                                              /\ entry'[m].seqno = entry[m].seqno
        <5> DEFINE n == Head(free)
                   key == call[c].key
                   av == call[c].got
        <5>1. n \in Node /\ key \in Nat \X Nat /\ IsEntry(av) /\ Claimed(n, key, av, chains, {})
          BY <2>4, <4>1, <4>2
        <5> HIDE DEF n, key, av
        <5>2. /\ chains' \in [0..(Slots - 1) -> Seq(Node)]
              /\ Cached' = {n} \cup InChains(chains)
              /\ DOMAIN entry' = Node /\ \A m \in Node : IsEntry(entry'[m])
              /\ entry'[n].seqno = av.seqno
              /\ \A m \in Node \ {n} : entry'[m].key = entry[m].key
                                       /\ entry'[m].seqno = entry[m].seqno
          BY <1>1, <4>4, <5>1, ClaimedEffect
        <5>3. QED
          BY <4>3, <5>2 DEF n, av
      <4>6. QED
        BY <3>1, <4>1, <4>5
    <3>2. ASSUME NEW p \in Places, Reclaim(p, call[c].key, call[c].got),
                 ref' = [ref EXCEPT ![c] = NodeAt(p)]
          PROVE  \E n \in Node :
                   /\ ref' = [ref EXCEPT ![c] = n]
                   /\ chains' \in [0..(Slots - 1) -> Seq(Node)] /\ free' \in Seq(Node)
                   /\ DOMAIN entry' = Node /\ \A m \in Node : IsEntry(entry'[m])
                   /\ entry'[n].seqno = call[c].got.seqno
                   /\ \A m \in Node \ {n} : entry'[m].key = entry[m].key
                                            /\ entry'[m].seqno = entry[m].seqno
                   /\ n \in Cached' /\ Cached \subseteq Cached' /\ Cached' \subseteq Cached \cup {n}
      <4>1. /\ NodeAt(p) \in Cached /\ Without(p) \in [0..(Slots - 1) -> Seq(Node)]
            /\ Cached \ {NodeAt(p)} \subseteq InChains(Without(p))
            /\ InChains(Without(p)) \subseteq Cached
        BY <1>1, WithoutPlace
      <4>2. NodeAt(p) \in Node
        BY <1>1, <4>1, CachedNodes
      <4>3. Claimed(NodeAt(p), call[c].key, call[c].got, Without(p), Passed(p)) /\ free' = free
        BY <3>2 DEF Reclaim
      <4>4. /\ chains' \in [0..(Slots - 1) -> Seq(Node)]
            /\ Cached' = {NodeAt(p)} \cup InChains(Without(p))
            /\ DOMAIN entry' = Node /\ \A m \in Node : IsEntry(entry'[m])
            /\ entry'[NodeAt(p)].seqno = call[c].got.seqno
            /\ \A m \in Node \ {NodeAt(p)} : entry'[m].key = entry[m].key
                                             /\ entry'[m].seqno = entry[m].seqno
        BY <1>1, <2>4, <4>1, <4>2, <4>3, ClaimedEffect
      <4>5. free' \in Seq(Node)
        BY <1>1, <4>3 DEF CacheTypes
      <4>6. QED
        BY <3>2, <4>1, <4>2, <4>4, <4>5
    <3>3. QED
      BY <1>3, <3>1, <3>2 DEF Insert
  <2>6. ref'[c] = n /\ ref' \in [Callers -> Node \cup {None}]
    BY <1>1, <2>5
  <2>7. CacheInv'
    <3>1. CacheTypes'
      BY <2>5 DEF CacheTypes
    <3>2. OthersBlank'
      BY <2>5 DEF AInv, CacheInv, OthersBlank
    <3>3. CacheNotOlder'
      <4>1. latest' = latest /\ Cached \subseteq Node
        BY <1>1, CachedNodes DEF NoticesUntouched
      <4>2. ASSUME NEW m \in Cached' PROVE entry'[m].seqno >= latest
        <5>1. CASE m = n
          BY <2>4, <2>5, <5>1
        <5>2. CASE m # n
          BY <2>5, <4>1, <5>2 DEF AInv, CacheInv, CacheNotOlder
        <5>3. QED
          BY <5>1, <5>2
      <4>3. QED
        BY <4>1, <4>2 DEF CacheNotOlder
    <3>4. QED
      BY <3>1, <3>2, <3>3 DEF CacheInv
  <2>8. OnlyCallOf(c)
    BY <1>1, <2>1, <2>2, <2>3, <2>5, <2>6 DEF OnlyCallOf, Holding
  <2>9. CallInv'
    <3>1. CallTypes'
      BY <2>8 DEF AInv, CallInv, CallTypes, OnlyCallOf
    <3>2. AnsweredFrom'
      BY <1>1, <2>2, <2>5, <2>6 DEF AnsweredFrom, Holding
    <3>3. FloorNoted'
      BY <1>1, <2>2, <2>3 DEF AInv, CallInv, FloorNoted, NoticesUntouched
    <3>4. QED
      BY <3>1, <3>2, <3>3 DEF CallInv
  <2>10. ASSUME NEW m \in Cached'
         PROVE  \/ m \in Cached /\ entry'[m].seqno = entry[m].seqno
                \/ \E d \in Callers : call[d].pc = "insert"
                                      /\ entry'[m].seqno = call[d].got.seqno
    <3>1. CASE m = n
      BY <1>1, <2>5, <3>1
    <3>2. CASE m # n
      BY <1>1, <2>5, <3>2, CachedNodes
    <3>3. QED
      BY <3>1, <3>2
  <2>11. NoticeTypes' /\ NoticeKept' /\ SocketInv'
    BY <1>1, <2>3, <2>8, <2>10, NoticesKept
  <2>12. QED
    BY <2>7, <2>9, <2>11 DEF AInv
<1>4. QED
  BY <1>2, <1>3

LEMMA CallerStepKeeps == ASSUME AInv, NEW c \in Callers, CallerStep(c) PROVE AInv'
BY PolledKeeps, LookupKeeps, ComputeKeeps, InsertKeeps, AnswerPermKeeps, AnswerCreateKeeps
   DEF CallerStep

--------------------------------------------------------------------------------
(* Notices and the kernel.                                                     *)

\* The pool and the calls are left alone.
CallsUntouched == UNCHANGED <<mode, cache, latest, sidtab, lock, call, ref>>

LEMMA PoolKeeps ==
    ASSUME AInv, CallsUntouched
    PROVE  CacheInv' /\ CallInv' /\ Cached' = Cached
<1>1. CacheInv' /\ Cached' = Cached
  BY CacheKept, EntriesUntouched DEF AInv, CacheInv, CallsUntouched, cache
<1>2. CallInv'
  BY <1>1 DEF AInv, CallInv, CallTypes, AnsweredFrom, FloorNoted, CallsUntouched
<1>3. QED
  BY <1>1, <1>2

LEMMA ReceiveKeeps == ASSUME AInv, NEW p \in Handlers, Receive(p) PROVE AInv'
<1>1. CallsUntouched /\ UNCHANGED <<policy, overrun, lost>>
  BY DEF Receive, CallsUntouched
<1>2. CacheInv' /\ CallInv' /\ Cached' = Cached
  BY <1>1, PoolKeeps
<1> DEFINE msg == Head(queue)
           note == IF Resets(msg)
                   THEN [Quiet EXCEPT !.pc = "reset", !.seqno = msg.seqno,
                                      !.sets = (msg.type = "setenforce")]
                   ELSE Quiet
<1>3. /\ handling' = [handling EXCEPT ![p] = note] /\ queue' = Tail(queue)
      /\ handling[p].pc = "none" /\ queue # << >>
      /\ mode = "poll" => p \in Callers
  BY DEF Receive, Reads
<1>4. /\ queue \in Seq(Messages) /\ msg \in Messages /\ msg.seqno <= policy
      /\ DOMAIN handling = Handlers /\ policy \in Nat
      /\ \A i \in DOMAIN queue : queue[i].seqno <= policy
  BY <1>3, LatestNat DEF AInv, NoticeTypes, Handlers
<1>5. /\ IsNotice(note) /\ note.seqno <= policy /\ note.pc # "notify"
      /\ msg.type = "load" => note.pc = "reset" /\ note.seqno = msg.seqno
  <2>1. msg.seqno \in Nat /\ msg.seqno <= policy /\ 0 <= policy
    BY <1>4 DEF Messages
  <2>2. CASE Resets(msg)
    <3>1. note = [pc |-> "reset", seqno |-> msg.seqno, fails |-> FALSE,
                  sets |-> msg.type = "setenforce"]
      BY <2>2 DEF Quiet
    <3> HIDE DEF note, msg
    <3>2. /\ DOMAIN note = {"pc", "seqno", "fails", "sets"}
          /\ note.pc = "reset" /\ note.seqno = msg.seqno
      BY <3>1
    <3>3. QED
      BY <2>1, <3>2 DEF IsNotice
  <2>3. CASE ~Resets(msg)
    <3>1. note = Quiet /\ msg.type # "load"
      BY <2>3 DEF Resets
    <3>2. IsNotice(Quiet) /\ Quiet.pc = "none" /\ Quiet.seqno = 0
      BY DEF IsNotice, Quiet
    <3> HIDE DEF note
    <3>3. QED
      BY <2>1, <3>1, <3>2
  <2>4. QED
    BY <2>2, <2>3
<1> HIDE DEF note
<1>6. /\ DOMAIN handling' = Handlers /\ handling'[p] = note
      /\ \A q \in Handlers \ {p} : handling'[q] = handling[q]
  BY <1>3, <1>4, <1>5
<1>7. /\ queue' \in Seq(Messages)
      /\ \A i \in DOMAIN queue' : i + 1 \in DOMAIN queue /\ queue'[i] = queue[i + 1]
      /\ \A i \in DOMAIN queue : i = 1 \/ (i - 1 \in DOMAIN queue' /\ queue'[i - 1] = queue[i])
  <2>1. /\ queue' \in Seq(Messages) /\ Len(queue') = Len(queue) - 1
        /\ DOMAIN queue = 1..Len(queue) /\ DOMAIN queue' = 1..Len(queue')
        /\ \A i \in 1..Len(queue') : queue'[i] = queue[i + 1]
    BY <1>3, <1>4
  <2>2. ASSUME NEW i \in DOMAIN queue, i # 1
        PROVE  i - 1 \in DOMAIN queue' /\ queue'[i - 1] = queue[i]
    <3>1. i - 1 \in 1..Len(queue') /\ (i - 1) + 1 = i
      BY <2>1, <2>2
    <3>2. QED
      BY <2>1, <3>1
  <2>3. QED
    BY <2>1, <2>2
<1>8. NoticeTypes'
  BY <1>1, <1>3, <1>4, <1>5, <1>6, <1>7
  DEF AInv, NoticeTypes, CallsUntouched, Handlers
<1>9. NoticeKept'
  BY <1>1, <1>2, <1>4, <1>5, <1>6 DEF AInv, NoticeKept, CallsUntouched, cache, Handlers
<1>10. SocketInv'
  <2>1. CASE lost \/ latest = policy
    BY <1>1, <2>1 DEF AInv, SocketInv, Pending, CallsUntouched
  <2>2. ASSUME NEW q \in Handlers, handling[q].pc # "none" /\ handling[q].seqno = policy
        PROVE  SocketInv'
    <3>1. q # p /\ handling'[q] = handling[q] /\ q \in DOMAIN handling'
      BY <1>3, <1>6, <2>2
    <3>2. QED
      BY <1>1, <2>2, <3>1 DEF AInv, SocketInv, Pending
  <2>3. ASSUME NEW i \in DOMAIN queue, queue[i].type = "load" /\ queue[i].seqno = policy
        PROVE  SocketInv'
    <3>1. CASE i = 1
      <4>1. msg = queue[1]
        BY <1>4
      <4>2. handling'[p].pc = "reset" /\ handling'[p].seqno = policy' /\ p \in DOMAIN handling'
        BY <1>1, <1>5, <1>6, <2>3, <3>1, <4>1
      <4>3. QED
        BY <1>1, <4>2 DEF AInv, SocketInv, Pending
    <3>2. CASE i # 1
      BY <1>1, <1>7, <2>3, <3>2 DEF AInv, SocketInv, Pending
    <3>3. QED
      BY <3>1, <3>2
  <2>4. QED
    BY <1>4, <2>1, <2>2, <2>3 DEF AInv, SocketInv, Pending
<1>11. QED
  BY <1>2, <1>8, <1>9, <1>10 DEF AInv

LEMMA ResetKeeps == ASSUME AInv, NEW p \in Handlers, Reset(p) PROVE AInv'
<1>1. /\ UNCHANGED <<mode, latest, sidtab, lock, call, ref, policy, queue, overrun, lost>>
      /\ handling[p].pc = "reset" /\ lock = None
      /\ chains' = [s \in DOMAIN chains |-> << >>]
      /\ entry' = [n \in Node |-> IF n \in Cached THEN Blank ELSE entry[n]]
  BY DEF Reset, kernel
<1>2. CacheTypes /\ CallTypes /\ NoticeTypes /\ OthersBlank
  BY DEF AInv, CacheInv, CallInv
<1>3. PICK bad \in BOOLEAN : handling' = [handling EXCEPT ![p].pc = "notify", ![p].fails = bad]
  BY DEF Reset
<1>4. PICK q \in FreedOrder : free' = [i \in DOMAIN q |-> NodeAt(q[i])] \o free
  BY DEF Reset
<1>5. \A c \in Callers : call'[c] = call[c] /\ call[c].pc \notin Holding
  BY <1>1, <1>2 DEF CallTypes
<1>6. Cached' = {}
  BY <1>1 DEF Cached, Range
<1>7. CacheTypes'
  <2>1. Cardinality(Cached) \in Nat
    <3>1. IsFiniteSet(Node)
      BY FS_Interval DEF Node
    <3>2. IsFiniteSet(Cached)
      BY <1>2, <3>1, CachedNodes, FS_Subset
    <3>3. QED
      BY <3>2, FS_CardinalityType
  <2>2. DOMAIN q = 1..Cardinality(Cached) /\ \A i \in DOMAIN q : NodeAt(q[i]) \in Node
    BY <1>2, WithoutPlace, CachedNodes DEF FreedOrder
  <2>3. [i \in DOMAIN q |-> NodeAt(q[i])] \in Seq(Node)
    BY <2>1, <2>2
  <2>4. free' \in Seq(Node)
    BY <1>2, <1>4, <2>3 DEF CacheTypes
  <2>5. \A n \in Node : IsEntry(entry'[n])
    BY <1>1, <1>2, BlankEntry DEF CacheTypes
  <2>6. chains' \in [0..(Slots - 1) -> Seq(Node)]
    BY <1>1, <1>2 DEF CacheTypes
  <2>7. QED
    BY <1>1, <2>4, <2>5, <2>6 DEF CacheTypes
<1>8. \A n \in Node : entry'[n].key = None
  BY <1>1, <1>2 DEF OthersBlank, Blank
<1>9. CacheInv'
  BY <1>6, <1>7, <1>8 DEF CacheInv, OthersBlank, CacheNotOlder
<1>10. CallInv'
  BY <1>1, <1>2, <1>5 DEF AInv, CallInv, CallTypes, AnsweredFrom, FloorNoted, Holding
<1>11. /\ DOMAIN handling' = Handlers /\ IsNotice(handling'[p])
       /\ handling'[p].pc = "notify" /\ handling'[p].seqno = handling[p].seqno
       /\ \A h \in Handlers \ {p} : handling'[h] = handling[h]
  <2>1. DOMAIN handling = Handlers /\ IsNotice(handling[p])
    BY <1>2 DEF NoticeTypes
  <2>2. /\ handling'[p] = [handling[p] EXCEPT !.pc = "notify", !.fails = bad]
        /\ DOMAIN handling' = Handlers
        /\ \A h \in Handlers \ {p} : handling'[h] = handling[h]
    BY <1>3, <2>1
  <2>3. QED
    BY <2>1, <2>2 DEF IsNotice
<1>12. NoticeTypes'
  <2>1. \A h \in Handlers : IsNotice(handling'[h]) /\ handling'[h].seqno <= policy
    BY <1>2, <1>11 DEF NoticeTypes
  <2>2. mode = "poll" => \A h \in Handlers \ Callers : handling'[h].pc = "none"
    BY <1>1, <1>2, <1>11 DEF NoticeTypes
  <2>3. QED
    BY <1>1, <1>2, <1>11, <2>1, <2>2 DEF NoticeTypes
<1>13. NoticeKept'
  BY <1>5, <1>6 DEF NoticeKept, Holding
<1>14. SocketInv'
  BY <1>1, <1>2, <1>11 DEF AInv, SocketInv, Pending, NoticeTypes, Handlers
<1>15. QED
  BY <1>9, <1>10, <1>12, <1>13, <1>14 DEF AInv

LEMMA NotifyKeeps == ASSUME AInv, NEW p \in Handlers, Notify(p) PROVE AInv'
<1>1. /\ UNCHANGED <<mode, cache, sidtab, lock, call, ref, policy, queue, overrun, lost>>
      /\ handling[p].pc = "notify"
      /\ handling' = [handling EXCEPT ![p] = Quiet]
      /\ latest' = IF handling[p].seqno > latest THEN handling[p].seqno ELSE latest
  BY DEF Notify, kernel
<1>2. /\ DOMAIN handling = Handlers /\ IsNotice(handling[p])
      /\ handling[p].seqno \in Nat /\ handling[p].seqno <= policy
      /\ latest \in Nat /\ latest <= policy /\ policy \in Nat
  BY LatestNat DEF AInv, NoticeTypes, IsNotice
<1>3. /\ latest' \in Nat /\ latest <= latest' /\ latest' <= policy
      /\ handling[p].seqno <= latest' /\ latest' \in {latest, handling[p].seqno}
  BY <1>1, <1>2
<1>4. Cached' = Cached /\ CacheTypes /\ Cached \subseteq Node
  BY <1>1, CachedNodes DEF Cached, cache, AInv, CacheInv
<1>5. CacheInv'
  <2>1. CacheTypes' /\ OthersBlank'
    BY <1>1, <1>4 DEF CacheTypes, OthersBlank, AInv, CacheInv, cache
  <2>2. \A n \in Cached : entry[n].seqno >= latest'
    BY <1>1, <1>2, <1>3 DEF AInv, CacheInv, CacheNotOlder, NoticeKept
  <2>3. QED
    BY <1>1, <1>4, <2>1, <2>2 DEF CacheInv, CacheNotOlder, cache
<1>6. CallInv'
  <2>1. CallTypes' /\ AnsweredFrom'
    BY <1>1, <1>4 DEF AInv, CallInv, CallTypes, AnsweredFrom
  <2>2. mode = "poll" => \A c \in Callers : call[c].floor \in Nat /\ call[c].floor <= latest
    BY DEF AInv, CallInv, CallTypes, FloorNoted, IsCall
  <2>3. FloorNoted'
    BY <1>1, <1>2, <1>3, <2>2 DEF FloorNoted
  <2>4. QED
    BY <2>1, <2>3 DEF CallInv
<1>7. IsNotice(Quiet) /\ Quiet.pc = "none" /\ Quiet.seqno = 0
  BY DEF IsNotice, Quiet
<1>8. /\ DOMAIN handling' = Handlers /\ handling'[p] = Quiet
      /\ \A h \in Handlers \ {p} : handling'[h] = handling[h]
  BY <1>1, <1>2
<1>9. NoticeTypes'
  BY <1>1, <1>2, <1>3, <1>7, <1>8 DEF AInv, NoticeTypes
<1>10. NoticeKept'
  BY <1>1, <1>2, <1>4, <1>7, <1>8 DEF AInv, NoticeKept, cache
<1>11. SocketInv'
  <2>1. CASE latest = policy
    <3>1. latest' = policy
      BY <1>2, <1>3, <2>1
    <3>2. QED
      BY <1>1, <3>1 DEF AInv, SocketInv, Pending
  <2>2. ASSUME NEW h \in Handlers, handling[h].pc # "none" /\ handling[h].seqno = policy
        PROVE  SocketInv'
    <3>1. CASE h = p
      <4>1. latest' = policy
        BY <1>2, <1>3, <2>2, <3>1
      <4>2. QED
        BY <1>1, <4>1 DEF AInv, SocketInv, Pending
    <3>2. CASE h # p
      BY <1>1, <1>8, <2>2, <3>2 DEF AInv, SocketInv, Pending
    <3>3. QED
      BY <3>1, <3>2
  <2>3. CASE lost \/ \E i \in DOMAIN queue : queue[i].type = "load" /\ queue[i].seqno = policy
    BY <1>1, <2>3 DEF AInv, SocketInv, Pending
  <2>4. QED
    BY <1>2, <2>1, <2>2, <2>3 DEF AInv, SocketInv, Pending
<1>12. QED
  BY <1>5, <1>6, <1>9, <1>10, <1>11 DEF AInv

LEMMA ReceiveFailsKeeps == AInv /\ ReceiveFails => AInv'
<1> SUFFICES ASSUME AInv, ReceiveFails PROVE AInv'
  OBVIOUS
<1>1. CallsUntouched /\ UNCHANGED <<handling, policy, queue, lost>> /\ overrun' = FALSE
  BY DEF ReceiveFails, CallsUntouched
<1>2. CacheInv' /\ CallInv' /\ Cached' = Cached
  BY <1>1, PoolKeeps
<1>3. NoticeTypes' /\ SocketInv'
  BY <1>1 DEF AInv, NoticeTypes, SocketInv, Pending, CallsUntouched
<1>4. NoticeKept'
  BY <1>1, <1>2 DEF AInv, NoticeKept, CallsUntouched, cache
<1>5. QED
  BY <1>2, <1>3, <1>4 DEF AInv

\* The kernel sends a message, or drops it.
LEMMA SendKeeps ==
    ASSUME AInv, CallsUntouched, UNCHANGED handling, NEW msg \in Messages, Send(msg),
           policy' \in Loads, policy <= policy', msg.seqno <= policy',
           policy' # policy => msg.type = "load" /\ msg.seqno = policy'
    PROVE  AInv'
<1>1. CacheInv' /\ CallInv' /\ Cached' = Cached
  BY PoolKeeps
<1>2. NoticeKept'
  BY <1>1 DEF AInv, NoticeKept, CallsUntouched, cache
<1>3. /\ queue \in Seq(Messages) /\ latest \in Nat /\ policy \in Nat /\ policy' \in Nat
      /\ DOMAIN handling = Handlers
      /\ \A h \in Handlers : handling[h].seqno \in Nat /\ handling[h].seqno <= policy
      /\ \A i \in DOMAIN queue : queue[i].seqno \in Nat /\ queue[i].seqno <= policy
      /\ latest <= policy
  <2>1. Loads \subseteq Nat
    BY LoadsAssumption
  <2>2. \A h \in Handlers : handling[h].seqno \in Nat
    BY DEF AInv, NoticeTypes, IsNotice
  <2>3. queue \in Seq(Messages) /\ \A i \in DOMAIN queue : queue[i].seqno \in Nat
    <3>1. queue \in Seq(Messages)
      BY DEF AInv, NoticeTypes
    <3>2. \A i \in DOMAIN queue : queue[i] \in Messages
      BY <3>1
    <3>3. QED
      BY <3>1, <3>2 DEF Messages
  <2>4. QED
    BY <2>1, <2>2, <2>3 DEF AInv, NoticeTypes
<1>4. CASE queue' = Append(queue, msg) /\ UNCHANGED <<overrun, lost>>
  <2>1. /\ queue' \in Seq(Messages) /\ Len(queue) + 1 \in DOMAIN queue'
        /\ queue'[Len(queue) + 1] = msg
        /\ \A i \in DOMAIN queue' : i = Len(queue) + 1 \/ (i \in DOMAIN queue /\ queue'[i] = queue[i])
        /\ \A i \in DOMAIN queue : i \in DOMAIN queue' /\ queue'[i] = queue[i]
    BY <1>3, <1>4
  <2>2. NoticeTypes'
    <3>1. \A i \in DOMAIN queue' : queue'[i].seqno <= policy'
      BY <1>3, <2>1
    <3>2. latest' <= policy' /\ \A h \in Handlers : handling'[h].seqno <= policy'
      BY <1>3 DEF CallsUntouched
    <3>3. QED
      BY <2>1, <3>1, <3>2 DEF AInv, NoticeTypes, CallsUntouched
  <2>3. SocketInv'
    <3>1. CASE policy' = policy
      BY <1>3, <1>4, <2>1, <3>1 DEF AInv, SocketInv, Pending, CallsUntouched
    <3>2. CASE policy' # policy
      BY <1>4, <2>1, <3>2 DEF AInv, SocketInv, Pending
    <3>3. QED
      BY <3>1, <3>2
  <2>4. QED
    BY <1>1, <1>2, <2>2, <2>3 DEF AInv
<1>5. CASE lost' = TRUE /\ UNCHANGED queue
  <2>1. NoticeTypes'
    <3>1. \A i \in DOMAIN queue : queue[i].seqno <= policy'
      BY <1>3
    <3>2. latest' <= policy' /\ \A h \in Handlers : handling'[h].seqno <= policy'
      BY <1>3 DEF CallsUntouched
    <3>3. QED
      BY <1>5, <3>1, <3>2 DEF AInv, NoticeTypes, CallsUntouched
  <2>2. SocketInv'
    BY <1>5 DEF SocketInv, Pending
  <2>3. QED
    BY <1>1, <1>2, <2>1, <2>2 DEF AInv
<1>6. QED
  BY <1>4, <1>5 DEF Send

LEMMA KernelKeeps == AInv /\ (LoadPolicy \/ SwitchEnforcing) => AInv'
<1> SUFFICES ASSUME AInv, LoadPolicy \/ SwitchEnforcing PROVE AInv'
  OBVIOUS
<1>1. CallsUntouched /\ UNCHANGED handling
  BY DEF LoadPolicy, SwitchEnforcing, CallsUntouched
<1>2. policy \in Loads /\ policy \in Nat
  BY LatestNat DEF AInv, NoticeTypes
<1>3. CASE LoadPolicy
  <2> DEFINE msg == [type |-> "load", seqno |-> policy + 1, val |-> FALSE]
  <2>1. msg \in Messages /\ msg.seqno = policy + 1 /\ msg.type = "load"
    BY <1>2 DEF Messages
  <2>2. policy' = policy + 1 /\ policy + 1 \in Loads /\ Send(msg)
    BY <1>3 DEF LoadPolicy
  <2>3. policy <= policy' /\ msg.seqno <= policy'
    BY <1>2, <2>1, <2>2
  <2> HIDE DEF msg
  <2>4. QED
    BY <1>1, <2>1, <2>2, <2>3, SendKeeps
<1>4. CASE SwitchEnforcing
  <2> DEFINE msg == [type |-> "setenforce", seqno |-> 0, val |-> ~enforced]
  <2>1. msg \in Messages
    <3>1. (~enforced) \in BOOLEAN
      OBVIOUS
    <3>2. QED
      BY <3>1, Zenon DEF Messages
  <2>2. msg.seqno = 0
    BY Zenon
  <2>3. policy' = policy /\ Send(msg)
    BY <1>4 DEF SwitchEnforcing
  <2> HIDE DEF msg
  <2>4. policy <= policy' /\ msg.seqno <= policy' /\ policy' \in Loads
    BY <1>2, <2>2, <2>3
  <2>5. QED
    BY <1>1, <2>1, <2>3, <2>4, SendKeeps
<1>5. QED
  BY <1>3, <1>4

LEMMA AInvStep == AInv /\ [Next]_vars => AInv'
<1> SUFFICES ASSUME AInv, [Next]_vars PROVE AInv'
  OBVIOUS
<1>1. ASSUME NEW ctx \in Contexts, ContextToSid(ctx) PROVE AInv'
  BY <1>1, ContextKeeps
<1>2. ASSUME NEW c \in Callers, NEW pair \in Asked,
             \/ \E asked \in Requests : AskPerm(c, pair, asked)
             \/ pair \in Made /\ AskCreate(c, pair)
      PROVE  AInv'
  BY <1>2, AskKeeps
<1>3. ASSUME NEW c \in Callers, CallerStep(c) PROVE AInv'
  BY <1>3, CallerStepKeeps
<1>4. ASSUME NEW p \in Handlers, Handle(p) PROVE AInv'
  BY <1>4, ReceiveKeeps, ResetKeeps, NotifyKeeps DEF Handle
<1>5. CASE ReceiveFails \/ LoadPolicy \/ SwitchEnforcing
  BY <1>5, ReceiveFailsKeeps, KernelKeeps
<1>6. CASE UNCHANGED vars
  <2>1. CallsUntouched /\ NoticesUntouched
    BY <1>6 DEF vars, CallsUntouched, NoticesUntouched, kernel
  <2>2. CacheInv' /\ CallInv' /\ Cached' = Cached
    BY <2>1, PoolKeeps
  <2>3. NoticeTypes' /\ SocketInv' /\ NoticeKept'
    BY <2>1, <2>2 DEF AInv, NoticeTypes, SocketInv, Pending, NoticeKept,
                      CallsUntouched, NoticesUntouched, cache
  <2>4. QED
    BY <2>2, <2>3 DEF AInv
<1>7. QED
  BY <1>1, <1>2, <1>3, <1>4, <1>5, <1>6 DEF Next, Handlers

--------------------------------------------------------------------------------
(* The cache is sound: a second invariant, relative to the first.               *)

\* What the policy of an entry says of a pair of contexts.
SaysOf(e, pair) == Policy[e.seqno][pair]

\* A decision that is the policy's: it allows what the policy allows, or more in a
\* permissive domain, though nothing that has not been decided.
Follows(e, pair) ==
    /\ e.permissive <=> pair[1] \in Permissive[e.seqno]
    /\ SaysOf(e, pair) \subseteq e.allowed
    /\ e.allowed # SaysOf(e, pair) =>
          e.permissive /\ e.allowed \subseteq SaysOf(e, pair) \cup e.decided

\* The contexts of a pair of SIDs, and a decision that follows the policy for them.
Pair(key) == <<sidtab[key[1]], sidtab[key[2]]>>
Allows(e, key) == Follows(e, Pair(key))

\* Entries that say the same follow the same.
SameSaid(e, f) ==
    e.seqno = f.seqno /\ e.allowed = f.allowed /\ e.decided = f.decided /\ e.permissive = f.permissive

LEMMA SaidFollows ==
    ASSUME NEW e, NEW f, SameSaid(e, f), NEW pair, Follows(f, pair)
    PROVE  Follows(e, pair)
BY DEF SameSaid, Follows, SaysOf

\* What a caller that is not idle asks for, and the decision it brings to insert.
IsAsk(r) == r.key \in Sids \X Sids /\ Pair(r.key) \in Asked /\ r.asked \subseteq Perms
IsDecision(r) ==
    r.got \in EntryType /\ Allows(r.got, r.key) /\ r.asked \subseteq r.got.decided

Entries == entry \in [Node -> EntryType]

Asks ==
    \A c \in Callers : /\ call[c].pc # "idle" => IsAsk(call[c])
                       /\ call[c].pc = "insert" => IsDecision(call[c])

Bounds ==
    /\ latest \in Loads /\ hint \in 0..(Slots - 1) /\ Len(queue) <= QueueMax
    /\ \A p \in Handlers : handling[p].seqno \in Loads
    /\ \A i \in DOMAIN queue : queue[i].seqno \in Loads
    /\ mode \in {"thread", "poll"} /\ lock \in Callers \cup {None}

\* While enforcing the cache is the policy's already when it has been emptied.
PolicyKept ==
    enforcing /\ (\A p \in Handlers : handling[p].pc # "reset") =>
        \A n \in Cached : Allows(entry[n], entry[n].key)

SoundInv ==
    /\ Entries /\ Asks /\ Bounds
    /\ PoolKept /\ AnsweredFromCache /\ PolicyKept

--------------------------------------------------------------------------------
\* SIDs are given out and never taken back.
Grown == Sids \subseteq Sids' /\ \A i \in Sids : sidtab'[i] = sidtab[i]

LEMMA TableGrows ==
    ASSUME sidtab \in Seq(Contexts), IsInjective(sidtab), NEW ctx \in Contexts,
           \/ UNCHANGED sidtab
           \/ ~HasSid(ctx) /\ sidtab' = Append(sidtab, ctx)
    PROVE  Grown /\ IsInjective(sidtab')
<1>1. CASE UNCHANGED sidtab
  BY <1>1 DEF Grown, Sids
<1>2. CASE ~HasSid(ctx) /\ sidtab' = Append(sidtab, ctx)
  <2>1. /\ DOMAIN sidtab = 1..Len(sidtab) /\ DOMAIN sidtab' = 1..(Len(sidtab) + 1)
        /\ Len(sidtab) \in Nat /\ sidtab'[Len(sidtab) + 1] = ctx
        /\ \A i \in 1..Len(sidtab) : sidtab'[i] = sidtab[i]
    BY <1>2
  <2>2. \A i \in 1..Len(sidtab) : sidtab[i] # ctx
    BY <1>2, <2>1 DEF HasSid, Range
  <2>3. \A i, j \in 1..Len(sidtab) : sidtab[i] = sidtab[j] => i = j
    BY <2>1 DEF IsInjective
  <2>4. Grown
    BY <2>1 DEF Grown, Sids
  <2>5. \A i \in 1..(Len(sidtab) + 1) : i = Len(sidtab) + 1 \/ i \in 1..Len(sidtab)
    BY <2>1
  <2>6. \A i, j \in DOMAIN sidtab' : sidtab'[i] = sidtab'[j] => i = j
    BY <2>1, <2>2, <2>3, <2>5
  <2>7. QED
    BY <2>4, <2>6 DEF IsInjective
<1>3. QED
  BY <1>1, <1>2

LEMMA TypesGrow == Grown => EntryType \subseteq EntryType'
BY DEF Grown, EntryType

LEMMA PairsGrow ==
    ASSUME Grown, NEW key \in Sids \X Sids
    PROVE  key \in Sids' \X Sids' /\ Pair(key)' = Pair(key)
BY DEF Grown, Pair

\* A call that is as it was asks what it asked.
LEMMA AskGrows ==
    ASSUME Grown, NEW r, IsAsk(r)
    PROVE  /\ r.key \in Sids' \X Sids' /\ Pair(r.key)' \in Asked /\ Pair(r.key)' = Pair(r.key)
           /\ IsDecision(r) => /\ r.got \in EntryType'
                               /\ Follows(r.got, Pair(r.key)')
BY TypesGrow, PairsGrow DEF IsAsk, IsDecision, Allows

--------------------------------------------------------------------------------
\* The steps that leave the pool's shape alone.
SameShape ==
    /\ UNCHANGED <<chains, free, active>>
    /\ \A n \in Node : entry'[n].key = entry[n].key

LEMMA ShapeKept ==
    ASSUME CacheTypes, PoolKept, SameShape, IsInjective(sidtab')
    PROVE  PoolKept' /\ Cached' = Cached
<1>1. Cached' = Cached /\ Places' = Places /\ \A p \in Places : NodeAt(p)' = NodeAt(p)
  BY DEF SameShape, Cached, Places, NodeAt
<1>2. ASSUME NEW s \in DOMAIN chains, NEW n \in Range(chains[s])
      PROVE  entry'[n].key # None /\ Hash(entry'[n].key) = s
  <2>1. n \in Node
    BY <1>2 DEF CacheTypes, Range
  <2>2. QED
    BY <2>1 DEF PoolKept, SameShape
<1>3. QED
  BY <1>1, <1>2 DEF PoolKept, SameShape, Hash

--------------------------------------------------------------------------------
\* No node is twice in chains.
Distinct(slots) ==
    \A s, t \in DOMAIN slots : \A i \in DOMAIN slots[s], j \in DOMAIN slots[t] :
        slots[s][i] = slots[t][j] => s = t /\ i = j

LEMMA PlacesDistinct ==
    (\A p, q \in Places : NodeAt(p) = NodeAt(q) => p = q) <=> Distinct(chains)
<1>1. ASSUME Distinct(chains), NEW p \in Places, NEW q \in Places, NodeAt(p) = NodeAt(q)
      PROVE  p = q
  <2>1. PICK s \in DOMAIN chains : p \in {s} \X DOMAIN chains[s]
    BY DEF Places
  <2>2. PICK t \in DOMAIN chains : q \in {t} \X DOMAIN chains[t]
    BY DEF Places
  <2>3. p = <<s, p[2]>> /\ p[2] \in DOMAIN chains[s] /\ q = <<t, q[2]>> /\ q[2] \in DOMAIN chains[t]
    BY <2>1, <2>2
  <2>4. chains[s][p[2]] = chains[t][q[2]]
    BY <1>1, <2>1, <2>2 DEF NodeAt
  <2>5. s = t /\ p[2] = q[2]
    BY <1>1, <2>3, <2>4 DEF Distinct
  <2>6. QED
    BY <2>3, <2>5
<1>2. ASSUME \A p, q \in Places : NodeAt(p) = NodeAt(q) => p = q,
             NEW s \in DOMAIN chains, NEW t \in DOMAIN chains,
             NEW i \in DOMAIN chains[s], NEW j \in DOMAIN chains[t],
             chains[s][i] = chains[t][j]
      PROVE  s = t /\ i = j
  <2>1. <<s, i>> \in Places /\ <<t, j>> \in Places
    BY DEF Places
  <2>2. NodeAt(<<s, i>>) = NodeAt(<<t, j>>)
    BY <1>2 DEF NodeAt
  <2>3. <<s, i>> = <<t, j>>
    BY <1>2, <2>1, <2>2
  <2>4. QED
    BY <2>3
<1>3. QED
  BY <1>1, <1>2 DEF Distinct

\* The chains without a node: no node is twice in them, and that one is not.
LEMMA WithoutDistinct ==
    ASSUME CacheTypes, Distinct(chains), NEW p \in Places
    PROVE  Distinct(Without(p)) /\ InChains(Without(p)) = Cached \ {NodeAt(p)}
<1>1. p[1] \in DOMAIN chains /\ p[2] \in DOMAIN chains[p[1]]
  BY DEF Places
<1> DEFINE chain == chains[p[1]]
           rest  == RemoveAt(chain, p[2])
           from(i) == IF i < p[2] THEN i ELSE i + 1
<1>2. chain \in Seq(Node) /\ p[2] \in 1..Len(chain) /\ Len(chain) \in Nat
  BY <1>1 DEF CacheTypes
<1>3. /\ rest \in Seq(Node) /\ Len(rest) = Len(chain) - 1
      /\ \A j \in 1..(p[2] - 1) : rest[j] = chain[j]
      /\ \A j \in p[2]..(Len(chain) - 1) : rest[j] = chain[j + 1]
  BY <1>1, <1>2, RemovedAt
<1>4. /\ DOMAIN Without(p) = DOMAIN chains
      /\ Without(p)[p[1]] = rest
      /\ \A s \in DOMAIN chains \ {p[1]} : Without(p)[s] = chains[s]
  BY <1>1 DEF Without
<1> HIDE DEF rest
<1>5. ASSUME NEW i \in DOMAIN rest
      PROVE  from(i) \in DOMAIN chain /\ from(i) # p[2] /\ rest[i] = chain[from(i)]
  <2>1. i \in 1..(Len(chain) - 1)
    BY <1>2, <1>3
  <2>2. CASE i < p[2]
    <3>1. i \in 1..(p[2] - 1)
      BY <1>2, <2>1, <2>2
    <3>2. QED
      BY <1>2, <1>3, <2>2, <3>1
  <2>3. CASE ~(i < p[2])
    <3>1. i \in p[2]..(Len(chain) - 1) /\ i + 1 \in 1..Len(chain) /\ i + 1 # p[2]
      BY <1>2, <2>1, <2>3
    <3>2. QED
      BY <1>2, <1>3, <2>3, <3>1
  <2>4. QED
    BY <2>2, <2>3
<1>6. \A i, j \in DOMAIN rest : from(i) = from(j) => i = j
  BY <1>2, <1>3
<1> HIDE DEF from
<1>7. ASSUME NEW s \in DOMAIN chains, NEW i \in DOMAIN Without(p)[s]
      PROVE  \E k \in DOMAIN chains[s] :
                /\ Without(p)[s][i] = chains[s][k] /\ <<s, k>> # p
                /\ k = IF s = p[1] THEN from(i) ELSE i
  <2>1. CASE s = p[1]
    <3>1. i \in DOMAIN rest
      BY <1>4, <2>1
    <3>2. QED
      BY <1>4, <1>5, <2>1, <3>1
  <2>2. CASE s # p[1]
    BY <1>4, <2>2
  <2>3. QED
    BY <2>1, <2>2
<1>0. \A s, t \in DOMAIN chains : \A k \in DOMAIN chains[s], l \in DOMAIN chains[t] :
          chains[s][k] = chains[t][l] => s = t /\ k = l
  BY DEF Distinct
<1>8. Distinct(Without(p))
  <2> SUFFICES ASSUME NEW s \in DOMAIN chains, NEW t \in DOMAIN chains,
                      NEW i \in DOMAIN Without(p)[s], NEW j \in DOMAIN Without(p)[t],
                      Without(p)[s][i] = Without(p)[t][j]
               PROVE  s = t /\ i = j
    BY <1>4 DEF Distinct
  <2>1. PICK k \in DOMAIN chains[s] : /\ Without(p)[s][i] = chains[s][k]
                                      /\ k = IF s = p[1] THEN from(i) ELSE i
    BY <1>7
  <2>2. PICK l \in DOMAIN chains[t] : /\ Without(p)[t][j] = chains[t][l]
                                      /\ l = IF t = p[1] THEN from(j) ELSE j
    BY <1>7
  <2>3. s = t /\ k = l
    <3>1. chains[s][k] = chains[t][l]
      BY <2>1, <2>2
    <3>2. QED
      BY <1>0, <3>1
  <2>4. CASE s = p[1]
    <3>1. i \in DOMAIN rest /\ j \in DOMAIN rest /\ from(i) = from(j)
      BY <1>4, <2>1, <2>2, <2>3, <2>4
    <3>2. QED
      BY <1>6, <2>3, <3>1
  <2>5. CASE s # p[1]
    BY <2>1, <2>2, <2>3, <2>5
  <2>6. QED
    BY <2>4, <2>5
<1>9. NodeAt(p) \notin InChains(Without(p))
  <2> SUFFICES ASSUME NEW s \in DOMAIN chains, NEW i \in DOMAIN Without(p)[s],
                      Without(p)[s][i] = NodeAt(p)
               PROVE  FALSE
    BY <1>4 DEF InChains, Range
  <2>1. PICK k \in DOMAIN chains[s] : Without(p)[s][i] = chains[s][k] /\ <<s, k>> # p
    BY <1>7
  <2>2. s = p[1] /\ k = p[2]
    <3>1. chains[s][k] = chains[p[1]][p[2]]
      BY <2>1 DEF NodeAt
    <3>2. QED
      BY <1>0, <1>1, <3>1
  <2>3. p = <<p[1], p[2]>>
    BY DEF Places
  <2>4. QED
    BY <2>1, <2>2, <2>3
<1>10. QED
  BY <1>8, <1>9, WithoutPlace

\* A node put at the head of a chain.
LEMMA Pushed ==
    ASSUME NEW from \in [0..(Slots - 1) -> Seq(Node)], Distinct(from),
           NEW n \in Node, n \notin InChains(from), NEW h \in 0..(Slots - 1),
           chains' = [from EXCEPT ![h] = <<n>> \o @]
    PROVE  /\ Distinct(chains')
           /\ \A s \in DOMAIN chains' : s \in DOMAIN from /\
                  \A m \in Range(chains'[s]) : m \in Range(from[s]) \/ (s = h /\ m = n)
<1>1. from[h] \in Seq(Node)
  OBVIOUS
<1> DEFINE chain == <<n>> \o from[h]
<1>2. /\ Len(chain) = Len(from[h]) + 1 /\ chain[1] = n
      /\ DOMAIN chain = 1..Len(chain) /\ DOMAIN from[h] = 1..Len(from[h]) /\ Len(from[h]) \in Nat
      /\ \A j \in 2..Len(chain) : chain[j] = from[h][j - 1]
  BY <1>1
<1>3. /\ DOMAIN chains' = DOMAIN from /\ chains'[h] = chain
      /\ \A s \in DOMAIN from \ {h} : chains'[s] = from[s]
  OBVIOUS
<1> HIDE DEF chain
<1>4. \A i \in DOMAIN chain : (i = 1 /\ chain[i] = n)
                              \/ (i - 1 \in DOMAIN from[h] /\ chain[i] = from[h][i - 1] /\ i # 1)
  <2> TAKE i \in DOMAIN chain
  <2>1. i \in Int /\ 1 <= i /\ i <= Len(from[h]) + 1
    BY <1>2
  <2>2. CASE i # 1
    <3>1. i \in 2..Len(chain) /\ i - 1 \in 1..Len(from[h])
      BY <1>2, <2>1, <2>2
    <3>2. QED
      BY <1>2, <2>2, <3>1
  <2>3. QED
    BY <1>2, <2>2
<1>5. \A s \in DOMAIN from : \A i \in DOMAIN from[s] : from[s][i] # n
  BY DEF InChains, Range
<1>6. ASSUME NEW s \in DOMAIN from, NEW i \in DOMAIN chains'[s]
      PROVE  \/ s = h /\ i = 1 /\ chains'[s][i] = n
             \/ s = h /\ i # 1 /\ i - 1 \in DOMAIN from[s] /\ chains'[s][i] = from[s][i - 1]
             \/ s # h /\ i \in DOMAIN from[s] /\ chains'[s][i] = from[s][i]
  <2>1. CASE s = h
    BY <1>3, <1>4, <2>1
  <2>2. CASE s # h
    BY <1>3, <2>2
  <2>3. QED
    BY <2>1, <2>2
<1>7. Distinct(chains')
  <2> SUFFICES ASSUME NEW s \in DOMAIN from, NEW t \in DOMAIN from,
                      NEW i \in DOMAIN chains'[s], NEW j \in DOMAIN chains'[t], chains'[s][i] = chains'[t][j]
               PROVE  s = t /\ i = j
    BY <1>3 DEF Distinct
  <2>1. CASE chains'[s][i] = n
    BY <1>5, <1>6, <2>1
  <2>2. CASE chains'[s][i] # n /\ s = h
    <3>1. i - 1 \in DOMAIN from[s] /\ chains'[s][i] = from[s][i - 1]
      BY <1>6, <2>2
    <3>2. CASE t = h
      <4>1. j - 1 \in DOMAIN from[t] /\ chains'[t][j] = from[t][j - 1]
        BY <1>6, <2>2, <3>2
      <4>2. from[s][i - 1] = from[t][j - 1]
        BY <3>1, <4>1
      <4>3. s = t /\ i - 1 = j - 1
        BY <3>1, <4>1, <4>2 DEF Distinct
      <4>4. i \in Int /\ j \in Int
        BY <1>2, <1>3, <2>2, <3>2
      <4>5. QED
        BY <4>3, <4>4
    <3>3. CASE t # h
      <4>1. j \in DOMAIN from[t] /\ chains'[t][j] = from[t][j]
        BY <1>6, <3>3
      <4>2. from[s][i - 1] = from[t][j]
        BY <3>1, <4>1
      <4>3. s = t
        BY <3>1, <4>1, <4>2 DEF Distinct
      <4>4. QED
        BY <2>2, <3>3, <4>3
    <3>4. QED
      BY <3>2, <3>3
  <2>3. CASE chains'[s][i] # n /\ s # h
    <3>1. i \in DOMAIN from[s] /\ chains'[s][i] = from[s][i]
      BY <1>6, <2>3
    <3>2. CASE t = h
      <4>1. j - 1 \in DOMAIN from[t] /\ chains'[t][j] = from[t][j - 1]
        BY <1>6, <2>3, <3>2
      <4>2. from[s][i] = from[t][j - 1]
        BY <3>1, <4>1
      <4>3. s = t
        BY <3>1, <4>1, <4>2 DEF Distinct
      <4>4. QED
        BY <2>3, <3>2, <4>3
    <3>3. CASE t # h
      <4>1. j \in DOMAIN from[t] /\ chains'[t][j] = from[t][j]
        BY <1>6, <3>3
      <4>2. from[s][i] = from[t][j]
        BY <3>1, <4>1
      <4>3. QED
        BY <3>1, <4>1, <4>2 DEF Distinct
    <3>4. QED
      BY <3>2, <3>3
  <2>4. QED
    BY <2>1, <2>2, <2>3
<1>8. ASSUME NEW s \in DOMAIN chains', NEW m \in Range(chains'[s])
      PROVE  m \in Range(from[s]) \/ (s = h /\ m = n)
  <2>1. PICK i \in DOMAIN chains'[s] : chains'[s][i] = m
    BY DEF Range
  <2>2. s \in DOMAIN from
    BY <1>3
  <2>3. QED
    BY <1>6, <2>1, <2>2 DEF Range
<1>9. QED
  BY <1>3, <1>7, <1>8

--------------------------------------------------------------------------------
(* A decision is put into a node.                                              *)

LEMMA FiniteCache == CacheTypes => IsFiniteSet(Cached)
<1>1. IsFiniteSet(Node)
  BY FS_Interval DEF Node
<1>2. QED
  BY <1>1, CachedNodes, FS_Subset

\* A claimed node is in the slot of its pair, and the pool is kept.
LEMMA ClaimKeepsPool ==
    ASSUME CacheTypes, PoolKept, NEW n \in Node, NEW key \in Nat \X Nat, NEW av, IsEntry(av),
           NEW from \in [0..(Slots - 1) -> Seq(Node)], Distinct(from),
           InChains(from) = Cached \ {n},
           \A s \in DOMAIN from : Range(from[s]) \subseteq Range(chains[s]),
           NEW cleared, Claimed(n, key, av, from, cleared), Cached' = Cached \cup {n},
           Range(free') = Range(free) \ {n}, IsInjective(free'),
           active' = IF n \in Cached THEN active ELSE active + 1, UNCHANGED sidtab
    PROVE  PoolKept'
<1>1. Hash(key) \in 0..(Slots - 1)
  <2>1. key[1] + 2 * key[2] \in Nat
    OBVIOUS
  <2>2. QED
    BY <2>1 DEF Hash
<1>2. chains' = [from EXCEPT ![Hash(key)] = <<n>> \o @]
  BY DEF Claimed
<1>3. /\ Distinct(chains')
      /\ \A s \in DOMAIN chains' : s \in DOMAIN from /\
             \A m \in Range(chains'[s]) : m \in Range(from[s]) \/ (s = Hash(key) /\ m = n)
  <2>1. n \notin InChains(from)
    OBVIOUS
  <2> DEFINE h == Hash(key)
  <2>2. h \in 0..(Slots - 1) /\ chains' = [from EXCEPT ![h] = <<n>> \o @]
    BY <1>1, <1>2
  <2> HIDE DEF h
  <2>3. /\ Distinct(chains')
        /\ \A s \in DOMAIN chains' : s \in DOMAIN from /\
             \A m \in Range(chains'[s]) : m \in Range(from[s]) \/ (s = h /\ m = n)
    BY <2>1, <2>2, Pushed
  <2>4. QED
    BY <2>3 DEF h
<1>4. (\A p, q \in Places : NodeAt(p) = NodeAt(q) => p = q)'
  <2>1. Distinct(chains)'
    BY <1>3 DEF Distinct
  <2>2. QED
    BY <2>1, PlacesDistinct, PTL
<1>5. /\ entry'[n].key = key /\ key # None
      /\ \A m \in Node \ {n} : entry'[m].key = entry[m].key
  <2>1. DOMAIN entry = Node /\ \A m \in Node : IsEntry(entry[m])
    BY DEF CacheTypes
  <2>2. /\ entry'[n] = [av EXCEPT !.key = key, !.used = TRUE, !.create = None]
        /\ \A m \in Node \ {n} : entry'[m] \in {entry[m], [entry[m] EXCEPT !.used = FALSE]}
    BY DEF Claimed
  <2>3. entry'[n].key = key
    BY <2>2 DEF IsEntry
  <2>4. ASSUME NEW m \in Node \ {n} PROVE entry'[m].key = entry[m].key
    <3>1. IsEntry(entry[m])
      BY <2>1
    <3>2. [entry[m] EXCEPT !.used = FALSE].key = entry[m].key
      BY <3>1 DEF IsEntry
    <3>3. QED
      BY <2>2, <3>2
  <2>5. key # None
    OBVIOUS
  <2>6. QED
    BY <2>3, <2>4, <2>5
<1>6. ASSUME NEW s \in DOMAIN chains', NEW m \in Range(chains'[s])
      PROVE  entry'[m].key # None /\ Hash(entry'[m].key) = s
  <2>1. CASE m = n
    <3>1. n \notin Range(from[s])
      BY <1>3 DEF InChains
    <3>2. s = Hash(key)
      BY <1>3, <1>6, <2>1, <3>1
    <3>3. QED
      BY <1>5, <2>1, <3>2
  <2>2. CASE m # n
    <3>1. s \in DOMAIN from /\ m \in Range(from[s])
      BY <1>3, <1>6, <2>2
    <3>2. s \in 0..(Slots - 1) /\ s \in DOMAIN chains /\ m \in Range(chains[s])
      BY <3>1 DEF CacheTypes
    <3>3. m \in Node
      BY <3>2 DEF CacheTypes, Range
    <3>4. QED
      BY <1>5, <2>2, <3>2, <3>3 DEF PoolKept
  <2>3. QED
    BY <2>1, <2>2
<1>7. active' = Cardinality(Cached')
  <2>1. IsFiniteSet(Cached)
    BY FiniteCache
  <2>2. Cardinality(Cached \cup {n}) = IF n \in Cached THEN Cardinality(Cached)
                                                      ELSE Cardinality(Cached) + 1
    BY <2>1, FS_AddElement
  <2>3. QED
    BY <2>2 DEF PoolKept
<1>8. Range(free') \cup Cached' = Node /\ Range(free') \cap Cached' = {}
  BY DEF PoolKept
<1>9. QED
  BY <1>4, <1>6, <1>7, <1>8 DEF PoolKept, Hash

\* The first node of the free list leaves it.
LEMMA HeadTaken ==
    ASSUME free \in Seq(Node), free # << >>, IsInjective(free), free' = Tail(free)
    PROVE  /\ Head(free) \in Node /\ Head(free) \in Range(free)
           /\ Range(free') = Range(free) \ {Head(free)} /\ IsInjective(free')
<1>1. /\ Head(free) = free[1] /\ Head(free) \in Node
      /\ free' \in Seq(Node) /\ Len(free') = Len(free) - 1 /\ Len(free) \in Nat /\ Len(free) >= 1
      /\ DOMAIN free = 1..Len(free) /\ DOMAIN free' = 1..(Len(free) - 1)
      /\ \A i \in 1..(Len(free) - 1) : free'[i] = free[i + 1]
  OBVIOUS
<1>2. \A i, j \in 1..Len(free) : free[i] = free[j] => i = j
  BY <1>1 DEF IsInjective
<1>3. ASSUME NEW i \in DOMAIN free'
      PROVE  i + 1 \in DOMAIN free /\ i + 1 # 1 /\ free'[i] = free[i + 1]
  BY <1>1
<1>4. ASSUME NEW i \in DOMAIN free, i # 1
      PROVE  i - 1 \in DOMAIN free' /\ free'[i - 1] = free[i]
  <2>1. i - 1 \in 1..(Len(free) - 1) /\ (i - 1) + 1 = i
    BY <1>1, <1>4
  <2>2. QED
    BY <1>1, <2>1
<1>5. Head(free) \in Range(free)
  BY <1>1 DEF Range
<1>6. ASSUME NEW m \in Range(free') PROVE m \in Range(free) /\ m # Head(free)
  <2>1. PICK i \in DOMAIN free' : free'[i] = m
    BY DEF Range
  <2>2. 1 \in DOMAIN free
    BY <1>1
  <2>3. free[i + 1] = m /\ i + 1 \in DOMAIN free /\ i + 1 # 1
    BY <1>3, <2>1
  <2>4. QED
    BY <1>1, <1>2, <2>2, <2>3 DEF Range
<1>7. ASSUME NEW m \in Range(free), m # Head(free) PROVE m \in Range(free')
  <2>1. PICK i \in DOMAIN free : free[i] = m
    BY DEF Range
  <2>2. i # 1
    BY <1>1, <1>7, <2>1
  <2>3. QED
    BY <1>4, <2>1, <2>2 DEF Range
<1>8. IsInjective(free')
  <2> SUFFICES ASSUME NEW i \in DOMAIN free', NEW j \in DOMAIN free', free'[i] = free'[j]
               PROVE  i = j
    BY DEF IsInjective
  <2>1. i + 1 = j + 1
    BY <1>1, <1>2, <1>3
  <2>2. QED
    BY <1>1, <2>1
<1>9. QED
  BY <1>1, <1>5, <1>6, <1>7, <1>8

\* What avc_insert() does to the cache, the pool's shape and the nodes.
LEMMA InsertedNode ==
    ASSUME AInv, PoolKept, NEW key \in Nat \X Nat, NEW av, IsEntry(av), NEW n,
           \/ ClaimFree(key, av) /\ n = Head(free)
           \/ \E p \in Places : Reclaim(p, key, av) /\ n = NodeAt(p),
           UNCHANGED sidtab
    PROVE  /\ PoolKept' /\ n \in Cached' /\ n \in Node /\ Cached' = Cached \cup {n}
           /\ \E from, cleared : Claimed(n, key, av, from, cleared)
           /\ hint' \in {hint} \cup 0..(Slots - 1)
<1>1. CacheTypes
  BY DEF AInv, CacheInv
<1>2. Distinct(chains)
  BY PlacesDistinct DEF PoolKept
<1>3. CASE ClaimFree(key, av) /\ n = Head(free)
  <2>1. /\ n \in Node /\ n \in Range(free) /\ n \notin Cached
        /\ Range(free') = Range(free) \ {n} /\ IsInjective(free')
    BY <1>1, <1>3, HeadTaken DEF ClaimFree, PoolKept, CacheTypes
  <2>2. Claimed(n, key, av, chains, {}) /\ active' = active + 1 /\ hint' = hint
    BY <1>3 DEF ClaimFree
  <2>3. InChains(chains) = Cached /\ chains \in [0..(Slots - 1) -> Seq(Node)]
    BY <1>1 DEF InChains, Cached, CacheTypes
  <2>4. Cached' = Cached \cup {n}
    BY <1>1, <2>1, <2>2, <2>3, ClaimedEffect
  <2>5. PoolKept'
    BY <1>1, <1>2, <2>1, <2>2, <2>3, <2>4, ClaimKeepsPool
  <2>6. QED
    BY <2>1, <2>2, <2>4, <2>5
<1>4. ASSUME NEW p \in Places, Reclaim(p, key, av), n = NodeAt(p)
      PROVE  /\ PoolKept' /\ n \in Cached' /\ n \in Node /\ Cached' = Cached \cup {n}
             /\ \E from, cleared : Claimed(n, key, av, from, cleared)
             /\ hint' \in {hint} \cup 0..(Slots - 1)
  <2>1. /\ n \in Cached /\ n \in Node /\ Without(p) \in [0..(Slots - 1) -> Seq(Node)]
        /\ Distinct(Without(p)) /\ InChains(Without(p)) = Cached \ {n}
    BY <1>1, <1>2, <1>4, WithoutPlace, WithoutDistinct, CachedNodes
  <2>2. Claimed(n, key, av, Without(p), Passed(p)) /\ hint' = p[1]
        /\ free' = free /\ active' = active
    BY <1>4 DEF Reclaim
  <2>3. Cached' = Cached \cup {n}
    BY <1>1, <2>1, <2>2, ClaimedEffect
  <2>4. p[1] \in DOMAIN chains /\ p[2] \in DOMAIN chains[p[1]] /\ p[1] \in 0..(Slots - 1)
    BY <1>1 DEF Places, CacheTypes
  <2>5. \A s \in DOMAIN Without(p) : Range(Without(p)[s]) \subseteq Range(chains[s])
    <3>1. chains[p[1]] \in Seq(Node)
      BY <1>1, <2>4 DEF CacheTypes
    <3>2. Range(RemoveAt(chains[p[1]], p[2])) \subseteq Range(chains[p[1]])
      BY <2>4, <3>1, RemovedFrom
    <3>3. QED
      BY <2>4, <3>2 DEF Without
  <2>6. Range(free') = Range(free) \ {n} /\ IsInjective(free')
    BY <2>1, <2>2 DEF PoolKept
  <2>7. PoolKept'
    BY <1>1, <2>1, <2>2, <2>3, <2>5, <2>6, ClaimKeepsPool
  <2>8. QED
    BY <2>1, <2>2, <2>3, <2>4, <2>7
<1>5. QED
  BY <1>3, <1>4

--------------------------------------------------------------------------------
(* The second invariant and the steps of the callers.                           *)

LEMMA CachedKey ==
    ASSUME CacheTypes, Entries, PoolKept, NEW n \in Cached
    PROVE  entry[n].key \in Sids \X Sids /\ n \in Node
<1>1. PICK s \in DOMAIN chains : n \in Range(chains[s])
  BY DEF Cached
<1>2. n \in Node /\ entry[n].key # None
  BY <1>1, CachedNodes DEF PoolKept
<1>3. entry[n] \in EntryType
  BY <1>2 DEF Entries
<1>4. QED
  BY <1>2, <1>3 DEF EntryType

\* The part of a caller's step: its own call, and what an entry says beside its pair,
\* its policy and what it decides.
OwnCallOf(c) ==
    /\ \A d \in Callers \ {c} : call'[d] = call[d] /\ ref'[d] = ref[d]
    /\ lock' \in Callers \cup {None}
    /\ call'[c].pc # "idle" => IsAsk(call'[c])
    /\ call'[c].pc = "insert" => IsDecision(call'[c])

SameDecisions ==
    /\ entry' \in [Node -> EntryType']
    /\ \A n \in Node : entry'[n].decided = entry[n].decided /\ entry'[n].seqno = entry[n].seqno
    /\ enforcing => \A n \in Node : \A pair :
          Follows(entry[n], pair) => Follows(entry'[n], pair)

NoticesLeft == UNCHANGED <<mode, latest, hint, handling, queue, enforcing>>

LEMMA AsksKept ==
    ASSUME Asks, NEW c \in Callers, OwnCallOf(c), Grown
    PROVE  Asks'
<1> SUFFICES ASSUME NEW d \in Callers
             PROVE  /\ call'[d].pc # "idle" => IsAsk(call[d])'
                    /\ call'[d].pc = "insert" => IsDecision(call[d])'
  BY DEF Asks
<1>1. /\ call'[d].pc # "idle" => IsAsk(call'[d])
      /\ call'[d].pc = "insert" => IsDecision(call'[d])
  BY DEF Asks, OwnCallOf
<1>2. ASSUME call'[d].pc # "idle" PROVE IsAsk(call[d])'
  <2>1. IsAsk(call'[d])
    BY <1>1, <1>2
  <2>2. QED
    BY <2>1, AskGrows DEF IsAsk
<1>3. ASSUME call'[d].pc = "insert" PROVE IsDecision(call[d])'
  <2>1. IsAsk(call'[d]) /\ IsDecision(call'[d])
    BY <1>1, <1>3
  <2>2. call'[d].asked \subseteq call'[d].got.decided
    BY <2>1 DEF IsDecision
  <2>3. call'[d].got \in EntryType'
        /\ Follows(call'[d].got, Pair(call'[d].key))
        /\ Pair(call[d].key)' = Pair(call'[d].key)
    BY <2>1, AskGrows
  <2>4. QED
    BY <2>2, <2>3 DEF IsDecision, Allows
<1>4. QED
  BY <1>2, <1>3

LEMMA CallerSound ==
    ASSUME AInv, SoundInv, NEW c \in Callers, OwnCallOf(c), NoticesLeft,
           Grown, IsInjective(sidtab'), SameShape, SameDecisions,
           call'[c].pc = "answer" => /\ ref'[c] \in Cached
                                     /\ entry'[ref'[c]].key = call'[c].key
                                     /\ call'[c].asked \subseteq entry'[ref'[c]].decided
    PROVE  SoundInv'
<1>1. CacheTypes
  BY DEF AInv, CacheInv
<1>2. PoolKept' /\ Cached' = Cached
  BY <1>1, ShapeKept DEF SoundInv
<1>3. Entries' /\ Bounds'
  BY DEF SoundInv, SameDecisions, Entries, Bounds, NoticesLeft, OwnCallOf
<1>4. Asks'
  BY AsksKept DEF SoundInv
<1>5. AnsweredFromCache'
  <2> SUFFICES ASSUME NEW d \in Callers, call'[d].pc = "answer"
               PROVE  /\ ref'[d] \in Cached /\ entry'[ref'[d]].key = call'[d].key
                      /\ call'[d].asked \subseteq entry'[ref'[d]].decided
    BY <1>2 DEF AnsweredFromCache
  <2>1. CASE d = c
    BY <2>1
  <2>2. CASE d # c
    <3>1. /\ call'[d] = call[d] /\ ref'[d] = ref[d] /\ ref[d] \in Cached
          /\ entry[ref[d]].key = call[d].key /\ call[d].asked \subseteq entry[ref[d]].decided
      BY <2>2 DEF OwnCallOf, SoundInv, AnsweredFromCache
    <3>2. ref[d] \in Node
      BY <1>1, <3>1, CachedNodes
    <3>3. QED
      BY <3>1, <3>2 DEF SameShape, SameDecisions
  <2>3. QED
    BY <2>1, <2>2
<1>6. PolicyKept'
  <2> SUFFICES ASSUME enforcing, \A p \in Handlers : handling[p].pc # "reset", NEW n \in Cached
               PROVE  Follows(entry'[n], Pair(entry[n].key)')
    BY <1>2 DEF PolicyKept, NoticesLeft, Allows
  <2>1. entry[n].key \in Sids \X Sids /\ n \in Node
    BY <1>1, CachedKey DEF SoundInv
  <2>2. Follows(entry[n], Pair(entry[n].key))
    BY DEF SoundInv, PolicyKept, Allows
  <2>3. Pair(entry[n].key)' = Pair(entry[n].key)
    <3>1. entry'[n].key = entry[n].key
      BY <2>1 DEF SameShape
    <3>2. QED
      BY <2>1, <3>1, PairsGrow DEF Pair
  <2>4. QED
    BY <2>1, <2>2, <2>3 DEF SameDecisions
<1>7. QED
  BY <1>2, <1>3, <1>4, <1>5, <1>6 DEF SoundInv

\* Where no SID is given out.
LEMMA SameTable == UNCHANGED sidtab => Grown /\ EntryType' = EntryType
BY DEF Grown, Sids, EntryType

LEMMA SameEntries ==
    Entries /\ UNCHANGED <<chains, free, active, entry, sidtab>> => SameShape /\ SameDecisions
BY SameTable DEF Entries, SameShape, SameDecisions

LEMMA SidFound ==
    ASSUME NEW ctx, HasSid(ctx)
    PROVE  SidOf(ctx) \in Sids /\ sidtab[SidOf(ctx)] = ctx
<1>1. \E i \in DOMAIN sidtab : sidtab[i] = ctx
  BY DEF HasSid, Range
<1>2. QED
  BY <1>1 DEF SidOf, Sids

LEMMA AskSound ==
    ASSUME AInv, SoundInv, NEW c \in Callers, NEW pair \in Asked,
           (\E asked \in Requests : AskPerm(c, pair, asked)) \/ AskCreate(c, pair)
    PROVE  SoundInv'
<1>1. UNCHANGED <<chains, free, active, entry, sidtab, lock>> /\ NoticesLeft
  BY DEF AskPerm, AskCreate, cache, kernel, NoticesLeft
<1>2. DOMAIN call = Callers /\ DOMAIN ref = Callers
  BY DEF AInv, CallInv, CallTypes
<1> DEFINE key == <<SidOf(pair[1]), SidOf(pair[2])>>
<1>3. key \in Sids \X Sids /\ Pair(key) = pair
  <2>1. HasSid(pair[1]) /\ HasSid(pair[2])
    BY DEF AskPerm, AskCreate
  <2>2. pair = <<pair[1], pair[2]>>
    BY AskedAssumption
  <2>3. QED
    BY <2>1, <2>2, SidFound DEF Pair
<1> HIDE DEF key
<1>4. call'[c].key = key /\ call'[c].pc \in {"poll", "wait"} /\ call'[c].asked \subseteq Perms
  <2>1. CASE AskCreate(c, pair)
    BY <1>2, <2>1 DEF AskCreate, Idle, key
  <2>2. ASSUME NEW asked \in Requests, AskPerm(c, pair, asked)
        PROVE  call'[c].key = key /\ call'[c].pc \in {"poll", "wait"} /\ call'[c].asked \subseteq Perms
    <3>1. asked \subseteq Perms
      BY AskedAssumption
    <3>2. call'[c].key = key /\ call'[c].pc \in {"poll", "wait"} /\ call'[c].asked = asked
      BY <1>2, <2>2 DEF AskPerm, Idle, key
    <3>3. QED
      BY <3>1, <3>2
  <2>3. QED
    BY <2>1, <2>2
<1>5. \A d \in Callers \ {c} : call'[d] = call[d] /\ ref'[d] = ref[d]
  BY <1>2 DEF AskPerm, AskCreate
<1>6. OwnCallOf(c)
  <2>1. IsAsk(call'[c])
    BY <1>3, <1>4 DEF IsAsk
  <2>2. lock' \in Callers \cup {None}
    BY <1>1 DEF SoundInv, Bounds
  <2>3. QED
    BY <1>4, <1>5, <2>1, <2>2 DEF OwnCallOf
<1>7. SameShape /\ SameDecisions /\ Grown /\ IsInjective(sidtab')
  BY <1>1, SameEntries, SameTable DEF SoundInv, PoolKept
<1>8. QED
  BY <1>1, <1>4, <1>6, <1>7, CallerSound

\* A step of a call that goes on as it asked, and one that ends it.
LEMMA GoesOn ==
    ASSUME AInv, SoundInv, NEW c \in Callers, NEW pc \in {"wait", "answer", "compute"},
           call[c].pc # "idle", DOMAIN call'[c] = DOMAIN call[c],
           \A d \in Callers \ {c} : call'[d] = call[d] /\ ref'[d] = ref[d],
           call'[c].pc = pc, call'[c].key = call[c].key, call'[c].asked = call[c].asked,
           lock' \in Callers \cup {None}
    PROVE  OwnCallOf(c)
BY DEF OwnCallOf, SoundInv, Asks, IsAsk

LEMMA Ends ==
    ASSUME AInv, NEW c \in Callers, call' = [call EXCEPT ![c] = Idle], lock' = None,
           \A d \in Callers \ {c} : ref'[d] = ref[d]
    PROVE  OwnCallOf(c) /\ call'[c].pc = "idle"
<1>1. call'[c] = Idle /\ \A d \in Callers \ {c} : call'[d] = call[d]
  BY DEF AInv, CallInv, CallTypes
<1>2. QED
  BY <1>1, IdleCall DEF OwnCallOf

LEMMA PolledSound == ASSUME AInv, SoundInv, NEW c \in Callers, Polled(c) PROVE SoundInv'
<1>1. UNCHANGED <<chains, free, active, entry, sidtab, lock, ref>> /\ NoticesLeft
      /\ call[c].pc = "poll"
  BY DEF Polled, cache, NoticesLeft
<1>2. DOMAIN call = Callers /\ IsCall(call[c])
  BY DEF AInv, CallInv, CallTypes
<1>3. PICK floor : call' = [call EXCEPT ![c].pc = "wait", ![c].floor = floor]
  BY DEF Polled
<1>4. /\ call'[c] = [call[c] EXCEPT !.pc = "wait", !.floor = floor]
      /\ \A d \in Callers \ {c} : call'[d] = call[d]
  BY <1>2, <1>3
<1>5. call'[c].pc = "wait" /\ call'[c].key = call[c].key /\ call'[c].asked = call[c].asked
      /\ DOMAIN call'[c] = DOMAIN call[c]
  BY <1>2, <1>4 DEF IsCall
<1>6. OwnCallOf(c)
  BY <1>1, <1>4, <1>5, GoesOn DEF SoundInv, Bounds
<1>7. SameShape /\ SameDecisions /\ Grown /\ IsInjective(sidtab')
  BY <1>1, SameEntries, SameTable DEF SoundInv, PoolKept
<1>8. QED
  BY <1>1, <1>5, <1>6, <1>7, CallerSound

\* One entry is changed.
LEMMA EntryChanged ==
    ASSUME AInv, SoundInv, NEW n \in Node, Grown, UNCHANGED <<chains, free, active>>,
           NEW e \in EntryType', e.key = entry[n].key, e.decided = entry[n].decided,
           e.seqno = entry[n].seqno,
           enforcing => \A pair : Follows(entry[n], pair) => Follows(e, pair),
           entry' = [entry EXCEPT ![n] = e]
    PROVE  SameShape /\ SameDecisions
<1>1. entry \in [Node -> EntryType]
  BY DEF SoundInv, Entries
<1>2. entry'[n] = e /\ \A m \in Node \ {n} : entry'[m] = entry[m]
  BY <1>1
<1>3. entry' \in [Node -> EntryType']
  BY <1>1, TypesGrow
<1>4. QED
  BY <1>2, <1>3 DEF SameShape, SameDecisions

LEMMA MarkSound ==
    ASSUME AInv, SoundInv, NEW n \in Node, UNCHANGED <<chains, free, active, sidtab>>,
           entry' = [entry EXCEPT ![n].used = TRUE]
    PROVE  SameShape /\ SameDecisions
<1> DEFINE e == [entry[n] EXCEPT !.used = TRUE]
<1>1. entry[n] \in EntryType /\ EntryType' = EntryType /\ Grown
  BY SameTable DEF SoundInv, Entries
<1>2. e \in EntryType /\ e.key = entry[n].key /\ SameSaid(e, entry[n])
  BY <1>1 DEF EntryType, SameSaid
<1>3. entry' = [entry EXCEPT ![n] = e]
  OBVIOUS
<1> HIDE DEF e
<1>4. \A pair : Follows(entry[n], pair) => Follows(e, pair)
  BY <1>2, SaidFollows
<1>5. e.seqno = entry[n].seqno /\ e.decided = entry[n].decided
  BY <1>2 DEF SameSaid
<1>6. QED
  BY <1>1, <1>2, <1>3, <1>4, <1>5, EntryChanged

LEMMA LookupSound == ASSUME AInv, SoundInv, NEW c \in Callers, Lookup(c) PROVE SoundInv'
<1>1. /\ UNCHANGED <<chains, free, active, sidtab>> /\ NoticesLeft
      /\ call[c].pc = "wait" /\ lock' = c
  BY DEF Lookup, NoticesLeft, kernel
<1>2. IsCall(call[c]) /\ DOMAIN call = Callers /\ DOMAIN ref = Callers /\ CacheTypes
  BY DEF AInv, CallInv, CallTypes, CacheInv
<1>3. ASSUME NEW to \in {"answer", "compute"}, call' = [call EXCEPT ![c].pc = to],
             \A d \in Callers \ {c} : ref'[d] = ref[d], SameShape, SameDecisions,
             to = "answer" => /\ ref'[c] \in Cached
                              /\ entry[ref'[c]].key = call[c].key
                              /\ call[c].asked \subseteq entry[ref'[c]].decided
      PROVE  SoundInv'
  <2>1. call'[c] = [call[c] EXCEPT !.pc = to] /\ \A d \in Callers \ {c} : call'[d] = call[d]
    BY <1>2, <1>3
  <2>2. call'[c].pc = to /\ call'[c].key = call[c].key /\ call'[c].asked = call[c].asked
        /\ DOMAIN call'[c] = DOMAIN call[c]
    BY <1>2, <2>1 DEF IsCall
  <2>3. OwnCallOf(c)
    BY <1>1, <1>3, <2>1, <2>2, GoesOn
  <2>4. to = "answer" => /\ entry'[ref'[c]].key = call'[c].key
                         /\ call'[c].asked \subseteq entry'[ref'[c]].decided
    <3>1. to = "answer" => ref'[c] \in Node
      BY <1>2, <1>3, CachedNodes
    <3>2. QED
      BY <1>3, <2>2, <3>1 DEF SameShape, SameDecisions
  <2>5. Grown /\ IsInjective(sidtab')
    BY <1>1, SameTable DEF SoundInv, PoolKept
  <2>6. QED
    BY <1>1, <1>3, <2>2, <2>3, <2>4, <2>5, CallerSound
<1>4. CASE ref[c] # None /\ Covers(ref[c], call[c].key, call[c].asked)
  <2>1. /\ call' = [call EXCEPT ![c].pc = "answer"]
        /\ entry' = [entry EXCEPT ![ref[c]].used = TRUE]
        /\ ref' = ref
    BY <1>4 DEF Lookup
  <2>2. ref[c] \in Cached /\ ref[c] \in Node
    BY <1>1, <1>2, <1>4, CoversCached, CachedNodes
  <2>3. SameShape /\ SameDecisions
    BY <1>1, <2>1, <2>2, MarkSound
  <2>4. QED
    BY <1>3, <1>4, <2>1, <2>2, <2>3 DEF Covers
<1>5. CASE ~(ref[c] # None /\ Covers(ref[c], call[c].key, call[c].asked))
  <2>1. PICK found \in Search(call[c].key) :
          LET hit == found # None /\ call[c].asked \subseteq entry[found].decided
          IN  /\ call' = [call EXCEPT ![c].pc = IF hit THEN "answer" ELSE "compute"]
              /\ ref' = IF hit THEN [ref EXCEPT ![c] = found] ELSE ref
              /\ entry' = IF found = None THEN entry
                          ELSE [entry EXCEPT ![found].used = TRUE]
    BY <1>5 DEF Lookup
  <2>2. found = None \/ (found \in Cached /\ found \in Node /\ entry[found].key = call[c].key)
    <3>1. Hash(call[c].key) \in DOMAIN chains
      <4>1. call[c].key[1] + 2 * call[c].key[2] \in Nat
        BY <1>1, <1>2 DEF IsCall
      <4>2. Hash(call[c].key) \in 0..(Slots - 1)
        BY <4>1 DEF Hash
      <4>3. QED
        BY <1>2, <4>2 DEF CacheTypes
    <3>2. found = None \/ \E i \in DOMAIN chains[Hash(call[c].key)] :
                               /\ found = chains[Hash(call[c].key)][i]
                               /\ entry[chains[Hash(call[c].key)][i]].key = call[c].key
      BY DEF Search
    <3>3. found = None \/ (found \in Cached /\ entry[found].key = call[c].key)
      BY <3>1, <3>2 DEF Cached, Range
    <3>4. QED
      BY <1>2, <3>3, CachedNodes
  <2>3. SameShape /\ SameDecisions
    <3>1. CASE found = None
      <4>1. entry' = entry
        BY <2>1, <3>1
      <4>2. QED
        BY <1>1, <4>1, SameEntries DEF SoundInv
    <3>2. CASE found # None
      <4>1. entry' = [entry EXCEPT ![found].used = TRUE] /\ found \in Node
        BY <2>1, <2>2, <3>2
      <4>2. QED
        BY <1>1, <4>1, MarkSound
    <3>3. QED
      BY <3>1, <3>2
  <2>4. CASE found # None /\ call[c].asked \subseteq entry[found].decided
    <3>1. call' = [call EXCEPT ![c].pc = "answer"] /\ ref' = [ref EXCEPT ![c] = found]
      BY <2>1, <2>4
    <3>2. ref'[c] = found /\ \A d \in Callers \ {c} : ref'[d] = ref[d]
      BY <1>2, <3>1
    <3>3. QED
      BY <1>3, <2>2, <2>3, <2>4, <3>1, <3>2
  <2>5. CASE ~(found # None /\ call[c].asked \subseteq entry[found].decided)
    <3>1. call' = [call EXCEPT ![c].pc = "compute"] /\ ref' = ref
      BY <2>1, <2>5
    <3>2. QED
      BY <1>3, <2>3, <3>1
  <2>6. QED
    BY <2>4, <2>5
<1>6. QED
  BY <1>4, <1>5

LEMMA ComputeSound == ASSUME AInv, SoundInv, NEW c \in Callers, Compute(c) PROVE SoundInv'
<1>1. /\ UNCHANGED <<chains, free, active, entry, sidtab, ref>> /\ NoticesLeft
      /\ call[c].pc = "compute"
  BY DEF Compute, cache, kernel, NoticesLeft
<1>2. SameShape /\ SameDecisions /\ Grown /\ IsInjective(sidtab')
  BY <1>1, SameEntries, SameTable DEF SoundInv, PoolKept
<1>3. CASE GivenUp(c)
  <2>1. OwnCallOf(c) /\ call'[c].pc = "idle"
    BY <1>1, <1>3, Ends DEF GivenUp
  <2>2. QED
    BY <1>1, <1>2, <2>1, CallerSound
<1>4. CASE ~GivenUp(c)
  <2> DEFINE pair == <<sidtab[call[c].key[1]], sidtab[call[c].key[2]]>>
             got(decided) == [Blank EXCEPT !.allowed = Policy[policy][pair],
                                           !.permissive = pair[1] \in Permissive[policy],
                                           !.decided = decided, !.seqno = policy]
  <2>1. PICK decided \in {call[c].asked, Perms} :
            /\ call' = [call EXCEPT ![c].pc = "insert", ![c].got = got(decided)]
            /\ UNCHANGED lock
    BY <1>4 DEF Compute
  <2>2. IsAsk(call[c])
    BY <1>1 DEF SoundInv, Asks
  <2>3. got(decided) \in EntryType /\ Follows(got(decided), Pair(call[c].key))
        /\ got(decided).decided = decided
    <3>1. pair = Pair(call[c].key) /\ pair \in Asked /\ policy \in Loads
      BY <2>2 DEF IsAsk, Pair, AInv, NoticeTypes
    <3>2. Policy[policy][pair] \subseteq Perms /\ decided \subseteq Perms
      BY <2>2, <3>1, PolicyAssumption DEF IsAsk
    <3>3. Blank \in EntryType
      BY LoadsAssumption DEF Blank, EntryType
    <3> DEFINE a == Policy[policy][pair]
               b == pair[1] \in Permissive[policy]
    <3>4. a \in SUBSET Perms /\ b \in BOOLEAN /\ decided \in SUBSET Perms
      BY <3>2
    <3>5. got(decided) = [Blank EXCEPT !.allowed = a, !.permissive = b,
                                       !.decided = decided, !.seqno = policy]
      OBVIOUS
    <3>6. Pair(call[c].key) = pair /\ a = Policy[policy][Pair(call[c].key)]
          /\ (b <=> Pair(call[c].key)[1] \in Permissive[policy])
      BY <3>1
    <3> HIDE DEF got, pair, a, b
    <3>7. got(decided) \in EntryType /\ got(decided).decided = decided
          /\ got(decided).allowed = a /\ got(decided).seqno = policy
      BY <3>1, <3>3, <3>4, <3>5 DEF EntryType
    <3>8. got(decided).permissive = b
      BY <3>1, <3>3, <3>4, <3>5 DEF Blank
    <3>9. QED
      BY <3>6, <3>7, <3>8 DEF Follows, SaysOf
  <2> HIDE DEF got
  <2>4. IsCall(call[c]) /\ DOMAIN call = Callers
    BY DEF AInv, CallInv, CallTypes
  <2>5. call'[c] = [call[c] EXCEPT !.pc = "insert", !.got = got(decided)]
        /\ \A d \in Callers \ {c} : call'[d] = call[d]
    BY <2>1, <2>4
  <2>6. call'[c].pc = "insert" /\ call'[c].key = call[c].key /\ call'[c].asked = call[c].asked
        /\ call'[c].got = got(decided)
    BY <2>4, <2>5 DEF IsCall
  <2>7. IsAsk(call'[c]) /\ IsDecision(call'[c])
    <3>1. IsAsk(call'[c])
      BY <2>2, <2>6 DEF IsAsk
    <3>2. call[c].asked \subseteq decided
      BY <2>2 DEF IsAsk
    <3>3. QED
      BY <2>3, <2>6, <3>1, <3>2 DEF IsDecision, Allows
  <2>8. OwnCallOf(c)
    BY <1>1, <2>1, <2>5, <2>7 DEF OwnCallOf, SoundInv, Bounds
  <2>9. QED
    BY <1>1, <1>2, <2>6, <2>8, CallerSound
<1>5. QED
  BY <1>3, <1>4

LEMMA AnswerPermSound == ASSUME AInv, SoundInv, NEW c \in Callers, AnswerPerm(c) PROVE SoundInv'
<1>1. /\ UNCHANGED <<chains, free, active, sidtab, ref>> /\ NoticesLeft
      /\ call[c].pc = "answer"
      /\ call' = [call EXCEPT ![c] = Idle] /\ lock' = None
  BY DEF AnswerPerm, kernel, NoticesLeft
<1>2. OwnCallOf(c) /\ call'[c].pc = "idle"
  BY <1>1, Ends
<1>3. ref[c] \in Cached /\ ref[c] \in Node /\ IsAsk(call[c])
  BY <1>1, CachedNodes DEF AInv, CacheInv, SoundInv, AnsweredFromCache, Asks
<1>4. Grown /\ IsInjective(sidtab') /\ EntryType' = EntryType
  BY <1>1, SameTable DEF SoundInv, PoolKept
<1>5. SameShape /\ SameDecisions
  <2>1. CASE /\ Granted(c)
             /\ entry' = [entry EXCEPT ![ref[c]].allowed = entry[ref[c]].allowed \cup call[c].asked]
    <3> DEFINE e == [entry[ref[c]] EXCEPT !.allowed = entry[ref[c]].allowed \cup call[c].asked]
    <3>1. entry[ref[c]] \in EntryType /\ call[c].asked \subseteq Perms
          /\ call[c].asked \subseteq entry[ref[c]].decided
      BY <1>1, <1>3 DEF SoundInv, Entries, IsAsk, AnsweredFromCache
    <3>2. e \in EntryType /\ e.key = entry[ref[c]].key /\ e.decided = entry[ref[c]].decided
          /\ e.seqno = entry[ref[c]].seqno
      BY <3>1 DEF EntryType
    <3>3. entry' = [entry EXCEPT ![ref[c]] = e]
      BY <2>1
    <3>4. e.permissive = entry[ref[c]].permissive
          /\ e.allowed = entry[ref[c]].allowed \cup call[c].asked
      BY <3>1 DEF EntryType
    <3> HIDE DEF e
    <3>5. ASSUME enforcing, NEW pair, Follows(entry[ref[c]], pair)
          PROVE  Follows(e, pair)
      <4>1. entry[ref[c]].permissive
        BY <2>1, <3>5 DEF Granted
      <4>2. SaysOf(e, pair) = SaysOf(entry[ref[c]], pair)
        BY <3>2 DEF SaysOf
      <4>3. entry[ref[c]].allowed \subseteq SaysOf(entry[ref[c]], pair) \cup entry[ref[c]].decided
            /\ SaysOf(entry[ref[c]], pair) \subseteq entry[ref[c]].allowed
        BY <3>5 DEF Follows
      <4>4. /\ SaysOf(e, pair) \subseteq e.allowed
            /\ e.allowed \subseteq SaysOf(e, pair) \cup e.decided
        BY <3>1, <3>2, <3>4, <4>2, <4>3
      <4>5. e.permissive /\ pair[1] \in Permissive[e.seqno]
        BY <3>2, <3>4, <3>5, <4>1 DEF Follows
      <4>6. QED
        BY <4>4, <4>5 DEF Follows
    <3>6. QED
      BY <1>1, <1>3, <1>4, <3>2, <3>3, <3>5, EntryChanged
  <2>2. CASE entry' = entry
    BY <1>1, <2>2, SameEntries DEF SoundInv
  <2>3. QED
    BY <2>1, <2>2 DEF AnswerPerm
<1>6. QED
  BY <1>1, <1>2, <1>4, <1>5, CallerSound

LEMMA AnswerCreateSound ==
    ASSUME AInv, SoundInv, NEW c \in Callers, AnswerCreate(c) PROVE SoundInv'
<1>1. /\ UNCHANGED <<chains, free, active>> /\ NoticesLeft
      /\ call[c].pc = "answer"
      /\ call' = [call EXCEPT ![c] = Idle] /\ lock' = None
      /\ ref' = [ref EXCEPT ![c] = None]
  BY DEF AnswerCreate, kernel, NoticesLeft
<1>2. OwnCallOf(c) /\ call'[c].pc = "idle"
  <2>1. \A d \in Callers \ {c} : ref'[d] = ref[d]
    BY <1>1 DEF AInv, CallInv, CallTypes
  <2>2. QED
    BY <1>1, <2>1, Ends
<1>3. ref[c] \in Cached /\ ref[c] \in Node
  BY <1>1, CachedNodes DEF AInv, CacheInv, SoundInv, AnsweredFromCache
<1> DEFINE ctx == Label[policy]
<1>4. ctx \in Contexts /\ sidtab \in Seq(Contexts) /\ IsInjective(sidtab)
  BY LabelAssumption DEF AInv, NoticeTypes, SoundInv, PoolKept
<1>5. Grown /\ IsInjective(sidtab')
  <2>1. UNCHANGED sidtab \/ (~HasSid(ctx) /\ sidtab' = Append(sidtab, ctx))
    BY DEF AnswerCreate
  <2> HIDE DEF ctx
  <2>2. QED
    BY <1>4, <2>1, TableGrows
<1>6. SameShape /\ SameDecisions
  <2>1. ASSUME NEW sid \in Sids', entry' = [entry EXCEPT ![ref[c]].create = sid]
        PROVE  SameShape /\ SameDecisions
    <3> DEFINE e == [entry[ref[c]] EXCEPT !.create = sid]
    <3>1. entry[ref[c]] \in EntryType'
      BY <1>3, <1>5, TypesGrow DEF SoundInv, Entries
    <3>2. e \in EntryType' /\ e.key = entry[ref[c]].key /\ SameSaid(e, entry[ref[c]])
      BY <3>1 DEF EntryType, SameSaid
    <3>3. entry' = [entry EXCEPT ![ref[c]] = e]
      BY <2>1
    <3> HIDE DEF e
    <3>4. \A pair : Follows(entry[ref[c]], pair) => Follows(e, pair)
      BY <3>2, SaidFollows
    <3>5. e.seqno = entry[ref[c]].seqno /\ e.decided = entry[ref[c]].decided
      BY <3>2 DEF SameSaid
    <3>6. QED
      BY <1>1, <1>3, <1>5, <3>2, <3>3, <3>4, <3>5, EntryChanged
  <2>2. CASE UNCHANGED <<entry, sidtab>>
    BY <1>1, <2>2, SameEntries DEF SoundInv
  <2>3. CASE /\ sidtab' = IF HasSid(ctx) THEN sidtab ELSE Append(sidtab, ctx)
             /\ entry' = [entry EXCEPT ![ref[c]].create =
                    IF HasSid(ctx) THEN SidOf(ctx) ELSE Len(sidtab) + 1]
    <3>1. CASE HasSid(ctx)
      <4>1. sidtab' = sidtab /\ entry' = [entry EXCEPT ![ref[c]].create = SidOf(ctx)]
        BY <2>3, <3>1
      <4>2. SidOf(ctx) \in Sids'
        BY <3>1, <4>1, SidFound DEF Sids
      <4>3. QED
        BY <2>1, <4>1, <4>2
    <3>2. CASE ~HasSid(ctx)
      <4>1. sidtab' = Append(sidtab, ctx) /\ entry' = [entry EXCEPT ![ref[c]].create = Len(sidtab) + 1]
        BY <2>3, <3>2
      <4>2. Len(sidtab) + 1 \in Sids'
        BY <1>4, <4>1 DEF Sids
      <4>3. QED
        BY <2>1, <4>1, <4>2
    <3>3. QED
      BY <3>1, <3>2
  <2>4. QED
    BY <2>2, <2>3 DEF AnswerCreate
<1>7. QED
  BY <1>1, <1>2, <1>5, <1>6, CallerSound

LEMMA ContextSound ==
    ASSUME AInv, SoundInv, NEW ctx \in Contexts, ContextToSid(ctx) PROVE SoundInv'
<1>1. /\ UNCHANGED <<chains, free, active, entry, call, ref, lock>> /\ NoticesLeft
      /\ ~HasSid(ctx) /\ sidtab' = Append(sidtab, ctx)
  BY DEF ContextToSid, cache, kernel, NoticesLeft
<1>2. Grown /\ IsInjective(sidtab')
  BY <1>1, TableGrows DEF AInv, NoticeTypes, SoundInv, PoolKept
<1>3. Entries' /\ SameShape
  BY <1>1, <1>2, TypesGrow DEF SoundInv, Entries, SameShape
<1>4. PoolKept' /\ Cached' = Cached
  BY <1>2, <1>3, ShapeKept DEF AInv, CacheInv, SoundInv
<1>5. Bounds' /\ AnsweredFromCache'
  BY <1>1, <1>4 DEF SoundInv, Bounds, AnsweredFromCache, NoticesLeft
<1>6. Asks'
  <2>1. ASSUME NEW c \in Callers, call[c].pc # "idle" PROVE IsAsk(call[c])'
    <3>1. IsAsk(call[c])
      BY <2>1 DEF SoundInv, Asks
    <3>2. QED
      BY <1>1, <1>2, <3>1, AskGrows DEF IsAsk
  <2>2. ASSUME NEW c \in Callers, call[c].pc = "insert" PROVE IsDecision(call[c])'
    <3>1. IsAsk(call[c]) /\ IsDecision(call[c])
      BY <2>2 DEF SoundInv, Asks
    <3>2. QED
      BY <1>1, <1>2, <3>1, AskGrows DEF IsDecision, Allows
  <2>3. QED
    BY <1>1, <2>1, <2>2 DEF Asks
<1>7. PolicyKept'
  <2> SUFFICES ASSUME enforcing, \A p \in Handlers : handling[p].pc # "reset", NEW n \in Cached
               PROVE  Follows(entry[n], Pair(entry[n].key)')
    BY <1>1, <1>4 DEF PolicyKept, NoticesLeft, Allows
  <2>1. entry[n].key \in Sids \X Sids
    BY CachedKey DEF AInv, CacheInv, SoundInv
  <2>2. Follows(entry[n], Pair(entry[n].key))
    BY DEF SoundInv, PolicyKept, Allows
  <2>3. QED
    BY <1>1, <1>2, <2>1, <2>2, PairsGrow
<1>8. QED
  BY <1>3, <1>4, <1>5, <1>6, <1>7 DEF SoundInv

\* The nodes after a claim: the one claimed holds the decision, the others what they held.
LEMMA ClaimedEntries ==
    ASSUME Entries, UNCHANGED sidtab, NEW n \in Node, NEW key \in Sids \X Sids,
           NEW av \in EntryType, NEW from, NEW cleared, Claimed(n, key, av, from, cleared)
    PROVE  /\ Entries'
           /\ entry'[n].key = key /\ SameSaid(entry'[n], av)
           /\ \A m \in Node \ {n} : entry'[m].key = entry[m].key /\ SameSaid(entry'[m], entry[m])
<1>1. EntryType' = EntryType
  BY SameTable
<1> DEFINE new == [av EXCEPT !.key = key, !.used = TRUE, !.create = None]
<1>2. /\ entry' = [m \in Node |-> IF m = n THEN new
                                  ELSE IF m \in cleared THEN [entry[m] EXCEPT !.used = FALSE]
                                  ELSE entry[m]]
  BY DEF Claimed
<1>3. new \in EntryType /\ new.key = key /\ SameSaid(new, av)
  BY DEF EntryType, SameSaid
<1> HIDE DEF new
<1>4. ASSUME NEW e \in EntryType
      PROVE  LET unused == [e EXCEPT !.used = FALSE]
             IN  unused \in EntryType /\ unused.key = e.key /\ SameSaid(unused, e)
  BY DEF EntryType, SameSaid
<1>5. \A m \in Node : entry[m] \in EntryType
  BY DEF Entries
<1>6. entry'[n] = new
  BY <1>2
<1>7. ASSUME NEW m \in Node \ {n}
      PROVE  /\ entry'[m] \in EntryType /\ entry'[m].key = entry[m].key
             /\ SameSaid(entry'[m], entry[m])
  <2>1. CASE m \in cleared
    <3>1. entry'[m] = [entry[m] EXCEPT !.used = FALSE]
      BY <1>2, <2>1
    <3>2. QED
      BY <1>4, <1>5, <3>1
  <2>2. CASE m \notin cleared
    <3>1. entry'[m] = entry[m]
      BY <1>2, <2>2
    <3>2. QED
      BY <1>5, <3>1 DEF SameSaid
  <2>3. QED
    BY <2>1, <2>2
<1>8. Entries'
  <2>1. \A m \in Node : entry'[m] \in EntryType
    BY <1>3, <1>6, <1>7
  <2>2. QED
    BY <1>1, <1>2, <2>1 DEF Entries
<1>9. QED
  BY <1>3, <1>6, <1>7, <1>8

LEMMA InsertSound == ASSUME AInv, SoundInv, NEW c \in Callers, Insert(c) PROVE SoundInv'
<1>1. /\ UNCHANGED <<mode, latest, handling, queue, enforcing, sidtab>>
      /\ call[c].pc = "insert" /\ lock = c /\ CacheTypes
      /\ DOMAIN call = Callers /\ IsCall(call[c]) /\ DOMAIN ref = Callers
      /\ \A d \in Callers \ {c} : call[d].pc # "answer"
  BY DEF Insert, kernel, AInv, CacheInv, CallInv, CallTypes, Holding
<1>2. Grown /\ IsInjective(sidtab') /\ EntryType' = EntryType
  BY <1>1, SameTable DEF SoundInv, PoolKept
<1>3. CASE Outdated(c)
  <2>1. GivenUp(c) /\ UNCHANGED <<chains, free, active, entry, hint, ref>>
    BY <1>3 DEF Insert, cache
  <2>2. OwnCallOf(c) /\ call'[c].pc = "idle"
    BY <2>1, Ends DEF GivenUp
  <2>3. SameShape /\ SameDecisions /\ NoticesLeft
    BY <1>1, <2>1, SameEntries DEF SoundInv, NoticesLeft
  <2>4. QED
    BY <1>2, <2>2, <2>3, CallerSound
<1>4. CASE ~Outdated(c)
  <2> DEFINE key == call[c].key
             av  == call[c].got
  <2>1. /\ call' = [call EXCEPT ![c].pc = "answer", ![c].got = Blank] /\ lock' = lock
    BY <1>4 DEF Insert
  <2>2. IsAsk(call[c]) /\ IsDecision(call[c])
    BY <1>1 DEF SoundInv, Asks
  <2>3. key \in Nat \X Nat /\ IsEntry(av) /\ key \in Sids \X Sids /\ av \in EntryType
    BY <1>1, <2>2 DEF IsCall, IsAsk, IsDecision
  <2>4. PICK n : /\ ref' = [ref EXCEPT ![c] = n]
                 /\ \/ ClaimFree(key, av) /\ n = Head(free)
                    \/ \E p \in Places : Reclaim(p, key, av) /\ n = NodeAt(p)
    BY <1>4 DEF Insert
  <2>5. /\ PoolKept' /\ n \in Cached' /\ n \in Node /\ Cached' = Cached \cup {n}
        /\ \E from, cleared : Claimed(n, key, av, from, cleared)
        /\ hint' \in {hint} \cup 0..(Slots - 1)
    <3> HIDE DEF key, av
    <3>1. QED
      BY <1>1, <2>3, <2>4, InsertedNode DEF SoundInv
  <2>6. /\ Entries'
        /\ entry'[n].key = key /\ SameSaid(entry'[n], av)
        /\ \A m \in Node \ {n} : entry'[m].key = entry[m].key /\ SameSaid(entry'[m], entry[m])
    <3> HIDE DEF key, av
    <3>1. QED
      BY <1>1, <2>3, <2>5, ClaimedEntries DEF SoundInv
  <2>7. /\ call'[c] = [call[c] EXCEPT !.pc = "answer", !.got = Blank]
        /\ ref'[c] = n
        /\ \A d \in Callers \ {c} : call'[d] = call[d] /\ ref'[d] = ref[d]
    BY <1>1, <2>1, <2>4
  <2>8. call'[c].pc = "answer" /\ call'[c].key = key /\ call'[c].asked = call[c].asked
    BY <1>1, <2>7 DEF IsCall
  <2>9. Asks'
    <3>1. IsAsk(call'[c])
      BY <2>2, <2>8 DEF IsAsk
    <3>2. OwnCallOf(c)
      BY <1>1, <2>1, <2>7, <2>8, <3>1 DEF OwnCallOf
    <3>3. QED
      BY <1>2, <3>2, AsksKept DEF SoundInv
  <2>10. Bounds'
    BY <1>1, <2>1, <2>5 DEF SoundInv, Bounds
  <2>11. AnsweredFromCache'
    <3>1. call[c].asked \subseteq av.decided
      BY <2>2 DEF IsDecision
    <3>2. \A d \in Callers \ {c} : call'[d].pc # "answer"
      BY <1>1, <2>7
    <3>3. QED
      BY <2>5, <2>6, <2>7, <2>8, <3>1, <3>2 DEF AnsweredFromCache, SameSaid
  <2>12. PolicyKept'
    <3> SUFFICES ASSUME enforcing, \A p \in Handlers : handling[p].pc # "reset", NEW m \in Cached'
                 PROVE  Follows(entry'[m], Pair(entry'[m].key))
      BY <1>1 DEF PolicyKept, Allows, Pair
    <3>1. CASE m = n
      BY <2>2, <2>6, <3>1, SaidFollows DEF IsDecision, Allows
    <3>2. CASE m # n
      <4>1. m \in Cached /\ m \in Node
        BY <1>1, <2>5, <3>2, CachedNodes
      <4>2. Follows(entry[m], Pair(entry[m].key))
        BY <4>1 DEF SoundInv, PolicyKept, Allows
      <4>3. QED
        BY <2>6, <3>2, <4>1, <4>2, SaidFollows
    <3>3. QED
      BY <3>1, <3>2
  <2>13. QED
    BY <2>5, <2>6, <2>9, <2>10, <2>11, <2>12 DEF SoundInv
<1>5. QED
  BY <1>3, <1>4

--------------------------------------------------------------------------------
(* The second invariant and the notices.                                        *)

LEMMA NoticeSound ==
    ASSUME AInv, SoundInv, UNCHANGED <<mode, cache, sidtab, lock, call, ref>>,
           latest' \in Loads, Len(queue') <= QueueMax,
           \A p \in Handlers : handling'[p].seqno \in Loads,
           \A i \in DOMAIN queue' : queue'[i].seqno \in Loads,
           enforcing' => \/ enforcing
                         \/ \E p \in Handlers : handling'[p].pc = "reset",
           \/ \E p \in Handlers : handling'[p].pc = "reset"
           \/ \A p \in Handlers : handling[p].pc # "reset"
    PROVE  SoundInv'
<1>1. UNCHANGED <<chains, free, active, entry, hint>>
  BY DEF cache
<1>2. Cached' = Cached /\ Entries' /\ SameShape /\ IsInjective(sidtab')
  BY <1>1, SameTable DEF SoundInv, Entries, Cached, SameShape, PoolKept
<1>3. PoolKept'
  BY <1>2, ShapeKept DEF AInv, CacheInv, SoundInv
<1>4. Asks'
  BY DEF SoundInv, Asks, IsAsk, IsDecision, Pair, Allows, Sids, EntryType
<1>5. Bounds'
  BY <1>1 DEF SoundInv, Bounds
<1>6. AnsweredFromCache'
  BY <1>1, <1>2 DEF SoundInv, AnsweredFromCache
<1>7. PolicyKept'
  BY <1>1, <1>2 DEF SoundInv, PolicyKept, Allows, Pair
<1>8. QED
  BY <1>2, <1>3, <1>4, <1>5, <1>6, <1>7 DEF SoundInv

LEMMA NoticeTyped ==
    ASSUME AInv, SoundInv
    PROVE  /\ DOMAIN handling = Handlers /\ queue \in Seq(Messages) /\ policy \in Loads
           /\ latest \in Loads /\ Len(queue) \in Nat /\ Len(queue) <= QueueMax /\ 0 \in Loads
           /\ \A p \in Handlers : IsNotice(handling[p]) /\ handling[p].seqno \in Loads
           /\ \A i \in DOMAIN queue : queue[i].seqno \in Loads
BY DEF AInv, NoticeTypes, SoundInv, Bounds

LEMMA ReceiveSound == ASSUME AInv, SoundInv, NEW p \in Handlers, Receive(p) PROVE SoundInv'
<1>1. /\ UNCHANGED <<mode, cache, sidtab, lock, call, ref, latest>>
      /\ queue # << >> /\ queue' = Tail(queue) /\ handling[p].pc = "none"
  BY DEF Receive, Reads
<1> DEFINE msg == Head(queue)
           note == IF Resets(msg)
                   THEN [Quiet EXCEPT !.pc = "reset", !.seqno = msg.seqno,
                                      !.sets = (msg.type = "setenforce")]
                   ELSE Quiet
<1>2. /\ msg \in Messages /\ msg.seqno \in Loads
      /\ Len(queue') <= QueueMax /\ \A i \in DOMAIN queue' : queue'[i].seqno \in Loads
  <2>1. /\ queue \in Seq(Messages) /\ Len(queue) \in Nat /\ Len(queue) >= 1
        /\ DOMAIN queue = 1..Len(queue) /\ \A i \in 1..Len(queue) : queue[i].seqno \in Loads
    BY <1>1, NoticeTyped
  <2>2. /\ msg = queue[1] /\ msg \in Messages
        /\ Len(queue') = Len(queue) - 1 /\ DOMAIN queue' = 1..(Len(queue) - 1)
        /\ \A i \in 1..(Len(queue) - 1) : queue'[i] = queue[i + 1]
    BY <1>1, <2>1
  <2>3. msg.seqno \in Loads
    BY <2>1, <2>2
  <2>4. Len(queue') <= QueueMax
    BY <2>1, <2>2, NoticeTyped, StartAssumption
  <2>5. ASSUME NEW i \in DOMAIN queue' PROVE queue'[i].seqno \in Loads
    <3>1. i + 1 \in 1..Len(queue) /\ queue'[i] = queue[i + 1]
      BY <2>1, <2>2
    <3>2. QED
      BY <2>1, <3>1
  <2>6. QED
    BY <2>2, <2>3, <2>4, <2>5
<1>3. /\ enforcing' = IF msg.type = "setenforce" THEN msg.val ELSE enforcing
      /\ handling' = [handling EXCEPT ![p] = note]
  BY DEF Receive
<1>4. note.seqno \in Loads /\ (Resets(msg) => note.pc = "reset")
  BY <1>2, NoticeTyped DEF Quiet
<1>5. /\ handling'[p] = note /\ \A q \in Handlers \ {p} : handling'[q] = handling[q]
  BY <1>3, NoticeTyped
<1>6. \A q \in Handlers : handling'[q].seqno \in Loads
  BY <1>4, <1>5, NoticeTyped
<1>7. enforcing' => enforcing \/ handling'[p].pc = "reset"
  BY <1>3, <1>4, <1>5 DEF Resets
<1>8. \/ \E q \in Handlers : handling'[q].pc = "reset"
      \/ \A q \in Handlers : handling[q].pc # "reset"
  BY <1>1, <1>5
<1>9. latest' \in Loads
  BY <1>1, NoticeTyped
<1>10. QED
  BY <1>1, <1>2, <1>6, <1>7, <1>8, <1>9, NoticeSound

LEMMA NotifySound == ASSUME AInv, SoundInv, NEW p \in Handlers, Notify(p) PROVE SoundInv'
<1>1. /\ UNCHANGED <<mode, cache, sidtab, lock, call, ref, queue, enforcing>>
      /\ handling[p].pc = "notify" /\ handling' = [handling EXCEPT ![p] = Quiet]
      /\ latest' = IF handling[p].seqno > latest THEN handling[p].seqno ELSE latest
  BY DEF Notify, kernel
<1>2. handling'[p] = Quiet /\ \A q \in Handlers \ {p} : handling'[q] = handling[q]
  BY <1>1, NoticeTyped
<1>3. Quiet.pc = "none" /\ Quiet.seqno = 0
  BY DEF Quiet
<1>4. latest' \in Loads /\ \A q \in Handlers : handling'[q].seqno \in Loads
  BY <1>1, <1>2, <1>3, NoticeTyped
<1>5. \/ \E q \in Handlers : handling'[q].pc = "reset"
      \/ \A q \in Handlers : handling[q].pc # "reset"
  BY <1>1, <1>2
<1>6. Len(queue') <= QueueMax /\ \A i \in DOMAIN queue' : queue'[i].seqno \in Loads
  BY <1>1, NoticeTyped
<1>7. QED
  BY <1>1, <1>4, <1>5, <1>6, NoticeSound

LEMMA SocketSound ==
    ASSUME AInv, SoundInv, ReceiveFails \/ LoadPolicy \/ SwitchEnforcing
    PROVE  SoundInv'
<1>1. UNCHANGED <<mode, cache, sidtab, lock, call, ref, latest, handling, enforcing>>
  BY DEF ReceiveFails, LoadPolicy, SwitchEnforcing
<1>2. \/ queue' = queue
      \/ \E msg : /\ Len(queue) < QueueMax /\ queue' = Append(queue, msg) /\ msg.seqno \in Loads
  <2>1. CASE ReceiveFails
    BY <2>1 DEF ReceiveFails
  <2>2. CASE LoadPolicy
    <3> DEFINE msg == [type |-> "load", seqno |-> policy + 1, val |-> FALSE]
    <3>1. msg.seqno \in Loads /\ Send(msg)
      BY <2>2 DEF LoadPolicy
    <3> HIDE DEF msg
    <3>2. QED
      BY <3>1 DEF Send
  <2>3. CASE SwitchEnforcing
    <3> DEFINE msg == [type |-> "setenforce", seqno |-> 0, val |-> ~enforced]
    <3>1. msg.seqno \in Loads /\ Send(msg)
      BY <2>3, LoadsAssumption, Zenon DEF SwitchEnforcing
    <3> HIDE DEF msg
    <3>2. QED
      BY <3>1 DEF Send
  <2>4. QED
    BY <2>1, <2>2, <2>3
<1>3. Len(queue') <= QueueMax /\ \A i \in DOMAIN queue' : queue'[i].seqno \in Loads
  <2>1. CASE queue' = queue
    BY <2>1, NoticeTyped
  <2>2. ASSUME NEW msg, Len(queue) < QueueMax, queue' = Append(queue, msg), msg.seqno \in Loads
        PROVE  Len(queue') <= QueueMax /\ \A i \in DOMAIN queue' : queue'[i].seqno \in Loads
    <3>1. /\ Len(queue) \in Nat /\ DOMAIN queue = 1..Len(queue)
          /\ Len(queue') = Len(queue) + 1 /\ DOMAIN queue' = 1..(Len(queue) + 1)
          /\ queue'[Len(queue) + 1] = msg /\ \A i \in 1..Len(queue) : queue'[i] = queue[i]
      BY <2>2, NoticeTyped
    <3>2. Len(queue') <= QueueMax
      BY <2>2, <3>1, StartAssumption
    <3>3. \A i \in DOMAIN queue' : i \in DOMAIN queue \/ i = Len(queue) + 1
      BY <3>1
    <3>4. QED
      BY <2>2, <3>1, <3>2, <3>3, NoticeTyped
  <2>3. QED
    BY <1>2, <2>1, <2>2
<1>4. latest' \in Loads /\ \A p \in Handlers : handling'[p].seqno \in Loads
  BY <1>1, NoticeTyped
<1>5. \/ \E p \in Handlers : handling'[p].pc = "reset"
      \/ \A p \in Handlers : handling[p].pc # "reset"
  BY <1>1
<1>6. QED
  BY <1>1, <1>3, <1>4, <1>5, NoticeSound

\* The nodes a reset frees, in the order it frees them: each cached node, once.
LEMMA FreedOnce ==
    ASSUME CacheTypes, PoolKept, NEW q \in FreedOrder,
           NEW freed, freed = [i \in DOMAIN q |-> NodeAt(q[i])]
    PROVE  freed \in Seq(Node) /\ IsInjective(freed) /\ Range(freed) = Cached
<1> DEFINE K == Cardinality(Cached)
<1>1. IsFiniteSet(Cached) /\ K \in Nat
  BY FiniteCache, FS_CardinalityType
<1> HIDE DEF K
<1>2. /\ q \in [1..K -> Places]
      /\ \A i, j \in 1..K : i < j => Ahead(q[j], q[i])
  BY DEF FreedOrder, K
<1>3. \A p \in Places : p[1] \in Int /\ p[2] \in Int /\ NodeAt(p) \in Cached
  <2> TAKE p \in Places
  <2>1. p[1] \in DOMAIN chains /\ p[2] \in DOMAIN chains[p[1]]
    BY DEF Places
  <2>2. p[1] \in 0..(Slots - 1) /\ chains[p[1]] \in Seq(Node)
    BY <2>1 DEF CacheTypes
  <2>3. p[2] \in 1..Len(chains[p[1]])
    BY <2>1, <2>2
  <2>4. QED
    BY <2>2, <2>3, WithoutPlace
<1>4. ASSUME NEW i \in 1..K, NEW j \in 1..K, q[i] = q[j] PROVE i = j
  <2>1. q[i] \in Places /\ q[j] \in Places
    BY <1>2
  <2>2. ~Ahead(q[i], q[j]) /\ ~Ahead(q[j], q[i])
    BY <1>3, <1>4, <2>1 DEF Ahead
  <2>3. ~(i < j) /\ ~(j < i)
    BY <1>2, <2>2
  <2>4. QED
    BY <1>1, <2>3
<1>5. DOMAIN freed = 1..K /\ \A i \in 1..K : freed[i] = NodeAt(q[i]) /\ q[i] \in Places
  BY <1>2
<1>6. \A i, j \in 1..K : freed[i] = freed[j] => i = j
  BY <1>4, <1>5 DEF PoolKept
<1>7. freed \in [1..K -> Cached]
  BY <1>3, <1>5
<1>8. freed \in Injection(1..K, Cached)
  BY <1>6, <1>7 DEF Injection, IsInjective
<1>9. Cardinality(1..K) = K
  BY <1>1, FS_Interval
<1>10. freed \in Surjection(1..K, Cached)
  BY <1>1, <1>8, <1>9, FS_Injection DEF K
<1>11. Range(freed) = Cached
  BY <1>7, <1>10 DEF Surjection, Range
<1>12. freed \in Seq(Node)
  <2>1. freed \in [1..K -> Node]
    BY <1>7, CachedNodes
  <2>2. QED
    BY <1>1, <2>1
<1>13. QED
  BY <1>5, <1>6, <1>11, <1>12 DEF IsInjective

\* Two sequences of different nodes, one after the other.
LEMMA JoinedOnce ==
    ASSUME NEW s \in Seq(Node), NEW t \in Seq(Node), IsInjective(s), IsInjective(t),
           Range(s) \cap Range(t) = {}
    PROVE  IsInjective(s \o t) /\ Range(s \o t) = Range(s) \cup Range(t)
<1> DEFINE st == s \o t
<1>1. /\ st \in Seq(Node) /\ Len(st) = Len(s) + Len(t)
      /\ \A j \in 1..Len(st) : st[j] = IF j <= Len(s) THEN s[j] ELSE t[j - Len(s)]
  BY Joined
<1>2. /\ Len(s) \in Nat /\ Len(t) \in Nat /\ DOMAIN st = 1..(Len(s) + Len(t))
      /\ DOMAIN s = 1..Len(s) /\ DOMAIN t = 1..Len(t)
  BY <1>1
<1> HIDE DEF st
<1>3. ASSUME NEW j \in DOMAIN st
      PROVE  \/ j \in DOMAIN s /\ st[j] = s[j]
             \/ j \notin DOMAIN s /\ j - Len(s) \in DOMAIN t /\ st[j] = t[j - Len(s)]
  <2>1. CASE j <= Len(s)
    BY <1>1, <1>2, <2>1
  <2>2. CASE ~(j <= Len(s))
    <3>1. j \notin 1..Len(s) /\ j - Len(s) \in 1..Len(t)
      BY <1>2, <2>2
    <3>2. QED
      BY <1>1, <1>2, <2>2, <3>1
  <2>3. QED
    BY <2>1, <2>2
<1>4. \A j \in DOMAIN s : j \in DOMAIN st /\ st[j] = s[j]
  BY <1>1, <1>2
<1>5. ASSUME NEW j \in DOMAIN t PROVE j + Len(s) \in DOMAIN st /\ st[j + Len(s)] = t[j]
  <2>1. j + Len(s) \in 1..(Len(s) + Len(t)) /\ ~(j + Len(s) <= Len(s))
        /\ (j + Len(s)) - Len(s) = j
    BY <1>2
  <2>2. QED
    BY <1>1, <1>2, <2>1
<1>6. Range(st) = Range(s) \cup Range(t)
  <2>1. \A m \in Range(st) : m \in Range(s) \/ m \in Range(t)
    BY <1>3 DEF Range
  <2>2. \A m \in Range(s) : m \in Range(st)
    BY <1>4 DEF Range
  <2>3. \A m \in Range(t) : m \in Range(st)
    <3> TAKE m \in Range(t)
    <3>1. PICK j \in DOMAIN t : t[j] = m
      BY DEF Range
    <3>2. QED
      BY <1>5, <3>1 DEF Range
  <2>4. QED
    BY <2>1, <2>2, <2>3
<1>7. \A i \in DOMAIN s, j \in DOMAIN t : s[i] # t[j]
  BY DEF Range
<1>8. ASSUME NEW i \in DOMAIN st, NEW j \in DOMAIN st, st[i] = st[j] PROVE i = j
  <2>1. CASE i \in DOMAIN s /\ j \in DOMAIN s
    BY <1>4, <1>8, <2>1 DEF IsInjective
  <2>2. CASE i \notin DOMAIN s /\ j \notin DOMAIN s
    <3>1. t[i - Len(s)] = t[j - Len(s)] /\ i - Len(s) \in DOMAIN t /\ j - Len(s) \in DOMAIN t
      BY <1>3, <1>8, <2>2
    <3>2. i - Len(s) = j - Len(s)
      BY <3>1 DEF IsInjective
    <3>3. i \in Int /\ j \in Int
      BY <1>2
    <3>4. QED
      BY <1>2, <3>2, <3>3
  <2>3. CASE i \in DOMAIN s /\ j \notin DOMAIN s
    BY <1>3, <1>4, <1>7, <1>8, <2>3
  <2>4. CASE i \notin DOMAIN s /\ j \in DOMAIN s
    BY <1>3, <1>4, <1>7, <1>8, <2>4
  <2>5. QED
    BY <2>1, <2>2, <2>3, <2>4
<1>9. QED
  BY <1>6, <1>8 DEF st, IsInjective

LEMMA ResetSound == ASSUME AInv, SoundInv, NEW p \in Handlers, Reset(p) PROVE SoundInv'
<1>1. /\ UNCHANGED <<mode, latest, sidtab, enforcing, lock, call, ref, queue>>
      /\ handling[p].pc = "reset" /\ lock = None
      /\ chains' = [s \in DOMAIN chains |-> << >>]
      /\ active' = active - Cardinality(Cached)
      /\ entry' = [n \in Node |-> IF n \in Cached THEN Blank ELSE entry[n]]
      /\ hint' = 0
  BY DEF Reset, kernel
<1>2. CacheTypes /\ CallTypes
  BY DEF AInv, CacheInv, CallInv
<1>3. PICK bad \in BOOLEAN : handling' = [handling EXCEPT ![p].pc = "notify", ![p].fails = bad]
  BY DEF Reset
<1>4. PICK q \in FreedOrder : free' = [i \in DOMAIN q |-> NodeAt(q[i])] \o free
  BY DEF Reset
<1>5. Cached' = {} /\ Places' = {}
  BY <1>1 DEF Cached, Places, Range
<1>6. \A c \in Callers : call[c].pc \notin Holding
  BY <1>1, <1>2 DEF CallTypes
<1>7. EntryType' = EntryType /\ Grown
  BY <1>1, SameTable
<1>8. Entries'
  <2>1. Blank \in EntryType
    BY DEF Blank, EntryType
  <2>2. \A n \in Node : entry'[n] \in EntryType
    BY <1>1, <2>1 DEF SoundInv, Entries
  <2>3. QED
    BY <1>1, <1>7, <2>2 DEF Entries
<1>9. Asks'
  BY <1>1 DEF SoundInv, Asks, IsAsk, IsDecision, Pair, Allows, Sids, EntryType
<1>10. Bounds'
  <2>1. IsNotice(handling[p]) /\ DOMAIN handling = Handlers
    BY NoticeTyped
  <2>2. /\ handling'[p] = [handling[p] EXCEPT !.pc = "notify", !.fails = bad]
        /\ \A h \in Handlers \ {p} : handling'[h] = handling[h]
    BY <1>3, <2>1
  <2>3. handling'[p].seqno = handling[p].seqno
    BY <2>1, <2>2 DEF IsNotice
  <2>4. hint' \in 0..(Slots - 1)
    BY <1>1
  <2>5. QED
    BY <1>1, <2>2, <2>3, <2>4 DEF SoundInv, Bounds
<1>11. PoolKept'
  <2> DEFINE freed == [i \in DOMAIN q |-> NodeAt(q[i])]
  <2>1. freed \in Seq(Node) /\ IsInjective(freed) /\ Range(freed) = Cached
    BY <1>2, FreedOnce DEF SoundInv
  <2>2. free \in Seq(Node) /\ IsInjective(free) /\ Range(free) \cap Cached = {}
        /\ Range(free) \cup Cached = Node
    BY <1>2 DEF CacheTypes, SoundInv, PoolKept
  <2>3. free' = freed \o free
    BY <1>4
  <2> HIDE DEF freed
  <2>4. IsInjective(free') /\ Range(free') = Node
    <3>1. Range(freed) \cap Range(free) = {}
      BY <2>1, <2>2
    <3>2. IsInjective(freed \o free) /\ Range(freed \o free) = Range(freed) \cup Range(free)
      BY <2>1, <2>2, <3>1, JoinedOnce
    <3>3. QED
      BY <2>1, <2>2, <2>3, <3>2
  <2>5. active' = Cardinality(Cached')
    <3>1. Cardinality(Cached) \in Nat
      BY <1>2, FiniteCache, FS_CardinalityType
    <3>2. active = Cardinality(Cached)
      BY DEF SoundInv, PoolKept
    <3>3. QED
      BY <1>1, <1>5, <3>1, <3>2, FS_EmptySet
  <2>6. \A s \in DOMAIN chains' : Range(chains'[s]) = {}
    BY <1>1 DEF Range
  <2>7. IsInjective(sidtab')
    BY <1>1 DEF SoundInv, PoolKept
  <2>8. QED
    BY <1>5, <2>4, <2>5, <2>6, <2>7 DEF PoolKept
<1>12. AnsweredFromCache' /\ PolicyKept'
  BY <1>1, <1>5, <1>6 DEF AnsweredFromCache, PolicyKept, Holding
<1>13. QED
  BY <1>8, <1>9, <1>10, <1>11, <1>12 DEF SoundInv

--------------------------------------------------------------------------------
LEMMA SoundInit == Init => SoundInv
<1> SUFFICES ASSUME Init PROVE SoundInv
  OBVIOUS
<1> USE DEF Init
<1>1. Cached = {} /\ Places = {} /\ DOMAIN chains = 0..(Slots - 1)
      /\ \A s \in DOMAIN chains : Range(chains[s]) = {}
  BY DEF Cached, Places, Range
<1>2. Entries
  BY DEF Entries, EntryType, Blank
<1>3. \A c \in Callers : call[c].pc = "idle"
  BY DEF Idle
<1>4. \A p \in Handlers : handling[p].pc = "none" /\ handling[p].seqno = 0
  BY DEF Handlers, Quiet
<1>5. Asks /\ AnsweredFromCache /\ PolicyKept
  <2>1. Asks
    BY <1>3 DEF Asks
  <2>2. AnsweredFromCache
    BY <1>3 DEF AnsweredFromCache
  <2>3. PolicyKept
    BY <1>1 DEF PolicyKept
  <2>4. QED
    BY <2>1, <2>2, <2>3
<1>6. Bounds
  <2>1. 0 \in Loads /\ 0 \in 0..(Slots - 1) /\ QueueMax \in Nat
    BY LoadsAssumption, PoolAssumption, StartAssumption
  <2>2. Len(queue) <= QueueMax /\ DOMAIN queue = {}
    BY <2>1
  <2>3. mode \in {"thread", "poll"} /\ lock \in Callers \cup {None}
    BY StartAssumption
  <2>4. latest \in Loads /\ hint \in 0..(Slots - 1)
    BY <2>1
  <2>5. QED
    BY <1>4, <2>1, <2>2, <2>3, <2>4 DEF Bounds
<1>7. PoolKept
  <2>1. DOMAIN free = 1..Nodes /\ \A i \in 1..Nodes : free[i] = Nodes + 1 - i
    OBVIOUS
  <2>2. IsInjective(free)
    BY <2>1 DEF IsInjective
  <2>3. Range(free) = Node
    <3>1. \A i \in 1..Nodes : Nodes + 1 - i \in 1..Nodes /\ Nodes + 1 - (Nodes + 1 - i) = i
      OBVIOUS
    <3>2. \A n \in 1..Nodes : n \in Range(free)
      <4> TAKE n \in 1..Nodes
      <4>1. Nodes + 1 - n \in DOMAIN free /\ free[Nodes + 1 - n] = n
        BY <2>1, <3>1
      <4>2. QED
        BY <4>1 DEF Range
    <3>3. \A n \in Range(free) : n \in 1..Nodes
      BY <2>1, <3>1 DEF Range
    <3>4. QED
      BY <3>2, <3>3 DEF Node
  <2>4. IsInjective(sidtab)
    BY DEF IsInjective
  <2>5. QED
    BY <1>1, <2>2, <2>3, <2>4, FS_EmptySet DEF PoolKept
<1>8. QED
  BY <1>2, <1>5, <1>6, <1>7 DEF SoundInv

LEMMA SoundStep == AInv /\ SoundInv /\ [Next]_vars => SoundInv'
<1> SUFFICES ASSUME AInv, SoundInv, [Next]_vars PROVE SoundInv'
  OBVIOUS
<1>1. ASSUME NEW ctx \in Contexts, ContextToSid(ctx) PROVE SoundInv'
  BY <1>1, ContextSound
<1>2. ASSUME NEW c \in Callers, NEW pair \in Asked,
             \/ \E asked \in Requests : AskPerm(c, pair, asked)
             \/ pair \in Made /\ AskCreate(c, pair)
      PROVE  SoundInv'
  BY <1>2, AskSound
<1>3. ASSUME NEW c \in Callers, CallerStep(c) PROVE SoundInv'
  BY <1>3, PolledSound, LookupSound, ComputeSound, InsertSound, AnswerPermSound,
     AnswerCreateSound DEF CallerStep
<1>4. ASSUME NEW p \in Handlers, Handle(p) PROVE SoundInv'
  BY <1>4, ReceiveSound, ResetSound, NotifySound DEF Handle
<1>5. CASE ReceiveFails \/ LoadPolicy \/ SwitchEnforcing
  BY <1>5, SocketSound
<1>6. CASE UNCHANGED vars
  <2>1. UNCHANGED <<mode, cache, sidtab, lock, call, ref, latest, queue, handling, enforcing>>
    BY <1>6 DEF vars, kernel
  <2>2. \/ \E p \in Handlers : handling'[p].pc = "reset"
        \/ \A p \in Handlers : handling[p].pc # "reset"
    BY <2>1
  <2>3. /\ latest' \in Loads /\ Len(queue') <= QueueMax
        /\ \A p \in Handlers : handling'[p].seqno \in Loads
        /\ \A i \in DOMAIN queue' : queue'[i].seqno \in Loads
    BY <2>1, NoticeTyped
  <2>4. QED
    BY <2>1, <2>2, <2>3, NoticeSound
<1>7. QED
  BY <1>1, <1>2, <1>3, <1>4, <1>5, <1>6 DEF Next, Handlers

--------------------------------------------------------------------------------
(* What follows.                                                               *)

\* No decision of a policy before the last one noted is in the cache, although the
\* cache is emptied and the notice noted in two steps of the lock.
THEOREM CacheCurrent == Spec => []CacheNotOlder
<1>1. AInv => CacheNotOlder
  BY DEF AInv, CacheInv
<1>2. QED
  BY <1>1, AInvInit, AInvStep, PTL DEF Spec

\* Without the thread, an answer is by a policy not older than that of the moment the
\* socket was polled, if no message was dropped and none was still being handled.
THEOREM AnswersCurrent == Spec => []AnswerNotStale
<1>1. AInv => AnswerNotStale
  <2> SUFFICES ASSUME AInv, NEW c \in Callers, mode = "poll", call[c].pc = "answer"
               PROVE  entry[ref[c]].seqno >= call[c].floor
    BY DEF AnswerNotStale
  <2>1. ref[c] \in Cached /\ ref[c] \in Node
    BY CachedNodes DEF AInv, CacheInv, CallInv, AnsweredFrom
  <2>2. entry[ref[c]].seqno >= latest /\ entry[ref[c]].seqno \in Nat
    BY <2>1 DEF AInv, CacheInv, CacheNotOlder, CacheTypes, IsEntry
  <2>3. call[c].floor <= latest /\ call[c].floor \in Nat
    BY DEF AInv, CallInv, CallTypes, FloorNoted, IsCall
  <2>4. QED
    BY <2>2, <2>3, LatestNat
<1>2. QED
  BY <1>1, AInvInit, AInvStep, PTL DEF Spec

\* The cache is what it is taken for, at every moment and for every caller: each node of
\* the pool is free or cached, once and in the slot of its pair; who is answered is answered
\* from an entry of its pair that is cached and decides what it asked; and while enforcing
\* an entry allows what its policy allows, once the notices are handled.
THEOREM CacheIsSound == Spec => []CacheSound
<1>1. AInv /\ SoundInv => CacheSound
  <2> SUFFICES ASSUME AInv, SoundInv PROVE CacheSound
    OBVIOUS
  <2>1. TypeOK
    <3>1. \A c \in Callers : /\ call[c].pc \in {"idle", "poll", "wait", "compute", "insert", "answer"}
                             /\ call[c].pc \in {"compute", "insert", "answer"} <=> lock = c
                             /\ ref[c] \in Node \cup {None}
      BY DEF AInv, CallInv, CallTypes, IsCall, Holding
    <3>2. QED
      BY <3>1 DEF TypeOK, SoundInv, Entries, Bounds, AInv, NoticeTypes
  <2>2. CacheIsPolicy
    <3>1. \A n \in Cached : Follows(entry[n], Pair(entry[n].key)) =>
            \/ entry[n].allowed = Says(n)
            \/ /\ ContextOf(entry[n].key[1]) \in Permissive[entry[n].seqno]
               /\ Says(n) \subseteq entry[n].allowed
               /\ entry[n].allowed \subseteq Says(n) \cup entry[n].decided
      BY DEF Follows, SaysOf, Says, Pair, ContextOf
    <3>2. QED
      BY <3>1 DEF SoundInv, PolicyKept, CacheIsPolicy, Allows, AInv, NoticeTypes
  <2>3. QED
    BY <2>1, <2>2 DEF CacheSound, SoundInv, AInv, CacheInv
<1>2. QED
  BY <1>1, AInvInit, AInvStep, SoundInit, SoundStep, PTL DEF Spec
===============================================================================
