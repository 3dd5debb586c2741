--------------------------------- MODULE Avc ---------------------------------
(***************************************************************************)
(* The userspace access vector cache of libselinux: avc.c, avc_sidtab.c and *)
(* the netlink code of avc_internal.c.  Callers ask for permissions and for *)
(* the labels of new objects; the decisions of the kernel are kept in a     *)
(* fixed pool of nodes.  The kernel says on a netlink socket that a policy  *)
(* has been loaded or that enforcing was switched; the messages are read by *)
(* a thread, or by the caller before it looks into the cache.  The lock is  *)
(* held while a caller looks an entry up, asks the kernel and inserts, and  *)
(* is not held between the steps of a reset.                                *)
(*                                                                         *)
(* A SID is the position of a context in the table.  The kernel is modelled *)
(* from how it is asked.  Statistics are left out, and avc_control() with    *)
(* the events nothing in the library sends.                                 *)
(***************************************************************************)
EXTENDS Integers, Sequences, FiniteSets, SequencesExt

CONSTANTS
    Callers,        \* threads that call the library
    Keepers,        \* those that pass the entry of their last call
    Netlink,        \* the thread that runs avc_netlink_loop()
    Modes,          \* "thread": it was created; "poll": it was not
    Contexts,       \* security contexts
    Asked,          \* pairs of contexts the callers ask about
    Made,           \* pairs they make new objects of
    Perms,          \* permissions of the class
    Requests,       \* sets of permissions they ask for
    Nodes,          \* AVC_CACHE_MAXNODES
    Slots,          \* AVC_CACHE_SLOTS
    Policy,         \* seqno |-> the pairs and permissions it allows
    Permissive,     \* seqno |-> the contexts whose domains it makes permissive
    Label,          \* seqno |-> the context of new objects
    Starts,         \* whether the kernel enforces at the start
    QueueMax,       \* bound: messages the socket holds
    MaxCalls,       \* bound: calls
    MaxSwitches,    \* bound: enforcing is switched
    MaxFails,       \* bound: a callback fails
    None

Loads == DOMAIN Policy
Node  == 1..Nodes

ASSUME PoolAssumption  == Nodes \in Nat \ {0} /\ Slots \in Nat \ {0}
ASSUME LoadsAssumption == 0 \in Loads /\ Loads \subseteq Nat
ASSUME LabelAssumption == \A l \in Loads : Label[l] \in Contexts
ASSUME NoneAssumption  == None \notin Callers \cup Node \cup (Nat \X Nat)
ASSUME AskedAssumption == Asked \subseteq Contexts \X Contexts /\ Requests \subseteq SUBSET Perms
ASSUME PolicyAssumption ==
    \A l \in Loads : \A pair \in Asked : Policy[l][pair] \subseteq Perms
ASSUME PermissiveAssumption == \A l \in Loads : Permissive[l] \subseteq Contexts
ASSUME StartAssumption == /\ Modes \subseteq {"thread", "poll"} /\ Starts \subseteq BOOLEAN
                          /\ QueueMax \in Nat

VARIABLES
    mode,       \* avc_using_threads
    chains,     \* avc_cache.slots: the nodes of a slot, the newest first
    free,       \* avc_node_freelist
    active,     \* avc_cache.active_nodes
    entry,      \* the contents of the nodes
    hint,       \* avc_cache.lru_hint
    latest,     \* avc_cache.latest_notif
    sidtab,     \* the contexts that have a SID
    enforcing,  \* avc_enforcing
    lock,       \* avc_lock: the caller that holds it
    call,       \* what a caller is about
    ref,        \* the avc_entry_ref a caller keeps from call to call
    handling,   \* the notice a process is handling
    policy,     \* kernel: the seqno of its policy
    enforced,   \* kernel: whether it enforces
    queue,      \* the socket's messages
    overrun,    \* the socket has dropped one and not said so yet
    lost,       \* a message has been dropped
    trouble,    \* avc_netlink_trouble: the thread has ended
    calls, switches, fails

cache   == <<chains, free, active, entry, hint>>
kernel  == <<policy, enforced, queue, overrun, lost, switches>>
vars    == <<mode, cache, latest, sidtab, enforcing, lock, call, ref, handling,
             kernel, trouble, calls, fails>>

\* The SIDs that have been given out.
Sids == DOMAIN sidtab

-----------------------------------------------------------------------------
Blank == [key |-> None, allowed |-> {}, decided |-> {}, seqno |-> 0,
          permissive |-> FALSE, create |-> None, used |-> FALSE]
Idle  == [pc |-> "idle", op |-> "perm", key |-> None, asked |-> {}, got |-> Blank,
          floor |-> 0]
Quiet == [pc |-> "none", seqno |-> 0, fails |-> FALSE, sets |-> FALSE]

\* avc_init(): an empty cache, all nodes in the free list.
Init ==
    /\ mode \in Modes
    /\ chains = [s \in 0..(Slots - 1) |-> << >>]
    /\ free = [i \in 1..Nodes |-> Nodes + 1 - i]
    /\ active = 0
    /\ entry = [n \in Node |-> Blank]
    /\ hint = 0 /\ latest = 0
    /\ sidtab = << >>
    /\ enforced \in Starts /\ enforcing = enforced
    /\ lock = None
    /\ call = [c \in Callers |-> Idle]
    /\ ref = [c \in Callers |-> None]
    /\ handling = [p \in Callers \cup {Netlink} |-> Quiet]
    /\ policy = 0 /\ queue = << >> /\ overrun = FALSE /\ lost = FALSE
    /\ trouble = FALSE /\ calls = 0 /\ switches = 0 /\ fails = 0

-----------------------------------------------------------------------------
\* The cache.

\* avc_hash(), for sids: which pairs share a slot is what matters of it.
Hash(key) == (key[1] + 2 * key[2]) % Slots

\* The nodes in the chains, and their places: the slot and how far along its chain.
Cached == UNION { Range(chains[s]) : s \in DOMAIN chains }
Places == UNION { {s} \X DOMAIN chains[s] : s \in DOMAIN chains }
NodeAt(p) == chains[p[1]][p[2]]
Ahead(p, q) == p[1] < q[1] \/ (p[1] = q[1] /\ p[2] < q[2])

\* avc_search_node(): what it finds, the first node of the slot with the pair.
Search(key) ==
    LET slot == chains[Hash(key)]
        hits == { i \in DOMAIN slot : entry[slot[i]].key = key }
    IN  IF hits = {} THEN {None}
        ELSE { slot[i] : i \in { h \in hits : \A j \in hits : h <= j } }

\* An entry of the pair that decides all that is asked.
Covers(n, key, asked) == entry[n].key = key /\ asked \subseteq entry[n].decided

\* The place as a scan from the hint on counts it.
Turn(p) == <<(p[1] - hint) % Slots, p[2]>>

\* The places of nodes that have not been used since a scan last came by.
Unused == { p \in Places : ~entry[NodeAt(p)].used }

\* avc_reclaim_node(): where the scan ends.  It clears the marks it passes, so
\* that its second round takes the first node.
IsVictim(p) ==
    LET fit == IF Unused # {} THEN Unused ELSE Places
    IN  p \in fit /\ ~\E q \in fit : Ahead(Turn(q), Turn(p))

\* The marks it has cleared on the way.
Passed(p) ==
    { NodeAt(q) : q \in IF Unused # {} THEN { r \in Places : Ahead(Turn(r), Turn(p)) } ELSE Places }

\* The chains without the node.
Without(p) == [chains EXCEPT ![p[1]] = RemoveAt(@, p[2])]

\* avc_claim_node() and the copy of the decision in avc_insert().
Claimed(n, key, av, from, cleared) ==
    /\ entry' = [m \in Node |->
          IF m = n THEN [av EXCEPT !.key = key, !.used = TRUE, !.create = None]
          ELSE IF m \in cleared THEN [entry[m] EXCEPT !.used = FALSE]
          ELSE entry[m]]
    /\ chains' = [from EXCEPT ![Hash(key)] = <<n>> \o @]

\* A node of the free list is claimed, if there is one.
ClaimFree(key, av) ==
    /\ free # << >>
    /\ free' = Tail(free)
    /\ active' = active + 1
    /\ Claimed(Head(free), key, av, chains, {})
    /\ UNCHANGED hint

\* Or else the node where the scan ends.
Reclaim(p, key, av) ==
    /\ free = << >>
    /\ IsVictim(p)
    /\ hint' = p[1]
    /\ Claimed(NodeAt(p), key, av, Without(p), Passed(p))
    /\ UNCHANGED <<free, active>>

-----------------------------------------------------------------------------
\* Callers.
SidOf(ctx) == CHOOSE i \in DOMAIN sidtab : sidtab[i] = ctx
HasSid(ctx) == ctx \in Range(sidtab)

\* avc_context_to_sid(): a context gets its SID when it is first asked for.
ContextToSid(ctx) ==
    /\ lock = None
    /\ ~HasSid(ctx)
    /\ sidtab' = Append(sidtab, ctx)
    /\ UNCHANGED <<mode, cache, latest, enforcing, lock, call, ref, handling,
                   kernel, trouble, calls, fails>>

\* avc_has_perm() and avc_has_perm_noaudit(): with the entry of an earlier call
\* or without one.  Without a thread the socket is polled first.
AskPerm(c, pair, asked) ==
    /\ call[c].pc = "idle"
    /\ calls < MaxCalls /\ calls' = calls + 1
    /\ HasSid(pair[1]) /\ HasSid(pair[2])
    /\ call' = [call EXCEPT ![c] =
          [Idle EXCEPT !.pc = IF mode = "poll" THEN "poll" ELSE "wait",
                       !.key = <<SidOf(pair[1]), SidOf(pair[2])>>, !.asked = asked]]
    /\ ref' = [ref EXCEPT ![c] = IF c \in Keepers THEN @ ELSE None]
    /\ UNCHANGED <<mode, cache, latest, sidtab, enforcing, lock, handling,
                   kernel, trouble, fails>>

\* avc_compute_create(): the socket is not polled.
AskCreate(c, pair) ==
    /\ call[c].pc = "idle"
    /\ calls < MaxCalls /\ calls' = calls + 1
    /\ HasSid(pair[1]) /\ HasSid(pair[2])
    /\ call' = [call EXCEPT ![c] =
          [Idle EXCEPT !.pc = "wait", !.op = "create",
                       !.key = <<SidOf(pair[1]), SidOf(pair[2])>>]]
    /\ ref' = [ref EXCEPT ![c] = None]
    /\ UNCHANGED <<mode, cache, latest, sidtab, enforcing, lock, handling,
                   kernel, trouble, fails>>

\* As it is not: the socket is looked at once.
DrainedAtOnce == TRUE

Drained == overrun \/ queue = << >>

\* avc_netlink_check_nb() returns: there is nothing to read, or an error.
Polled(c) ==
    /\ call[c].pc = "poll" /\ handling[c].pc = "none"
    /\ Drained
    /\ call' = [call EXCEPT ![c].pc = "wait",
          ![c].floor = IF lost \/ \E p \in Callers : handling[p].pc # "none"
                       THEN 0 ELSE policy]
    /\ overrun' = FALSE
    /\ UNCHANGED <<mode, cache, latest, sidtab, enforcing, lock, ref, handling,
                   policy, enforced, queue, lost, switches, trouble, calls, fails>>

\* The lock is taken; the entry of the reference is used if it still is one of
\* the pair and has an answer, or else one that is searched for.
Lookup(c) ==
    LET key   == call[c].key
        asked == call[c].asked
        kept  == ref[c] # None /\ Covers(ref[c], key, asked)
    IN  /\ call[c].pc = "wait"
        /\ lock = None
        /\ lock' = c
        /\ \/ /\ kept
              /\ call' = [call EXCEPT ![c].pc = "answer"]
              /\ entry' = [entry EXCEPT ![ref[c]].used = TRUE]
              /\ UNCHANGED ref
           \/ /\ ~kept
              /\ \E found \in Search(key) :
                    LET hit == found # None /\ asked \subseteq entry[found].decided
                    IN  /\ call' = [call EXCEPT ![c].pc = IF hit THEN "answer" ELSE "compute"]
                        /\ ref' = IF hit THEN [ref EXCEPT ![c] = found] ELSE ref
                        /\ entry' = IF found = None THEN entry
                                    ELSE [entry EXCEPT ![found].used = TRUE]
        /\ UNCHANGED <<mode, chains, free, active, hint, latest, sidtab, enforcing,
                       handling, kernel, trouble, calls, fails>>

\* A call that has failed.
GivenUp(c) == call' = [call EXCEPT ![c] = Idle] /\ lock' = None

\* security_compute_av(): by the policy of the moment, which also says whether the
\* source's domain is permissive; the kernel may decide more than it was asked.  A
\* failure ends the call.
Compute(c) ==
    LET pair == <<sidtab[call[c].key[1]], sidtab[call[c].key[2]]>>
    IN  /\ call[c].pc = "compute"
        /\ \/ \E decided \in {call[c].asked, Perms} :
                 /\ call' = [call EXCEPT ![c].pc = "insert",
                       ![c].got = [Blank EXCEPT !.allowed = Policy[policy][pair],
                                                !.permissive = pair[1] \in Permissive[policy],
                                                !.decided = decided, !.seqno = policy]]
                 /\ UNCHANGED lock
           \/ GivenUp(c)
        /\ UNCHANGED <<mode, cache, latest, sidtab, enforcing, ref, handling,
                       kernel, trouble, calls, fails>>

\* A decision of a policy before the last notice.
Outdated(c) == call[c].got.seqno < latest

\* avc_insert(): an outdated decision is refused, which ends the call.
Insert(c) ==
    /\ call[c].pc = "insert"
    /\ IF Outdated(c)
       THEN /\ GivenUp(c)
            /\ UNCHANGED <<cache, ref>>
       ELSE /\ \/ /\ ClaimFree(call[c].key, call[c].got)
                  /\ ref' = [ref EXCEPT ![c] = Head(free)]
               \/ \E p \in Places :
                  /\ Reclaim(p, call[c].key, call[c].got)
                  /\ ref' = [ref EXCEPT ![c] = NodeAt(p)]
            /\ call' = [call EXCEPT ![c].pc = "answer", ![c].got = Blank]
            /\ UNCHANGED lock
    /\ UNCHANGED <<mode, latest, sidtab, enforcing, handling, kernel, trouble, calls, fails>>

Denied(c) == call[c].asked = {} \/ ~(call[c].asked \subseteq entry[ref[c]].allowed)

\* When nothing is enforced, or not in the domain of the entry, what was denied is
\* granted.
Granted(c) == ~enforcing \/ entry[ref[c]].permissive

\* The permissions are denied, or granted: then the entry says so from now on, and
\* the denial is not reported again.
AnswerPerm(c) ==
    /\ call[c].pc = "answer" /\ call[c].op = "perm"
    /\ entry' = IF Denied(c) /\ Granted(c)
                THEN [entry EXCEPT ![ref[c]].allowed = @ \cup call[c].asked]
                ELSE entry
    /\ call' = [call EXCEPT ![c] = Idle]
    /\ lock' = None
    /\ UNCHANGED <<mode, chains, free, active, hint, latest, sidtab, enforcing, ref,
                   handling, kernel, trouble, calls, fails>>

\* The label is taken from the entry, or from the kernel, by the policy of this
\* moment; its SID is looked up in the table and saved.
AnswerCreate(c) ==
    LET ctx == Label[policy]
    IN  /\ call[c].pc = "answer" /\ call[c].op = "create"
        /\ \/ /\ entry[ref[c]].create # None
              /\ UNCHANGED <<entry, sidtab>>
           \/ /\ entry[ref[c]].create = None
              /\ sidtab' = IF HasSid(ctx) THEN sidtab ELSE Append(sidtab, ctx)
              /\ entry' = [entry EXCEPT ![ref[c]].create =
                    IF HasSid(ctx) THEN SidOf(ctx) ELSE Len(sidtab) + 1]
        /\ call' = [call EXCEPT ![c] = Idle]
        /\ ref' = [ref EXCEPT ![c] = None]
        /\ lock' = None
        /\ UNCHANGED <<mode, chains, free, active, hint, latest, enforcing, handling,
                       kernel, trouble, calls, fails>>

-----------------------------------------------------------------------------
\* Notices.  The process that reads them is the thread or a caller.
Reads(p) ==
    /\ handling[p].pc = "none"
    /\ IF mode = "thread" THEN p = Netlink /\ ~trouble
       ELSE p \in Callers /\ call[p].pc = "poll"

\* As it is not: the cache is kept when a policy is loaded.
ResetsForSwitches(msg) == msg.type = "setenforce" /\ msg.val

\* As it is not: the cache is kept when enforcing is switched on.
ResetsForLoads(msg) == msg.type = "load"

\* avc_netlink_process(): what empties the cache.
Resets(msg) == msg.type = "load" \/ msg.val

\* A reset frees the nodes chain by chain: the last one is handed out first.
FreedOrder ==
    { q \in [1..Cardinality(Cached) -> Places] :
          \A i, j \in DOMAIN q : i < j => Ahead(q[j], q[i]) }

\* avc_netlink_receive() and the start of avc_netlink_process().
Receive(p) ==
    /\ Reads(p) /\ queue # << >> /\ ~overrun
    /\ LET msg == Head(queue)
       IN  /\ enforcing' = IF msg.type = "setenforce" THEN msg.val ELSE enforcing
           /\ handling' = [handling EXCEPT ![p] =
                 IF Resets(msg)
                 THEN [Quiet EXCEPT !.pc = "reset", !.seqno = msg.seqno,
                                    !.sets = (msg.type = "setenforce")]
                 ELSE Quiet]
    /\ queue' = Tail(queue)
    /\ UNCHANGED <<mode, cache, latest, sidtab, lock, call, ref, policy, enforced,
                   overrun, lost, switches, trouble, calls, fails>>

\* avc_reset(): all nodes go to the free list, with the lock held; then the
\* callbacks, one of which may fail, without it.
Reset(p) ==
    /\ handling[p].pc = "reset"
    /\ lock = None
    /\ chains' = [s \in DOMAIN chains |-> << >>]
    /\ \E q \in FreedOrder : free' = [i \in DOMAIN q |-> NodeAt(q[i])] \o free
    /\ active' = active - Cardinality(Cached)
    /\ entry' = [n \in Node |-> IF n \in Cached THEN Blank ELSE entry[n]]
    /\ hint' = 0
    /\ \E bad \in BOOLEAN :
          /\ bad => fails < MaxFails
          /\ fails' = IF bad THEN fails + 1 ELSE fails
          /\ handling' = [handling EXCEPT ![p].pc = "notify", ![p].fails = bad]
    /\ UNCHANGED <<mode, latest, sidtab, enforcing, lock, call, ref, kernel, trouble, calls>>

\* avc_ss_reset(): the notice is noted.  A callback that failed ends the thread.
Notify(p) ==
    /\ handling[p].pc = "notify"
    /\ lock = None
    /\ latest' = IF handling[p].seqno > latest THEN handling[p].seqno ELSE latest
    /\ trouble' = IF p = Netlink /\ handling[p].fails THEN TRUE ELSE trouble
    /\ handling' = [handling EXCEPT ![p] = Quiet]
    /\ UNCHANGED <<mode, cache, sidtab, enforcing, lock, call, ref, kernel, calls, fails>>

\* avc_netlink_loop(): an error of the socket ends the thread.
ReceiveFails ==
    /\ Reads(Netlink)
    /\ overrun
    /\ overrun' = FALSE
    /\ trouble' = TRUE
    /\ UNCHANGED <<mode, cache, latest, sidtab, enforcing, lock, call, ref, handling,
                   policy, enforced, queue, lost, switches, calls, fails>>

-----------------------------------------------------------------------------
\* The kernel.  A message for which there is no room is dropped.
Send(msg) ==
    IF Len(queue) < QueueMax
    THEN queue' = Append(queue, msg) /\ UNCHANGED <<overrun, lost>>
    ELSE overrun' = TRUE /\ lost' = TRUE /\ UNCHANGED queue

LoadPolicy ==
    /\ policy + 1 \in Loads
    /\ policy' = policy + 1
    /\ Send([type |-> "load", seqno |-> policy + 1, val |-> FALSE])
    /\ UNCHANGED <<mode, cache, latest, sidtab, enforcing, lock, call, ref, handling,
                   enforced, switches, trouble, calls, fails>>

SwitchEnforcing ==
    /\ switches < MaxSwitches
    /\ switches' = switches + 1
    /\ enforced' = ~enforced
    /\ Send([type |-> "setenforce", seqno |-> 0, val |-> ~enforced])
    /\ UNCHANGED <<mode, cache, latest, sidtab, enforcing, lock, call, ref, handling,
                   policy, trouble, calls, fails>>

-----------------------------------------------------------------------------
CallerStep(c) ==
    \/ Polled(c) \/ Lookup(c) \/ Compute(c) \/ Insert(c)
    \/ AnswerPerm(c) \/ AnswerCreate(c)

Handle(p) == Receive(p) \/ Reset(p) \/ Notify(p)

Next ==
    \/ \E ctx \in Contexts : ContextToSid(ctx)
    \/ \E c \in Callers, pair \in Asked :
          \/ \E asked \in Requests : AskPerm(c, pair, asked)
          \/ pair \in Made /\ AskCreate(c, pair)
    \/ \E c \in Callers : CallerStep(c)
    \/ \E p \in Callers \cup {Netlink} : Handle(p)
    \/ ReceiveFails
    \/ LoadPolicy \/ SwitchEnforcing

\* Calls are brought to their end and the thread reads its socket; it gets the
\* lock although others take it again and again.
Fairness ==
    /\ \A c \in Callers : WF_vars(CallerStep(c))
    /\ SF_vars(Handle(Netlink))
    /\ WF_vars(ReceiveFails)

Spec == Init /\ [][Next]_vars /\ Fairness

-----------------------------------------------------------------------------
\* Properties.

\* The variables have their types: an entry is one of a pair of SIDs that have
\* been given out, and the lock is free or held by a caller.
EntryType == [key : {None} \cup (Sids \X Sids),
              allowed : SUBSET Perms, decided : SUBSET Perms, seqno : Loads,
              permissive : BOOLEAN, create : {None} \cup Sids, used : BOOLEAN]

TypeOK ==
    /\ mode \in {"thread", "poll"}
    /\ entry \in [Node -> EntryType]
    /\ sidtab \in Seq(Contexts)
    /\ lock \in Callers \cup {None}
    /\ \A c \in Callers :
          /\ call[c].pc \in {"idle", "poll", "wait", "compute", "insert", "answer"}
          /\ call[c].pc \in {"compute", "insert", "answer"} <=> lock = c
          /\ ref[c] \in Node \cup {None}
    /\ hint \in 0..(Slots - 1) /\ latest \in Loads /\ policy \in Loads
    /\ Len(queue) <= QueueMax

\* The pool is kept: a node is in the free list once, or once in the chain of
\* the slot its pair hashes to; active_nodes counts the second kind; and no
\* context has two SIDs.
PoolKept ==
    /\ Range(free) \cup Cached = Node /\ Range(free) \cap Cached = {}
    /\ IsInjective(free)
    /\ \A p, q \in Places : NodeAt(p) = NodeAt(q) => p = q
    /\ active = Cardinality(Cached)
    /\ \A s \in DOMAIN chains : \A n \in Range(chains[s]) :
          entry[n].key # None /\ Hash(entry[n].key) = s
    /\ IsInjective(sidtab)

\* What a caller is answered from is an entry of its pair that is in the cache
\* and decides what it asked: although the reference it kept may be to a node
\* that has been flushed or given to another pair since.
AnsweredFromCache ==
    \A c \in Callers : call[c].pc = "answer" =>
        /\ ref[c] \in Cached
        /\ entry[ref[c]].key = call[c].key
        /\ call[c].asked \subseteq entry[ref[c]].decided

\* No decision of a policy before the last one that was noted is in the cache,
\* although the cache is emptied and the notice noted in two steps.
CacheNotOlder == \A n \in Cached : entry[n].seqno >= latest

\* The context of a SID.
ContextOf(sid) == sidtab[sid]

\* What the policy an entry was decided by says of the entry's pair.
Says(n) == Policy[entry[n].seqno][<<ContextOf(entry[n].key[1]), ContextOf(entry[n].key[2])>>]

\* While enforcing, once the notice of the switch has been handled, an entry allows what
\* its policy allows, and nothing that a time of not enforcing has added.  Only for a
\* domain its policy makes permissive may it allow more, all of it asked for.
CacheIsPolicy ==
    enforcing /\ (\A p \in DOMAIN handling : handling[p].pc = "none") =>
        \A n \in Cached :
            \/ entry[n].allowed = Says(n)
            \/ /\ ContextOf(entry[n].key[1]) \in Permissive[entry[n].seqno]
               /\ Says(n) \subseteq entry[n].allowed
               /\ entry[n].allowed \subseteq Says(n) \cup entry[n].decided

\* The cache is what it is taken for, at every moment and for every caller.
CacheSound == TypeOK /\ PoolKept /\ AnsweredFromCache /\ CacheNotOlder /\ CacheIsPolicy

\* Without the thread, an answer is by a policy not older than that of the
\* moment the socket was polled: if no message was dropped and no other caller
\* had read one and not yet emptied the cache.
AnswerNotStale ==
    \A c \in Callers :
        mode = "poll" /\ call[c].pc = "answer" /\ call[c].op = "perm" =>
            entry[ref[c]].seqno >= call[c].floor

\* A policy that is loaded takes effect: the decisions of older ones leave the
\* cache, unless the thread has ended.
TakesEffect ==
    \A l \in Loads :
        mode = "thread" /\ policy = l ~>
            trouble \/ \A n \in Cached : entry[n].seqno >= l
=============================================================================
