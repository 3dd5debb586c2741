------------------------------ MODULE ImageBuild ------------------------------
(***************************************************************************)
(* The building of the partition images: the page's builders (about.js)   *)
(* and the imaging tools of the main process (imaging_tools.js), joined by *)
(* asynchronous messages.                                                  *)
(*                                                                         *)
(* A ROUND is one call of imageStep() by one page load.  It starts one     *)
(* builder per image.  A builder sends a request (BuildRamdisk,            *)
(* BuildBootable or BuildExt4FS), registers a listener for the matching    *)
(* ":Return" message and waits.  The main process runs the native tool and *)
(* answers.  The answer carries the request it answers, but no listener    *)
(* looks at it: every listener registered for that message name takes the  *)
(* first answer of that name as its own.                                   *)
(***************************************************************************)
EXTENDS Sequences, FiniteSets, Naturals

CONSTANTS
    Pages,      \* page loads of about:b2g-installer (a reload is a new one)
    Rounds,     \* calls of imageStep()
    PageOf,     \* the page load that makes each call
    MaxOpen,    \* bound: pages open at the same time
    Fstabs,     \* the sets of images each round's recovery.fstab may name
    Wipes,      \* whether each round may have to build the data partition
    Installed,  \* the kinds of request whose tool detectBinaries() found
    Faults      \* what may go wrong around the tools: see FaultKinds

Images    == {"boot", "recovery", "system", "data"}
Bootable  == {"boot", "recovery"}
Kinds     == {"ramdisk", "bootable", "ext4"}

\* "tool": a native tool exits with an error; "write": writeAtomic() fails;
\* "content": an extracted file or directory the page reads is missing, other than
\* cmdline-fs.txt, without which no distribution is accepted.
FaultKinds == {"tool", "write", "content"}

ASSUME PageOfAssumption == PageOf \in [Rounds -> Pages]
ASSUME FstabsAssumption == Fstabs \in [Rounds -> SUBSET SUBSET Images]
ASSUME WipesAssumption  == Wipes \in [Rounds -> SUBSET BOOLEAN]
ASSUME ToolsAssumption  == Installed \subseteq Kinds /\ Faults \subseteq FaultKinds
ASSUME RoundsAssumption == Rounds \cap {"absent", "spoiled"} = {}
ASSUME MaxOpenAssumption == MaxOpen \in Nat

Builders == Rounds \X Images
Requests == {q \in [round : Rounds, image : Images, kind : Kinds] :
                (q.kind = "ext4") <=> (q.image \notin Bootable)}

\* The file a request's tool produces: device/content/<P>/initrd.img or
\* device/images/<image>.img.  All rounds use the same paths.
Files     == ({"initrd"} \X Bootable) \cup ({"image"} \X Images)
Output(q) == <<IF q.kind = "ramdisk" THEN "initrd" ELSE "image", q.image>>

\* A file is absent, the complete output of a tool run made for a round from
\* that round's complete inputs, or something else: a partial or mixed file.
Contents  == {"absent", "spoiled"} \cup Rounds

PageStates == {"unopened", "open", "closed"}
StepStates == {"idle", "creating", "created", "failed", "over"}
Stages     == {"none", "ramdisk", "reading", "bootable", "cmdline", "ext4",
               "done", "failed", "gone"}
Statuses   == {"unsent", "sent", "running", "writing", "spoiling", "unwritten",
               "exited", "replied", "delivered", "silent"}

VARIABLES
    page,      \* the state of each page load
    serving,   \* imagingTools has its message listeners registered
    step,      \* how far each round's install got, from imageStep() on
    toBuild,   \* the images each round started a builder for
    pc,        \* each builder's stage; a stage named as a request kind means
               \* that the builder's listener for that kind's answer is registered
    status,    \* how far each request got
    file,      \* the files on disk
    replies    \* answers on their way to the page, in the order they were sent

vars == <<page, serving, step, toBuild, pc, status, file, replies>>

Init ==
    /\ page    = [p \in Pages |-> "unopened"]
    /\ serving = FALSE
    /\ step    = [r \in Rounds |-> "idle"]
    /\ toBuild = [r \in Rounds |-> {}]
    /\ pc      = [b \in Builders |-> "none"]
    /\ status  = [q \in Requests |-> "unsent"]
    /\ file    = [f \in Files |-> "absent"]
    /\ replies = <<>>

--------------------------------------------------------------------------------
(* The page's life.                                                          *)

\* install() sets _isRisky before imageStep() and clears it when the install
\* succeeds or fails: what isRisky() returns while images are made or flashed.
Risky(p) == \E r \in Rounds : PageOf[r] = p /\ step[r] \in {"creating", "created"}

\* The progress dialog covers the page, the Flash button with it, from the start
\* of an install until it succeeds; a failed install leaves it up.
DialogUp(p) == \E r \in Rounds : PageOf[r] = p /\ step[r] \in {"creating", "created", "failed"}

\* Mutant: init() only when newChannel() has just created the ImagingTools.
InitedOnce(p) == serving \/ \A o \in Pages : page[o] = "unopened"

\* newChannel() calls imagingTools.init() for every page loaded.
Inited(p) == TRUE

OpenPage(p) ==
    /\ page[p] = "unopened"
    /\ Cardinality({o \in Pages : page[o] = "open"}) < MaxOpen
    /\ page'    = [page EXCEPT ![p] = "open"]
    /\ serving' = Inited(p)
    /\ UNCHANGED <<step, toBuild, pc, status, file, replies>>

\* receiveMessage() on a request: executeTool() starts the tool.  Nobody hears
\* the request when the listeners are gone, and an absent tool makes the handler
\* throw: in both cases no answer will ever be sent.
Dispatch(q) == IF serving /\ q.kind \in Installed THEN "running" ELSE "silent"

\* Mutant: requests still queued when the page goes are lost.
UnflushedByCleanup(q) == IF status[q] = "sent" THEN "silent" ELSE status[q]

\* sendSyncMessage() has the queued asynchronous messages received first.
FlushedByCleanup(q) == IF status[q] = "sent" THEN Dispatch(q) ELSE status[q]

\* The promises of a page go with it.
Closed(p) ==
    /\ page[p] = "open"
    /\ page' = [page EXCEPT ![p] = "closed"]
    /\ pc'   = [b \in Builders |-> IF PageOf[b[1]] = p THEN "gone" ELSE pc[b]]
    /\ UNCHANGED <<step, toBuild, file, replies>>

\* beforeunload: Cleanup is sent and uninit() drops every listener, whichever page
\* they serve.
ClosePage(p) ==
    /\ ~Risky(p)
    /\ Closed(p)
    /\ serving' = FALSE
    /\ status'  = [q \in Requests |-> FlushedByCleanup(q)]

\* While risky it has the browser ask whether to stay on the page, and returns
\* before Cleanup: for a user who leaves all the same, the listeners remain.
LeavePage(p) ==
    /\ Risky(p)
    /\ Closed(p)
    /\ UNCHANGED <<serving, status>>

--------------------------------------------------------------------------------
(* imageStep() and the builders, in the page.                                *)

\* The array literal of imageStep() is evaluated in this order.
BuildOrder == [boot |-> 1, recovery |-> 2, system |-> 3, data |-> 4]

\* The fstab entries a builder dereferences outside a promise: a missing one is
\* an exception that ends imageStep() on the spot.  buildBootImg() reads its
\* entry inside a promise and only rejects; getFileContexts() reads boot's again.
Dereferenced == [boot |-> {}, recovery |-> {"recovery"},
                 system |-> {"system", "boot"}, data |-> {"data"}]

Wanted(wipe) == IF wipe THEN Images ELSE Images \ {"data"}

Started(fstab, wipe) ==
    {i \in Wanted(wipe) : \A j \in Wanted(wipe) :
        BuildOrder[j] <= BuildOrder[i] => Dereferenced[j] \subseteq fstab}

Request(b, k) == [round |-> b[1], image |-> b[2], kind |-> k]

\* Mutant: the bootable image does not wait for its ramdisk.
FirstStageNoWait(i, fstab, bare) == IF i \in Bootable THEN "reading" ELSE "cmdline"

\* The stage a started builder is left at: buildRamdisk() rejects at once when
\* its RAMDISK directory is missing, else it has sent its request; the two ext4
\* builders first read cmdline-fs.txt.
FirstStage(i, fstab, bare) ==
    CASE i \notin Bootable                -> "cmdline"
      [] i = "boot" /\ "boot" \notin fstab -> "failed"
      [] i \in bare                       -> "failed"
      [] OTHER                            -> "ramdisk"

\* imageStep(): wipe is !runsB2G || !keepMyB2GData.
Start(r, fstab, wipe, bare) ==
    LET started == Started(fstab, wipe)
        stage(i) == FirstStage(i, fstab, bare)
        whole   == started = Wanted(wipe) /\ \A i \in started : stage(i) # "failed"
    IN  /\ page[PageOf[r]] = "open"
        /\ ~DialogUp(PageOf[r])
        /\ step[r] = "idle"
        /\ bare # {} => "content" \in Faults
        /\ toBuild' = [toBuild EXCEPT ![r] = started]
        /\ step'    = [step EXCEPT ![r] = IF whole THEN "creating" ELSE "failed"]
        /\ pc'      = [b \in Builders |->
                         IF b[1] = r /\ b[2] \in started THEN stage(b[2]) ELSE pc[b]]
        /\ status'  = [q \in Requests |->
                         IF /\ q.round = r /\ q.image \in started
                            /\ q.kind = "ramdisk" /\ stage(q.image) = "ramdisk"
                         THEN "sent" ELSE status[q]]
        /\ UNCHANGED <<page, serving, file, replies>>

\* Promise.all(toBuild): rejected by the first failure, resolved by the last
\* success, in the same turn of the event loop as the builder that decides it.
Settled(r, at) ==
    IF step[r] # "creating" THEN step[r]
    ELSE IF \E i \in toBuild[r] : at[<<r, i>>] = "failed" THEN "failed"
    ELSE IF \A i \in toBuild[r] : at[<<r, i>>] = "done"   THEN "created"
    ELSE "creating"

MoveTo(at) ==
    /\ pc'   = at
    /\ step' = [r \in Rounds |-> Settled(r, at)]

\* getCmdlineFsArgs() has read the arguments: listener registered, request sent.
ReadCmdline(b) ==
    /\ pc[b] = "cmdline"
    /\ MoveTo([pc EXCEPT ![b] = "ext4"])
    /\ status' = [status EXCEPT ![Request(b, "ext4")] = "sent"]
    /\ UNCHANGED <<page, serving, toBuild, file, replies>>

\* buildBootable() has read cmdline, pagesize and base, and sends its request...
ReadBootFiles(b) ==
    /\ pc[b] = "reading"
    /\ MoveTo([pc EXCEPT ![b] = "bootable"])
    /\ status' = [status EXCEPT ![Request(b, "bootable")] = "sent"]
    /\ UNCHANGED <<page, serving, toBuild, file, replies>>

\* ... or one of the three could not be read.
ReadBootFilesFails(b) ==
    /\ "content" \in Faults
    /\ pc[b] = "reading"
    /\ MoveTo([pc EXCEPT ![b] = "failed"])
    /\ UNCHANGED <<page, serving, toBuild, status, file, replies>>

\* What a builder does once its listener for an answer of kind k has run.
Resume(k, ok) == IF ~ok THEN "failed" ELSE IF k = "ramdisk" THEN "reading" ELSE "done"

\* Mutant: an answer is handed to one listener only.
HearsAlone(b, k) == pc[b] = k /\ \A o \in Builders : pc[o] = k => BuildOrder[b[2]] <= BuildOrder[o[2]]

\* Mutant: one message name for all the answers.
HearsAnyKind(b, k) == pc[b] \in Kinds

\* The message manager calls every listener registered for the answer's name,
\* and no listener looks at reply.data.req.
Hears(b, k) == pc[b] = k

\* Each listener called removes itself and settles its promise.
Deliver ==
    /\ replies # <<>>
    /\ LET a == Head(replies)
           k == a.req.kind
       IN  /\ MoveTo([b \in Builders |-> IF Hears(b, k) THEN Resume(k, a.res) ELSE pc[b]])
           /\ status' = [status EXCEPT ![a.req] = "delivered"]
    /\ replies' = Tail(replies)
    /\ UNCHANGED <<page, serving, toBuild, file>>

\* The flash that follows has ended: no longer risky.  The progress dialog is
\* taken down only when it succeeded.
EndInstall(r, ok) ==
    /\ page[PageOf[r]] = "open"
    /\ step[r] = "created"
    /\ step' = [step EXCEPT ![r] = IF ok THEN "over" ELSE "failed"]
    /\ UNCHANGED <<page, serving, toBuild, pc, status, file, replies>>

--------------------------------------------------------------------------------
(* The main process and its tools.  Each request's tool is a process of its   *)
(* own: all of them run side by side.                                        *)

Receive(q) ==
    /\ status[q] = "sent"
    /\ status' = [status EXCEPT ![q] = Dispatch(q)]
    /\ UNCHANGED <<page, serving, step, toBuild, pc, file, replies>>

Writers(f) == {q \in Requests : Output(q) = f /\ status[q] \in {"writing", "spoiling"}}

\* The output file is created or truncated.  Two tools on one file spoil it.
\* mkbootimg has loaded the ramdisk before it opens its output.
OpenOutput(q, clean) ==
    LET f == Output(q)
    IN  /\ file'   = [file EXCEPT ![f] = "spoiled"]
        /\ status' = [o \in Requests |->
                        CASE o = q         -> IF clean /\ Writers(f) = {} THEN "writing" ELSE "spoiling"
                          [] o \in Writers(f) -> "spoiling"
                          [] OTHER         -> status[o]]
        /\ UNCHANGED <<page, serving, step, toBuild, pc, replies>>

Initrd(q) == file[<<"initrd", q.image>>]

Open(q) ==
    /\ status[q] = "running"
    /\ q.kind = "bootable" => Initrd(q) # "absent"
    /\ OpenOutput(q, q.kind = "bootable" => Initrd(q) = q.round)

\* A tool that fails before it opens its output leaves the file alone: mkbootimg
\* always does when there is no ramdisk.  mkbootfs only feeds the page a stream,
\* and mkbootfs() gzips and writes whatever came before the tool failed.
FailsEarly(q) ==
    /\ status[q] = "running"
    /\ \/ "tool" \in Faults
       \/ q.kind = "bootable" /\ Initrd(q) = "absent"
    /\ IF q.kind = "ramdisk"
         THEN OpenOutput(q, FALSE)
         ELSE /\ status' = [status EXCEPT ![q] = "exited"]
              /\ UNCHANGED <<page, serving, step, toBuild, pc, file, replies>>

\* A tool that fails while it writes unlinks its output, or (make_ext4fs exiting
\* from a critical error) leaves it as it is.
FailsLate(q) ==
    /\ "tool" \in Faults
    /\ q.kind # "ramdisk"
    /\ status[q] \in {"writing", "spoiling"}
    /\ status' = [status EXCEPT ![q] = "exited"]
    /\ \/ file' = [file EXCEPT ![Output(q)] = "absent"]
       \/ q.kind = "ext4" /\ UNCHANGED file
    /\ UNCHANGED <<page, serving, step, toBuild, pc, replies>>

\* writeAtomic() of the ramdisk fails: the one failure mkbootfs() reports.
WriteFails(q) ==
    /\ "write" \in Faults
    /\ q.kind = "ramdisk"
    /\ status[q] \in {"writing", "spoiling"}
    /\ status' = [status EXCEPT ![q] = "unwritten"]
    /\ UNCHANGED <<page, serving, step, toBuild, pc, file, replies>>

Finish(q) ==
    /\ status[q] \in {"writing", "spoiling"}
    /\ file'   = [file EXCEPT ![Output(q)] = IF status[q] = "writing" THEN q.round ELSE @]
    /\ status' = [status EXCEPT ![q] = "exited"]
    /\ UNCHANGED <<page, serving, step, toBuild, pc, replies>>

\* Mutant: every answer goes out under the name of the filesystem's.
AnswerMisnamed(q, ok) ==
    /\ status'  = [status EXCEPT ![q] = "replied"]
    /\ replies' = Append(replies, [req |-> [q EXCEPT !.kind = "ext4"], res |-> ok])

Answer(q, ok) ==
    /\ status'  = [status EXCEPT ![q] = "replied"]
    /\ replies' = Append(replies, [req |-> q, res |-> ok])

\* Mutant: mkbootfs() rejects when the ramdisk cannot be written.
NoAnswerOnFailure(q) == status[q] = "unwritten" \/ file[Output(q)] = "absent"

\* done() does not look at the exit code, only at whether the output exists,
\* whoever wrote it.  If it does not, the promise is rejected and receiveMessage()
\* has no handler for that.
NoAnswer(q) == status[q] = "exited" /\ file[Output(q)] = "absent"

Done(q) ==
    /\ status[q] \in {"exited", "unwritten"}
    /\ IF NoAnswer(q)
         THEN status' = [status EXCEPT ![q] = "silent"] /\ UNCHANGED replies
         ELSE Answer(q, status[q] = "exited")
    /\ UNCHANGED <<page, serving, step, toBuild, pc, file>>

--------------------------------------------------------------------------------
User ==
    \/ \E p \in Pages : OpenPage(p) \/ ClosePage(p) \/ LeavePage(p)
    \/ \E r \in Rounds :
         \/ \E fstab \in Fstabs[r], wipe \in Wipes[r], bare \in SUBSET Bootable :
              Start(r, fstab, wipe, bare)
         \/ \E ok \in BOOLEAN : EndInstall(r, ok)

\* Steps the browser and the tools take on their own.
Progress ==
    \/ \E b \in Builders : ReadCmdline(b) \/ ReadBootFiles(b) \/ ReadBootFilesFails(b)
    \/ \E q \in Requests :
         \/ Receive(q) \/ Open(q) \/ FailsEarly(q) \/ FailsLate(q)
         \/ WriteFails(q) \/ Finish(q) \/ Done(q)
    \/ Deliver

Next == User \/ Progress

\* Event loops keep turning and tools terminate; nothing obliges the user.
Spec == Init /\ [][Next]_vars /\ WF_vars(Progress)

--------------------------------------------------------------------------------
(* Properties.                                                               *)

\* Every variable has its type, and only requests that exist are answered.
TypeOK ==
    /\ page    \in [Pages -> PageStates]
    /\ serving \in BOOLEAN
    /\ step    \in [Rounds -> StepStates]
    /\ toBuild \in [Rounds -> SUBSET Images]
    /\ pc      \in [Builders -> Stages]
    /\ status  \in [Requests -> Statuses]
    /\ file    \in [Files -> Contents]
    /\ replies \in Seq([req : Requests, res : BOOLEAN])

\* A builder whose listener is registered still has its own request outstanding:
\* the anonymous answers can wake a builder too early (a listener takes the
\* first answer of its name), but never use up the answer a builder waits for.
WaitingHasRequest ==
    \A b \in Builders, k \in Kinds :
        pc[b] = k => /\ Request(b, k) \in Requests
                     /\ status[Request(b, k)] \notin {"unsent", "delivered"}

\* The kinds of answer a builder has taken to be where it is.
Taken(b) ==
    CASE pc[b] \in {"reading", "bootable"} -> {"ramdisk"}
      [] pc[b] = "done"                    -> IF b[2] \in Bootable THEN {"ramdisk", "bootable"} ELSE {"ext4"}
      [] OTHER                             -> {}

\* No builder gets past a tool's stage unless some tool of that kind has been
\* run and answered, whichever round or image it was run for.
SettledByAnswer ==
    \A b \in Builders : \A k \in Taken(b) :
        \E q \in Requests : q.kind = k /\ status[q] = "delivered"

\* When the user's data is kept, system.img is the only ext4 image made: if no
\* other round ever asked for one and the tools do not fail, then what is about
\* to be flashed as system.img is complete, although the answer is anonymous.
SystemSound ==
    \A r \in Rounds :
        /\ step[r] = "created"
        /\ "data" \notin toBuild[r]
        /\ \A q \in Requests : q.kind = "ext4" /\ q.round # r => status[q] = "unsent"
        /\ "tool" \notin Faults
        => file[<<"image", "system">>] = r

\* With one page open at a time, the main process listens whenever a page is open:
\* the Cleanup of the page that goes cannot silence the page that comes.
ServedWhenOpen == \A p \in Pages : page[p] = "open" => serving

\* While tools neither fail nor miss, the only request that stays without an
\* answer is one for a bootable image sent on the strength of another image's
\* ramdisk: what can leave an install hanging is the mix-up and nothing else.
SilenceIsMixUp ==
    "tool" \notin Faults /\ Installed = Kinds =>
        \A q \in Requests : status[q] = "silent" =>
            /\ q.kind = "bootable"
            /\ \E o \in Requests : /\ o.kind = "ramdisk" /\ status[o] = "delivered"
                                   /\ <<o.round, o.image>> # <<q.round, q.image>>

\* A builder waiting for a ramdisk is always settled: mkbootfs() answers whatever
\* the tool's exit.  So is one waiting for a filesystem while make_ext4fs works.
Unfailing == {"ramdisk"} \cup (IF "tool" \in Faults THEN {} ELSE {"ext4"})
UnfailingKindsSettle ==
    \A b \in Builders, k \in Unfailing : pc[b] = k ~> pc[b] # k

\* What the flash step relies on: once imageStep() has resolved, and while the
\* images are flashed, each image is the complete output of this round's tools.
ImagesBuilt ==
    \A r \in Rounds : step[r] = "created" =>
        \A i \in toBuild[r] : file[<<"image", i>>] = r

================================================================================
