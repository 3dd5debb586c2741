-------------------------- MODULE ImageBuild_proofs --------------------------
(***************************************************************************)
(* Proofs about ImageBuild, for any page loads, rounds, distributions,     *)
(* missing tools and faults.                                               *)
(***************************************************************************)
EXTENDS ImageBuild, FiniteSetTheorems, TLAPS

\* The assumptions on the constants, used in every proof.
USE PageOfAssumption, FstabsAssumption, WipesAssumption

\* A builder's first stage, and the stages its requests take it to, are stages.
LEMMA StageTypes ==
    /\ \A i \in Images : \A fstab, bare : FirstStage(i, fstab, bare) \in {"cmdline", "failed", "ramdisk"}
    /\ \A k, ok : Resume(k, ok) \in {"failed", "reading", "done"}
    /\ \A fstab, wipe : Started(fstab, wipe) \subseteq Images
    /\ \A q \in Requests : Dispatch(q) \in {"running", "silent"}
BY DEF FirstStage, Resume, Started, Wanted, Images, Bootable, Dispatch

\* The first element of a queue and what is left once it is taken.
LEMMA QueueTypes ==
    ASSUME NEW S, NEW s \in Seq(S), s # <<>>
    PROVE  /\ Head(s) \in S /\ Head(s) = s[1] /\ 1 \in DOMAIN s
           /\ Tail(s) \in Seq(S)
           /\ \A i \in DOMAIN Tail(s) : i + 1 \in DOMAIN s /\ Tail(s)[i] = s[i + 1]
OBVIOUS

LEMMA QueueElements ==
    ASSUME NEW S, NEW s \in Seq(S)
    PROVE  \A i \in DOMAIN s : s[i] \in S
OBVIOUS

\* The promise of imageStep() is in one of its states after any move of the builders.
LEMMA SettledType ==
    ASSUME TypeOK, NEW at, NEW r \in Rounds
    PROVE  Settled(r, at) \in StepStates
BY DEF TypeOK, Settled, StepStates

\* A builder that reaches a stage named as a kind has a request of that kind.
LEMMA RequestType ==
    ASSUME NEW b \in Builders, NEW k \in Kinds, (k = "ext4") <=> (b[2] \notin Bootable)
    PROVE  Request(b, k) \in Requests
BY DEF Builders, Requests, Request, Images, Bootable, Kinds

LEMMA MoveToType ==
    ASSUME TypeOK, NEW at \in [Builders -> Stages], MoveTo(at)
    PROVE  /\ pc' \in [Builders -> Stages]
           /\ step' \in [Rounds -> StepStates]
BY SettledType DEF MoveTo

\* The output of a request is one of the files.
LEMMA OutputType == \A q \in Requests : Output(q) \in Files
BY DEF Requests, Output, Files, Images, Bootable, Kinds

LEMMA OpenOutputType ==
    ASSUME TypeOK, NEW q \in Requests, NEW clean \in BOOLEAN, OpenOutput(q, clean)
    PROVE  TypeOK'
<1>1. Output(q) \in Files
  BY OutputType
<1>2. file' \in [Files -> Contents]
  BY <1>1 DEF OpenOutput, TypeOK, Contents
<1>3. status' \in [Requests -> Statuses]
  BY DEF OpenOutput, TypeOK, Statuses
<1>4. QED
  BY <1>2, <1>3 DEF OpenOutput, TypeOK

LEMMA TypeInit == Init => TypeOK
<1> SUFFICES ASSUME Init
             PROVE  TypeOK
  OBVIOUS
<1>1. page \in [Pages -> PageStates] /\ serving \in BOOLEAN
  BY DEF Init, PageStates
<1>2. step \in [Rounds -> StepStates] /\ toBuild \in [Rounds -> SUBSET Images]
  BY DEF Init, StepStates
<1>3. pc \in [Builders -> Stages] /\ status \in [Requests -> Statuses]
  BY DEF Init, Stages, Statuses
<1>4. file \in [Files -> Contents]
  BY DEF Init, Contents
<1>5. replies \in Seq([req : Requests, res : BOOLEAN])
  BY DEF Init
<1>6. QED
  BY <1>1, <1>2, <1>3, <1>4, <1>5 DEF TypeOK

LEMMA TypeStep == TypeOK /\ [Next]_vars => TypeOK'
<1> SUFFICES ASSUME TypeOK, [Next]_vars
             PROVE  TypeOK'
  OBVIOUS
<1>1. ASSUME NEW p \in Pages, OpenPage(p)
      PROVE  TypeOK'
  BY <1>1 DEF TypeOK, OpenPage, Inited, PageStates
<1>2. ASSUME NEW p \in Pages, ClosePage(p)
      PROVE  TypeOK'
  <2>1. \A q \in Requests : FlushedByCleanup(q) \in Statuses
    BY DEF FlushedByCleanup, Dispatch, TypeOK, Statuses
  <2>2. QED
    BY <1>2, <2>1 DEF TypeOK, ClosePage, Closed, PageStates, Stages
<1>2a. ASSUME NEW p \in Pages, LeavePage(p)
       PROVE  TypeOK'
  BY <1>2a DEF TypeOK, LeavePage, Closed, PageStates, Stages
<1>3. ASSUME NEW r \in Rounds, NEW fstab \in Fstabs[r], NEW wipe \in Wipes[r],
             NEW bare \in SUBSET Bootable, Start(r, fstab, wipe, bare)
      PROVE  TypeOK'
  <2>1. toBuild' \in [Rounds -> SUBSET Images]
    BY <1>3, StageTypes DEF Start, TypeOK
  <2>2. step' \in [Rounds -> StepStates]
    BY <1>3 DEF Start, TypeOK, StepStates
  <2>3. pc' \in [Builders -> Stages]
    BY <1>3, StageTypes DEF Start, TypeOK, Stages, Builders
  <2>4. status' \in [Requests -> Statuses]
    BY <1>3 DEF Start, TypeOK, Statuses
  <2>5. QED
    BY <1>3, <2>1, <2>2, <2>3, <2>4 DEF Start, TypeOK
<1>4. ASSUME NEW r \in Rounds, NEW ok \in BOOLEAN, EndInstall(r, ok)
      PROVE  TypeOK'
  BY <1>4 DEF TypeOK, EndInstall, StepStates
<1>5. ASSUME NEW b \in Builders, ReadCmdline(b)
      PROVE  TypeOK'
  <2>1. [pc EXCEPT ![b] = "ext4"] \in [Builders -> Stages]
    BY DEF TypeOK, Stages
  <2>2. pc' \in [Builders -> Stages] /\ step' \in [Rounds -> StepStates]
    BY <1>5, <2>1, MoveToType DEF ReadCmdline
  <2>3. status' \in [Requests -> Statuses]
    BY <1>5 DEF ReadCmdline, TypeOK, Statuses
  <2>4. QED
    BY <1>5, <2>2, <2>3 DEF ReadCmdline, TypeOK
<1>6. ASSUME NEW b \in Builders, ReadBootFiles(b)
      PROVE  TypeOK'
  <2>1. [pc EXCEPT ![b] = "bootable"] \in [Builders -> Stages]
    BY DEF TypeOK, Stages
  <2>2. pc' \in [Builders -> Stages] /\ step' \in [Rounds -> StepStates]
    BY <1>6, <2>1, MoveToType DEF ReadBootFiles
  <2>3. status' \in [Requests -> Statuses]
    BY <1>6 DEF ReadBootFiles, TypeOK, Statuses
  <2>4. QED
    BY <1>6, <2>2, <2>3 DEF ReadBootFiles, TypeOK
<1>7. ASSUME NEW b \in Builders, ReadBootFilesFails(b)
      PROVE  TypeOK'
  <2>1. [pc EXCEPT ![b] = "failed"] \in [Builders -> Stages]
    BY DEF TypeOK, Stages
  <2>2. pc' \in [Builders -> Stages] /\ step' \in [Rounds -> StepStates]
    BY <1>7, <2>1, MoveToType DEF ReadBootFilesFails
  <2>3. QED
    BY <1>7, <2>2 DEF ReadBootFilesFails, TypeOK
<1>8. ASSUME NEW q \in Requests, Receive(q)
      PROVE  TypeOK'
  BY <1>8, StageTypes DEF TypeOK, Receive, Statuses
<1>9. ASSUME NEW q \in Requests, Open(q)
      PROVE  TypeOK'
  <2>1. (q.kind = "bootable" => Initrd(q) = q.round) \in BOOLEAN
    OBVIOUS
  <2>2. QED
    BY <1>9, <2>1, OpenOutputType DEF Open
<1>10. ASSUME NEW q \in Requests, FailsEarly(q)
       PROVE  TypeOK'
  <2>1. CASE q.kind = "ramdisk"
    BY <1>10, <2>1, OpenOutputType DEF FailsEarly
  <2>2. CASE q.kind # "ramdisk"
    BY <1>10, <2>2 DEF FailsEarly, TypeOK, Statuses
  <2>3. QED
    BY <2>1, <2>2
<1>11. ASSUME NEW q \in Requests, FailsLate(q)
       PROVE  TypeOK'
  BY <1>11, OutputType DEF FailsLate, TypeOK, Statuses, Contents
<1>12. ASSUME NEW q \in Requests, WriteFails(q)
       PROVE  TypeOK'
  BY <1>12 DEF WriteFails, TypeOK, Statuses
<1>13. ASSUME NEW q \in Requests, Finish(q)
       PROVE  TypeOK'
  <2>1. q.round \in Contents
    BY DEF Requests, Contents
  <2>2. file' \in [Files -> Contents]
    BY <1>13, <2>1, OutputType DEF Finish, TypeOK
  <2>3. QED
    BY <1>13, <2>2 DEF Finish, TypeOK, Statuses
<1>14. ASSUME NEW q \in Requests, Done(q)
       PROVE  TypeOK'
  <2>1. status' \in [Requests -> Statuses]
    BY <1>14 DEF Done, Answer, TypeOK, Statuses
  <2>2. CASE NoAnswer(q)
    BY <1>14, <2>1, <2>2 DEF Done, TypeOK
  <2>3. CASE ~NoAnswer(q)
    <3> DEFINE a == [req |-> q, res |-> status[q] = "exited"]
    <3>1. a \in [req : Requests, res : BOOLEAN]
      OBVIOUS
    <3>2. replies' = Append(replies, a)
      BY <1>14, <2>3 DEF Done, Answer
    <3>3. replies' \in Seq([req : Requests, res : BOOLEAN])
      <4> HIDE DEF a
      <4>1. QED
        BY <3>1, <3>2 DEF TypeOK
    <3>4. QED
      BY <1>14, <2>1, <3>3 DEF Done, TypeOK
  <2>4. QED
    BY <2>2, <2>3
<1>15. ASSUME Deliver
       PROVE  TypeOK'
  <2> DEFINE a == Head(replies)
  <2>1. a \in [req : Requests, res : BOOLEAN] /\ Tail(replies) \in Seq([req : Requests, res : BOOLEAN])
    BY <1>15, QueueTypes DEF Deliver, TypeOK
  <2>2. [b \in Builders |-> IF Hears(b, a.req.kind) THEN Resume(a.req.kind, a.res) ELSE pc[b]]
           \in [Builders -> Stages]
    BY StageTypes DEF TypeOK, Stages
  <2>3. pc' \in [Builders -> Stages] /\ step' \in [Rounds -> StepStates]
    BY <1>15, <2>2, MoveToType DEF Deliver
  <2>4. status' \in [Requests -> Statuses]
    BY <1>15, <2>1 DEF Deliver, TypeOK, Statuses
  <2>5. replies' \in Seq([req : Requests, res : BOOLEAN])
    BY <1>15, <2>1 DEF Deliver
  <2>6. QED
    BY <1>15, <2>3, <2>4, <2>5 DEF Deliver, TypeOK
<1>16. CASE UNCHANGED vars
  BY <1>16 DEF vars, TypeOK
<1>17. QED
  BY <1>1, <1>2, <1>2a, <1>3, <1>4, <1>5, <1>6, <1>7, <1>8, <1>9, <1>10, <1>11, <1>12,
     <1>13, <1>14, <1>15, <1>16 DEF Next, User, Progress

\* Type correctness holds of every behaviour.
THEOREM TypeCorrect == Spec => []TypeOK
BY TypeInit, TypeStep, PTL DEF Spec

--------------------------------------------------------------------------------
(* The safety of the anonymous answers.  WaitingHasRequest and                *)
(* SettledByAnswer are not inductive: a round that starts, or a builder that  *)
(* sends its second request, must not reuse a request already answered, and   *)
(* an answer in the queue must be one to a request that was sent.            *)

\* A round that has not started has sent nothing and its builders do not run.
IdleUntouched ==
    \A r \in Rounds : step[r] = "idle" =>
        /\ \A b \in Builders : b[1] = r => pc[b] \in {"none", "gone"}
        /\ \A q \in Requests : q.round = r => status[q] = "unsent"

\* A builder about to send a request has not sent it before, and has that request.
NotYetSent ==
    \A b \in Builders :
        /\ pc[b] = "cmdline" =>
             b[2] \notin Bootable /\ status[Request(b, "ext4")] = "unsent"
        /\ pc[b] \in {"ramdisk", "reading"} =>
             b[2] \in Bootable /\ status[Request(b, "bootable")] = "unsent"

\* Answers in the queue answer requests that were sent.
QueueSent == \A i \in DOMAIN replies : status[replies[i].req] # "unsent"

IInv == TypeOK /\ IdleUntouched /\ NotYetSent /\ QueueSent /\ WaitingHasRequest /\ SettledByAnswer

\* What the tools' steps may do to the page's view of things.
ToolEffect ==
    /\ UNCHANGED <<step, pc>>
    /\ \A o \in Requests :
         \/ status'[o] = status[o]
         \/ /\ status[o] \notin {"unsent", "delivered"}
            /\ status'[o] \notin {"unsent", "delivered"}
    /\ \/ replies' = replies
       \/ \E q \in Requests, ok \in BOOLEAN :
            /\ status'[q] # "unsent"
            /\ replies' = Append(replies, [req |-> q, res |-> ok])

LEMMA ToolSteps ==
    ASSUME TypeOK, NEW q \in Requests,
           \/ Receive(q) \/ Open(q) \/ FailsEarly(q) \/ FailsLate(q)
           \/ WriteFails(q) \/ Finish(q) \/ Done(q)
    PROVE  ToolEffect
<1>1. ASSUME NEW clean, OpenOutput(q, clean), status[q] = "running"
      PROVE  ToolEffect
  BY <1>1 DEF OpenOutput, ToolEffect, Writers, TypeOK
<1>2. CASE Receive(q)
  BY <1>2 DEF Receive, Dispatch, ToolEffect, TypeOK
<1>3. CASE Open(q)
  BY <1>1, <1>3 DEF Open
<1>4. CASE FailsEarly(q)
  <2>1. CASE q.kind = "ramdisk"
    BY <1>1, <1>4, <2>1 DEF FailsEarly
  <2>2. CASE q.kind # "ramdisk"
    BY <1>4, <2>2 DEF FailsEarly, ToolEffect, TypeOK
  <2>3. QED
    BY <2>1, <2>2
<1>5. CASE FailsLate(q)
  BY <1>5 DEF FailsLate, ToolEffect, TypeOK
<1>6. CASE WriteFails(q)
  BY <1>6 DEF WriteFails, ToolEffect, TypeOK
<1>7. CASE Finish(q)
  BY <1>7 DEF Finish, ToolEffect, TypeOK
<1>8. CASE Done(q)
  <2>1. CASE NoAnswer(q)
    BY <1>8, <2>1 DEF Done, ToolEffect, TypeOK
  <2>2. CASE ~NoAnswer(q)
    <3>1. /\ status' = [status EXCEPT ![q] = "replied"]
          /\ replies' = Append(replies, [req |-> q, res |-> status[q] = "exited"])
      BY <1>8, <2>2 DEF Done, Answer
    <3>2. (status[q] = "exited") \in BOOLEAN /\ status'[q] = "replied"
      BY <3>1 DEF TypeOK
    <3>3. \E ok \in BOOLEAN : status'[q] # "unsent" /\ replies' = Append(replies, [req |-> q, res |-> ok])
      BY <3>1, <3>2
    <3>4. status[q] \in {"exited", "unwritten"} /\ UNCHANGED <<step, pc>>
      BY <1>8 DEF Done
    <3>5. QED
      BY <3>1, <3>3, <3>4 DEF ToolEffect, TypeOK
  <2>3. QED
    BY <2>1, <2>2
<1>9. QED
  BY <1>2, <1>3, <1>4, <1>5, <1>6, <1>7, <1>8

\* A request's identity: the builder and the kind.
LEMMA RequestIdentity ==
    /\ \A b, c \in Builders : \A k, l : Request(b, k) = Request(c, l) => b = c /\ k = l
    /\ \A b, k : Request(b, k).kind = k /\ Request(b, k).round = b[1]
BY DEF Builders, Request

\* Appending to a queue of answers to sent requests another one.
LEMMA QueueGrows ==
    ASSUME TypeOK, QueueSent, NEW q \in Requests, NEW ok \in BOOLEAN,
           status'[q] # "unsent", replies' = Append(replies, [req |-> q, res |-> ok]),
           \A o \in Requests : status[o] # "unsent" => status'[o] # "unsent"
    PROVE  QueueSent'
<1> DEFINE a == [req |-> q, res |-> ok]
           Answers == [req : Requests, res : BOOLEAN]
<1>1. a \in Answers /\ a.req = q
  OBVIOUS
<1>2. replies \in Seq(Answers)
  BY DEF TypeOK
<1>3. \A i \in DOMAIN replies : replies[i] \in Answers
  BY <1>2, QueueElements
<1> HIDE DEF a, Answers
<1>4. \A i \in DOMAIN replies' : replies'[i] = a \/ (i \in DOMAIN replies /\ replies'[i] = replies[i])
  BY <1>1, <1>2 DEF a
<1> USE DEF Answers
<1>5. \A i \in DOMAIN replies : replies[i].req \in Requests
  BY <1>3
<1>6. QED
  BY <1>1, <1>4, <1>5 DEF QueueSent

\* Answers stay delivered, and builders that take no new kind stay accounted for.
LEMMA SettledStable ==
    ASSUME SettledByAnswer,
           \A q \in Requests : status[q] = "delivered" => status'[q] = "delivered",
           \A b \in Builders : Taken(b)' \subseteq Taken(b)
    PROVE  SettledByAnswer'
BY DEF SettledByAnswer

LEMMA ToolKeepsInv ==
    ASSUME IInv, TypeOK', ToolEffect
    PROVE  IInv'
<1>1. IdleUntouched'
  BY DEF IInv, IdleUntouched, ToolEffect
<1>2. NotYetSent'
  <2>1. \A b \in Builders : b[2] \notin Bootable => Request(b, "ext4") \in Requests
    BY RequestType DEF Kinds
  <2>2. \A b \in Builders : b[2] \in Bootable => Request(b, "bootable") \in Requests
    BY RequestType DEF Kinds
  <2>3. QED
    BY <2>1, <2>2 DEF IInv, NotYetSent, ToolEffect
<1>3. QueueSent'
  <2>1. \A o \in Requests : status[o] # "unsent" => status'[o] # "unsent"
    BY DEF ToolEffect
  <2>2. CASE replies' = replies
    <3>1. \A i \in DOMAIN replies : replies[i] \in [req : Requests, res : BOOLEAN]
      BY QueueElements DEF IInv, TypeOK
    <3>2. QED
      BY <2>1, <2>2, <3>1 DEF IInv, QueueSent
  <2>3. ASSUME NEW q \in Requests, NEW ok \in BOOLEAN, status'[q] # "unsent",
               replies' = Append(replies, [req |-> q, res |-> ok])
        PROVE  QueueSent'
    BY <2>1, <2>3, QueueGrows DEF IInv
  <2>4. QED
    BY <2>2, <2>3 DEF ToolEffect
<1>4. WaitingHasRequest'
  BY DEF IInv, WaitingHasRequest, ToolEffect
<1>5. SettledByAnswer'
  <2>1. \A b \in Builders : Taken(b)' = Taken(b)
    BY DEF ToolEffect, Taken
  <2>2. QED
    BY <2>1, SettledStable DEF IInv, ToolEffect
<1>6. QED
  BY <1>1, <1>2, <1>3, <1>4, <1>5 DEF IInv

\* Settling the promises never makes a round idle again.
LEMMA MoveToIdle ==
    ASSUME TypeOK, NEW at, MoveTo(at), NEW r \in Rounds, step'[r] = "idle"
    PROVE  step[r] = "idle"
BY DEF MoveTo, Settled, TypeOK

\* A builder of an idle round neither runs nor waits.
LEMMA RunningNotIdle ==
    ASSUME IInv, NEW b \in Builders, pc[b] \notin {"none", "gone"}
    PROVE  b[1] \in Rounds /\ step[b[1]] # "idle"
BY DEF IInv, IdleUntouched, Builders

\* A builder sends its ext4 request or its second one.
LEMMA SendKeepsInv ==
    ASSUME IInv, TypeOK', NEW b \in Builders, NEW k,
           \/ pc[b] = "cmdline" /\ k = "ext4"
           \/ pc[b] = "reading" /\ k = "bootable",
           MoveTo([pc EXCEPT ![b] = k]),
           status' = [status EXCEPT ![Request(b, k)] = "sent"],
           replies' = replies
    PROVE  IInv'
<1> DEFINE q == Request(b, k)
<1>1. q \in Requests /\ status[q] = "unsent" /\ q.round = b[1] /\ q.kind = k
  <2>1. (k = "ext4") <=> (b[2] \notin Bootable)
    BY DEF IInv, NotYetSent
  <2>2. QED
    BY <2>1, RequestType, RequestIdentity DEF IInv, NotYetSent, Kinds
<1>2. pc' = [pc EXCEPT ![b] = k] /\ pc \in [Builders -> Stages] /\ status \in [Requests -> Statuses]
  BY DEF MoveTo, IInv, TypeOK
<1>3. \A o \in Requests : status'[o] = IF o = q THEN "sent" ELSE status[o]
  BY <1>1, <1>2
<1>4. IdleUntouched'
  <2>1. SUFFICES ASSUME NEW r \in Rounds, step'[r] = "idle"
                 PROVE  /\ \A c \in Builders : c[1] = r => pc'[c] \in {"none", "gone"}
                        /\ \A o \in Requests : o.round = r => status'[o] = "unsent"
    BY DEF IdleUntouched
  <2>2. step[r] = "idle"
    BY <2>1, MoveToIdle DEF IInv
  <2>3. b[1] # r
    BY <2>2, RunningNotIdle
  <2>4. QED
    BY <1>1, <1>2, <1>3, <2>2, <2>3 DEF IInv, IdleUntouched
<1>5. NotYetSent'
  <2>1. SUFFICES ASSUME NEW c \in Builders
                 PROVE  /\ pc'[c] = "cmdline" =>
                             c[2] \notin Bootable /\ status'[Request(c, "ext4")] = "unsent"
                        /\ pc'[c] \in {"ramdisk", "reading"} =>
                             c[2] \in Bootable /\ status'[Request(c, "bootable")] = "unsent"
    BY DEF NotYetSent
  <2>2. CASE c = b
    BY <1>2, <2>2
  <2>3. CASE c # b
    <3>1. pc'[c] = pc[c]
      BY <1>2, <2>3
    <3>2. \A l : Request(c, l) # q
      BY <2>3, RequestIdentity
    <3>3. c[2] \notin Bootable => Request(c, "ext4") \in Requests
      BY RequestType DEF Kinds
    <3>4. c[2] \in Bootable => Request(c, "bootable") \in Requests
      BY RequestType DEF Kinds
    <3>5. QED
      BY <1>3, <3>1, <3>2, <3>3, <3>4 DEF IInv, NotYetSent
  <2>4. QED
    BY <2>2, <2>3
<1>6. QueueSent'
  <2>1. \A i \in DOMAIN replies : replies[i].req \in Requests
    <3>1. \A i \in DOMAIN replies : replies[i] \in [req : Requests, res : BOOLEAN]
      BY QueueElements DEF IInv, TypeOK
    <3>2. QED
      BY <3>1
  <2>2. QED
    BY <1>3, <2>1 DEF IInv, QueueSent
<1>7. WaitingHasRequest'
  <2>1. SUFFICES ASSUME NEW c \in Builders, NEW l \in Kinds, pc'[c] = l
                 PROVE  Request(c, l) \in Requests /\ status'[Request(c, l)] \notin {"unsent", "delivered"}
    BY DEF WaitingHasRequest
  <2>2. CASE c = b
    BY <1>1, <1>2, <1>3, <2>1, <2>2
  <2>3. CASE c # b
    BY <1>2, <1>3, <2>1, <2>3 DEF IInv, WaitingHasRequest
  <2>4. QED
    BY <2>2, <2>3
<1>8. SettledByAnswer'
  <2>1. \A o \in Requests : status[o] = "delivered" => status'[o] = "delivered"
    BY <1>1, <1>3
  <2>2. \A c \in Builders : Taken(c)' \subseteq Taken(c)
    BY <1>2 DEF Taken
  <2>3. QED
    BY <2>1, <2>2, SettledStable DEF IInv
<1>9. QED
  BY <1>4, <1>5, <1>6, <1>7, <1>8 DEF IInv

\* An answer wakes every builder that listens for its kind.
LEMMA DeliverKeepsInv ==
    ASSUME IInv, TypeOK', Deliver
    PROVE  IInv'
<1> DEFINE a == Head(replies)
           q == a.req
           k == q.kind
<1>1. q \in Requests /\ k \in Kinds /\ status[q] # "unsent"
  <2>1. a \in [req : Requests, res : BOOLEAN] /\ a = replies[1] /\ 1 \in DOMAIN replies
    <3>1. replies \in Seq([req : Requests, res : BOOLEAN]) /\ replies # <<>>
      BY DEF Deliver, IInv, TypeOK
    <3>2. QED
      BY <3>1, QueueTypes
  <2>2. QED
    BY <2>1 DEF IInv, QueueSent, Requests
<1>2. \A b \in Builders : pc'[b] = IF pc[b] = k THEN Resume(k, a.res) ELSE pc[b]
  BY DEF Deliver, MoveTo, Hears
<1>3. \A o \in Requests : status'[o] = IF o = q THEN "delivered" ELSE status[o]
  BY <1>1 DEF Deliver, IInv, TypeOK
<1>4. replies' = Tail(replies)
  BY DEF Deliver
<1>5. \A r \in Rounds : step'[r] = "idle" => step[r] = "idle"
  BY MoveToIdle DEF Deliver, IInv
<1> HIDE DEF a, q, k
<1>6. IdleUntouched'
  <2>1. SUFFICES ASSUME NEW r \in Rounds, step'[r] = "idle"
                 PROVE  /\ \A c \in Builders : c[1] = r => pc'[c] \in {"none", "gone"}
                        /\ \A o \in Requests : o.round = r => status'[o] = "unsent"
    BY DEF IdleUntouched
  <2>2. step[r] = "idle"
    BY <1>5, <2>1
  <2>3. q.round # r
    BY <1>1, <2>2 DEF IInv, IdleUntouched
  <2>4. QED
    BY <1>1, <1>2, <1>3, <2>2, <2>3 DEF IInv, IdleUntouched, Kinds
<1>7. NotYetSent'
  <2>1. SUFFICES ASSUME NEW b \in Builders
                 PROVE  /\ pc'[b] = "cmdline" =>
                             b[2] \notin Bootable /\ status'[Request(b, "ext4")] = "unsent"
                        /\ pc'[b] \in {"ramdisk", "reading"} =>
                             b[2] \in Bootable /\ status'[Request(b, "bootable")] = "unsent"
    BY DEF NotYetSent
  <2>2. /\ pc'[b] = "cmdline" => pc[b] = "cmdline"
        /\ pc'[b] \in {"ramdisk", "reading"} => pc[b] \in {"ramdisk", "reading"}
    BY <1>1, <1>2 DEF Resume, Kinds
  <2>3. b[2] \notin Bootable => Request(b, "ext4") \in Requests
    BY RequestType DEF Kinds
  <2>4. b[2] \in Bootable => Request(b, "bootable") \in Requests
    BY RequestType DEF Kinds
  <2>5. QED
    BY <1>1, <1>3, <2>2, <2>3, <2>4 DEF IInv, NotYetSent
<1>8. QueueSent'
  <2>1. \A i \in DOMAIN replies' : i + 1 \in DOMAIN replies /\ replies'[i] = replies[i + 1]
    BY <1>4, QueueTypes DEF Deliver, IInv, TypeOK
  <2>2. \A i \in DOMAIN replies : replies[i].req \in Requests
    <3>1. \A i \in DOMAIN replies : replies[i] \in [req : Requests, res : BOOLEAN]
      BY QueueElements DEF IInv, TypeOK
    <3>2. QED
      BY <3>1
  <2>3. QED
    BY <1>3, <2>1, <2>2 DEF IInv, QueueSent
<1>9. WaitingHasRequest'
  <2>1. SUFFICES ASSUME NEW b \in Builders, NEW l \in Kinds, pc'[b] = l
                 PROVE  Request(b, l) \in Requests /\ status'[Request(b, l)] \notin {"unsent", "delivered"}
    BY DEF WaitingHasRequest
  <2>2. pc[b] = l /\ l # k
    BY <1>2, <2>1 DEF Resume, Kinds
  <2>3. Request(b, l) # q
    BY <2>2, RequestIdentity DEF k
  <2>4. QED
    BY <1>3, <2>2, <2>3 DEF IInv, WaitingHasRequest
<1>10. SettledByAnswer'
  <2>1. SUFFICES ASSUME NEW b \in Builders, NEW l \in Taken(b)'
                 PROVE  \E o \in Requests : o.kind = l /\ status'[o] = "delivered"
    BY DEF SettledByAnswer
  <2>2. l \in Taken(b) \/ l = k
    <3>1. CASE pc[b] # k
      BY <1>2, <2>1, <3>1 DEF Taken
    <3>2. CASE pc[b] = k
      <4>1. Request(b, k) \in Requests
        BY <1>1, <3>2 DEF IInv, WaitingHasRequest
      <4>2. (k = "ext4") <=> (b[2] \notin Bootable)
        BY <4>1 DEF Requests, Request
      <4>3. pc'[b] = Resume(k, a.res)
        BY <1>2, <3>2
      <4>4. QED
        BY <1>1, <2>1, <3>2, <4>2, <4>3 DEF Taken, Resume, Kinds
    <3>3. QED
      BY <3>1, <3>2
  <2>3. CASE l = k
    BY <1>1, <1>3, <2>3 DEF k
  <2>4. CASE l \in Taken(b)
    BY <1>3, <2>4 DEF IInv, SettledByAnswer
  <2>5. QED
    BY <2>2, <2>3, <2>4
<1>11. QED
  BY <1>6, <1>7, <1>8, <1>9, <1>10 DEF IInv

\* A round that starts sends the ramdisk requests for the first time.
LEMMA StartKeepsInv ==
    ASSUME IInv, TypeOK', NEW r \in Rounds, NEW fstab, NEW wipe, NEW bare, Start(r, fstab, wipe, bare)
    PROVE  IInv'
<1> DEFINE started == Started(fstab, wipe)
           stage(i) == FirstStage(i, fstab, bare)
           sent(o) == /\ o.round = r /\ o.image \in started
                      /\ o.kind = "ramdisk" /\ stage(o.image) = "ramdisk"
<1>1. /\ step[r] = "idle"
      /\ \A b \in Builders : b[1] = r => pc[b] \in {"none", "gone"}
      /\ \A o \in Requests : o.round = r => status[o] = "unsent"
  BY DEF Start, IInv, IdleUntouched
<1>2. \A b \in Builders : pc'[b] = IF b[1] = r /\ b[2] \in started THEN stage(b[2]) ELSE pc[b]
  BY DEF Start
<1>3. \A o \in Requests : status'[o] = IF sent(o) THEN "sent" ELSE status[o]
  BY DEF Start
<1>4. /\ replies' = replies
      /\ \A s \in Rounds : step'[s] = "idle" => s # r /\ step[s] = "idle"
  BY DEF Start, IInv, TypeOK
<1>5. \A b \in Builders :
        /\ stage(b[2]) \in {"cmdline", "failed", "ramdisk"}
        /\ stage(b[2]) = "cmdline" => b[2] \notin Bootable
        /\ stage(b[2]) = "ramdisk" => b[2] \in Bootable
  BY DEF FirstStage, Builders
<1> HIDE DEF started, stage
<1>6. IdleUntouched'
  BY <1>2, <1>3, <1>4 DEF IInv, IdleUntouched
<1>7. NotYetSent'
  <2>1. SUFFICES ASSUME NEW b \in Builders
                 PROVE  /\ pc'[b] = "cmdline" =>
                             b[2] \notin Bootable /\ status'[Request(b, "ext4")] = "unsent"
                        /\ pc'[b] \in {"ramdisk", "reading"} =>
                             b[2] \in Bootable /\ status'[Request(b, "bootable")] = "unsent"
    BY DEF NotYetSent
  <2>2. /\ b[2] \notin Bootable => Request(b, "ext4") \in Requests
        /\ b[2] \in Bootable => Request(b, "bootable") \in Requests
    BY RequestType DEF Kinds
  <2>3. \A k : Request(b, k).kind = k /\ Request(b, k).round = b[1]
    BY RequestIdentity
  <2>4. CASE b[1] = r /\ b[2] \in started
    BY <1>1, <1>2, <1>3, <1>5, <2>2, <2>3, <2>4
  <2>5. CASE ~(b[1] = r /\ b[2] \in started)
    BY <1>2, <1>3, <2>2, <2>3, <2>5 DEF IInv, NotYetSent
  <2>6. QED
    BY <2>4, <2>5
<1>8. QueueSent'
  <2>1. \A i \in DOMAIN replies : replies[i].req \in Requests
    <3>1. \A i \in DOMAIN replies : replies[i] \in [req : Requests, res : BOOLEAN]
      BY QueueElements DEF IInv, TypeOK
    <3>2. QED
      BY <3>1
  <2>2. QED
    BY <1>3, <1>4, <2>1 DEF IInv, QueueSent
<1>9. WaitingHasRequest'
  <2>1. SUFFICES ASSUME NEW b \in Builders, NEW k \in Kinds, pc'[b] = k
                 PROVE  Request(b, k) \in Requests /\ status'[Request(b, k)] \notin {"unsent", "delivered"}
    BY DEF WaitingHasRequest
  <2>2. CASE b[1] = r /\ b[2] \in started
    <3>1. k = "ramdisk" /\ b[2] \in Bootable /\ stage(b[2]) = "ramdisk"
      BY <1>2, <1>5, <2>1, <2>2 DEF Kinds
    <3>2. Request(b, k) \in Requests
      BY <3>1, RequestType DEF Kinds
    <3>3. sent(Request(b, k))
      BY <2>2, <3>1 DEF Request
    <3>4. QED
      BY <1>3, <3>2, <3>3
  <2>3. CASE ~(b[1] = r /\ b[2] \in started)
    <3>1. pc[b] = k
      BY <1>2, <2>1, <2>3
    <3>2. Request(b, k) \in Requests /\ status[Request(b, k)] \notin {"unsent", "delivered"}
      BY <3>1 DEF IInv, WaitingHasRequest
    <3>3. QED
      BY <1>3, <3>2
  <2>4. QED
    BY <2>2, <2>3
<1>10. SettledByAnswer'
  <2>1. \A o \in Requests : status[o] = "delivered" => status'[o] = "delivered"
    BY <1>1, <1>3
  <2>2. \A b \in Builders : Taken(b)' \subseteq Taken(b)
    BY <1>2, <1>5 DEF Taken
  <2>3. QED
    BY <2>1, <2>2, SettledStable DEF IInv
<1>11. QED
  BY <1>6, <1>7, <1>8, <1>9, <1>10 DEF IInv

LEMMA CloseKeepsInv ==
    ASSUME IInv, TypeOK', NEW p \in Pages, ClosePage(p) \/ LeavePage(p)
    PROVE  IInv'
<1>1. /\ \A b \in Builders : pc'[b] = "gone" \/ pc'[b] = pc[b]
      /\ step' = step /\ replies' = replies
  BY DEF ClosePage, LeavePage, Closed
<1>2. \A o \in Requests :
        \/ status'[o] = status[o]
        \/ status[o] = "sent" /\ status'[o] \in {"running", "silent"}
  BY DEF ClosePage, LeavePage, Closed, FlushedByCleanup, Dispatch
<1>3. \A b \in Builders : /\ b[2] \notin Bootable => Request(b, "ext4") \in Requests
                          /\ b[2] \in Bootable => Request(b, "bootable") \in Requests
  BY RequestType DEF Kinds
<1>4. IdleUntouched'
  BY <1>1, <1>2 DEF IInv, IdleUntouched
<1>5. NotYetSent'
  BY <1>1, <1>2, <1>3 DEF IInv, NotYetSent
<1>6. QueueSent'
  <2>1. \A i \in DOMAIN replies : replies[i] \in [req : Requests, res : BOOLEAN]
    BY QueueElements DEF IInv, TypeOK
  <2>2. QED
    BY <1>1, <1>2, <2>1 DEF IInv, QueueSent
<1>7. WaitingHasRequest'
  BY <1>1, <1>2 DEF IInv, WaitingHasRequest, Kinds
<1>8. SettledByAnswer'
  <2>1. \A b \in Builders : Taken(b)' \subseteq Taken(b)
    BY <1>1 DEF Taken
  <2>2. QED
    BY <1>2, <2>1, SettledStable DEF IInv
<1>9. QED
  BY <1>4, <1>5, <1>6, <1>7, <1>8 DEF IInv

\* A builder that cannot read its files fails, and sends nothing.
LEMMA ReadFailsKeepsInv ==
    ASSUME IInv, TypeOK', NEW b \in Builders, ReadBootFilesFails(b)
    PROVE  IInv'
<1>1. /\ pc' = [pc EXCEPT ![b] = "failed"] /\ pc \in [Builders -> Stages]
      /\ pc[b] = "reading" /\ status' = status /\ replies' = replies
  BY DEF ReadBootFilesFails, MoveTo, IInv, TypeOK
<1>2. \A r \in Rounds : step'[r] = "idle" => step[r] = "idle"
  BY MoveToIdle DEF ReadBootFilesFails, IInv
<1>3. IdleUntouched'
  BY <1>1, <1>2 DEF IInv, IdleUntouched
<1>4. NotYetSent'
  BY <1>1 DEF IInv, NotYetSent
<1>5. QueueSent'
  BY <1>1 DEF IInv, QueueSent
<1>6. WaitingHasRequest'
  BY <1>1 DEF IInv, WaitingHasRequest, Kinds
<1>7. SettledByAnswer'
  <2>1. \A c \in Builders : Taken(c)' \subseteq Taken(c)
    BY <1>1 DEF Taken
  <2>2. QED
    BY <1>1, <2>1, SettledStable DEF IInv
<1>8. QED
  BY <1>3, <1>4, <1>5, <1>6, <1>7 DEF IInv

\* Steps that touch neither builders nor requests, nor make a round idle.
LEMMA QuietKeepsInv ==
    ASSUME IInv, TypeOK', UNCHANGED <<pc, status, replies>>,
           \A r \in Rounds : step'[r] = "idle" => step[r] = "idle"
    PROVE  IInv'
<1>1. SettledByAnswer'
  BY DEF IInv, SettledByAnswer, Taken
<1>2. QED
  BY <1>1 DEF IInv, IdleUntouched, NotYetSent, QueueSent, WaitingHasRequest

LEMMA InvInit == Init => IInv
<1> SUFFICES ASSUME Init
             PROVE  IInv
  OBVIOUS
<1>1. /\ \A b \in Builders : pc[b] = "none"
      /\ \A q \in Requests : status[q] = "unsent"
      /\ replies = <<>>
  BY DEF Init
<1>2. TypeOK
  BY TypeInit
<1>3. IdleUntouched /\ NotYetSent /\ WaitingHasRequest
  BY <1>1 DEF IdleUntouched, NotYetSent, WaitingHasRequest, Kinds
<1>4. QueueSent
  BY <1>1 DEF QueueSent
<1>5. SettledByAnswer
  BY <1>1 DEF SettledByAnswer, Taken
<1>6. QED
  BY <1>2, <1>3, <1>4, <1>5 DEF IInv

LEMMA InvStep == IInv /\ [Next]_vars => IInv'
<1> SUFFICES ASSUME IInv, [Next]_vars
             PROVE  IInv'
  OBVIOUS
<1>1. TypeOK'
  BY TypeStep DEF IInv
<1>2. ASSUME NEW p \in Pages, OpenPage(p)
      PROVE  IInv'
  BY <1>1, <1>2, QuietKeepsInv DEF OpenPage
<1>3. ASSUME NEW p \in Pages, ClosePage(p) \/ LeavePage(p)
      PROVE  IInv'
  BY <1>1, <1>3, CloseKeepsInv
<1>4. ASSUME NEW r \in Rounds, NEW fstab \in Fstabs[r], NEW wipe \in Wipes[r],
             NEW bare \in SUBSET Bootable, Start(r, fstab, wipe, bare)
      PROVE  IInv'
  BY <1>1, <1>4, StartKeepsInv
<1>5. ASSUME NEW r \in Rounds, NEW ok \in BOOLEAN, EndInstall(r, ok)
      PROVE  IInv'
  <2>1. \A s \in Rounds : step'[s] = "idle" => step[s] = "idle"
    BY <1>5 DEF EndInstall, IInv, TypeOK
  <2>2. QED
    BY <1>1, <1>5, <2>1, QuietKeepsInv DEF EndInstall
<1>6. ASSUME NEW b \in Builders, ReadCmdline(b) \/ ReadBootFiles(b)
      PROVE  IInv'
  BY <1>1, <1>6, SendKeepsInv DEF ReadCmdline, ReadBootFiles
<1>7. ASSUME NEW b \in Builders, ReadBootFilesFails(b)
      PROVE  IInv'
  BY <1>1, <1>7, ReadFailsKeepsInv
<1>8. ASSUME NEW q \in Requests,
             \/ Receive(q) \/ Open(q) \/ FailsEarly(q) \/ FailsLate(q)
             \/ WriteFails(q) \/ Finish(q) \/ Done(q)
      PROVE  IInv'
  <2>1. ToolEffect
    BY <1>8, ToolSteps DEF IInv
  <2>2. QED
    BY <1>1, <2>1, ToolKeepsInv
<1>9. CASE Deliver
  BY <1>1, <1>9, DeliverKeepsInv
<1>10. CASE UNCHANGED vars
  BY <1>1, <1>10, QuietKeepsInv DEF vars
<1>11. QED
  BY <1>2, <1>3, <1>4, <1>5, <1>6, <1>7, <1>8, <1>9, <1>10 DEF Next, User, Progress

\* No builder is ever stranded by the anonymous answers: one that waits still has
\* its own request outstanding.
THEOREM NeverStranded == Spec => []WaitingHasRequest
<1>1. IInv => WaitingHasRequest
  BY DEF IInv
<1>2. QED
  BY <1>1, InvInit, InvStep, PTL DEF Spec

\* No builder gets past a tool's stage before some tool of that kind was answered.
THEOREM NeverUnanswered == Spec => []SettledByAnswer
<1>1. IInv => SettledByAnswer
  BY DEF IInv
<1>2. QED
  BY <1>1, InvInit, InvStep, PTL DEF Spec

--------------------------------------------------------------------------------
(* Who listens.  With one page open at a time the main process has listeners  *)
(* whenever one is open, so that no request finds nobody.                     *)

OneOpen == \A p, o \in Pages : page[p] = "open" /\ page[o] = "open" => p = o

\* A builder runs in the page of its round, and goes with it.
Attached == \A b \in Builders : pc[b] \notin {"none", "gone"} => page[PageOf[b[1]]] = "open"

\* The main process listens while a request is on its way.
SentHeard == \A q \in Requests : status[q] = "sent" => serving

ServeInv == OneOpen /\ ServedWhenOpen /\ Attached /\ SentHeard

--------------------------------------------------------------------------------
(* What the tools leave behind.                                              *)

\* Answers in the queue are to requests that have been answered, once or twice.
QueueAnswered == \A i \in DOMAIN replies : status[replies[i].req] \in {"replied", "delivered"}

\* A tool that has opened its output leaves a file: a tool that does not fail
\* unlinks none.
Begun(q) == \/ status[q] \in {"writing", "spoiling"}
            \/ /\ q.kind # "bootable"
               /\ status[q] \notin {"unsent", "sent", "running", "silent"}

Written == \A q \in Requests : Begun(q) => file[Output(q)] # "absent"

\* A bootable image is asked for when some ramdisk has been answered.
AfterRamdisk ==
    \A q \in Requests : q.kind = "bootable" /\ status[q] # "unsent" =>
        \E o \in Requests : o.kind = "ramdisk" /\ status[o] = "delivered"

\* The ramdisk of another image has been answered.
MixedUp(q) ==
    \E o \in Requests : /\ o.kind = "ramdisk" /\ status[o] = "delivered"
                        /\ <<o.round, o.image>> # <<q.round, q.image>>

\* mkbootimg has made its file, or had no ramdisk to load.
Exited ==
    \A q \in Requests : q.kind = "bootable" /\ status[q] = "exited" =>
        file[Output(q)] # "absent" \/ MixedUp(q)

Silent == \A q \in Requests : status[q] = "silent" => q.kind = "bootable" /\ MixedUp(q)

SilenceInv == QueueAnswered /\ Written /\ AfterRamdisk /\ Exited /\ Silent

--------------------------------------------------------------------------------
(* The image of the system, when nobody else asks for a filesystem.          *)

SystemFile == <<"image", "system">>
SystemRequest(r) == [round |-> r, image |-> "system", kind |-> "ext4"]
DataRequest(r) == [round |-> r, image |-> "data", kind |-> "ext4"]

Alone(r) ==
    /\ "tool" \notin Faults
    /\ \A q \in Requests : q.kind = "ext4" /\ q.round # r => status[q] = "unsent"

\* make_ext4fs has the file to itself, and its exit leaves it whole.
SystemWritten ==
    \A r \in Rounds : Alone(r) =>
        /\ status[SystemRequest(r)] \notin {"spoiling", "unwritten"}
        /\ status[SystemRequest(r)] \in {"exited", "replied", "delivered"} => file[SystemFile] = r

\* The builder of data is not there, and its request not sent, in a round without.
DataUnasked ==
    \A r \in Rounds : "data" \notin toBuild[r] =>
        pc[<<r, "data">>] \in {"none", "gone"} /\ status[DataRequest(r)] = "unsent"

\* All images wanted have their builders; imageStep() resolves after an answer.
AllStarted ==
    \A r \in Rounds :
        /\ step[r] \in {"creating", "created"} => "system" \in toBuild[r]
        /\ step[r] = "created" => \E q \in Requests : q.kind = "ext4" /\ status[q] = "delivered"

SystemInv == QueueAnswered /\ SystemWritten /\ DataUnasked /\ AllStarted

--------------------------------------------------------------------------------
(* What every step respects.                                                 *)

\* No request is taken back, and an answered one stays so.
Forward ==
    \A o \in Requests :
        /\ status[o] # "unsent" => status'[o] # "unsent"
        /\ status[o] \in {"replied", "delivered"} => status'[o] \in {"replied", "delivered"}
        /\ status[o] = "delivered" => status'[o] = "delivered"

\* The request the first answer in the queue is to.
LEMMA FirstAnswer ==
    ASSUME TypeOK, Deliver
    PROVE  /\ Head(replies).req \in Requests /\ Head(replies).res \in BOOLEAN
           /\ 1 \in DOMAIN replies /\ Head(replies) = replies[1]
           /\ \A o \in Requests :
                 status'[o] = IF o = Head(replies).req THEN "delivered" ELSE status[o]
           /\ \A i \in DOMAIN replies' :
                 i + 1 \in DOMAIN replies /\ replies'[i] = replies[i + 1]
           /\ \A i \in DOMAIN replies : replies[i].req \in Requests
<1>1. replies \in Seq([req : Requests, res : BOOLEAN]) /\ replies # <<>>
      /\ replies' = Tail(replies)
  BY DEF Deliver, TypeOK
<1>2. Head(replies) \in [req : Requests, res : BOOLEAN] /\ Head(replies) = replies[1]
      /\ 1 \in DOMAIN replies
      /\ \A i \in DOMAIN replies' : i + 1 \in DOMAIN replies /\ replies'[i] = replies[i + 1]
  BY <1>1, QueueTypes
<1>3. \A i \in DOMAIN replies : replies[i] \in [req : Requests, res : BOOLEAN]
  BY <1>1, QueueElements
<1>4. status' = [status EXCEPT ![Head(replies).req] = "delivered"]
      /\ status \in [Requests -> Statuses]
  BY DEF Deliver, TypeOK
<1>5. QED
  BY <1>2, <1>3, <1>4

LEMMA RequestSent ==
    ASSUME IInv, NEW b \in Builders, ReadCmdline(b) \/ ReadBootFiles(b)
    PROVE  \E q \in Requests :
              /\ status[q] = "unsent" /\ q.round = b[1] /\ q.image = b[2]
              /\ q.kind = IF ReadCmdline(b) THEN "ext4" ELSE "bootable"
              /\ \A o \in Requests : status'[o] = IF o = q THEN "sent" ELSE status[o]
<1>1. CASE ReadCmdline(b)
  <2>1. Request(b, "ext4") \in Requests /\ status[Request(b, "ext4")] = "unsent"
    BY <1>1, RequestType DEF ReadCmdline, IInv, NotYetSent, Kinds
  <2>2. status' = [status EXCEPT ![Request(b, "ext4")] = "sent"]
    BY <1>1 DEF ReadCmdline
  <2>3. QED
    BY <1>1, <2>1, <2>2 DEF IInv, TypeOK, Request
<1>2. CASE ~ReadCmdline(b)
  <2>1. Request(b, "bootable") \in Requests /\ status[Request(b, "bootable")] = "unsent"
    BY <1>2, RequestType DEF ReadBootFiles, IInv, NotYetSent, Kinds
  <2>2. status' = [status EXCEPT ![Request(b, "bootable")] = "sent"]
    BY <1>2 DEF ReadBootFiles
  <2>3. QED
    BY <1>2, <2>1, <2>2 DEF IInv, TypeOK, Request
<1>3. QED
  BY <1>1, <1>2

\* A round that starts sends requests for ramdisks only.
LEMMA StartSends ==
    ASSUME IInv, NEW r \in Rounds, NEW fstab, NEW wipe, NEW bare, Start(r, fstab, wipe, bare)
    PROVE  /\ step[r] = "idle" /\ page[PageOf[r]] = "open"
           /\ \A o \in Requests :
                 \/ status'[o] = status[o]
                 \/ o.kind = "ramdisk" /\ status[o] = "unsent" /\ status'[o] = "sent"
BY DEF Start, IInv, IdleUntouched

LEMMA CleanupFlushes ==
    ASSUME IInv, NEW p \in Pages, ClosePage(p) \/ LeavePage(p)
    PROVE  \A o \in Requests :
              \/ status'[o] = status[o]
              \/ status[o] = "sent" /\ status'[o] = Dispatch(o)
BY DEF ClosePage, LeavePage, FlushedByCleanup

LEMMA GoesForward ==
    ASSUME IInv, [Next]_vars
    PROVE  Forward
<1>1. ASSUME NEW p \in Pages, OpenPage(p)
      PROVE  Forward
  BY <1>1 DEF OpenPage, Forward
<1>2. ASSUME NEW p \in Pages, ClosePage(p) \/ LeavePage(p)
      PROVE  Forward
  BY <1>2, CleanupFlushes, StageTypes DEF Forward
<1>3. ASSUME NEW r \in Rounds, NEW fstab \in Fstabs[r], NEW wipe \in Wipes[r],
             NEW bare \in SUBSET Bootable, Start(r, fstab, wipe, bare)
      PROVE  Forward
  BY <1>3, StartSends DEF Forward
<1>4. ASSUME NEW r \in Rounds, NEW ok \in BOOLEAN, EndInstall(r, ok)
      PROVE  Forward
  BY <1>4 DEF EndInstall, Forward
<1>5. ASSUME NEW b \in Builders, ReadCmdline(b) \/ ReadBootFiles(b)
      PROVE  Forward
  BY <1>5, RequestSent DEF Forward
<1>6. ASSUME NEW b \in Builders, ReadBootFilesFails(b)
      PROVE  Forward
  BY <1>6 DEF ReadBootFilesFails, Forward
<1>7. ASSUME NEW q \in Requests,
             \/ Receive(q) \/ Open(q) \/ FailsEarly(q) \/ FailsLate(q)
             \/ WriteFails(q) \/ Finish(q) \/ Done(q)
      PROVE  Forward
  <2>1. status \in [Requests -> Statuses]
    BY DEF IInv, TypeOK
  <2>2. status[q] \in {"sent", "running", "writing", "spoiling", "exited", "unwritten"}
    BY <1>7 DEF Receive, Open, FailsEarly, FailsLate, WriteFails, Finish, Done
  <2>3. status'[q] # "unsent"
        /\ \A o \in Requests : o # q =>
              \/ status'[o] = status[o]
              \/ status[o] \in {"writing", "spoiling"} /\ status'[o] = "spoiling"
    <3>1. ASSUME NEW clean, OpenOutput(q, clean)
          PROVE  status'[q] \in {"writing", "spoiling"}
                 /\ \A o \in Requests : o # q =>
                       \/ status'[o] = status[o]
                       \/ status[o] \in {"writing", "spoiling"} /\ status'[o] = "spoiling"
      BY <2>1, <3>1 DEF OpenOutput, Writers
    <3>2. CASE Open(q)
      BY <3>1, <3>2 DEF Open
    <3>3. CASE FailsEarly(q)
      BY <2>1, <3>1, <3>3 DEF FailsEarly
    <3>4. CASE Receive(q) \/ FailsLate(q) \/ WriteFails(q)
      BY <2>1, <3>4, StageTypes DEF Receive, FailsLate, WriteFails
    <3>5. CASE Finish(q) \/ Done(q)
      BY <2>1, <3>5 DEF Finish, Done, Answer
    <3>6. QED
      BY <1>7, <3>2, <3>3, <3>4, <3>5
  <2>4. QED
    BY <2>2, <2>3 DEF Forward
<1>8. CASE Deliver
  BY <1>8, FirstAnswer DEF Forward, IInv
<1>9. CASE UNCHANGED vars
  BY <1>9 DEF vars, Forward
<1>10. QED
  BY <1>1, <1>2, <1>3, <1>4, <1>5, <1>6, <1>7, <1>8, <1>9 DEF Next, User, Progress

\* A step concerns a file, or the queue of answers, or neither.
LEMMA FileOrQueue ==
    ASSUME [Next]_vars
    PROVE  \/ UNCHANGED <<file, replies>>
           \/ Deliver /\ UNCHANGED file
           \/ \E q \in Requests : Done(q) /\ UNCHANGED file
           \/ \E q \in Requests : /\ Open(q) \/ FailsEarly(q) \/ FailsLate(q) \/ Finish(q)
                                 /\ UNCHANGED replies
<1>1. ASSUME User PROVE UNCHANGED <<file, replies>>
  <2>1. ASSUME NEW p \in Pages, OpenPage(p) \/ ClosePage(p) \/ LeavePage(p)
        PROVE  UNCHANGED <<file, replies>>
    BY <2>1 DEF OpenPage, ClosePage, LeavePage, Closed
  <2>2. ASSUME NEW r \in Rounds, NEW fstab, NEW wipe, NEW bare, Start(r, fstab, wipe, bare)
        PROVE  UNCHANGED <<file, replies>>
    BY <2>2 DEF Start
  <2>3. ASSUME NEW r \in Rounds, NEW ok, EndInstall(r, ok)
        PROVE  UNCHANGED <<file, replies>>
    BY <2>3 DEF EndInstall
  <2>4. QED
    BY <1>1, <2>1, <2>2, <2>3 DEF User
<1>2. ASSUME NEW b \in Builders, ReadCmdline(b) \/ ReadBootFiles(b) \/ ReadBootFilesFails(b)
      PROVE  UNCHANGED <<file, replies>>
  BY <1>2 DEF ReadCmdline, ReadBootFiles, ReadBootFilesFails
<1>3. ASSUME NEW q \in Requests, Receive(q) \/ WriteFails(q)
      PROVE  UNCHANGED <<file, replies>>
  BY <1>3 DEF Receive, WriteFails
<1>4. \A q \in Requests : Done(q) => UNCHANGED file
  BY DEF Done
<1>5. Deliver => UNCHANGED file
  BY DEF Deliver
<1>6. ASSUME NEW q \in Requests, Open(q) \/ FailsEarly(q) \/ FailsLate(q) \/ Finish(q)
      PROVE  UNCHANGED replies
  BY <1>6 DEF Open, FailsEarly, FailsLate, Finish, OpenOutput
<1>7. CASE UNCHANGED vars
  BY <1>7 DEF vars
<1>8. CASE Next
  BY <1>1, <1>2, <1>3, <1>4, <1>5, <1>6, <1>8 DEF Next, Progress
<1>9. QED
  BY <1>7, <1>8

\* Only make_ext4fs and mkbootimg that fail unlink their output.
LEMMA FilesStay ==
    ASSUME IInv, [Next]_vars, "tool" \notin Faults
    PROVE  \A f \in Files : file[f] # "absent" => file'[f] # "absent"
<1>1. file \in [Files -> Contents]
  BY DEF IInv, TypeOK
<1>2. ASSUME NEW q \in Requests, Open(q) \/ FailsEarly(q)
      PROVE  \A f \in Files : file[f] # "absent" => file'[f] # "absent"
  BY <1>1, <1>2 DEF Open, FailsEarly, OpenOutput
<1>3. ASSUME NEW q \in Requests, Finish(q)
      PROVE  \A f \in Files : file[f] # "absent" => file'[f] # "absent"
  <2>1. q.round # "absent"
    BY RoundsAssumption DEF Requests
  <2>2. QED
    BY <1>1, <1>3, <2>1 DEF Finish
<1>4. ASSUME NEW q \in Requests, FailsLate(q)
      PROVE  FALSE
  BY <1>4 DEF FailsLate
<1>5. CASE UNCHANGED file
  BY <1>5
<1>6. QED
  BY <1>2, <1>3, <1>4, <1>5, FileOrQueue

--------------------------------------------------------------------------------
(* The main process listens.                                                 *)

LEMMA ServeInit == Init => ServeInv
BY DEF Init, ServeInv, OneOpen, ServedWhenOpen, Attached, SentHeard

\* Steps of a page that is open, and of the main process.
LEMMA ServeStable ==
    ASSUME ServeInv, UNCHANGED <<page, serving>>,
           \A b \in Builders :
              pc'[b] \notin {"none", "gone"} =>
                  pc[b] \notin {"none", "gone"} \/ page[PageOf[b[1]]] = "open",
           \A q \in Requests :
              status'[q] = "sent" =>
                  status[q] = "sent" \/ \E p \in Pages : page[p] = "open"
    PROVE  ServeInv'
BY DEF ServeInv, OneOpen, ServedWhenOpen, Attached, SentHeard

LEMMA PageOfBuilder == \A b \in Builders : PageOf[b[1]] \in Pages
BY DEF Builders

LEMMA ServeStep ==
    ASSUME IInv, ServeInv, [Next]_vars, MaxOpen <= 1
    PROVE  ServeInv'
<1> USE DEF ServeInv
<1>0. /\ page \in [Pages -> PageStates] /\ pc \in [Builders -> Stages]
      /\ status \in [Requests -> Statuses]
  BY DEF IInv, TypeOK
<1>1. ASSUME NEW p \in Pages, OpenPage(p)
      PROVE  ServeInv'
  <2> DEFINE open == {o \in Pages : page[o] = "open"}
  <2>1. open = {}
    <3>1. IsFiniteSet(open)
      <4>1. CASE open = {}
        BY <4>1, FS_EmptySet
      <4>2. CASE open # {}
        <5>1. PICK o \in Pages : page[o] = "open"
          BY <4>2
        <5>2. open = {o}
          BY <5>1 DEF OneOpen
        <5>3. QED
          BY <5>2, FS_Singleton
      <4>3. QED
        BY <4>1, <4>2
    <3>2. Cardinality(open) < MaxOpen /\ Cardinality(open) \in Nat
      BY <1>1, <3>1, FS_CardinalityType DEF OpenPage
    <3>3. Cardinality(open) = 0
      BY <3>2, MaxOpenAssumption
    <3>4. QED
      BY <3>1, <3>3, FS_EmptySet
  <2>2. /\ page' = [page EXCEPT ![p] = "open"] /\ page[p] = "unopened" /\ serving' = TRUE
        /\ pc' = pc /\ status' = status
    BY <1>1 DEF OpenPage, Inited
  <2>3. \A o \in Pages : page'[o] = "open" => o = p
    BY <1>0, <2>1, <2>2
  <2>4. OneOpen' /\ ServedWhenOpen' /\ SentHeard'
    BY <2>2, <2>3 DEF OneOpen, ServedWhenOpen, SentHeard
  <2>5. Attached'
    BY <1>0, <2>1, <2>2, PageOfBuilder DEF Attached
  <2>6. QED
    BY <2>4, <2>5
<1>2. ASSUME NEW p \in Pages, ClosePage(p) \/ LeavePage(p)
      PROVE  ServeInv'
  <2>1. /\ page' = [page EXCEPT ![p] = "closed"] /\ page[p] = "open"
        /\ pc' = [b \in Builders |-> IF PageOf[b[1]] = p THEN "gone" ELSE pc[b]]
    BY <1>2 DEF ClosePage, LeavePage, Closed
  <2>2. \A o \in Pages : page'[o] # "open"
    BY <1>0, <2>1 DEF OneOpen
  <2>3. OneOpen' /\ ServedWhenOpen'
    BY <2>2 DEF OneOpen, ServedWhenOpen
  <2>4. Attached'
    BY <1>0, <2>1, PageOfBuilder DEF Attached, OneOpen
  <2>5. SentHeard'
    <3>1. CASE ClosePage(p)
      BY <3>1, StageTypes DEF ClosePage, FlushedByCleanup, SentHeard
    <3>2. CASE LeavePage(p)
      BY <3>2 DEF LeavePage, SentHeard
    <3>3. QED
      BY <1>2, <3>1, <3>2
  <2>6. QED
    BY <2>3, <2>4, <2>5
<1>3. ASSUME NEW r \in Rounds, NEW fstab \in Fstabs[r], NEW wipe \in Wipes[r],
             NEW bare \in SUBSET Bootable, Start(r, fstab, wipe, bare)
      PROVE  ServeInv'
  <2>1. page[PageOf[r]] = "open" /\ PageOf[r] \in Pages /\ UNCHANGED <<page, serving>>
    BY <1>3 DEF Start
  <2>2. \A b \in Builders : b[1] = r \/ pc'[b] = pc[b]
    BY <1>3 DEF Start
  <2>3. QED
    BY <2>1, <2>2, ServeStable
<1>4. ASSUME NEW r \in Rounds, NEW ok \in BOOLEAN, EndInstall(r, ok)
      PROVE  ServeInv'
  BY <1>4, ServeStable DEF EndInstall
<1>5. ASSUME NEW b \in Builders, ReadCmdline(b) \/ ReadBootFiles(b) \/ ReadBootFilesFails(b)
      PROVE  ServeInv'
  <2>1. pc[b] \in {"cmdline", "reading"} /\ UNCHANGED <<page, serving>>
    BY <1>5 DEF ReadCmdline, ReadBootFiles, ReadBootFilesFails
  <2>2. page[PageOf[b[1]]] = "open" /\ PageOf[b[1]] \in Pages
    BY <2>1, PageOfBuilder DEF Attached
  <2>3. \A c \in Builders : c = b \/ pc'[c] = pc[c]
    BY <1>0, <1>5 DEF ReadCmdline, ReadBootFiles, ReadBootFilesFails, MoveTo
  <2>4. QED
    BY <2>1, <2>2, <2>3, ServeStable
<1>6. ASSUME NEW q \in Requests,
             \/ Receive(q) \/ Open(q) \/ FailsEarly(q) \/ FailsLate(q)
             \/ WriteFails(q) \/ Finish(q) \/ Done(q)
      PROVE  ServeInv'
  <2>1. UNCHANGED <<page, serving, pc>>
    BY <1>6 DEF Receive, Open, FailsEarly, FailsLate, WriteFails, Finish, Done, OpenOutput
  <2>2. \A o \in Requests : status'[o] = "sent" => status[o] = "sent"
    BY <1>0, <1>6, StageTypes DEF Receive, Open, FailsEarly, FailsLate, WriteFails, Finish,
          Done, OpenOutput, Writers, Answer
  <2>3. QED
    BY <2>1, <2>2, ServeStable
<1>7. CASE Deliver
  <2>1. \A b \in Builders : pc'[b] # pc[b] => pc[b] \in Kinds
    <3>1. Head(replies).req.kind \in Kinds
      BY <1>7, FirstAnswer DEF IInv, Requests
    <3>2. QED
      BY <1>7, <3>1 DEF Deliver, MoveTo, Hears
  <2>2. \A o \in Requests : status'[o] = "sent" => status[o] = "sent"
    BY <1>7, FirstAnswer DEF IInv
  <2>3. UNCHANGED <<page, serving>>
    BY <1>7 DEF Deliver
  <2>4. QED
    BY <2>1, <2>2, <2>3, ServeStable DEF Kinds
<1>8. CASE UNCHANGED vars
  BY <1>8, ServeStable DEF vars
<1>9. QED
  BY <1>1, <1>2, <1>3, <1>4, <1>5, <1>6, <1>7, <1>8 DEF Next, User, Progress

\* With one page open at a time the Cleanup of a page that is closed never leaves
\* the page that is opened without the listeners of imagingTools.
THEOREM AlwaysServed ==
    ASSUME MaxOpen <= 1
    PROVE  Spec => []ServedWhenOpen
<1>1. Init => IInv /\ ServeInv
  BY InvInit, ServeInit
<1>2. IInv /\ ServeInv /\ [Next]_vars => IInv' /\ ServeInv'
  BY InvStep, ServeStep
<1>3. ServeInv => ServedWhenOpen
  BY DEF ServeInv
<1>4. QED
  BY <1>1, <1>2, <1>3, PTL DEF Spec

--------------------------------------------------------------------------------
(* Requests without an answer.                                               *)

LEMMA QueueAnsweredStep ==
    ASSUME IInv, QueueAnswered, [Next]_vars
    PROVE  QueueAnswered'
<1>1. Forward
  BY GoesForward
<1>2. \A i \in DOMAIN replies : replies[i].req \in Requests
  <2>1. \A i \in DOMAIN replies : replies[i] \in [req : Requests, res : BOOLEAN]
    BY QueueElements DEF IInv, TypeOK
  <2>2. QED
    BY <2>1
<1>3. CASE replies' = replies
  BY <1>1, <1>2, <1>3 DEF QueueAnswered, Forward
<1>4. CASE Deliver
  BY <1>1, <1>2, <1>4, FirstAnswer DEF QueueAnswered, Forward, IInv
<1>5. ASSUME NEW q \in Requests, Done(q), ~NoAnswer(q)
      PROVE  QueueAnswered'
  <2> DEFINE Answers == [req : Requests, res : BOOLEAN]
             a == [req |-> q, res |-> status[q] = "exited"]
  <2>1. replies' = Append(replies, a) /\ status' = [status EXCEPT ![q] = "replied"]
    BY <1>5 DEF Done, Answer
  <2>2. status'[q] = "replied"
    BY <2>1 DEF IInv, TypeOK
  <2>3. a \in Answers /\ a.req = q
    OBVIOUS
  <2>4. replies \in Seq(Answers)
    BY DEF IInv, TypeOK
  <2> HIDE DEF a, Answers
  <2>5. \A i \in DOMAIN replies' :
           replies'[i] = a \/ (i \in DOMAIN replies /\ replies'[i] = replies[i])
    BY <2>1, <2>3, <2>4
  <2>6. QED
    BY <1>1, <1>2, <2>2, <2>3, <2>5 DEF QueueAnswered, Forward
<1>6. CASE \E q \in Requests : Done(q) /\ NoAnswer(q)
  BY <1>3, <1>6 DEF Done
<1>7. QED
  BY <1>3, <1>4, <1>5, <1>6, FileOrQueue

\* What a step may do to a request with nothing to be said of it: it is sent or
\* received, or its output spoiled.
Ordinary(o) ==
    \/ status'[o] = status[o]
    \/ /\ status[o] = "unsent" /\ status'[o] = "sent"
       /\ o.kind = "bootable" =>
             \E s \in Requests : s.kind = "ramdisk" /\ status[s] = "delivered"
    \/ status[o] = "sent" /\ status'[o] = "running"
    \/ status[o] = "writing" /\ status'[o] = "spoiling"

\* What is to be shown of another.
Accounted(o) ==
    /\ status[o] # "unsent"
    /\ Begun(o)' => file'[Output(o)] # "absent"
    /\ o.kind = "bootable" /\ status'[o] = "exited" =>
          file'[Output(o)] # "absent" \/ MixedUp(o)
    /\ status'[o] = "silent" => o.kind = "bootable" /\ MixedUp(o)

LEMMA SilenceStable ==
    ASSUME IInv, SilenceInv, Forward, QueueAnswered',
           \A f \in Files : file[f] # "absent" => file'[f] # "absent",
           \A o \in Requests : Ordinary(o) \/ Accounted(o)
    PROVE  SilenceInv'
<1> USE DEF SilenceInv
<1>1. ASSUME NEW q, MixedUp(q) PROVE MixedUp(q)'
  BY <1>1 DEF MixedUp, Forward
<1>2. Written'
  <2> SUFFICES ASSUME NEW q \in Requests, Begun(q)' PROVE file'[Output(q)] # "absent"
    BY DEF Written
  <2>1. Ordinary(q) => Begun(q)
    BY DEF Ordinary, Begun
  <2>2. QED
    BY <2>1, OutputType DEF Written, Accounted
<1>3. AfterRamdisk'
  <2> SUFFICES ASSUME NEW q \in Requests, q.kind = "bootable", status'[q] # "unsent"
               PROVE  \E o \in Requests : o.kind = "ramdisk" /\ status'[o] = "delivered"
    BY DEF AfterRamdisk
  <2>1. \E o \in Requests : o.kind = "ramdisk" /\ status[o] = "delivered"
    BY DEF AfterRamdisk, Ordinary, Accounted
  <2>2. QED
    BY <2>1 DEF Forward
<1>4. Exited'
  <2> SUFFICES ASSUME NEW q \in Requests, q.kind = "bootable", status'[q] = "exited"
               PROVE  file'[Output(q)] # "absent" \/ MixedUp(q)'
    BY DEF Exited
  <2>1. CASE Accounted(q)
    BY <1>1, <2>1 DEF Accounted
  <2>2. CASE Ordinary(q)
    BY <1>1, <2>2, OutputType DEF Ordinary, Exited
  <2>3. QED
    BY <2>1, <2>2
<1>5. Silent'
  <2> SUFFICES ASSUME NEW q \in Requests, status'[q] = "silent"
               PROVE  q.kind = "bootable" /\ MixedUp(q)'
    BY DEF Silent
  <2>1. q.kind = "bootable" /\ MixedUp(q)
    BY DEF Ordinary, Accounted, Silent
  <2>2. QED
    BY <1>1, <2>1
<1>6. QED
  BY <1>2, <1>3, <1>4, <1>5

\* The ramdisk request that goes with one for a bootable image.
LEMMA OwnRamdisk ==
    ASSUME NEW q \in Requests, q.kind = "bootable"
    PROVE  /\ [q EXCEPT !.kind = "ramdisk"] \in Requests
           /\ Output([q EXCEPT !.kind = "ramdisk"]) = <<"initrd", q.image>>
           /\ \A o \in Requests :
                 o.kind = "ramdisk" /\ o.round = q.round /\ o.image = q.image =>
                     o = [q EXCEPT !.kind = "ramdisk"]
<1>1. q.round \in Rounds /\ q.image \in Bootable
  BY DEF Requests
<1> DEFINE o == [round |-> q.round, image |-> q.image, kind |-> "ramdisk"]
<1>2. [q EXCEPT !.kind = "ramdisk"] = o
  BY DEF Requests
<1>3. o \in Requests /\ Output(o) = <<"initrd", q.image>>
  BY <1>1 DEF Requests, Kinds, Output, Bootable, Images
<1>4. ASSUME NEW s \in Requests, s.kind = "ramdisk", s.round = q.round, s.image = q.image
      PROVE  s = o
  BY <1>4 DEF Requests
<1>5. QED
  BY <1>2, <1>3, <1>4

\* mkbootimg without a ramdisk has been started for another image's.
LEMMA NoRamdisk ==
    ASSUME IInv, SilenceInv, NEW q \in Requests, q.kind = "bootable",
           status[q] # "unsent", Initrd(q) = "absent"
    PROVE  MixedUp(q)
<1>1. PICK o \in Requests : o.kind = "ramdisk" /\ status[o] = "delivered"
  BY DEF SilenceInv, AfterRamdisk
<1>2. file[Output(o)] # "absent"
  BY <1>1 DEF SilenceInv, Written, Begun
<1>3. ~(o.round = q.round /\ o.image = q.image)
  BY <1>1, <1>2, OwnRamdisk DEF Initrd
<1>4. QED
  BY <1>1, <1>3 DEF MixedUp

LEMMA SilenceInit == Init => SilenceInv
<1> SUFFICES ASSUME Init PROVE SilenceInv
  OBVIOUS
<1>1. (\A q \in Requests : status[q] = "unsent") /\ replies = <<>>
  BY DEF Init
<1>2. QED
  BY <1>1 DEF SilenceInv, QueueAnswered, Written, Begun, AfterRamdisk, Exited, Silent

LEMMA OpenKeepsSilence ==
    ASSUME IInv, SilenceInv, Forward, QueueAnswered', NEW q \in Requests, NEW clean,
           OpenOutput(q, clean), status[q] = "running",
           \A f \in Files : file[f] # "absent" => file'[f] # "absent"
    PROVE  SilenceInv'
<1>1. status'[q] \in {"writing", "spoiling"} /\ file'[Output(q)] = "spoiled"
  BY OutputType DEF OpenOutput, IInv, TypeOK
<1>2. Accounted(q)
  BY <1>1 DEF Accounted
<1>3. \A o \in Requests : o # q => Ordinary(o)
  BY DEF OpenOutput, Writers, Ordinary
<1>4. QED
  BY <1>2, <1>3, SilenceStable

LEMMA SilenceStep ==
    ASSUME IInv, ServeInv, SilenceInv, [Next]_vars, "tool" \notin Faults, Installed = Kinds
    PROVE  SilenceInv'
<1>0. /\ Forward /\ QueueAnswered'
      /\ \A f \in Files : file[f] # "absent" => file'[f] # "absent"
  BY GoesForward, QueueAnsweredStep, FilesStay DEF SilenceInv
<1>a. /\ status \in [Requests -> Statuses] /\ file \in [Files -> Contents]
      /\ \A q \in Requests : q.kind \in Kinds
  BY DEF IInv, TypeOK, Requests
<1>b. ASSUME \A o \in Requests : Ordinary(o) \/ Accounted(o)
      PROVE  SilenceInv'
  BY <1>0, <1>b, SilenceStable
<1>1. ASSUME UNCHANGED status
      PROVE  SilenceInv'
  BY <1>1, <1>b DEF Ordinary
<1>2. ASSUME NEW p \in Pages, ClosePage(p) \/ LeavePage(p)
      PROVE  SilenceInv'
  <2>1. \A o \in Requests : status[o] = "sent" => Dispatch(o) = "running"
    BY <1>a DEF Dispatch, ServeInv, SentHeard
  <2>2. \A o \in Requests : Ordinary(o)
    BY <1>2, <2>1, CleanupFlushes DEF Ordinary
  <2>3. QED
    BY <1>b, <2>2
<1>3. ASSUME NEW r \in Rounds, NEW fstab \in Fstabs[r], NEW wipe \in Wipes[r],
             NEW bare \in SUBSET Bootable, Start(r, fstab, wipe, bare)
      PROVE  SilenceInv'
  <2>1. \A o \in Requests : Ordinary(o)
    BY <1>3, StartSends DEF Ordinary
  <2>2. QED
    BY <1>b, <2>1
<1>4. ASSUME NEW b \in Builders, ReadCmdline(b) \/ ReadBootFiles(b)
      PROVE  SilenceInv'
  <2>1. ~ReadCmdline(b) => \E s \in Requests : s.kind = "ramdisk" /\ status[s] = "delivered"
    <3>1. ~ReadCmdline(b) => "ramdisk" \in Taken(b)
      BY <1>4 DEF ReadBootFiles, Taken
    <3>2. QED
      BY <3>1 DEF IInv, SettledByAnswer
  <2>2. PICK q \in Requests :
           /\ status[q] = "unsent" /\ q.kind = IF ReadCmdline(b) THEN "ext4" ELSE "bootable"
           /\ \A o \in Requests : status'[o] = IF o = q THEN "sent" ELSE status[o]
    BY <1>4, RequestSent
  <2>3. \A o \in Requests : Ordinary(o)
    BY <2>1, <2>2 DEF Ordinary
  <2>4. QED
    BY <1>b, <2>3
<1>5. ASSUME NEW q \in Requests, Receive(q)
      PROVE  SilenceInv'
  <2>1. Dispatch(q) = "running"
    BY <1>a, <1>5 DEF Dispatch, ServeInv, SentHeard, Receive
  <2>2. \A o \in Requests : Ordinary(o)
    BY <1>a, <1>5, <2>1 DEF Receive, Ordinary
  <2>3. QED
    BY <1>b, <2>2
<1>6. ASSUME NEW q \in Requests, Open(q)
      PROVE  SilenceInv'
  BY <1>0, <1>6, OpenKeepsSilence DEF Open
<1>7. ASSUME NEW q \in Requests, FailsEarly(q)
      PROVE  SilenceInv'
  <2>1. /\ status[q] = "running" /\ q.kind = "bootable" /\ Initrd(q) = "absent"
        /\ status' = [status EXCEPT ![q] = "exited"]
    BY <1>7 DEF FailsEarly
  <2>2. MixedUp(q)
    BY <2>1, NoRamdisk
  <2>3. Accounted(q)
    BY <1>a, <2>1, <2>2 DEF Accounted, Begun
  <2>4. \A o \in Requests : o # q => Ordinary(o)
    BY <1>a, <2>1 DEF Ordinary
  <2>5. QED
    BY <1>b, <2>3, <2>4
<1>8. ASSUME NEW q \in Requests, FailsLate(q)
      PROVE  SilenceInv'
  BY <1>8 DEF FailsLate
<1>9. ASSUME NEW q \in Requests, WriteFails(q) \/ Finish(q)
      PROVE  SilenceInv'
  <2>1. file[Output(q)] # "absent"
    BY <1>9 DEF SilenceInv, Written, Begun, WriteFails, Finish
  <2>2. file'[Output(q)] # "absent"
    BY <1>0, <2>1, OutputType
  <2>3. /\ status[q] # "unsent" /\ status'[q] \in {"unwritten", "exited"}
        /\ \A o \in Requests : o # q => status'[o] = status[o]
    BY <1>a, <1>9 DEF WriteFails, Finish
  <2>4. Accounted(q)
    BY <2>2, <2>3 DEF Accounted
  <2>5. \A o \in Requests : o # q => Ordinary(o)
    BY <2>3 DEF Ordinary
  <2>6. QED
    BY <1>b, <2>4, <2>5
<1>10. ASSUME NEW q \in Requests, Done(q)
       PROVE  SilenceInv'
  <2>1. /\ status[q] \in {"exited", "unwritten"} /\ file' = file
        /\ \A o \in Requests : o # q => status'[o] = status[o]
        /\ status'[q] = IF NoAnswer(q) THEN "silent" ELSE "replied"
    BY <1>a, <1>10 DEF Done, Answer
  <2>2. q.kind # "bootable" => file[Output(q)] # "absent"
    BY <2>1 DEF SilenceInv, Written, Begun
  <2>3. NoAnswer(q) => q.kind = "bootable" /\ MixedUp(q)
    BY <2>1, <2>2 DEF NoAnswer, SilenceInv, Exited
  <2>4. Begun(q)' => q.kind # "bootable"
    <3>1. status'[q] \notin {"writing", "spoiling"}
      BY <2>1
    <3>2. QED
      BY <3>1 DEF Begun
  <2>5. Accounted(q)
    BY <2>1, <2>2, <2>3, <2>4 DEF Accounted
  <2>6. \A o \in Requests : o # q => Ordinary(o)
    BY <2>1 DEF Ordinary
  <2>7. QED
    BY <1>b, <2>5, <2>6
<1>11. CASE Deliver
  <2>1. PICK q \in Requests :
           /\ file' = file /\ status[q] \in {"replied", "delivered"}
           /\ \A o \in Requests : status'[o] = IF o = q THEN "delivered" ELSE status[o]
    BY <1>11, FirstAnswer DEF Deliver, IInv, SilenceInv, QueueAnswered
  <2>2. q.kind # "bootable" => file[Output(q)] # "absent"
    BY <2>1 DEF SilenceInv, Written, Begun
  <2>3. Begun(q)' => q.kind # "bootable"
    BY <2>1 DEF Begun
  <2>4. Accounted(q)
    BY <2>1, <2>2, <2>3 DEF Accounted
  <2>5. \A o \in Requests : o # q => Ordinary(o)
    BY <2>1 DEF Ordinary
  <2>6. QED
    BY <1>b, <2>1, <2>4, <2>5
<1>12. CASE User
  <2>1. CASE \E p \in Pages : OpenPage(p)
    BY <1>1, <2>1 DEF OpenPage
  <2>2. CASE \E r \in Rounds, ok \in BOOLEAN : EndInstall(r, ok)
    BY <1>1, <2>2 DEF EndInstall
  <2>3. QED
    BY <1>2, <1>3, <1>12, <2>1, <2>2 DEF User
<1>13. ASSUME NEW b \in Builders, ReadBootFilesFails(b)
       PROVE  SilenceInv'
  BY <1>1, <1>13 DEF ReadBootFilesFails
<1>14. CASE UNCHANGED vars
  BY <1>1, <1>14 DEF vars
<1>15. QED
  BY <1>4, <1>5, <1>6, <1>7, <1>8, <1>9, <1>10, <1>11, <1>12, <1>13, <1>14
     DEF Next, Progress

\* While tools neither fail nor miss, imagingTools leaves only a request without an
\* answer that was sent when another image's ramdisk had been taken for its own.
THEOREM OnlyTheMixUpIsSilent ==
    ASSUME MaxOpen <= 1
    PROVE  Spec => []SilenceIsMixUp
<1>1. CASE "tool" \notin Faults /\ Installed = Kinds
  <2>1. Init => IInv /\ ServeInv /\ SilenceInv
    BY InvInit, ServeInit, SilenceInit
  <2>2. IInv /\ ServeInv /\ SilenceInv /\ [Next]_vars => IInv' /\ ServeInv' /\ SilenceInv'
    BY <1>1, InvStep, ServeStep, SilenceStep
  <2>3. SilenceInv => SilenceIsMixUp
    BY DEF SilenceInv, Silent, MixedUp, SilenceIsMixUp
  <2>4. QED
    BY <2>1, <2>2, <2>3, PTL DEF Spec
<1>2. CASE ~("tool" \notin Faults /\ Installed = Kinds)
  <2>1. SilenceIsMixUp
    BY <1>2 DEF SilenceIsMixUp
  <2>2. QED
    BY <2>1, PTL
<1>3. QED
  BY <1>1, <1>2

--------------------------------------------------------------------------------
(* The image of the system.                                                  *)

\* The one request for system.img a round may make, and for data.
LEMMA FilesystemRequests ==
    /\ \A r \in Rounds :
          /\ SystemRequest(r) \in Requests /\ Output(SystemRequest(r)) = SystemFile
          /\ DataRequest(r) \in Requests /\ <<r, "data">> \in Builders
          /\ <<r, "system">> \in Builders
    /\ \A q \in Requests :
          /\ q.kind = "ext4" => q \in {SystemRequest(q.round), DataRequest(q.round)}
          /\ Output(q) = SystemFile => q = SystemRequest(q.round)
<1>1. \A r \in Rounds :
         /\ SystemRequest(r) \in Requests /\ Output(SystemRequest(r)) = SystemFile
         /\ DataRequest(r) \in Requests /\ <<r, "data">> \in Builders
         /\ <<r, "system">> \in Builders
  BY DEF SystemRequest, DataRequest, Requests, Output, SystemFile, Builders, Images,
         Bootable, Kinds
<1>2. ASSUME NEW q \in Requests, q.kind = "ext4"
      PROVE  q \in {SystemRequest(q.round), DataRequest(q.round)}
  BY <1>2 DEF Requests, SystemRequest, DataRequest, Images, Bootable
<1>3. ASSUME NEW q \in Requests, Output(q) = SystemFile
      PROVE  q = SystemRequest(q.round)
  <2>1. q.image = "system"
    BY <1>3 DEF Output, SystemFile
  <2>2. q.kind = "ext4"
    BY <2>1 DEF Requests, Bootable
  <2>3. QED
    BY <2>1, <2>2 DEF Requests, SystemRequest
<1>4. QED
  BY <1>1, <1>2, <1>3

\* Only the round that is alone has its tool on system.img.
LEMMA SystemAlone ==
    ASSUME NEW r \in Rounds, Alone(r), NEW q \in Requests, status[q] # "unsent",
           Output(q) = SystemFile
    PROVE  q = SystemRequest(r)
<1>1. q = SystemRequest(q.round)
  BY FilesystemRequests
<1>2. q.kind = "ext4"
  BY <1>1 DEF SystemRequest
<1>3. QED
  BY <1>1, <1>2 DEF Alone

\* What is said of the round that is alone.
SystemRight(r) ==
    /\ status[SystemRequest(r)] \notin {"spoiling", "unwritten"}
    /\ status[SystemRequest(r)] \in {"exited", "replied", "delivered"} => file[SystemFile] = r

LEMMA OpenKeepsSystem ==
    ASSUME IInv, NEW r \in Rounds, Alone(r), SystemRight(r), NEW q \in Requests,
           status[q] = "running", NEW clean, OpenOutput(q, clean), q.kind # "bootable" => clean
    PROVE  SystemRight(r)'
<1> DEFINE s == SystemRequest(r)
<1>1. s \in Requests /\ Output(s) = SystemFile /\ s.kind = "ext4"
  BY FilesystemRequests DEF SystemRequest
<1>2. CASE q = s
  <2>1. \A o \in Writers(SystemFile) : FALSE
    BY <1>2, SystemAlone DEF Writers
  <2>2. Writers(Output(q)) = {} /\ clean
    BY <1>1, <1>2, <2>1
  <2>3. status'[s] = "writing"
    BY <1>1, <1>2, <2>2 DEF OpenOutput
  <2>4. QED
    BY <2>3 DEF SystemRight
<1>3. CASE q # s
  <2>1. Output(q) # SystemFile
    BY <1>3, SystemAlone
  <2>2. s \notin Writers(Output(q))
    BY <1>1, <2>1 DEF Writers
  <2>3. status'[s] = status[s]
    BY <1>1, <1>3, <2>2 DEF OpenOutput
  <2>4. file'[SystemFile] = file[SystemFile]
    <3>1. SystemFile \in Files /\ file \in [Files -> Contents]
      BY <1>1, OutputType DEF IInv, TypeOK
    <3>2. QED
      BY <2>1, <3>1 DEF OpenOutput
  <2>5. QED
    BY <2>3, <2>4 DEF SystemRight
<1>4. QED
  BY <1>2, <1>3

LEMMA ToolsKeepSystem ==
    ASSUME IInv, NEW r \in Rounds, Alone(r), SystemRight(r), NEW q \in Requests,
           \/ Receive(q) \/ Open(q) \/ FailsEarly(q) \/ FailsLate(q)
           \/ WriteFails(q) \/ Finish(q) \/ Done(q)
    PROVE  SystemRight(r)'
<1> DEFINE s == SystemRequest(r)
<1>1. /\ s \in Requests /\ Output(s) = SystemFile /\ s.kind = "ext4" /\ s.round = r
      /\ status \in [Requests -> Statuses] /\ file \in [Files -> Contents]
      /\ SystemFile \in Files
  BY FilesystemRequests, OutputType DEF SystemRequest, IInv, TypeOK
<1>2. CASE Receive(q)
  <2>1. file' = file /\ status'[s] \in {status[s], "running", "silent"}
    BY <1>1, <1>2, StageTypes DEF Receive
  <2>2. QED
    BY <2>1 DEF SystemRight
<1>3. CASE Open(q)
  <2>1. /\ status[q] = "running"
        /\ OpenOutput(q, q.kind = "bootable" => Initrd(q) = q.round)
    BY <1>3 DEF Open
  <2>2. q.kind # "bootable" => (q.kind = "bootable" => Initrd(q) = q.round)
    OBVIOUS
  <2>3. QED
    BY <2>1, <2>2, OpenKeepsSystem
<1>4. CASE FailsEarly(q)
  <2>1. q.kind = "bootable" /\ file' = file /\ status' = [status EXCEPT ![q] = "exited"]
    BY <1>4 DEF FailsEarly, Alone
  <2>2. status'[s] = status[s]
    BY <1>1, <2>1
  <2>3. QED
    BY <2>1, <2>2 DEF SystemRight
<1>5. CASE FailsLate(q)
  BY <1>5 DEF FailsLate, Alone
<1>6. CASE WriteFails(q)
  <2>1. file' = file /\ status'[s] = status[s]
    BY <1>1, <1>6 DEF WriteFails
  <2>2. QED
    BY <2>1 DEF SystemRight
<1>7. CASE Finish(q)
  <2>1. /\ status[q] \in {"writing", "spoiling"}
        /\ file' = [file EXCEPT ![Output(q)] = IF status[q] = "writing" THEN q.round ELSE @]
        /\ status' = [status EXCEPT ![q] = "exited"]
    BY <1>7 DEF Finish
  <2>2. CASE q = s
    <3>1. status[q] = "writing"
      BY <2>1, <2>2 DEF SystemRight
    <3>2. file'[SystemFile] = r /\ status'[s] = "exited"
      BY <1>1, <2>1, <2>2, <3>1
    <3>3. QED
      BY <3>2 DEF SystemRight
  <2>3. CASE q # s
    <3>1. Output(q) # SystemFile
      BY <2>1, <2>3, SystemAlone
    <3>2. file'[SystemFile] = file[SystemFile] /\ status'[s] = status[s]
      BY <1>1, <2>1, <2>3, <3>1
    <3>3. QED
      BY <3>2 DEF SystemRight
  <2>4. QED
    BY <2>2, <2>3
<1>8. CASE Done(q)
  <2>1. /\ status[q] \in {"exited", "unwritten"} /\ file' = file
        /\ \A o \in Requests : o # q => status'[o] = status[o]
        /\ status'[q] \in {"silent", "replied"}
    BY <1>1, <1>8 DEF Done, Answer
  <2>2. QED
    BY <1>1, <2>1 DEF SystemRight
<1>9. QED
  BY <1>2, <1>3, <1>4, <1>5, <1>6, <1>7, <1>8

LEMMA SystemWrittenStep ==
    ASSUME IInv, QueueAnswered, SystemWritten, [Next]_vars
    PROVE  SystemWritten'
<1> SUFFICES ASSUME NEW r \in Rounds, Alone(r)'
             PROVE  SystemRight(r)'
  BY DEF SystemWritten, SystemRight
<1> DEFINE s == SystemRequest(r)
<1>1. Alone(r)
  BY GoesForward DEF Alone, Forward
<1>2. SystemRight(r)
  BY <1>1 DEF SystemWritten, SystemRight
<1>3. s \in Requests /\ s.kind = "ext4"
  BY FilesystemRequests DEF SystemRequest
<1>4. ASSUME file' = file, status'[s] \in {status[s], "sent", "running", "silent"}
      PROVE  SystemRight(r)'
  BY <1>2, <1>4 DEF SystemRight
<1>5. ASSUME NEW p \in Pages, OpenPage(p)
      PROVE  SystemRight(r)'
  BY <1>4, <1>5 DEF OpenPage
<1>6. ASSUME NEW p \in Pages, ClosePage(p) \/ LeavePage(p)
      PROVE  SystemRight(r)'
  <2>1. status'[s] \in {status[s], "running", "silent"}
    BY <1>3, <1>6, CleanupFlushes, StageTypes
  <2>2. file' = file
    BY <1>6 DEF ClosePage, LeavePage, Closed
  <2>3. QED
    BY <1>4, <2>1, <2>2
<1>7. ASSUME NEW t \in Rounds, NEW fstab \in Fstabs[t], NEW wipe \in Wipes[t],
             NEW bare \in SUBSET Bootable, Start(t, fstab, wipe, bare)
      PROVE  SystemRight(r)'
  <2>1. status'[s] = status[s]
    BY <1>3, <1>7, StartSends
  <2>2. file' = file
    BY <1>7 DEF Start
  <2>3. QED
    BY <1>4, <2>1, <2>2
<1>8. ASSUME NEW t \in Rounds, NEW ok \in BOOLEAN, EndInstall(t, ok)
      PROVE  SystemRight(r)'
  BY <1>4, <1>8 DEF EndInstall
<1>9. ASSUME NEW b \in Builders, ReadCmdline(b) \/ ReadBootFiles(b)
      PROVE  SystemRight(r)'
  <2>1. status'[s] \in {status[s], "sent"}
    BY <1>3, <1>9, RequestSent
  <2>2. file' = file
    BY <1>9 DEF ReadCmdline, ReadBootFiles
  <2>3. QED
    BY <1>4, <2>1, <2>2
<1>10. ASSUME NEW b \in Builders, ReadBootFilesFails(b)
       PROVE  SystemRight(r)'
  BY <1>4, <1>10 DEF ReadBootFilesFails
<1>11. ASSUME NEW q \in Requests,
              \/ Receive(q) \/ Open(q) \/ FailsEarly(q) \/ FailsLate(q)
              \/ WriteFails(q) \/ Finish(q) \/ Done(q)
       PROVE  SystemRight(r)'
  BY <1>1, <1>2, <1>11, ToolsKeepSystem
<1>12. CASE Deliver
  <2>1. PICK q \in Requests :
           /\ file' = file /\ status[q] \in {"replied", "delivered"}
           /\ \A o \in Requests : status'[o] = IF o = q THEN "delivered" ELSE status[o]
    BY <1>12, FirstAnswer DEF Deliver, IInv, QueueAnswered
  <2>2. QED
    BY <1>2, <1>3, <2>1 DEF SystemRight
<1>13. CASE UNCHANGED vars
  BY <1>4, <1>13 DEF vars
<1>14. QED
  BY <1>5, <1>6, <1>7, <1>8, <1>9, <1>10, <1>11, <1>12, <1>13 DEF Next, User, Progress

\* A round keeps the builders it was started with.
Advances(r) ==
    \/ toBuild'[r] = toBuild[r] /\ step'[r] \in {step[r], "over", "failed"}
    \/ /\ toBuild'[r] = toBuild[r] /\ step[r] = "creating" /\ step'[r] = "created"
       /\ \A i \in toBuild[r] : pc'[<<r, i>>] = "done"
    \/ /\ step[r] = "idle"
       /\ step'[r] = "failed" \/ (step'[r] = "creating" /\ "system" \in toBuild'[r])

LEMMA RoundAdvances ==
    ASSUME IInv, [Next]_vars, NEW r \in Rounds
    PROVE  Advances(r)
<1>1. step \in [Rounds -> StepStates] /\ toBuild \in [Rounds -> SUBSET Images]
  BY DEF IInv, TypeOK
<1>2. ASSUME UNCHANGED <<toBuild, step>>
      PROVE  Advances(r)
  BY <1>2 DEF Advances
<1>3. ASSUME toBuild' = toBuild, NEW at, MoveTo(at)
      PROVE  Advances(r)
  <2>1. step'[r] = Settled(r, at) /\ pc' = at
    BY <1>3 DEF MoveTo
  <2>2. CASE Settled(r, at) = "created" /\ step[r] = "creating"
    BY <1>3, <2>1, <2>2 DEF Settled, Advances
  <2>3. CASE Settled(r, at) \in {step[r], "failed"}
    BY <1>3, <2>1, <2>3 DEF Advances
  <2>4. QED
    BY <2>2, <2>3 DEF Settled
<1>4. ASSUME NEW p \in Pages, OpenPage(p) \/ ClosePage(p) \/ LeavePage(p)
      PROVE  Advances(r)
  BY <1>2, <1>4 DEF OpenPage, ClosePage, LeavePage, Closed
<1>5. ASSUME NEW t \in Rounds, NEW fstab \in Fstabs[t], NEW wipe \in Wipes[t],
             NEW bare \in SUBSET Bootable, Start(t, fstab, wipe, bare)
      PROVE  Advances(r)
  <2>1. CASE t # r
    BY <1>1, <1>5, <2>1 DEF Start, Advances
  <2>2. CASE t = r
    <3>1. step[r] = "idle" /\ toBuild'[r] = Started(fstab, wipe)
      BY <1>1, <1>5, <2>2 DEF Start
    <3>2. \/ step'[r] = "failed"
          \/ step'[r] = "creating" /\ Started(fstab, wipe) = Wanted(wipe)
      BY <1>1, <1>5, <2>2 DEF Start
    <3>3. "system" \in Wanted(wipe)
      BY DEF Wanted, Images
    <3>4. step'[r] = "failed" \/ (step'[r] = "creating" /\ "system" \in toBuild'[r])
      BY <3>1, <3>2, <3>3
    <3>5. QED
      BY <3>1, <3>4 DEF Advances
  <2>3. QED
    BY <2>1, <2>2
<1>6. ASSUME NEW t \in Rounds, NEW ok \in BOOLEAN, EndInstall(t, ok)
      PROVE  Advances(r)
  BY <1>1, <1>6 DEF EndInstall, Advances
<1>7. ASSUME NEW b \in Builders, ReadCmdline(b) \/ ReadBootFiles(b) \/ ReadBootFilesFails(b)
      PROVE  Advances(r)
  BY <1>3, <1>7 DEF ReadCmdline, ReadBootFiles, ReadBootFilesFails
<1>8. ASSUME NEW q \in Requests,
             \/ Receive(q) \/ Open(q) \/ FailsEarly(q) \/ FailsLate(q)
             \/ WriteFails(q) \/ Finish(q) \/ Done(q)
      PROVE  Advances(r)
  BY <1>2, <1>8 DEF Receive, Open, FailsEarly, FailsLate, WriteFails, Finish, Done, OpenOutput
<1>9. CASE Deliver
  BY <1>3, <1>9 DEF Deliver
<1>10. CASE UNCHANGED vars
  BY <1>2, <1>10 DEF vars
<1>11. QED
  BY <1>4, <1>5, <1>6, <1>7, <1>8, <1>9, <1>10 DEF Next, User, Progress

LEMMA AllStartedStep ==
    ASSUME IInv, IInv', AllStarted, [Next]_vars
    PROVE  AllStarted'
<1> SUFFICES ASSUME NEW r \in Rounds
             PROVE  /\ step'[r] \in {"creating", "created"} => "system" \in toBuild'[r]
                    /\ step'[r] = "created" =>
                          \E q \in Requests : q.kind = "ext4" /\ status'[q] = "delivered"
  BY DEF AllStarted
<1>1. Advances(r) /\ Forward
  BY RoundAdvances, GoesForward
<1>2. CASE toBuild'[r] = toBuild[r] /\ step'[r] \in {step[r], "over", "failed"}
  BY <1>1, <1>2 DEF AllStarted, Forward
<1>3. CASE /\ toBuild'[r] = toBuild[r] /\ step[r] = "creating" /\ step'[r] = "created"
           /\ \A i \in toBuild[r] : pc'[<<r, i>>] = "done"
  <2> DEFINE b == <<r, "system">>
  <2>1. "system" \in toBuild[r]
    BY <1>3 DEF AllStarted
  <2>2. pc'[b] = "done" /\ b \in Builders /\ b[2] \notin Bootable
    BY <1>3, <2>1, FilesystemRequests DEF Bootable
  <2>3. "ext4" \in Taken(b)'
    BY <2>2 DEF Taken
  <2>4. \E q \in Requests : q.kind = "ext4" /\ status'[q] = "delivered"
    BY <2>2, <2>3 DEF IInv, SettledByAnswer
  <2>5. QED
    BY <1>3, <2>1, <2>4
<1>4. CASE /\ step[r] = "idle"
           /\ step'[r] = "failed" \/ (step'[r] = "creating" /\ "system" \in toBuild'[r])
  BY <1>4
<1>5. QED
  BY <1>1, <1>2, <1>3, <1>4 DEF Advances

\* The builder of data is not there, and has sent nothing.
DataQuiet(r) ==
    pc[<<r, "data">>] \in {"none", "gone"} /\ status[DataRequest(r)] = "unsent"

LEMMA DataUnaskedStep ==
    ASSUME IInv, QueueAnswered, DataUnasked, [Next]_vars
    PROVE  DataUnasked'
<1> SUFFICES ASSUME NEW r \in Rounds, "data" \notin toBuild'[r]
             PROVE  DataQuiet(r)'
  BY DEF DataUnasked, DataQuiet
<1> DEFINE d == <<r, "data">>
           s == DataRequest(r)
<1>1. /\ d \in Builders /\ s \in Requests /\ s.kind = "ext4"
      /\ s.round = d[1] /\ s.image = d[2]
      /\ pc \in [Builders -> Stages] /\ toBuild \in [Rounds -> SUBSET Images]
  BY FilesystemRequests DEF DataRequest, IInv, TypeOK
<1>2. toBuild' = toBuild => DataQuiet(r)
  BY DEF DataUnasked, DataQuiet
<1>3. ASSUME toBuild' = toBuild, pc'[d] \in {pc[d], "gone"}, status'[s] = status[s]
      PROVE  DataQuiet(r)'
  BY <1>2, <1>3 DEF DataQuiet
<1>4. ASSUME NEW p \in Pages, OpenPage(p)
      PROVE  DataQuiet(r)'
  BY <1>3, <1>4 DEF OpenPage
<1>5. ASSUME NEW p \in Pages, ClosePage(p) \/ LeavePage(p)
      PROVE  DataQuiet(r)'
  <2>1. toBuild' = toBuild /\ pc'[d] \in {pc[d], "gone"}
    BY <1>1, <1>5 DEF ClosePage, LeavePage, Closed
  <2>2. status'[s] = status[s] \/ status[s] = "sent"
    BY <1>1, <1>5, CleanupFlushes
  <2>3. QED
    BY <1>2, <1>3, <2>1, <2>2 DEF DataQuiet
<1>6. ASSUME NEW t \in Rounds, NEW fstab \in Fstabs[t], NEW wipe \in Wipes[t],
             NEW bare \in SUBSET Bootable, Start(t, fstab, wipe, bare)
      PROVE  DataQuiet(r)'
  <2>1. status'[s] = status[s] /\ step[t] = "idle"
    BY <1>1, <1>6, StartSends
  <2>2. CASE t = r
    <3>1. toBuild'[r] = Started(fstab, wipe)
      BY <1>1, <1>6, <2>2 DEF Start
    <3>2. pc'[d] = pc[d]
      BY <1>1, <1>6, <2>2, <3>1 DEF Start
    <3>3. pc[d] \in {"none", "gone"} /\ status[s] = "unsent"
      BY <1>1, <2>1, <2>2 DEF IInv, IdleUntouched
    <3>4. QED
      BY <2>1, <3>2, <3>3 DEF DataQuiet
  <2>3. CASE t # r
    <3>1. toBuild'[r] = toBuild[r] /\ pc'[d] = pc[d]
      BY <1>1, <1>6, <2>3 DEF Start
    <3>2. DataQuiet(r)
      BY <3>1 DEF DataUnasked, DataQuiet
    <3>3. QED
      BY <2>1, <3>1, <3>2 DEF DataQuiet
  <2>4. QED
    BY <2>2, <2>3
<1>7. ASSUME NEW t \in Rounds, NEW ok \in BOOLEAN, EndInstall(t, ok)
      PROVE  DataQuiet(r)'
  BY <1>3, <1>7 DEF EndInstall
<1>8. ASSUME NEW b \in Builders, ReadCmdline(b) \/ ReadBootFiles(b)
      PROVE  DataQuiet(r)'
  <2>1. toBuild' = toBuild /\ pc[b] \in {"cmdline", "reading"}
    BY <1>8 DEF ReadCmdline, ReadBootFiles
  <2>2. b # d
    BY <1>2, <2>1 DEF DataQuiet
  <2>3. pc'[d] = pc[d]
    BY <1>1, <1>8, <2>2 DEF ReadCmdline, ReadBootFiles, MoveTo
  <2>4. b[1] # d[1] \/ b[2] # d[2]
    BY <1>1, <2>2 DEF Builders
  <2>5. status'[s] = status[s]
    BY <1>1, <1>8, <2>4, RequestSent
  <2>6. QED
    BY <1>3, <2>1, <2>3, <2>5
<1>9. ASSUME NEW b \in Builders, ReadBootFilesFails(b)
      PROVE  DataQuiet(r)'
  <2>1. toBuild' = toBuild /\ status' = status /\ pc[b] = "reading"
    BY <1>9 DEF ReadBootFilesFails
  <2>2. b # d
    BY <1>2, <2>1 DEF DataQuiet
  <2>3. pc'[d] = pc[d]
    BY <1>1, <1>9, <2>2 DEF ReadBootFilesFails, MoveTo
  <2>4. QED
    BY <1>3, <2>1, <2>3
<1>10. ASSUME NEW q \in Requests,
              \/ Receive(q) \/ Open(q) \/ FailsEarly(q) \/ FailsLate(q)
              \/ WriteFails(q) \/ Finish(q) \/ Done(q)
       PROVE  DataQuiet(r)'
  <2>1. ToolEffect
    BY <1>10, ToolSteps DEF IInv
  <2>2. toBuild' = toBuild
    BY <1>10 DEF Receive, Open, FailsEarly, FailsLate, WriteFails, Finish, Done, OpenOutput
  <2>3. QED
    BY <1>1, <1>2, <2>1, <2>2 DEF ToolEffect, DataQuiet
<1>11. CASE Deliver
  <2>1. PICK q \in Requests :
           /\ status[q] \in {"replied", "delivered"}
           /\ \A o \in Requests : status'[o] = IF o = q THEN "delivered" ELSE status[o]
    BY <1>11, FirstAnswer DEF IInv, QueueAnswered
  <2>2. toBuild' = toBuild
    BY <1>11 DEF Deliver
  <2>3. Head(replies).req.kind \in Kinds
    BY <1>11, FirstAnswer DEF IInv, Requests
  <2>4. pc'[d] = IF pc[d] = Head(replies).req.kind
                   THEN Resume(Head(replies).req.kind, Head(replies).res) ELSE pc[d]
    BY <1>1, <1>11 DEF Deliver, MoveTo, Hears
  <2>5. pc'[d] = pc[d]
    BY <1>2, <2>2, <2>3, <2>4 DEF DataQuiet, Kinds
  <2>6. QED
    BY <1>1, <1>2, <2>1, <2>2, <2>5 DEF DataQuiet
<1>12. CASE UNCHANGED vars
  BY <1>3, <1>12 DEF vars
<1>13. QED
  BY <1>4, <1>5, <1>6, <1>7, <1>8, <1>9, <1>10, <1>11, <1>12 DEF Next, User, Progress

LEMMA SystemInit == Init => SystemInv
<1> SUFFICES ASSUME Init PROVE SystemInv
  OBVIOUS
<1>1. /\ \A q \in Requests : status[q] = "unsent"
      /\ \A b \in Builders : pc[b] = "none"
      /\ \A r \in Rounds : step[r] = "idle"
      /\ replies = <<>>
  BY DEF Init
<1>2. QueueAnswered /\ AllStarted
  BY <1>1 DEF QueueAnswered, AllStarted
<1>3. SystemWritten /\ DataUnasked
  BY <1>1, FilesystemRequests DEF SystemWritten, DataUnasked
<1>4. QED
  BY <1>2, <1>3 DEF SystemInv

LEMMA SystemStep == IInv /\ SystemInv /\ [Next]_vars => IInv' /\ SystemInv'
<1> SUFFICES ASSUME IInv, SystemInv, [Next]_vars
             PROVE  IInv' /\ SystemInv'
  OBVIOUS
<1>1. IInv'
  BY InvStep
<1>2. QueueAnswered'
  BY QueueAnsweredStep DEF SystemInv
<1>3. SystemWritten'
  BY SystemWrittenStep DEF SystemInv
<1>4. DataUnasked'
  BY DataUnaskedStep DEF SystemInv
<1>5. AllStarted'
  BY <1>1, AllStartedStep DEF SystemInv
<1>6. QED
  BY <1>1, <1>2, <1>3, <1>4, <1>5 DEF SystemInv

\* When the user's data is kept and no other round asks for a filesystem, the
\* system.img about to be flashed is the complete one of this round, although the
\* answer that said so is anonymous.
THEOREM SystemIsSound == Spec => []SystemSound
<1>1. ASSUME SystemInv, NEW r \in Rounds, step[r] = "created", "data" \notin toBuild[r],
             \A q \in Requests : q.kind = "ext4" /\ q.round # r => status[q] = "unsent",
             "tool" \notin Faults
      PROVE  file[SystemFile] = r
  <2>1. Alone(r)
    BY <1>1 DEF Alone
  <2>2. PICK q \in Requests : q.kind = "ext4" /\ status[q] = "delivered"
    BY <1>1 DEF SystemInv, AllStarted
  <2>3. q.round = r
    BY <1>1, <2>2
  <2>4. q # DataRequest(r)
    BY <1>1, <2>2 DEF SystemInv, DataUnasked
  <2>5. q = SystemRequest(r)
    BY <2>2, <2>3, <2>4, FilesystemRequests
  <2>6. QED
    BY <1>1, <2>1, <2>2, <2>5 DEF SystemInv, SystemWritten
<1>2. SystemInv => SystemSound
  BY <1>1 DEF SystemSound, SystemFile
<1>3. QED
  BY <1>2, InvInit, SystemInit, SystemStep, PTL DEF Spec

================================================================================
