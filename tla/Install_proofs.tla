---------------------------- MODULE Install_proofs ----------------------------
(***************************************************************************)
(* Proofs about Connect and Install, for any phones, any number of device   *)
(* objects, any supported devices, any partitions, any distributions and    *)
(* any faults.                                                             *)
(***************************************************************************)
EXTENDS Install, FiniteSetTheorems, TLAPS

USE MaxObjectsAssumption, LocalAssumption, SupportedAssumption

-----------------------------------------------------------------------------
(* The devices (Connect).                                                   *)

(* HandedOutIsRegistered and the types are not inductive.  A chain draws what  *)
(* it found under the phone of the object it works on: that object must have   *)
(* been made; and an object just made must not be one already handed out.      *)

\* An object that was made stands for a phone, and no promise is older than its object.
MadeSound ==
    \A n \in Objects :
        /\ n <= made => dev[n].phone \in Phones
        /\ dev[n].wait # "unasked" => n <= made

\* What is handed out has been made.
PromiseMade == devicePromise <= made

\* A phone is known by an object that was made for it.
RegisteredSound ==
    \A p \in Phones : registered[p] # None =>
        registered[p] <= made /\ dev[registered[p]].phone = p

\* A chain under way works on an object that was made.
ChainSound ==
    \A c \in Objects : chain[c].at \notin {"unstarted", "end"} =>
        chain[c].dev \in Objects /\ chain[c].dev <= made

\* The type of a device object.
Device == [phone : Phones \cup {"none"}, kind : Kinds \cup {"none"}, wait : Waits, read : BOOLEAN]

CInv == TypeOK /\ MadeSound /\ PromiseMade /\ RegisteredSound /\ ChainSound /\ HandedOutIsRegistered

\* An object whose promise has settled, or whose properties have been read, is one.
LEMMA DeviceTypes ==
    ASSUME NEW d \in Device
    PROVE  /\ \A w \in Waits : [d EXCEPT !.wait = w] \in Device
           /\ \A v \in BOOLEAN : [d EXCEPT !.read = v] \in Device
<1>1. ASSUME NEW w \in Waits
      PROVE  [d EXCEPT !.wait = w] \in Device
  <2>1. [d EXCEPT !.wait = w] = [phone |-> d.phone, kind |-> d.kind, wait |-> w, read |-> d.read]
    BY DEF Device
  <2>2. QED
    BY <2>1 DEF Device
<1>2. ASSUME NEW v \in BOOLEAN
      PROVE  [d EXCEPT !.read = v] \in Device
  <2>1. [d EXCEPT !.read = v] = [phone |-> d.phone, kind |-> d.kind, wait |-> d.wait, read |-> v]
    BY DEF Device
  <2>2. QED
    BY <2>1 DEF Device
<1>3. QED
  BY <1>1, <1>2

LEMMA InvInit == Init => CInv
<1> SUFFICES ASSUME Init
             PROVE  CInv
  OBVIOUS
<1>1. NoObject \in [phone : Phones \cup {"none"}, kind : Kinds \cup {"none"},
                    wait : Waits, read : BOOLEAN]
  BY DEF NoObject, Waits
<1>2. TypeOK
  <2>1. /\ mode \in [Phones -> Modes]
        /\ registered \in [Phones -> 0..MaxObjects]
        /\ made \in 0..MaxObjects /\ devicePromise \in 0..MaxObjects
    BY DEF Init, Modes, None
  <2>2. chain \in [Objects -> [at : Ats, dev : 0..MaxObjects]]
    BY DEF Init, Ats, None
  <2>3. shown \in [Phones -> Nat] /\ sent \in [Pings -> Nat] /\ noDevice \subseteq Phones
    BY DEF Init
  <2>4. QED
    BY <1>1, <2>1, <2>2, <2>3 DEF Init, TypeOK
<1>3. MadeSound /\ ChainSound
  BY DEF Init, MadeSound, ChainSound, Objects, NoObject
<1>4. PromiseMade /\ RegisteredSound /\ HandedOutIsRegistered
  BY DEF Init, PromiseMade, RegisteredSound, HandedOutIsRegistered, None
<1>5. QED
  BY <1>2, <1>3, <1>4 DEF CInv

\* The six parts look at these variables only, the types apart.
LEMMA QuietKeepsInv ==
    ASSUME CInv, TypeOK', UNCHANGED <<registered, made, dev, devicePromise, chain>>
    PROVE  CInv'
BY DEF CInv, MadeSound, PromiseMade, RegisteredSound, ChainSound, HandedOutIsRegistered

LEMMA DetectKeepsInv ==
    ASSUME CInv, NEW p \in Phones, Detect(p)
    PROVE  CInv'
<1> DEFINE n == made + 1
<1>1. n \in Objects /\ made \in Nat
  BY DEF Detect, Appeared, CInv, TypeOK, Objects
<1>2. mode[p] \in Kinds
  BY DEF Detect, Appeared, Kinds
<1>3. /\ made' = n
      /\ registered' = [registered EXCEPT ![p] = n]
      /\ devicePromise' = n \/ devicePromise' = devicePromise
      /\ UNCHANGED chain
  BY DEF Detect, PromiseOnConnect
<1>4. PICK w \in Waits :
         dev' = [dev EXCEPT ![n] = [phone |-> p, kind |-> mode[p], read |-> FALSE, wait |-> w]]
  BY DEF Detect, Waits
<1>5. TypeOK'
  <2>1. made' \in 0..MaxObjects /\ registered' \in [Phones -> 0..MaxObjects]
    BY <1>1, <1>3 DEF CInv, TypeOK, Objects
  <2>2. devicePromise' \in 0..MaxObjects
    BY <1>1, <1>3 DEF CInv, TypeOK, Objects
  <2>3. dev' \in [Objects -> [phone : Phones \cup {"none"}, kind : Kinds \cup {"none"},
                              wait : Waits, read : BOOLEAN]]
    BY <1>1, <1>2, <1>4 DEF CInv, TypeOK
  <2>4. tooMany' \in BOOLEAN
    BY DEF Detect
  <2>5. QED
    BY <2>1, <2>2, <2>3, <2>4, <1>3 DEF Detect, CInv, TypeOK, phoneVars, pageVars
<1>6. /\ dev'[n].phone = p
      /\ \A m \in Objects : m # n => dev'[m] = dev[m]
  BY <1>1, <1>4 DEF CInv, TypeOK
<1>7. \A m \in Objects : m <= made => m # n /\ m <= made'
  BY <1>1, <1>3 DEF Objects
<1>8. registered[p] = None /\ None \notin Objects
  BY DEF Detect, Appeared, None, Objects
<1>9. MadeSound'
  <2>1. \A m \in Objects : m <= made' => m <= made \/ m = n
    BY <1>1, <1>3 DEF Objects
  <2>2. n <= made'
    BY <1>1, <1>3
  <2>3. QED
    BY <1>6, <1>7, <2>1, <2>2 DEF CInv, MadeSound
<1>10. PromiseMade'
  BY <1>1, <1>3 DEF CInv, PromiseMade, TypeOK
<1>11. RegisteredSound'
  <2> SUFFICES ASSUME NEW q \in Phones, registered'[q] # None
               PROVE  registered'[q] <= made' /\ dev'[registered'[q]].phone = q
    BY DEF RegisteredSound
  <2>1. CASE q = p
    BY <2>1, <1>1, <1>3, <1>6 DEF CInv, TypeOK
  <2>2. CASE q # p
    <3>1. registered'[q] = registered[q] /\ registered[q] \in Objects /\ registered[q] <= made
      BY <2>2, <1>3 DEF CInv, TypeOK, RegisteredSound, Objects, None
    <3>2. QED
      BY <3>1, <1>6, <1>7 DEF CInv, RegisteredSound
  <2>3. QED
    BY <2>1, <2>2
<1>12. ChainSound'
  BY <1>3, <1>7 DEF CInv, ChainSound
<1>13. HandedOutIsRegistered'
  <2>1. CASE devicePromise' = n
    BY <2>1, <1>3, <1>6 DEF HandedOutIsRegistered, CInv, TypeOK
  <2>2. CASE devicePromise' = devicePromise /\ devicePromise # None
    <3>1. devicePromise \in Objects /\ devicePromise <= made
      BY <2>2 DEF CInv, TypeOK, PromiseMade, Objects, None
    <3>2. dev'[devicePromise] = dev[devicePromise]
      BY <3>1, <1>6, <1>7
    <3>3. dev[devicePromise].phone # p
      BY <2>2, <1>8 DEF CInv, HandedOutIsRegistered
    <3>4. QED
      BY <2>2, <3>2, <3>3, <1>3 DEF CInv, TypeOK, HandedOutIsRegistered
  <2>3. QED
    BY <2>1, <2>2, <1>3 DEF HandedOutIsRegistered
<1>14. QED
  BY <1>5, <1>9, <1>10, <1>11, <1>12, <1>13 DEF CInv

LEMMA LoseKeepsInv ==
    ASSUME CInv, NEW p \in Phones, Lose(p)
    PROVE  CInv'
<1>1. /\ registered' = [registered EXCEPT ![p] = None]
      /\ devicePromise' = None
      /\ UNCHANGED <<made, dev, chain>>
  BY DEF Lose, PromiseOnDisconnect
<1>2. tooMany' \in BOOLEAN
  BY DEF Lose, SeveralLeft
<1>3. TypeOK'
  BY <1>1, <1>2 DEF Lose, CInv, TypeOK, None, phoneVars
<1>4. MadeSound' /\ ChainSound' /\ HandedOutIsRegistered'
  BY <1>1 DEF CInv, MadeSound, ChainSound, HandedOutIsRegistered
<1>5. PromiseMade'
  BY <1>1 DEF CInv, TypeOK, PromiseMade, None
<1>6. RegisteredSound'
  BY <1>1 DEF CInv, TypeOK, RegisteredSound
<1>7. QED
  BY <1>3, <1>4, <1>5, <1>6 DEF CInv

LEMMA SettleKeepsInv ==
    ASSUME CInv, NEW n \in Objects, NEW w \in {"resolved", "rejected"}, Settle(n, w)
    PROVE  CInv'
<1>1. /\ dev[n].wait = "pending"
      /\ dev' = [dev EXCEPT ![n].wait = w]
      /\ UNCHANGED <<registered, made, devicePromise>>
  BY DEF Settle
<1>2. dev' \in [Objects -> [phone : Phones \cup {"none"}, kind : Kinds \cup {"none"},
                            wait : Waits, read : BOOLEAN]]
  <2>1. dev \in [Objects -> Device] /\ w \in Waits
    BY DEF CInv, TypeOK, Device, Waits
  <2>2. dev' \in [Objects -> Device]
    BY <1>1, <2>1, DeviceTypes
  <2>3. QED
    BY <2>2 DEF Device
<1>3. \A m \in Objects : /\ dev'[m].phone = dev[m].phone
                         /\ dev'[m].wait # "unasked" => dev[m].wait # "unasked"
  BY <1>1 DEF CInv, TypeOK
<1>4. \A m, v : Got(m, v) \in {"end", "get", "model"} /\ (m = None => Got(m, v) = "end")
  BY DEF Got
<1>5. \A c \in Objects :
        \/ chain'[c] = chain[c]
        \/ \E a \in {"end", "get", "model"} :
              \/ chain[c].at = "get" /\ chain'[c] = [at |-> a, dev |-> chain[c].dev]
              \/ /\ chain'[c] = [at |-> a, dev |-> devicePromise]
                 /\ devicePromise = None => a = "end"
  <2> TAKE c \in Objects
  <2>1. \A a : [chain[c] EXCEPT !.at = a] = [at |-> a, dev |-> chain[c].dev]
    BY DEF CInv, TypeOK
  <2>2. CASE c = n /\ w = "resolved"
    BY <2>2, <1>4 DEF Settle
  <2>3. CASE ~(c = n /\ w = "resolved") /\ chain[c].at = "get" /\ chain[c].dev = n
    BY <2>1, <2>3, <1>4 DEF Settle
  <2>4. CASE ~(c = n /\ w = "resolved") /\ ~(chain[c].at = "get" /\ chain[c].dev = n)
    BY <2>4 DEF Settle
  <2>5. QED
    BY <2>2, <2>3, <2>4
<1>6. chain' \in [Objects -> [at : Ats, dev : 0..MaxObjects]]
  <2>1. chain' = [c \in Objects |-> chain'[c]]
    BY DEF Settle
  <2>2. \A c \in Objects : chain'[c] \in [at : Ats, dev : 0..MaxObjects]
    <3>1. devicePromise \in 0..MaxObjects /\ {"end", "get", "model"} \subseteq Ats
      BY DEF CInv, TypeOK, Ats
    <3>2. \A c \in Objects : chain[c] \in [at : Ats, dev : 0..MaxObjects]
      BY DEF CInv, TypeOK
    <3> TAKE c \in Objects
    <3>3. chain[c].dev \in 0..MaxObjects
      BY <3>2
    <3>4. CASE chain'[c] = chain[c]
      BY <3>2, <3>4
    <3>5. CASE \E a \in {"end", "get", "model"} : \E m \in 0..MaxObjects : chain'[c] = [at |-> a, dev |-> m]
      <4>1. PICK a \in {"end", "get", "model"}, m \in 0..MaxObjects : chain'[c] = [at |-> a, dev |-> m]
        BY <3>5
      <4>2. QED
        BY <3>1, <4>1
    <3>6. QED
      BY <1>5, <3>1, <3>3, <3>4, <3>5
  <2>3. QED
    BY <2>1, <2>2
<1>7. TypeOK'
  BY <1>1, <1>2, <1>6 DEF Settle, CInv, TypeOK, phoneVars, pageVars
<1>8. MadeSound' /\ PromiseMade'
  BY <1>1, <1>3 DEF CInv, MadeSound, PromiseMade
<1>9. RegisteredSound' /\ HandedOutIsRegistered'
  <2>1. \A p \in Phones : registered[p] # None => registered[p] \in Objects
    BY DEF CInv, TypeOK, Objects, None
  <2>2. devicePromise # None => devicePromise \in Objects
    BY DEF CInv, TypeOK, Objects, None
  <2>3. QED
    BY <1>1, <1>3, <2>1, <2>2 DEF CInv, RegisteredSound, HandedOutIsRegistered
<1>10. ChainSound'
  <2>1. devicePromise # None => devicePromise \in Objects /\ devicePromise <= made
    BY DEF CInv, TypeOK, PromiseMade, Objects, None
  <2> SUFFICES ASSUME NEW c \in Objects, chain'[c].at \notin {"unstarted", "end"}
               PROVE  chain'[c].dev \in Objects /\ chain'[c].dev <= made
    BY <1>1 DEF ChainSound
  <2>2. chain[c] \in [at : Ats, dev : 0..MaxObjects]
    BY DEF CInv, TypeOK
  <2>3. CASE chain'[c] = chain[c]
    BY <2>3 DEF CInv, ChainSound
  <2>4. ASSUME NEW a, chain[c].at = "get", chain'[c] = [at |-> a, dev |-> chain[c].dev]
        PROVE  chain'[c].dev \in Objects /\ chain'[c].dev <= made
    BY <2>4 DEF CInv, ChainSound
  <2>5. ASSUME NEW a, chain'[c] = [at |-> a, dev |-> devicePromise],
               devicePromise = None => a = "end"
        PROVE  chain'[c].dev \in Objects /\ chain'[c].dev <= made
    BY <2>1, <2>5
  <2>6. QED
    BY <1>5, <2>3, <2>4, <2>5
<1>11. QED
  BY <1>7, <1>8, <1>9, <1>10 DEF CInv

\* A chain that goes on keeps its object, and only starts from where it was.
LEMMA ChainToEffect ==
    ASSUME CInv, NEW c \in Objects, NEW at \in Ats, ChainTo(c, at),
           chain[c].at \notin {"unstarted", "end"}
    PROVE  /\ chain' \in [Objects -> [at : Ats, dev : 0..MaxObjects]]
           /\ \A o \in Objects : /\ chain'[o].dev = chain[o].dev
                                 /\ chain'[o].at \notin {"unstarted", "end"} =>
                                      chain[o].at \notin {"unstarted", "end"}
BY DEF CInv, TypeOK, ChainTo

\* What a chain does to the objects: it may set the properties read on one.
LEMMA ChainKeepsInv ==
    ASSUME CInv, TypeOK', UNCHANGED <<registered, made, devicePromise>>,
           \A m \in Objects : dev'[m].phone = dev[m].phone /\ dev'[m].wait = dev[m].wait,
           \A o \in Objects : /\ chain'[o].dev = chain[o].dev
                              /\ chain'[o].at \notin {"unstarted", "end"} =>
                                   chain[o].at \notin {"unstarted", "end"}
    PROVE  CInv'
<1>1. \A p \in Phones : registered[p] # None => registered[p] \in Objects
  BY DEF CInv, TypeOK, Objects, None
<1>2. devicePromise # None => devicePromise \in Objects
  BY DEF CInv, TypeOK, Objects, None
<1>3. MadeSound' /\ PromiseMade' /\ ChainSound'
  BY DEF CInv, MadeSound, PromiseMade, ChainSound
<1>4. RegisteredSound' /\ HandedOutIsRegistered'
  BY <1>1, <1>2 DEF CInv, RegisteredSound, HandedOutIsRegistered
<1>5. QED
  BY <1>3, <1>4 DEF CInv

\* drawBuild() names a phone.
LEMMA DrawType ==
    ASSUME CInv, NEW c \in Objects, NEW found \in BOOLEAN, Draw(c, found),
           chain[c].at \notin {"unstarted", "end"}
    PROVE  shown' \in [Phones -> Nat] /\ noDevice' \subseteq Phones
<1>1. dev[chain[c].dev].phone \in Phones
  BY DEF CInv, ChainSound, MadeSound
<1>2. QED
  BY <1>1 DEF Draw, CInv, TypeOK

LEMMA AnswersKeepInv ==
    ASSUME CInv, NEW c \in Objects,
           ChainModel(c) \/ ChainProps(c) \/ ChainFails(c) \/ ChainB2G(c)
    PROVE  CInv'
<1>1. CASE ChainModel(c)
  <2>1. PICK at \in {"props", "b2g"} : ChainTo(c, at)
    BY <1>1 DEF ChainModel
  <2>2. at \in Ats /\ chain[c].at \notin {"unstarted", "end"}
    BY <1>1 DEF ChainModel, Ats
  <2>3. shown' \in [Phones -> Nat] /\ noDevice' \subseteq Phones
    BY <1>1, <2>2, DrawType DEF ChainModel, CInv, TypeOK
  <2>4. chain' \in [Objects -> [at : Ats, dev : 0..MaxObjects]]
    BY <2>1, <2>2, ChainToEffect
  <2>5. TypeOK'
    BY <1>1, <2>3, <2>4 DEF ChainModel, CInv, TypeOK, phoneVars
  <2>6. QED
    BY <1>1, <2>1, <2>2, <2>5, ChainToEffect, ChainKeepsInv DEF ChainModel
<1>2. CASE ChainProps(c)
  <2>1. ChainTo(c, "b2g") /\ chain[c].at \notin {"unstarted", "end"} /\ "b2g" \in Ats
    BY <1>2 DEF ChainProps, Ats
  <2>2. PICK found \in BOOLEAN : Draw(c, found)
    BY <1>2 DEF ChainProps
  <2>3. shown' \in [Phones -> Nat] /\ noDevice' \subseteq Phones
    BY <2>1, <2>2, DrawType
  <2>4. chain' \in [Objects -> [at : Ats, dev : 0..MaxObjects]]
    BY <2>1, ChainToEffect
  <2>5. dev' = dev \/ \E v \in BOOLEAN : dev' = [dev EXCEPT ![chain[c].dev].read = v]
    BY <1>2, Zenon DEF ChainProps, KeptProps
  <2>6. /\ dev' \in [Objects -> [phone : Phones \cup {"none"}, kind : Kinds \cup {"none"},
                                 wait : Waits, read : BOOLEAN]]
        /\ \A m \in Objects : dev'[m].phone = dev[m].phone /\ dev'[m].wait = dev[m].wait
    <3>1. dev \in [Objects -> Device]
      BY DEF CInv, TypeOK, Device
    <3>2. CASE dev' = dev
      BY <3>1, <3>2 DEF Device
    <3>3. ASSUME NEW v \in BOOLEAN, dev' = [dev EXCEPT ![chain[c].dev].read = v]
          PROVE  /\ dev' \in [Objects -> Device]
                 /\ \A m \in Objects : dev'[m].phone = dev[m].phone /\ dev'[m].wait = dev[m].wait
      <4>1. \A m \in Objects : dev'[m] = dev[m] \/ dev'[m] = [dev[m] EXCEPT !.read = v]
        BY <3>1, <3>3
      <4>2. \A m \in Objects : dev'[m] \in Device
        <5>1. \A m \in Objects : dev[m] \in Device /\ [dev[m] EXCEPT !.read = v] \in Device
          BY <3>1, DeviceTypes, Zenon
        <5>2. QED
          BY <4>1, <5>1, Zenon
      <4>3. dev' = [m \in Objects |-> dev'[m]]
        BY <3>1, <3>3
      <4>4. \A m \in Objects : dev'[m].phone = dev[m].phone /\ dev'[m].wait = dev[m].wait
        BY <3>1, <4>1 DEF Device
      <4>5. QED
        BY <4>2, <4>3, <4>4
    <3>4. QED
      BY <2>5, <3>2, <3>3 DEF Device
  <2>7. TypeOK'
    BY <1>2, <2>3, <2>4, <2>6 DEF ChainProps, CInv, TypeOK, phoneVars
  <2>8. QED
    BY <1>2, <2>1, <2>6, <2>7, ChainToEffect, ChainKeepsInv DEF ChainProps
<1>3. CASE ChainFails(c)
  <2>1. ChainTo(c, "end") /\ chain[c].at \notin {"unstarted", "end"} /\ "end" \in Ats
    BY <1>3 DEF ChainFails, Ats
  <2>2. chain' \in [Objects -> [at : Ats, dev : 0..MaxObjects]]
    BY <2>1, ChainToEffect
  <2>3. TypeOK'
    BY <1>3, <2>2 DEF ChainFails, CInv, TypeOK, phoneVars, pageVars
  <2>4. QED
    BY <1>3, <2>1, <2>3, ChainToEffect, ChainKeepsInv DEF ChainFails
<1>4. CASE ChainB2G(c)
  <2>1. ChainTo(c, "end") /\ chain[c].at \notin {"unstarted", "end"} /\ "end" \in Ats
    BY <1>4 DEF ChainB2G, Ats
  <2>2. chain' \in [Objects -> [at : Ats, dev : 0..MaxObjects]]
    BY <2>1, ChainToEffect
  <2>3. sent' \in [Pings -> Nat]
    BY <1>4 DEF ChainB2G, Send, CInv, TypeOK, Pings
  <2>4. keepShown' \in BOOLEAN /\ step' \in {"connect", "select", "flash"} /\ risky' \in BOOLEAN
    BY <1>4 DEF ChainB2G, CInv, TypeOK
  <2>5. TypeOK'
    BY <1>4, <2>2, <2>3, <2>4 DEF ChainB2G, CInv, TypeOK, phoneVars
  <2>6. QED
    BY <1>4, <2>1, <2>5, ChainToEffect, ChainKeepsInv DEF ChainB2G
<1>5. QED
  BY <1>1, <1>2, <1>3, <1>4

LEMMA InvStep == CInv /\ [Next]_vars => CInv'
<1> SUFFICES ASSUME CInv, [Next]_vars
             PROVE  CInv'
  OBVIOUS
<1>1. ASSUME NEW p \in Phones, Plug(p) \/ Unplug(p)
      PROVE  CInv'
  <2>1. mode' \in [Phones -> Modes]
    BY <1>1 DEF Plug, Unplug, CInv, TypeOK, Kinds, Modes
  <2>2. TypeOK'
    BY <1>1, <2>1 DEF Plug, Unplug, CInv, TypeOK, pageVars
  <2>3. QED
    BY <1>1, <2>2, QuietKeepsInv DEF Plug, Unplug
<1>2. ASSUME NEW p \in Phones, Detect(p)
      PROVE  CInv'
  BY <1>2, DetectKeepsInv
<1>3. ASSUME NEW p \in Phones, Lose(p)
      PROVE  CInv'
  BY <1>3, LoseKeepsInv
<1>4. ASSUME NEW n \in Objects, Answers(n)
      PROVE  CInv'
  BY <1>4, SettleKeepsInv, AnswersKeepInv DEF Answers
<1>5. CASE ListArrives \/ ListFails \/ Online
  <2>1. TypeOK'
    BY <1>5 DEF ListArrives, ListFails, Online, CInv, TypeOK, phoneVars, pageVars
  <2>2. QED
    BY <1>5, <2>1, QuietKeepsInv DEF ListArrives, ListFails, Online
<1>6. ASSUME NEW b \in Phones \cup {"local"}, Pick(b)
      PROVE  CInv'
  <2>1. TypeOK'
    BY <1>6 DEF Pick, CInv, TypeOK, phoneVars
  <2>2. QED
    BY <1>6, <2>1, QuietKeepsInv DEF Pick
<1>7. CASE UNCHANGED vars
  <2>1. TypeOK'
    BY <1>7 DEF vars, CInv, TypeOK
  <2>2. QED
    BY <1>7, <2>1, QuietKeepsInv DEF vars
<1>8. QED
  BY <1>1, <1>2, <1>3, <1>4, <1>5, <1>6, <1>7 DEF Next

\* Type correctness holds of every behaviour of the Device module and the page.
THEOREM TypeCorrect == Spec => []TypeOK
<1>1. CInv => TypeOK
  BY DEF CInv
<1>2. QED
  BY <1>1, InvInit, InvStep, PTL DEF Spec

\* Device.get() never hands out a phone known to be gone, nor the object of an earlier
\* connection, however many phones come and go.
THEOREM NeverStale == Spec => []HandedOutIsRegistered
<1>1. CInv => HandedOutIsRegistered
  BY DEF CInv
<1>2. QED
  BY <1>1, InvInit, InvStep, PTL DEF Spec

--------------------------------------------------------------------------------
(* The warning about several devices.  The add-on registers and unregisters one *)
(* device at a time, so that there are finitely many to count.                 *)

WarnInv == TypeOK /\ IsFiniteSet(Available) /\ TooManyShown

LEMMA WarnInit == Init => IsFiniteSet(Available) /\ TooManyShown
<1> SUFFICES ASSUME Init
             PROVE  IsFiniteSet(Available) /\ TooManyShown
  OBVIOUS
<1>1. Available = {}
  BY DEF Init, Available
<1>2. Cardinality(Available) = 0 /\ IsFiniteSet(Available)
  BY <1>1, FS_EmptySet
<1>3. QED
  BY <1>2 DEF Init, TooManyShown

LEMMA WarnStep == WarnInv /\ TypeOK' /\ [Next]_vars => WarnInv'
<1> SUFFICES ASSUME WarnInv, TypeOK', [Next]_vars
             PROVE  IsFiniteSet(Available)' /\ TooManyShown'
  BY DEF WarnInv
<1>1. ASSUME NEW p \in Phones, Detect(p)
      PROVE  IsFiniteSet(Available)' /\ TooManyShown'
  <2>1. p \notin Available
    BY <1>1 DEF Detect, Appeared, Available
  <2>2. Available' = Available \cup {p}
    <3>1. registered' = [registered EXCEPT ![p] = made + 1] /\ made + 1 # None
      BY <1>1 DEF Detect, WarnInv, TypeOK, None
    <3>2. QED
      BY <3>1 DEF Available, WarnInv, TypeOK
  <2>3. IsFiniteSet(Available') /\ Cardinality(Available') = Cardinality(Available) + 1
    BY <2>1, <2>2, FS_AddElement DEF WarnInv
  <2>4. Cardinality(Available) \in Nat /\ (Cardinality(Available) = 0 <=> Available = {})
    BY FS_CardinalityType, FS_EmptySet DEF WarnInv
  <2>5. tooMany' = ~(Available = {})
    BY <1>1 DEF Detect
  <2>6. Cardinality(Available') > 1 <=> ~(Available = {})
    BY <2>3, <2>4
  <2>7. QED
    BY <2>3, <2>5, <2>6, Zenon DEF TooManyShown
<1>2. ASSUME NEW p \in Phones, Lose(p)
      PROVE  IsFiniteSet(Available)' /\ TooManyShown'
  <2>1. Available' = Available \ {p}
    BY <1>2 DEF Lose, Available, WarnInv, TypeOK
  <2>2. IsFiniteSet(Available')
    BY <2>1, FS_Subset DEF WarnInv
  <2>3. tooMany' = (Cardinality(Available \ {p}) > 1)
    BY <1>2 DEF Lose, SeveralLeft
  <2>4. QED
    BY <2>1, <2>2, <2>3 DEF TooManyShown
<1>3. CASE UNCHANGED <<registered, tooMany>>
  <2>1. Available' = Available
    BY <1>3 DEF Available
  <2>2. QED
    BY <1>3, <2>1 DEF WarnInv, TooManyShown
<1>4. ASSUME NEW n \in Objects, Answers(n)
      PROVE  UNCHANGED <<registered, tooMany>>
  BY <1>4 DEF Answers, Settle, ChainModel, ChainProps, ChainFails, ChainB2G
<1>5. QED
  BY <1>1, <1>2, <1>3, <1>4
     DEF Next, vars, Plug, Unplug, ListArrives, ListFails, Online, Pick

\* The warning is up exactly while the add-on knows of more than one device.
THEOREM WarningExact == Spec => []TooManyShown
<1>1. Init => WarnInv
  BY InvInit, WarnInit DEF CInv, WarnInv
<1>2. CInv /\ CInv' /\ WarnInv /\ [Next]_vars => WarnInv'
  BY WarnStep DEF CInv
<1>3. WarnInv => TooManyShown
  BY DEF WarnInv
<1>4. QED
  BY <1>1, <1>2, <1>3, InvInit, InvStep, PTL DEF Spec

-----------------------------------------------------------------------------
(* The invariants of the install.                                            *)

\* A success is reported when the install is done, a failure when it has failed,
\* and nothing before it has ended.
Reported ==
    /\ Reports
    /\ run.phase \notin {"done", "failed"} => sent["failure"] = 0

\* checkDeviceIsB2G() is asked of an object that has been made.
AskedOfDevice == run.phase = "b2g" => run.held \in Objects

\* From imageStep() on, a fstab that names data is one that data may be written by.
DataPruned ==
    run.phase \in {"creating", "rebooting", "countdown3", "getfast", "flashing", "leaving"} =>
        (run.runsB2G /\ run.keepData => "data" \notin run.fstab)

IInv ==
    /\ CInv
    /\ run \in RunType
    /\ wrote \in [Phones -> SUBSET Partitions]
    /\ Reported /\ EveryImageTried /\ AskedOfDevice /\ DataPruned

(* The steps of an install, by what becomes of run and sent.                  *)

\* What the steps besides Compat, Inject and FlashImage leave alone.
Kept(now) ==
    /\ run'.runsB2G = now.runsB2G /\ run'.keepData = now.keepData
    /\ run'.fstab = now.fstab /\ run'.attempted = now.attempted

\* The install goes on to a phase of S, or has failed.
Outcome(now, S) ==
    /\ run' \in RunType
    /\ Kept(now)
    /\ run'.phase = "b2g" => run'.held \in Objects
    /\ \/ run'.phase \in S /\ UNCHANGED <<risky, sent>>
       \/ /\ run'.phase = "failed" /\ risky' = FALSE
          /\ sent' \in [Pings -> Nat] /\ sent'["success"] = sent["success"]
          /\ OptIn => \/ sent'["failure"] = sent["failure"] + 1
                      \/ run'.adb # None /\ ~run'.payload

\* Records of RunType, with a field changed.
LEMMA RunFields ==
    ASSUME NEW r \in RunType
    PROVE  /\ \A x \in Phases : [r EXCEPT !.phase = x] \in RunType
           /\ \A x \in 0..MaxObjects : [r EXCEPT !.held = x] \in RunType
           /\ \A x \in 0..MaxObjects : [r EXCEPT !.adb = x] \in RunType
           /\ \A x \in BOOLEAN : [r EXCEPT !.runsB2G = x] \in RunType
           /\ \A x \in SUBSET Partitions : [r EXCEPT !.fstab = x] \in RunType
           /\ \A x \in BOOLEAN : [r EXCEPT !.payload = x] \in RunType
           /\ \A x \in {"none", "progress", "failed", "confirm"} : [r EXCEPT !.dialog = x] \in RunType
           /\ \A x \in BOOLEAN : [r EXCEPT !.keepData = x] \in RunType
BY DEF RunType

\* What is not under way ends by no step.
LEMMA GoOnOutcome ==
    ASSUME NEW now \in RunType, NEW next \in Phases, GoOn(now, next),
           next = "b2g" => now.held \in Objects
    PROVE  Outcome(now, {next})
<1>1. run' = [now EXCEPT !.phase = next] /\ UNCHANGED <<risky, sent>>
  BY DEF GoOn
<1>2. run' \in RunType
  BY <1>1, RunFields
<1>3. Kept(now) /\ run'.phase = next /\ run'.held = now.held
  BY <1>1 DEF Kept, RunType
<1>4. QED
  BY <1>1, <1>2, <1>3 DEF Outcome

LEMMA FailOutcome ==
    ASSUME TypeOK, NEW now \in RunType, NEW S, Fail(now)
    PROVE  Outcome(now, S)
<1> DEFINE reported == now.payload \/ PayloadMade(now)
<1>1. /\ run' = [now EXCEPT !.phase = "failed", !.dialog = "failed", !.payload = reported]
      /\ risky' = FALSE
      /\ IF reported THEN Send("failure") ELSE UNCHANGED sent
  BY DEF Fail
<1>2. now.adb = None \/ now.adb \in Objects
  BY DEF RunType, Objects, None
<1>3. reported \in BOOLEAN
  BY <1>2 DEF PayloadMade, TypeOK, RunType
<1>4. run' = [phase |-> "failed", held |-> now.held, adb |-> now.adb, runsB2G |-> now.runsB2G,
              keepData |-> now.keepData, fstab |-> now.fstab, attempted |-> now.attempted,
              payload |-> reported, dialog |-> "failed"]
  BY <1>1 DEF RunType
<1>5. /\ run' \in RunType /\ Kept(now) /\ run'.phase = "failed"
      /\ run'.adb = now.adb /\ run'.payload = reported
  <2> HIDE DEF reported
  <2>1. "failed" \in Phases
    BY DEF Phases, Ended
  <2>2. QED
    BY <1>3, <1>4, <2>1 DEF RunType, Kept
<1>6. sent' \in [Pings -> Nat] /\ sent'["success"] = sent["success"]
  BY <1>1 DEF Send, TypeOK, Pings
<1>7. OptIn => sent'["failure"] = sent["failure"] + 1 \/ (run'.adb # None /\ ~run'.payload)
  <2>1. CASE reported
    BY <1>1, <2>1 DEF Send, TypeOK, Pings
  <2>2. CASE ~reported
    BY <1>5, <2>2 DEF PayloadMade
  <2>3. QED
    BY <2>1, <2>2
<1>8. QED
  BY <1>1, <1>5, <1>6, <1>7 DEF Outcome

LEMMA GetDeviceOutcome ==
    ASSUME TypeOK, NEW now \in RunType, NEW next \in Phases, GetDevice(now, next)
    PROVE  Outcome(now, {next})
<1>1. CASE devicePromise = None
  BY <1>1, FailOutcome DEF GetDevice
<1>2. CASE devicePromise # None
  <2> DEFINE then == [now EXCEPT !.held = devicePromise]
  <2>1. devicePromise \in Objects /\ devicePromise \in 0..MaxObjects
    BY <1>2 DEF TypeOK, Objects, None
  <2>2. then \in RunType /\ then.held \in Objects
    <3>1. then \in RunType
      BY <2>1, RunFields
    <3>2. then.held = devicePromise
      BY DEF RunType
    <3>3. QED
      BY <2>1, <3>1, <3>2
  <2>5. GoOn(then, next)
    BY <1>2 DEF GetDevice
  <2>3. /\ then.runsB2G = now.runsB2G /\ then.keepData = now.keepData
        /\ then.fstab = now.fstab /\ then.attempted = now.attempted
    BY DEF RunType
  <2> HIDE DEF then
  <2>4. Outcome(then, {next})
    BY <2>2, <2>5, GoOnOutcome
  <2>6. QED
    BY <2>3, <2>4 DEF Outcome, Kept
<1>3. QED
  BY <1>1, <1>2

\* An install that goes on, or has failed, keeps its invariants, provided that it
\* does not go on to the end and that the fstab is pruned when it has to be.
LEMMA OutcomeKeeps ==
    ASSUME IInv, NEW now \in RunType, NEW S, Outcome(now, S),
           run.phase \notin {"done", "failed"},
           S \cap {"done", "failed", "leaving"} = {},
           \/ S \cap {"creating", "rebooting", "countdown3", "getfast", "flashing"} = {}
           \/ now.runsB2G /\ now.keepData => "data" \notin now.fstab
    PROVE  Reported' /\ EveryImageTried' /\ AskedOfDevice' /\ DataPruned'
<1>1. run.phase # "done" /\ sent["success"] = 0 /\ sent["failure"] = 0
  BY DEF IInv, Reported, Reports
<1>2. run'.phase # "done" /\ run'.phase # "leaving"
  BY DEF Outcome
<1>3. Reported'
  BY <1>1, <1>2 DEF Outcome, Reported, Reports
<1>4. EveryImageTried' /\ AskedOfDevice'
  BY <1>2 DEF Outcome, EveryImageTried, AskedOfDevice
<1>5. DataPruned'
  <2>1. CASE run'.phase \in {"creating", "rebooting", "countdown3", "getfast", "flashing"}
    BY <2>1 DEF Outcome, Kept, DataPruned
  <2>2. CASE run'.phase \notin {"creating", "rebooting", "countdown3", "getfast", "flashing"}
    BY <2>2, <1>2 DEF DataPruned
  <2>3. QED
    BY <2>1, <2>2
<1>6. QED
  BY <1>3, <1>4, <1>5

\* The steps that need no more than their outcome.
LEMMA StepOutcome ==
    ASSUME IInv,
           \/ Download \/ Extract \/ Root \/ CheckB2G \/ ReadAppIni \/ Debuggable
           \/ StopB2G \/ Pull \/ Create \/ RebootBootloader \/ GetFastboot
           \/ Countdown \/ Hang \/ StepFails
    PROVE  \E now \in RunType, S \in SUBSET Phases :
              /\ Outcome(now, S)
              /\ run.phase \notin {"done", "failed", "idle"}
              /\ S \cap {"done", "failed", "leaving"} = {}
              /\ \/ S \cap {"creating", "rebooting", "countdown3", "getfast", "flashing"} = {}
                 \/ now.runsB2G /\ now.keepData => "data" \notin now.fstab
<1> USE DEF Phases, PagePhases, PhonePhases, Countdowns, Ended
<1>1. run \in RunType /\ TypeOK
  BY DEF IInv, CInv
<1>2. ASSUME NEW now \in RunType, NEW S \in SUBSET Phases, Outcome(now, S),
             run.phase \notin {"done", "failed", "idle"},
             S \cap {"done", "failed", "leaving"} = {},
             \/ S \cap {"creating", "rebooting", "countdown3", "getfast", "flashing"} = {}
             \/ now.runsB2G /\ now.keepData => "data" \notin now.fstab
      PROVE  \E x \in RunType, T \in SUBSET Phases :
                /\ Outcome(x, T)
                /\ run.phase \notin {"done", "failed", "idle"}
                /\ T \cap {"done", "failed", "leaving"} = {}
                /\ \/ T \cap {"creating", "rebooting", "countdown3", "getfast", "flashing"} = {}
                   \/ x.runsB2G /\ x.keepData => "data" \notin x.fstab
  BY <1>2, Zenon
<1> HIDE DEF Phases
<1>3. \A x \in PagePhases \cup PhonePhases \cup Countdowns : x \in Phases
  BY DEF Phases
<1>4. CASE Download
  <2>1. Outcome(run, {"extracting"}) /\ run.phase = "downloading"
    BY <1>1, <1>3, <1>4, GoOnOutcome DEF Download
  <2>2. QED
    BY <1>1, <1>2, <1>3, <2>1
<1>5. CASE Extract
  <2>1. Outcome(run, {"compat"}) /\ run.phase = "extracting"
    BY <1>1, <1>3, <1>5, GetDeviceOutcome DEF Extract
  <2>2. QED
    BY <1>1, <1>2, <1>3, <2>1
<1>6. CASE Root
  <2>1. CASE run.phase = "root" /\ GoOn(run, "countdown")
    <3>1. Outcome(run, {"countdown"})
      BY <1>1, <1>3, <2>1, GoOnOutcome
    <3>2. QED
      BY <1>1, <1>2, <1>3, <2>1, <3>1
  <2>2. CASE run.phase = "root2" /\ GoOn(run, "countdown2")
    <3>1. Outcome(run, {"countdown2"})
      BY <1>1, <1>3, <2>2, GoOnOutcome
    <3>2. QED
      BY <1>1, <1>2, <1>3, <2>2, <3>1
  <2>3. QED
    BY <1>6, <2>1, <2>2 DEF Root
<1>7. CASE CheckB2G
  <2> DEFINE found == HeldPhone \in B2GPhones
             now == [run EXCEPT !.runsB2G = found]
  <2>1. now \in RunType
    <3>1. found \in BOOLEAN
      OBVIOUS
    <3> HIDE DEF found
    <3>2. QED
      BY <1>1, <3>1, RunFields
  <2>2. GoOn(now, "appini") /\ run.phase = "b2g"
    BY <1>7 DEF CheckB2G
  <2> HIDE DEF now
  <2>3. Outcome(now, {"appini"})
    BY <1>3, <2>1, <2>2, GoOnOutcome
  <2>4. QED
    BY <1>2, <1>3, <2>1, <2>2, <2>3
<1>8. CASE ReadAppIni
  <2>1. run.phase = "appini" /\ \E x \in {"debuggable", "pulling"} : GoOn(run, x)
    BY <1>8 DEF ReadAppIni
  <2>2. PICK x \in {"debuggable", "pulling"} : GoOn(run, x)
    BY <2>1
  <2>3. Outcome(run, {x})
    BY <1>1, <1>3, <2>2, GoOnOutcome
  <2>4. QED
    BY <1>1, <1>2, <1>3, <2>1, <2>3
<1>9. CASE Debuggable
  <2>1. run.phase = "debuggable"
    BY <1>9 DEF Debuggable
  <2>2. CASE \E x \in {"root2", "pulling"} : GoOn(run, x)
    <3>1. PICK x \in {"root2", "pulling"} : GoOn(run, x)
      BY <2>2
    <3>2. Outcome(run, {x})
      BY <1>1, <1>3, <3>1, GoOnOutcome
    <3>3. QED
      BY <1>1, <1>2, <1>3, <2>1, <3>2
  <2>3. CASE Fail(run)
    <3>1. Outcome(run, {})
      BY <1>1, <2>3, FailOutcome
    <3>2. QED
      BY <1>1, <1>2, <2>1, <3>1
  <2>4. QED
    BY <1>9, <2>2, <2>3 DEF Debuggable
<1>10. CASE StopB2G
  <2>1. Outcome(run, {"pulling"}) /\ run.phase = "stop"
    BY <1>1, <1>3, <1>10, GoOnOutcome DEF StopB2G
  <2>2. QED
    BY <1>1, <1>2, <1>3, <2>1
<1>11. CASE Pull
  <2> DEFINE now == [run EXCEPT !.adb = run.held]
             paid == [now EXCEPT !.payload = TRUE]
  <2>1. now \in RunType
    BY <1>1, RunFields DEF RunType
  <2>2. paid \in RunType
    BY <2>1, RunFields
  <2>3. (GoOn(paid, "injecting") \/ Fail(now)) /\ run.phase = "pulling"
    BY <1>11 DEF Pull
  <2> HIDE DEF now, paid
  <2>4. CASE GoOn(paid, "injecting")
    <3>1. Outcome(paid, {"injecting"})
      BY <1>3, <2>2, <2>4, GoOnOutcome
    <3>2. QED
      BY <1>2, <1>3, <2>2, <2>3, <3>1
  <2>5. CASE Fail(now)
    <3>1. Outcome(now, {})
      BY <1>1, <2>1, <2>5, FailOutcome
    <3>2. QED
      BY <1>2, <2>1, <2>3, <3>1
  <2>6. QED
    BY <2>3, <2>4, <2>5
<1>12. CASE Create
  <2> DEFINE now == [run EXCEPT !.held = run.adb]
  <2>1. now \in RunType
    BY <1>1, RunFields DEF RunType
  <2>2. run.phase = "creating" /\ (GoOn(now, "rebooting") \/ GoOn(run, "silent"))
    BY <1>12 DEF Create
  <2>3. now.runsB2G /\ now.keepData => "data" \notin now.fstab
    BY <1>1, <2>2 DEF IInv, DataPruned, RunType
  <2> HIDE DEF now
  <2>4. CASE GoOn(now, "rebooting")
    <3>1. Outcome(now, {"rebooting"})
      BY <1>3, <2>1, <2>4, GoOnOutcome
    <3>2. QED
      BY <1>2, <1>3, <2>1, <2>2, <2>3, <3>1
  <2>5. CASE GoOn(run, "silent")
    <3>1. "silent" \in Phases
      BY DEF Phases, Lost
    <3>2. Outcome(run, {"silent"})
      BY <1>1, <2>5, <3>1, GoOnOutcome
    <3>3. QED
      BY <1>1, <1>2, <2>2, <3>1, <3>2
  <2>6. QED
    BY <2>2, <2>4, <2>5
<1>13. CASE RebootBootloader
  <2>1. Outcome(run, {"countdown3"}) /\ run.phase = "rebooting"
    BY <1>1, <1>3, <1>13, GoOnOutcome DEF RebootBootloader
  <2>2. run.runsB2G /\ run.keepData => "data" \notin run.fstab
    BY <2>1 DEF IInv, DataPruned
  <2>3. QED
    BY <1>1, <1>2, <1>3, <2>1, <2>2
<1>14. CASE GetFastboot
  <2>1. run.phase = "getfast" /\ (GoOn(run, "flashing") \/ Fail(run))
    BY <1>14 DEF GetFastboot
  <2>2. run.runsB2G /\ run.keepData => "data" \notin run.fstab
    BY <2>1 DEF IInv, DataPruned
  <2>3. Outcome(run, {"flashing"})
    BY <1>1, <1>3, <2>1, GoOnOutcome, FailOutcome
  <2>4. QED
    BY <1>1, <1>2, <1>3, <2>1, <2>2, <2>3
<1>15. CASE Countdown
  <2>1. CASE run.phase = "countdown" /\ GetDevice(run, "b2g")
    <3>1. Outcome(run, {"b2g"})
      BY <1>1, <1>3, <2>1, GetDeviceOutcome
    <3>2. QED
      BY <1>1, <1>2, <1>3, <2>1, <3>1
  <2>2. CASE run.phase = "countdown2" /\ GoOn(run, "stop")
    <3>1. Outcome(run, {"stop"})
      BY <1>1, <1>3, <2>2, GoOnOutcome
    <3>2. QED
      BY <1>1, <1>2, <1>3, <2>2, <3>1
  <2>3. CASE run.phase = "countdown3" /\ GetDevice(run, "getfast")
    <3>1. Outcome(run, {"getfast"})
      BY <1>1, <1>3, <2>3, GetDeviceOutcome
    <3>2. run.runsB2G /\ run.keepData => "data" \notin run.fstab
      BY <2>3 DEF IInv, DataPruned
    <3>3. QED
      BY <1>1, <1>2, <1>3, <2>3, <3>1, <3>2
  <2>4. QED
    BY <1>15, <2>1, <2>2, <2>3 DEF Countdown
<1>16. CASE Hang
  <2>1. "hung" \in Phases
    BY DEF Phases, Lost
  <2>2. Outcome(run, {"hung"}) /\ run.phase \in Unhandled
    BY <1>1, <1>16, <2>1, GoOnOutcome DEF Hang
  <2>3. QED
    BY <1>1, <1>2, <2>1, <2>2 DEF Unhandled
<1>17. CASE StepFails
  <2>1. Outcome(run, {})
    BY <1>1, <1>17, FailOutcome DEF StepFails
  <2>2. run.phase \notin {"done", "failed", "idle"}
    BY <1>17 DEF StepFails
  <2>3. QED
    BY <1>1, <1>2, <2>1, <2>2
<1>18. QED
  BY <1>4, <1>5, <1>6, <1>7, <1>8, <1>9, <1>10, <1>11, <1>12, <1>13, <1>14, <1>15, <1>16, <1>17

(* The state that the install shares with the device module and the page.      *)

\* isSupportedConfig() changes one bit of one object.
LEMMA KeptPropsEffect ==
    ASSUME TypeOK, NEW n, dev' = KeptProps(n)
    PROVE  /\ dev' \in [Objects -> Device]
           /\ \A m \in Objects : dev'[m].phone = dev[m].phone /\ dev'[m].wait = dev[m].wait
<1>1. dev \in [Objects -> Device] /\ dev' = [dev EXCEPT ![n].read = TRUE]
  BY DEF TypeOK, Device, KeptProps
<1>2. \A m \in Objects : dev'[m] = dev[m] \/ dev'[m] = [dev[m] EXCEPT !.read = TRUE]
  BY <1>1
<1>3. \A m \in Objects : dev'[m] \in Device
  <2>1. \A m \in Objects : dev[m] \in Device /\ [dev[m] EXCEPT !.read = TRUE] \in Device
    BY <1>1, DeviceTypes, Zenon
  <2>2. QED
    BY <1>2, <2>1, Zenon
<1>4. dev' = [m \in Objects |-> dev'[m]]
  BY <1>1
<1>5. \A m \in Objects : dev'[m].phone = dev[m].phone /\ dev'[m].wait = dev[m].wait
  BY <1>1, <1>2 DEF Device
<1>6. QED
  BY <1>3, <1>4, <1>5

\* Phones restart, the page is told to go on, and pings are sent.
LEMMA SharedKeeps ==
    ASSUME CInv, UNCHANGED <<registered, made, devicePromise, chain, list, tooMany, shown,
                             noDevice, keepShown, picked>>,
           dev' = dev \/ \E n \in 0..MaxObjects : dev' = KeptProps(n),
           mode' \in [Phones -> Modes], polling' \in BOOLEAN, risky' \in BOOLEAN,
           step' \in {"connect", "select", "flash"}, sent' \in [Pings -> Nat]
    PROVE  CInv'
<1>1. TypeOK
  BY DEF CInv
<1>2. /\ dev' \in [Objects -> Device]
      /\ \A m \in Objects : dev'[m].phone = dev[m].phone /\ dev'[m].wait = dev[m].wait
  <2>1. CASE dev' = dev
    BY <1>1, <2>1 DEF TypeOK, Device
  <2>2. CASE \E n \in 0..MaxObjects : dev' = KeptProps(n)
    BY <1>1, <2>2, KeptPropsEffect
  <2>3. QED
    BY <2>1, <2>2
<1>3. TypeOK'
  BY <1>1, <1>2 DEF TypeOK, Device
<1>4. QED
  BY <1>2, <1>3, ChainKeepsInv

LEMMA InstallStepShared ==
    ASSUME IInv, InstallStep, sent' \in [Pings -> Nat], risky' \in BOOLEAN
    PROVE  CInv'
<1>1. CInv /\ TypeOK
  BY DEF IInv, CInv
<1>2. UNCHANGED <<registered, made, devicePromise, chain, list, tooMany, shown,
                  noDevice, keepShown, picked>>
  BY DEF InstallStep, connectVars
<1>3. \A p, m : m \in Modes => [mode EXCEPT ![p] = m] \in [Phones -> Modes]
  BY <1>1 DEF TypeOK
<1>4. {"toadb", "tofastboot"} \subseteq Modes
  BY DEF Modes
<1>5. mode' = mode \/ \E m \in {"toadb", "tofastboot"} : ModeTo(m)
  BY DEF InstallStep, Quiet, Download, Extract, Compat, Root, CheckB2G, ReadAppIni, Debuggable,
         StopB2G, Pull, Inject, Create, RebootBootloader, GetFastboot, FlashImage, Reboot,
         Countdown, Hang, StepFails
<1>6. mode' \in [Phones -> Modes]
  BY <1>1, <1>3, <1>4, <1>5 DEF ModeTo, TypeOK
<1>7. polling' \in BOOLEAN /\ step' = step
  BY <1>1 DEF TypeOK, InstallStep, Quiet, Download, Extract, Compat, Root, CheckB2G, ReadAppIni,
         Debuggable, StopB2G, Pull, Inject, Create, RebootBootloader, GetFastboot, FlashImage,
         Reboot, Countdown, Hang, StepFails
<1>8. dev' = dev \/ dev' = KeptProps(run.held)
  BY DEF InstallStep, Quiet, Download, Extract, Compat, Root, CheckB2G, ReadAppIni,
         Debuggable, StopB2G, Pull, Inject, Create, RebootBootloader, GetFastboot, FlashImage,
         Reboot, Countdown, Hang, StepFails
<1>9. run.held \in 0..MaxObjects
  BY DEF IInv, RunType
<1>10. step' \in {"connect", "select", "flash"}
  BY <1>1, <1>7 DEF TypeOK
<1>11. QED
  BY <1>1, <1>2, <1>6, <1>7, <1>8, <1>9, <1>10, SharedKeeps

(* The steps that change the fstab, the images tried, or the end.              *)

LEMMA CompatKeeps ==
    ASSUME IInv, Compat
    PROVE  /\ run' \in RunType /\ sent' \in [Pings -> Nat] /\ risky' \in BOOLEAN
           /\ Reported' /\ EveryImageTried' /\ AskedOfDevice' /\ DataPruned'
<1> DEFINE now == [run EXCEPT !.fstab = Partitions]
<1>1. now \in RunType
  BY RunFields DEF IInv
<1>2. run.phase = "compat"
  BY DEF Compat
<1>3. PICK x \in {"root", "b2g"} : GetDevice(now, x)
  BY DEF Compat
<1>4. x \in Phases /\ TypeOK
  BY DEF Phases, PhonePhases, IInv, CInv
<1> HIDE DEF now
<1>5. Outcome(now, {x})
  BY <1>1, <1>3, <1>4, GetDeviceOutcome
<1>6. Reported' /\ EveryImageTried' /\ AskedOfDevice' /\ DataPruned'
  BY <1>1, <1>2, <1>5, OutcomeKeeps
<1>7. QED
  BY <1>4, <1>5, <1>6 DEF Outcome, TypeOK

LEMMA InjectKeeps ==
    ASSUME IInv, Inject
    PROVE  /\ run' \in RunType /\ sent' \in [Pings -> Nat] /\ risky' \in BOOLEAN
           /\ Reported' /\ EveryImageTried' /\ AskedOfDevice' /\ DataPruned'
<1> DEFINE now == [run EXCEPT !.fstab = FstabToFlash(run)]
<1>1. run \in RunType /\ TypeOK /\ run.phase = "injecting"
  BY DEF Inject, IInv, CInv
<1>2. FstabToFlash(run) \in SUBSET Partitions
  BY <1>1 DEF RunType, FstabToFlash
<1>3. now \in RunType
  BY <1>1, <1>2, RunFields
<1>4. now.runsB2G = run.runsB2G /\ now.keepData = run.keepData /\ now.fstab = FstabToFlash(run)
  BY <1>1 DEF RunType
<1>5. now.runsB2G /\ now.keepData => "data" \notin now.fstab
  BY <1>4 DEF FstabToFlash
<1>6. GoOn(now, "creating") /\ "creating" \in Phases
  BY DEF Inject, Phases, PagePhases
<1> HIDE DEF now
<1>7. Outcome(now, {"creating"})
  BY <1>3, <1>6, GoOnOutcome
<1>8. Reported' /\ EveryImageTried' /\ AskedOfDevice' /\ DataPruned'
  BY <1>1, <1>3, <1>5, <1>7, OutcomeKeeps
<1>9. QED
  BY <1>1, <1>7, <1>8 DEF Outcome, TypeOK

\* The last image that is tried leads to the reboot, and no other.
LEMMA FlashKeeps ==
    ASSUME IInv, NEW i \in Partitions, FlashImage(i)
    PROVE  /\ run' \in RunType /\ sent' \in [Pings -> Nat] /\ risky' \in BOOLEAN
           /\ wrote' \in [Phones -> SUBSET Partitions]
           /\ Reported' /\ EveryImageTried' /\ AskedOfDevice' /\ DataPruned'
<1> DEFINE tried == run.attempted \cup {i}
           next == IF tried # run.fstab THEN "flashing" ELSE "leaving"
<1>1. run \in RunType /\ TypeOK /\ run.phase = "flashing" /\ UNCHANGED <<risky, sent>>
  BY DEF FlashImage, IInv, CInv
<1>2. tried \in SUBSET Partitions /\ next \in Phases
  BY <1>1 DEF RunType, Phases, PhonePhases
<1>3. run' = [phase |-> next, held |-> run.held, adb |-> run.adb, runsB2G |-> run.runsB2G,
              keepData |-> run.keepData, fstab |-> run.fstab, attempted |-> tried,
              payload |-> run.payload, dialog |-> run.dialog]
  <2>1. run' = [run EXCEPT !.attempted = run.attempted \cup {i},
                           !.phase = IF run.attempted \cup {i} # run.fstab
                                     THEN "flashing" ELSE "leaving"]
    BY DEF FlashImage, AfterImage
  <2>2. QED
    BY <1>1, <2>1 DEF RunType
<1>4. next = "leaving" => tried = run.fstab
  OBVIOUS
<1>5. next \in {"flashing", "leaving"}
  OBVIOUS
<1> HIDE DEF tried, next
<1>6. run' \in RunType
  BY <1>1, <1>2, <1>3 DEF RunType
<1>7. wrote' \in [Phones -> SUBSET Partitions]
  <2>1. PICK now \in {wrote[HeldPhone], wrote[HeldPhone] \cup {i}} :
          wrote' = [wrote EXCEPT ![HeldPhone] = now]
    BY DEF FlashImage
  <2>2. wrote \in [Phones -> SUBSET Partitions]
    BY DEF IInv
  <2>3. HeldPhone \in Phones => now \in SUBSET Partitions
    BY <2>1, <2>2
  <2>4. QED
    BY <2>1, <2>2, <2>3
<1>8. Reported'
  BY <1>1, <1>3, <1>5 DEF IInv, Reported, Reports
<1>9. EveryImageTried' /\ AskedOfDevice'
  BY <1>3, <1>4, <1>5 DEF EveryImageTried, AskedOfDevice
<1>10. DataPruned'
  BY <1>1, <1>3 DEF IInv, DataPruned
<1>11. QED
  BY <1>1, <1>6, <1>7, <1>8, <1>9, <1>10 DEF TypeOK

\* A success is sent in the step that ends the install, which is risky no more.
LEMMA RebootKeeps ==
    ASSUME IInv, Reboot
    PROVE  /\ run' \in RunType /\ sent' \in [Pings -> Nat] /\ risky' \in BOOLEAN
           /\ Reported' /\ EveryImageTried' /\ AskedOfDevice' /\ DataPruned'
<1>1. run \in RunType /\ TypeOK /\ run.phase = "leaving"
  BY DEF Reboot, IInv, CInv
<1>2. /\ run' = [run EXCEPT !.phase = "done", !.dialog = "confirm"]
      /\ risky' = FALSE
      /\ sent' = IF OptIn /\ ~risky' THEN [sent EXCEPT !["success"] = @ + 1] ELSE sent
  BY DEF Reboot, Succeed, Send
<1>3. run' = [phase |-> "done", held |-> run.held, adb |-> run.adb, runsB2G |-> run.runsB2G,
              keepData |-> run.keepData, fstab |-> run.fstab, attempted |-> run.attempted,
              payload |-> run.payload, dialog |-> "confirm"]
  BY <1>1, <1>2 DEF RunType
<1>4. run' \in RunType
  BY <1>1, <1>3 DEF RunType, Phases, Ended
<1>5. sent' \in [Pings -> Nat]
  BY <1>1, <1>2 DEF TypeOK, Pings
<1>6. sent["success"] = 0 /\ sent["failure"] = 0
  BY <1>1 DEF IInv, Reported, Reports
<1>7. (OptIn => sent'["success"] = 1) /\ sent'["failure"] = 0
  BY <1>1, <1>2, <1>6 DEF TypeOK, Pings
<1>8. Reported'
  BY <1>3, <1>7 DEF Reported, Reports
<1>9. EveryImageTried' /\ AskedOfDevice' /\ DataPruned'
  BY <1>1, <1>3 DEF IInv, EveryImageTried, AskedOfDevice, DataPruned
<1>10. QED
  BY <1>2, <1>4, <1>5, <1>8, <1>9

LEMMA InstallStepKeeps == IInv /\ InstallStep => IInv'
<1> SUFFICES ASSUME IInv, InstallStep
             PROVE  IInv'
  OBVIOUS
<1> DEFINE Rest == /\ run' \in RunType /\ sent' \in [Pings -> Nat] /\ risky' \in BOOLEAN
                   /\ wrote' \in [Phones -> SUBSET Partitions]
                   /\ Reported' /\ EveryImageTried' /\ AskedOfDevice' /\ DataPruned'
<1>1. ASSUME \/ Download \/ Extract \/ Root \/ CheckB2G \/ ReadAppIni \/ Debuggable
             \/ StopB2G \/ Pull \/ Create \/ RebootBootloader \/ GetFastboot
             \/ Countdown \/ Hang \/ StepFails
      PROVE  Rest
  <2>1. PICK now \in RunType, S \in SUBSET Phases :
              /\ Outcome(now, S)
              /\ run.phase \notin {"done", "failed", "idle"}
              /\ S \cap {"done", "failed", "leaving"} = {}
              /\ \/ S \cap {"creating", "rebooting", "countdown3", "getfast", "flashing"} = {}
                 \/ now.runsB2G /\ now.keepData => "data" \notin now.fstab
    BY <1>1, StepOutcome
  <2>2. Reported' /\ EveryImageTried' /\ AskedOfDevice' /\ DataPruned'
    BY <2>1, OutcomeKeeps
  <2>3. run' \in RunType /\ sent' \in [Pings -> Nat] /\ risky' \in BOOLEAN
    BY <2>1 DEF Outcome, IInv, CInv, TypeOK
  <2>4. wrote' = wrote
    BY <1>1 DEF Quiet, Download, Extract, Root, CheckB2G, ReadAppIni, Debuggable, StopB2G,
                Pull, Create, RebootBootloader, GetFastboot, Countdown, Hang, StepFails
  <2>5. QED
    BY <2>2, <2>3, <2>4 DEF IInv
<1>2. ASSUME Compat
      PROVE  Rest
  BY <1>2, CompatKeeps DEF Compat, IInv
<1>3. ASSUME Inject
      PROVE  Rest
  BY <1>3, InjectKeeps DEF Inject, Quiet, IInv
<1>4. ASSUME NEW i \in Partitions, FlashImage(i)
      PROVE  Rest
  BY <1>4, FlashKeeps
<1>5. ASSUME Reboot
      PROVE  Rest
  BY <1>5, RebootKeeps DEF Reboot, IInv
<1>6. Rest
  BY <1>1, <1>2, <1>3, <1>4, <1>5 DEF InstallStep
<1>7. QED
  BY <1>6, InstallStepShared DEF IInv

(* The other steps.                                                            *)

\* Device module and page go on during an install: they only send pings of their own.
LEMMA ConnectStepKeeps ==
    ASSUME IInv, [Next]_vars, UNCHANGED <<run, wrote>>
    PROVE  IInv'
<1>1. CInv /\ TypeOK /\ CInv' /\ TypeOK'
  BY InvStep DEF IInv, CInv
<1>2. sent'["success"] = sent["success"] /\ sent'["failure"] = sent["failure"]
  <2>1. CASE UNCHANGED sent
    BY <2>1
  <2>2. ASSUME NEW n \in Objects, ChainB2G(n)
        PROVE  sent'["success"] = sent["success"] /\ sent'["failure"] = sent["failure"]
    BY <1>1, <2>2 DEF ChainB2G, Send, TypeOK, Pings
  <2>3. QED
    BY <2>1, <2>2 DEF Next, vars, Plug, Unplug, Detect, Lose, Answers, Settle, ChainModel,
                      ChainProps, ChainFails, ListArrives, ListFails, Online, Pick
<1>3. Reported'
  BY <1>2 DEF IInv, Reported, Reports
<1>4. EveryImageTried' /\ AskedOfDevice' /\ DataPruned'
  BY DEF IInv, EveryImageTried, AskedOfDevice, DataPruned
<1>5. QED
  BY <1>1, <1>3, <1>4 DEF IInv

\* The user ticks a box, clicks, or takes the confirmation down.
LEMMA UserKeeps ==
    ASSUME IInv, ToggleKeep \/ Click \/ Dismiss
    PROVE  IInv'
<1>1. CInv /\ TypeOK /\ run \in RunType
  BY DEF IInv, CInv
<1>2. run' \in RunType
  <2>1. \/ run' = [run EXCEPT !.keepData = ~run.keepData]
        \/ run' = [[run EXCEPT !.phase = "downloading"] EXCEPT !.dialog = "progress"]
        \/ run' = [run EXCEPT !.dialog = "none"]
    BY DEF ToggleKeep, Click, Dismiss
  <2>2. "downloading" \in Phases /\ (~run.keepData) \in BOOLEAN
    BY DEF Phases, PagePhases
  <2>3. [run EXCEPT !.phase = "downloading"] \in RunType
    BY <1>1, <2>2, RunFields
  <2>4. [[run EXCEPT !.phase = "downloading"] EXCEPT !.dialog = "progress"] \in RunType
    BY <2>3, RunFields
  <2>5. [run EXCEPT !.keepData = ~run.keepData] \in RunType
    BY <1>1, <2>2, RunFields
  <2>6. [run EXCEPT !.dialog = "none"] \in RunType
    BY <1>1, RunFields
  <2>7. QED
    BY <2>1, <2>4, <2>5, <2>6
<1>3. \/ run.phase = "idle" /\ run'.phase \in {"idle", "downloading"}
      \/ /\ run'.phase = run.phase /\ run'.fstab = run.fstab /\ run'.attempted = run.attempted
         /\ run'.runsB2G = run.runsB2G /\ run'.keepData = run.keepData /\ run'.held = run.held
         /\ run'.adb = run.adb /\ run'.payload = run.payload
  BY <1>1 DEF ToggleKeep, Click, Dismiss, RunType
<1>4. UNCHANGED <<sent, wrote>>
  BY DEF ToggleKeep, Click, Dismiss, Quiet
<1>5. Reported'
  BY <1>3, <1>4 DEF IInv, Reported, Reports
<1>6. EveryImageTried' /\ AskedOfDevice' /\ DataPruned'
  BY <1>3 DEF IInv, EveryImageTried, AskedOfDevice, DataPruned
<1>7. CInv'
  <2>1. /\ UNCHANGED <<registered, made, devicePromise, chain, list, tooMany, shown,
                       noDevice, keepShown, picked>>
        /\ dev' = dev /\ mode' = mode /\ polling' = polling /\ sent' = sent
        /\ risky' \in BOOLEAN /\ step' \in {"connect", "select", "flash"}
    BY <1>1 DEF ToggleKeep, Click, Dismiss, Quiet, connectVars, TypeOK
  <2>2. mode' \in [Phones -> Modes] /\ polling' \in BOOLEAN /\ sent' \in [Pings -> Nat]
    BY <1>1, <2>1 DEF TypeOK
  <2>3. QED
    BY <1>1, <2>1, <2>2, SharedKeeps
<1>8. QED
  BY <1>2, <1>4, <1>5, <1>6, <1>7 DEF IInv

LEMMA ReturnKeeps ==
    ASSUME IInv, NEW p \in Phones, Return(p)
    PROVE  IInv'
<1>1. CInv /\ TypeOK
  BY DEF IInv, CInv
<1>2. mode' \in [Phones -> Modes]
  BY <1>1 DEF Return, TypeOK, Modes
<1>3. CInv'
  BY <1>1, <1>2, SharedKeeps DEF Return, connectVars, TypeOK
<1>4. QED
  BY <1>3 DEF Return, IInv, Reported, Reports, EveryImageTried, AskedOfDevice, DataPruned

LEMMA InstallInvInit == InstallInit => IInv
<1> SUFFICES ASSUME InstallInit
             PROVE  IInv
  OBVIOUS
<1>1. CInv
  BY InvInit DEF InstallInit
<1>2. run \in RunType
  BY DEF InstallInit, RunType, Phases, None
<1>3. wrote \in [Phones -> SUBSET Partitions]
  BY DEF InstallInit
<1>4. Reported
  BY DEF InstallInit, Init, Reported, Reports, Pings
<1>5. EveryImageTried /\ AskedOfDevice /\ DataPruned
  BY DEF InstallInit, EveryImageTried, AskedOfDevice, DataPruned
<1>6. QED
  BY <1>1, <1>2, <1>3, <1>4, <1>5 DEF IInv

LEMMA InstallInvStep == IInv /\ [InstallNext]_allVars => IInv'
<1> SUFFICES ASSUME IInv, [InstallNext]_allVars
             PROVE  IInv'
  OBVIOUS
<1>1. CASE Next /\ UNCHANGED <<run, wrote>>
  BY <1>1, ConnectStepKeeps
<1>2. CASE ToggleKeep \/ Click \/ Dismiss
  BY <1>2, UserKeeps
<1>3. CASE InstallStep
  BY <1>3, InstallStepKeeps
<1>4. ASSUME NEW p \in Phones, Return(p)
      PROVE  IInv'
  BY <1>4, ReturnKeeps
<1>5. CASE UNCHANGED allVars
  BY <1>5, ConnectStepKeeps DEF allVars
<1>6. QED
  BY <1>1, <1>2, <1>3, <1>4, <1>5 DEF InstallNext

--------------------------------------------------------------------------------
(* What follows.                                                               *)

\* Every variable of the install, and of what goes on beside it, has its type.
THEOREM InstallTypeCorrect == InstallSpec => []InstallTypeOK
<1>1. IInv => InstallTypeOK
  BY DEF IInv, CInv, InstallTypeOK
<1>2. QED
  BY <1>1, InstallInvInit, InstallInvStep, PTL DEF InstallSpec

\* A success is reported as one, once, and only by an install that is done; a
\* failure never is, whatever connects or disconnects meanwhile.
THEOREM ReportsCorrect == InstallSpec => []ReportsRight
<1>1. IInv => ReportsRight
  BY DEF IInv, CInv, InstallTypeOK, Reported, ReportsRight
<1>2. QED
  BY <1>1, InstallInvInit, InstallInvStep, PTL DEF InstallSpec

\* The phone is rebooted only after every image to be flashed has been tried.
THEOREM AllTried == InstallSpec => []EveryImageTried
<1>1. IInv => EveryImageTried
  BY DEF IInv
<1>2. QED
  BY <1>1, InstallInvInit, InstallInvStep, PTL DEF InstallSpec

(* No ping is sent from the click to the end: the flag that Send looks at is set all *)
(* the time, since nothing but the end of the install clears it.                 *)

\* The page is in a risky path from the click on, until the install has ended.
RiskyUnderway == Underway => risky

\* The device module and the page leave the flag alone, and send only without it.
LEMMA ConnectStepSends ==
    ASSUME [Next]_vars
    PROVE  risky' = risky /\ (sent' # sent => ~risky)
<1>1. ASSUME NEW n \in Objects, ChainB2G(n)
      PROVE  risky' = risky /\ (sent' # sent => ~risky)
  BY <1>1 DEF ChainB2G, Send
<1>2. QED
  BY <1>1 DEF Next, vars, Plug, Unplug, Detect, Lose, Answers, Settle, ChainModel,
              ChainProps, ChainFails, ListArrives, ListFails, Online, Pick

\* An install that goes on clears no flag and sends nothing.
LEMMA InstallStepSends ==
    ASSUME IInv, InstallStep
    PROVE  \/ ~Underway'
           \/ Underway /\ UNCHANGED <<risky, sent>>
<1>1. run \in RunType /\ TypeOK
  BY DEF IInv, CInv
<1>2. ASSUME NEW now, NEW S, Outcome(now, S), run.phase \notin {"done", "failed", "idle"}
      PROVE  ~Underway' \/ (Underway /\ UNCHANGED <<risky, sent>>)
  BY <1>2 DEF Outcome, Underway, Ended
<1>3. CASE \/ Download \/ Extract \/ Root \/ CheckB2G \/ ReadAppIni \/ Debuggable
           \/ StopB2G \/ Pull \/ Create \/ RebootBootloader \/ GetFastboot
           \/ Countdown \/ Hang \/ StepFails
  BY <1>2, <1>3, StepOutcome
<1>4. CASE Compat
  <2> DEFINE now == [run EXCEPT !.fstab = Partitions]
  <2>1. now \in RunType
    BY <1>1, RunFields
  <2>2. PICK x \in {"root", "b2g"} : GetDevice(now, x)
    BY <1>4 DEF Compat
  <2>3. x \in Phases /\ run.phase = "compat"
    BY <1>4 DEF Compat, Phases, PhonePhases
  <2> HIDE DEF now
  <2>4. Outcome(now, {x})
    BY <1>1, <2>1, <2>2, <2>3, GetDeviceOutcome
  <2>5. QED
    BY <1>2, <2>3, <2>4
<1>5. CASE Inject \/ \E i \in Partitions : FlashImage(i)
  BY <1>5 DEF Inject, FlashImage, GoOn, Underway, Ended
<1>6. CASE Reboot
  <2>1. run' = [run EXCEPT !.phase = "done", !.dialog = "confirm"]
    BY <1>6 DEF Reboot, Succeed
  <2>2. run'.phase = "done"
    BY <1>1, <2>1 DEF RunType
  <2>3. QED
    BY <2>2 DEF Underway, Ended
<1>7. QED
  BY <1>3, <1>4, <1>5, <1>6 DEF InstallStep

\* However often the phone is lost and found again by an install, nothing is sent
\* between the click and its end, by its own chain, a late one or the install itself; and
\* an install that has gone silent keeps the page from ever sending again.
THEOREM SilentTillEnd == InstallSpec => SilentUnderway
<1>1. InstallInit => RiskyUnderway
  BY DEF InstallInit, RiskyUnderway, Underway
<1>2. IInv /\ RiskyUnderway /\ [InstallNext]_allVars =>
        RiskyUnderway' /\ (sent' # sent => ~Underway')
  <2> SUFFICES ASSUME IInv, RiskyUnderway, [InstallNext]_allVars
               PROVE  RiskyUnderway' /\ (sent' # sent => ~Underway')
    OBVIOUS
  <2>1. CASE Next /\ UNCHANGED <<run, wrote>>
    BY <2>1, ConnectStepSends DEF RiskyUnderway, Underway
  <2>2. CASE InstallStep
    BY <2>2, InstallStepSends DEF RiskyUnderway
  <2>3. CASE Click
    BY <2>3 DEF Click, RiskyUnderway
  <2>4. CASE ToggleKeep \/ Dismiss
    <3>1. run'.phase = run.phase /\ UNCHANGED <<risky, sent>>
      BY <2>4 DEF ToggleKeep, Dismiss, IInv, RunType
    <3>2. QED
      BY <3>1 DEF RiskyUnderway, Underway
  <2>5. CASE UNCHANGED allVars \/ \E p \in Phones : Return(p)
    BY <2>5 DEF allVars, vars, Return, RiskyUnderway, Underway
  <2>6. QED
    BY <2>1, <2>2, <2>3, <2>4, <2>5 DEF InstallNext
<1>3. QED
  BY <1>1, <1>2, InstallInvInit, InstallInvStep, PTL DEF InstallSpec, SilentUnderway

--------------------------------------------------------------------------------
(* The data of the user.  With several phones, the one that is flashed may not  *)
(* be the one that was asked whether it runs B2G (GetFastboot): what is said of *)
(* the phone flashed holds of one phone.                                        *)

\* The phases in which the phone has been asked.
Asked == {"appini", "debuggable", "root2", "countdown2", "stop", "pulling", "injecting",
          "creating", "rebooting", "countdown3", "getfast", "flashing", "leaving"}

AnswerKnown == run.phase \in Asked => (run.runsB2G <=> B2GPhones # {})

\* However the install gets where the phone has been asked, it kept the answer.
LEMMA AnswerStays ==
    ASSUME IInv, InstallStep, ~CheckB2G, run'.phase \in Asked
    PROVE  run.phase \in Asked /\ run'.runsB2G = run.runsB2G
<1>1. run \in RunType /\ TypeOK
  BY DEF IInv, CInv
<1>2. "failed" \notin Asked /\ Asked \subseteq Phases
  BY DEF Asked, Phases, PagePhases, PhonePhases, Countdowns
<1>3. ASSUME NEW now \in RunType, Fail(now)
      PROVE  FALSE
  BY <1>1, <1>2, <1>3, FailOutcome DEF Outcome
<1>4. ASSUME NEW now \in RunType, NEW next \in Phases, next # "b2g", GoOn(now, next)
      PROVE  next \in Asked /\ run'.runsB2G = now.runsB2G
  BY <1>4, GoOnOutcome DEF Outcome, Kept, Asked
<1>5. ASSUME NEW now \in RunType, NEW next \in Phases, GetDevice(now, next)
      PROVE  next \in Asked /\ run'.runsB2G = now.runsB2G
  BY <1>1, <1>2, <1>5, GetDeviceOutcome DEF Outcome, Kept
<1>6. CASE Download
  BY <1>1, <1>4, <1>6 DEF Download, Asked, Phases, PagePhases
<1>7. CASE Extract
  BY <1>1, <1>5, <1>7 DEF Extract, Asked, Phases, PhonePhases
<1>8. CASE Compat
  <2>1. PICK x \in {"root", "b2g"} : GetDevice([run EXCEPT !.fstab = Partitions], x)
    BY <1>8 DEF Compat
  <2>2. [run EXCEPT !.fstab = Partitions] \in RunType /\ x \in Phases
    BY <1>1, RunFields DEF Phases, PhonePhases
  <2>3. QED
    BY <1>5, <2>1, <2>2 DEF Asked
<1>9. CASE Root
  <2>1. {"countdown", "countdown2"} \subseteq Phases /\ "countdown" \notin Asked
    BY DEF Phases, Countdowns, Asked
  <2>2. \/ run.phase = "root" /\ GoOn(run, "countdown")
        \/ run.phase = "root2" /\ GoOn(run, "countdown2")
    BY <1>9 DEF Root
  <2>3. run.phase = "root2" /\ run'.runsB2G = run.runsB2G
    BY <1>1, <1>4, <2>1, <2>2
  <2>4. QED
    BY <2>3 DEF Asked
<1>10. CASE ReadAppIni
  <2>1. PICK x \in {"debuggable", "pulling"} : GoOn(run, x)
    BY <1>10 DEF ReadAppIni
  <2>2. QED
    BY <1>1, <1>4, <1>10, <2>1 DEF ReadAppIni, Asked, Phases, PhonePhases
<1>11. CASE Debuggable
  <2>1. GoOn(run, "root2") \/ GoOn(run, "pulling")
    BY <1>1, <1>3, <1>11 DEF Debuggable
  <2>2. QED
    BY <1>1, <1>4, <1>11, <2>1 DEF Debuggable, Asked, Phases, PhonePhases
<1>12. CASE StopB2G
  BY <1>1, <1>4, <1>12 DEF StopB2G, Asked, Phases, PhonePhases
<1>13. CASE Pull
  <2> DEFINE now == [run EXCEPT !.adb = run.held]
             paid == [now EXCEPT !.payload = TRUE]
  <2>1. now \in RunType
    BY <1>1, RunFields DEF RunType
  <2>2. paid \in RunType
    BY <2>1, RunFields
  <2>3. paid.runsB2G = run.runsB2G
    BY <1>1 DEF RunType
  <2>4. GoOn(paid, "injecting") \/ Fail(now)
    BY <1>13 DEF Pull
  <2> HIDE DEF now, paid
  <2>5. run'.runsB2G = run.runsB2G
    BY <1>3, <1>4, <2>1, <2>2, <2>3, <2>4 DEF Phases, PagePhases
  <2>6. QED
    BY <1>13, <2>5 DEF Pull, Asked
<1>14. CASE Inject
  <2> DEFINE now == [run EXCEPT !.fstab = FstabToFlash(run)]
  <2>1. FstabToFlash(run) \in SUBSET Partitions
    BY <1>1 DEF RunType, FstabToFlash
  <2>2. now \in RunType
    BY <1>1, <2>1, RunFields
  <2>3. now.runsB2G = run.runsB2G
    BY <1>1 DEF RunType
  <2>4. GoOn(now, "creating")
    BY <1>14 DEF Inject
  <2> HIDE DEF now
  <2>5. QED
    BY <1>4, <1>14, <2>2, <2>3, <2>4 DEF Inject, Asked, Phases, PagePhases
<1>15. CASE Create
  <2> DEFINE now == [run EXCEPT !.held = run.adb]
  <2>1. now \in RunType
    BY <1>1, RunFields DEF RunType
  <2>2. now.runsB2G = run.runsB2G
    BY <1>1 DEF RunType
  <2>3. GoOn(now, "rebooting") \/ GoOn(run, "silent")
    BY <1>15 DEF Create
  <2> HIDE DEF now
  <2>4. "silent" \notin Asked /\ {"rebooting", "silent"} \subseteq Phases
    BY DEF Asked, Phases, PhonePhases, Lost
  <2>5. QED
    BY <1>1, <1>4, <1>15, <2>1, <2>2, <2>3, <2>4 DEF Create, Asked
<1>16. CASE RebootBootloader
  BY <1>1, <1>4, <1>16 DEF RebootBootloader, Asked, Phases, Countdowns
<1>17. CASE GetFastboot
  <2>1. GoOn(run, "flashing")
    BY <1>1, <1>3, <1>17 DEF GetFastboot
  <2>2. QED
    BY <1>1, <1>4, <1>17, <2>1 DEF GetFastboot, Asked, Phases, PhonePhases
<1>18. ASSUME NEW i \in Partitions, FlashImage(i)
       PROVE  run.phase \in Asked /\ run'.runsB2G = run.runsB2G
  BY <1>1, <1>18 DEF FlashImage, AfterImage, RunType, Asked
<1>19. CASE Reboot
  <2>1. run' = [run EXCEPT !.phase = "done", !.dialog = "confirm"]
    BY <1>19 DEF Reboot, Succeed
  <2>2. run'.phase = "done"
    BY <1>1, <2>1 DEF RunType
  <2>3. QED
    BY <2>2 DEF Asked
<1>20. CASE Countdown
  <2>1. CASE run.phase = "countdown" /\ GetDevice(run, "b2g")
    BY <1>1, <1>5, <2>1 DEF Asked, Phases, PhonePhases
  <2>2. CASE run.phase = "countdown2" /\ GoOn(run, "stop")
    BY <1>1, <1>4, <2>2 DEF Asked, Phases, PhonePhases
  <2>3. CASE run.phase = "countdown3" /\ GetDevice(run, "getfast")
    BY <1>1, <1>5, <2>3 DEF Asked, Phases, PhonePhases
  <2>4. QED
    BY <1>20, <2>1, <2>2, <2>3 DEF Countdown
<1>21. CASE Hang
  <2>1. "hung" \in Phases /\ "hung" \notin Asked
    BY DEF Phases, Lost, Asked
  <2>2. QED
    BY <1>1, <1>4, <1>21, <2>1 DEF Hang
<1>22. CASE StepFails
  BY <1>1, <1>3, <1>22 DEF StepFails
<1>23. QED
  BY <1>6, <1>7, <1>8, <1>9, <1>10, <1>11, <1>12, <1>13, <1>14, <1>15, <1>16, <1>17,
     <1>18, <1>19, <1>20, <1>21, <1>22 DEF InstallStep

LEMMA AnswerStep ==
    ASSUME NEW one, Phones = {one}, IInv, AnswerKnown, [InstallNext]_allVars
    PROVE  AnswerKnown'
<1>1. CASE CheckB2G
  <2>1. run.phase = "b2g" /\ IsHeld /\ run.held \in Objects
    BY <1>1 DEF CheckB2G, IInv, AskedOfDevice
  <2>2. HeldPhone \in Phones
    BY <2>1 DEF IInv, CInv, MadeSound, IsHeld, HeldPhone
  <2>3. (HeldPhone \in B2GPhones) <=> B2GPhones # {}
    BY <2>2, B2GPhonesAssumption
  <2>4. run' = [[run EXCEPT !.runsB2G = HeldPhone \in B2GPhones] EXCEPT !.phase = "appini"]
    BY <1>1 DEF CheckB2G, GoOn
  <2>5. run'.runsB2G = (HeldPhone \in B2GPhones)
    BY <2>4 DEF IInv, RunType
  <2>6. QED
    BY <2>3, <2>5 DEF AnswerKnown
<1>2. CASE InstallStep /\ ~CheckB2G
  BY <1>2, AnswerStays DEF AnswerKnown
<1>3. CASE UNCHANGED run
  BY <1>3 DEF AnswerKnown
<1>4. CASE ToggleKeep \/ Click
  <2>1. run'.phase \in {"idle", "downloading"}
    BY <1>4 DEF ToggleKeep, Click, IInv, RunType
  <2>2. QED
    BY <2>1 DEF AnswerKnown, Asked
<1>5. CASE Dismiss
  <2>1. run'.phase = run.phase /\ run'.runsB2G = run.runsB2G
    BY <1>5 DEF Dismiss, IInv, RunType
  <2>2. QED
    BY <2>1 DEF AnswerKnown
<1>6. QED
  BY <1>1, <1>2, <1>3, <1>4, <1>5 DEF InstallNext, Return, allVars

\* The data partition of a phone that runs B2G is written only when the user does not
\* keep the data, as long as there is one phone, however it comes and goes.
THEOREM DataIsKept ==
    ASSUME NEW one, Phones = {one}
    PROVE  InstallSpec => DataKept
<1>1. InstallInit => AnswerKnown
  BY DEF InstallInit, AnswerKnown, Asked
<1>2. IInv /\ AnswerKnown /\ [InstallNext]_allVars => AnswerKnown'
  BY AnswerStep
<1>3. IInv /\ AnswerKnown /\ [InstallNext]_allVars =>
        [\A p \in B2GPhones : "data" \in wrote'[p] \ wrote[p] => ~run.keepData]_allVars
  <2> SUFFICES ASSUME IInv, AnswerKnown, [InstallNext]_allVars,
                      NEW p \in B2GPhones, "data" \in wrote'[p] \ wrote[p]
               PROVE  ~run.keepData
    OBVIOUS
  <2>1. wrote' # wrote
    OBVIOUS
  <2>2. PICK i \in Partitions : FlashImage(i)
    BY <2>1 DEF InstallNext, InstallStep, allVars, ToggleKeep, Click, Dismiss, Return, Quiet,
                Download, Extract, Compat, Root, CheckB2G, ReadAppIni, Debuggable, StopB2G, Pull,
                Inject, Create, RebootBootloader, GetFastboot, Reboot, Countdown, Hang, StepFails
  <2>3. "data" = i /\ i \in run.fstab /\ run.phase = "flashing"
    BY <2>2, B2GPhonesAssumption DEF FlashImage, IInv
  <2>4. run.runsB2G
    BY <2>3 DEF AnswerKnown, Asked
  <2>5. QED
    BY <2>3, <2>4 DEF IInv, DataPruned
<1>4. QED
  BY <1>1, <1>2, <1>3, InstallInvInit, InstallInvStep, PTL DEF InstallSpec, DataKept

================================================================================
