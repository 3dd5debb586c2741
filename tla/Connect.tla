-------------------------------- MODULE Connect --------------------------------
(***************************************************************************)
(* Which phone the page works with: the Device module of about.js, the     *)
(* page's first two steps (connect a device, select a build) and the list  *)
(* of supported devices, over Devices.jsm and the ADB Helper add-on.       *)
(*                                                                         *)
(* Each time a phone appears, as an adb or as a fastboot device, the add-on *)
(* registers a new device OBJECT for it.  Device.connected() makes         *)
(* devicePromise from that object if it is the only one registered, and    *)
(* when the promise resolves deviceConnected() starts: a chain of          *)
(* asynchronous calls on the object that ends with the page at "select".   *)
(* Nothing stops a chain when its phone goes.                              *)
(***************************************************************************)
EXTENDS Naturals, FiniteSets

CONSTANTS
    Phones,      \* the phones that may be plugged in
    MaxObjects,  \* bound: device objects made
    Supported,   \* the phones that builds.json has builds for
    OptIn,       \* the user lets telemetry be sent
    Faults       \* what may go wrong: see FaultKinds

\* "unplug": a phone is unplugged; "call": a call on a reachable phone fails;
\* "offline": builds.json comes late or not at all; the rest is Install's.
FaultKinds == {"unplug", "call", "offline", "slow", "step", "flash"}

ASSUME MaxObjectsAssumption == MaxObjects \in Nat
ASSUME SupportedAssumption  == Supported \subseteq Phones
ASSUME OptInAssumption      == OptIn \in BOOLEAN
ASSUME FaultsAssumption     == Faults \subseteq FaultKinds
ASSUME LocalAssumption      == Phones \cap {"none", "local"} = {}

Objects == 1..MaxObjects
None    == 0

Modes   == {"away", "toadb", "tofastboot", "adb", "fastboot"}
Kinds   == {"adb", "fastboot"}
Waits   == {"unasked", "pending", "resolved", "rejected"}
Ats     == {"unstarted", "get", "model", "props", "b2g", "end"}
Pings   == {"device", "success", "failure"}

VARIABLES
    mode,           \* the state of each phone, as its owner sees it
    registered,     \* Devices._devices: the object each phone is known by
    made,           \* how many objects have been made
    dev,            \* each object: phone, kind, the promise made from it, and
                    \* whether its _readProps is set
    devicePromise,  \* the object devicePromise was made from
    chain,          \* the deviceConnected() started by each object's promise:
                    \* how far it got, and the object it works on
    list,           \* supportedDevices
    tooMany,        \* the warning about several devices is shown
    step,           \* the page's data-current-step
    shown,          \* how often each phone's builds are in the list of builds
    noDevice,       \* the phones listed as having no build
    keepShown,      \* "Keep your data" is offered
    picked,         \* the build selected, named by the phone it is for
    polling,        \* the add-on looks for fastboot devices
    risky,          \* _isRisky: an install is under way
    sent            \* telemetry pings sent, of each kind

phoneVars == <<mode, polling>>
pageVars  == <<shown, noDevice, keepShown, picked, step>>
vars == <<mode, registered, made, dev, devicePromise, chain, list, tooMany, step,
          shown, noDevice, keepShown, picked, polling, risky, sent>>

NoObject == [phone |-> "none", kind |-> "none", wait |-> "unasked", read |-> FALSE]

Init ==
    /\ mode       = [p \in Phones |-> "away"]
    /\ registered = [p \in Phones |-> None]
    /\ made       = 0
    /\ dev        = [n \in Objects |-> NoObject]
    /\ devicePromise = None
    /\ chain      = [n \in Objects |-> [at |-> "unstarted", dev |-> None]]
    /\ list       = "asked"
    /\ tooMany    = FALSE
    /\ step       = "connect"
    /\ shown      = [p \in Phones |-> 0]
    /\ noDevice   = {}
    /\ keepShown  = FALSE
    /\ picked     = "none"
    /\ polling    = FALSE
    /\ risky      = FALSE
    /\ sent       = [k \in Pings |-> 0]

--------------------------------------------------------------------------------
(* Phones and the add-on.                                                    *)

\* The add-on notices that a phone went before it can be plugged in again.
Plug(p) ==
    /\ mode[p] = "away"
    /\ registered[p] = None
    /\ \E m \in Kinds : mode' = [mode EXCEPT ![p] = m]
    /\ UNCHANGED <<registered, made, dev, devicePromise, chain, list, tooMany,
                   pageVars, polling, risky, sent>>

Unplug(p) ==
    /\ "unplug" \in Faults
    /\ mode[p] # "away"
    /\ mode' = [mode EXCEPT ![p] = "away"]
    /\ UNCHANGED <<registered, made, dev, devicePromise, chain, list, tooMany,
                   pageVars, polling, risky, sent>>

Available == {p \in Phones : registered[p] # None}

\* Device.connected(): several devices leave devicePromise as it is.
PromiseOnConnect(n, p) == IF Available \subseteq {p} THEN n ELSE devicePromise

\* There is a phone to register, or to unregister.
Appeared(p) ==
    /\ registered[p] = None
    /\ mode[p] = "adb" \/ (mode[p] = "fastboot" /\ polling)
    /\ made < MaxObjects

Gone(p) ==
    /\ registered[p] # None
    /\ mode[p] # dev[registered[p]].kind

\* Device.connected(), in the "register" event of the new object.
Detect(p) ==
    /\ Appeared(p)
    /\ LET n     == made + 1
           alone == Available = {}
       IN  /\ made'       = n
           /\ registered' = [registered EXCEPT ![p] = n]
           /\ dev' = [dev EXCEPT ![n] = [phone |-> p, kind |-> mode[p], read |-> FALSE,
                                         wait |-> IF alone THEN "pending" ELSE "unasked"]]
           /\ devicePromise' = PromiseOnConnect(n, p)
           /\ tooMany'    = ~alone
    /\ UNCHANGED <<phoneVars, chain, list, pageVars, risky, sent>>

\* Mutant: devicePromise outlives its device.
PromiseKept(p) == devicePromise

\* Device.disconnected() forgets the device whichever one went.
PromiseOnDisconnect(p) == None

\* Mutant: one device left is already too many.
SomeLeft(p) == Available \ {p} # {}

SeveralLeft(p) == Cardinality(Available \ {p}) > 1

\* Device.disconnected() in the "unregister" event, then deviceDisconnected().
Lose(p) ==
    /\ Gone(p)
    /\ registered'    = [registered EXCEPT ![p] = None]
    /\ devicePromise' = PromiseOnDisconnect(p)
    /\ tooMany' = SeveralLeft(p)
    /\ step'    = "connect"
    /\ shown'   = [q \in Phones |-> 0]
    /\ picked'  = "none"
    /\ UNCHANGED <<phoneVars, made, dev, chain, list, noDevice, keepShown, risky, sent>>

\* A call on object n is sure to be answered only while the phone is there.
Reachable(n) == registered[dev[n].phone] = n /\ mode[dev[n].phone] = dev[n].kind
MayFail(n)   == "call" \in Faults \/ ~Reachable(n)

--------------------------------------------------------------------------------
(* devicePromise and the chain it starts.                                    *)

\* Where a chain stands once it holds the promise of object m, in state w.
Got(m, w) ==
    IF m = None \/ w = "rejected" THEN "end"
    ELSE IF w # "resolved"         THEN "get"
    ELSE IF dev[m].kind = "adb"    THEN "model" ELSE "end"

\* waitForAdb() or waitForFastboot() answers: the promise settles, the chains that
\* hold it go on, and when it resolves its own chain starts, with Device.get().
Settle(n, w) ==
    /\ dev[n].wait = "pending"
    /\ w = "rejected" => MayFail(n)
    /\ dev' = [dev EXCEPT ![n].wait = w]
    /\ chain' = [c \in Objects |->
         IF c = n /\ w = "resolved"
           THEN [at  |-> Got(devicePromise,
                             IF devicePromise = None THEN w ELSE dev'[devicePromise].wait),
                 dev |-> devicePromise]
           ELSE IF chain[c].at = "get" /\ chain[c].dev = n
             THEN [chain[c] EXCEPT !.at = Got(n, w)]
             ELSE chain[c]]
    /\ UNCHANGED <<phoneVars, registered, made, devicePromise, list, tooMany, pageVars,
                   risky, sent>>

ChainTo(c, at) == chain' = [chain EXCEPT ![c].at = at]

\* Mutant: the phone with no build is listed as a device object.
DrawObject(c, found) ==
    /\ shown'    = IF found THEN [shown EXCEPT ![dev[chain[c].dev].phone] = @ + 1] ELSE shown
    /\ noDevice' = IF found THEN noDevice ELSE noDevice \cup {chain[c].dev}

\* drawBuild(): what getAvailableBuilds() found is added to the page.
Draw(c, found) ==
    LET p == dev[chain[c].dev].phone
    IN  /\ shown'    = IF found THEN [shown EXCEPT ![p] = @ + 1] ELSE shown
        /\ noDevice' = IF found THEN noDevice ELSE noDevice \cup {p}

\* getModel() answers; with no list of devices yet, nothing is asked of the phone.
ChainModel(c) ==
    /\ chain[c].at = "model"
    /\ \/ /\ list = "have"
          /\ ChainTo(c, "props")
          /\ UNCHANGED <<shown, noDevice>>
       \/ /\ list # "have"
          /\ ChainTo(c, "b2g")
          /\ Draw(c, FALSE)
    /\ UNCHANGED <<phoneVars, registered, made, dev, devicePromise, list, tooMany,
                   keepShown, picked, step, risky, sent>>

\* Mutant: the properties read are not kept.
UnkeptProps(n) == dev

\* isSupportedConfig() leaves the properties it has read on the device object.
KeptProps(n) == [dev EXCEPT ![n].read = TRUE]

\* getprop answers; its failure counts as "not supported".
ChainProps(c) ==
    /\ chain[c].at = "props"
    /\ \E ok \in BOOLEAN :
         /\ ~ok => MayFail(chain[c].dev)
         /\ dev' = IF ok THEN KeptProps(chain[c].dev) ELSE dev
         /\ Draw(c, ok /\ dev[chain[c].dev].phone \in Supported)
    /\ ChainTo(c, "b2g")
    /\ UNCHANGED <<phoneVars, registered, made, devicePromise, list, tooMany,
                   keepShown, picked, step, risky, sent>>

\* A call that fails where nothing stands in for its answer ends the chain.
ChainFails(c) ==
    /\ chain[c].at \in {"model", "props"}
    /\ MayFail(chain[c].dev)
    /\ ChainTo(c, "end")
    /\ UNCHANGED <<phoneVars, registered, made, dev, devicePromise, list, tooMany,
                   pageVars, risky, sent>>

\* Mutant: the ping is sent before _isRisky is cleared.
SendBefore(k) == sent' = IF OptIn /\ ~risky THEN [sent EXCEPT ![k] = @ + 1] ELSE sent

\* sendTelemetryIfOptin().
Send(k) == sent' = IF OptIn /\ ~risky' THEN [sent EXCEPT ![k] = @ + 1] ELSE sent

\* checkDeviceIsB2G() answers; it never settles when the call fails.  Without
\* _readProps the payload cannot be made: an exception ends the chain there.
ChainB2G(c) ==
    /\ chain[c].at = "b2g"
    /\ ChainTo(c, "end")
    /\ risky' = risky
    /\ \/ /\ dev[chain[c].dev].read
          /\ Send("device")
          /\ keepShown' \in BOOLEAN
          /\ step' = "select"
       \/ /\ ~dev[chain[c].dev].read
          /\ UNCHANGED <<sent, keepShown, step>>
    /\ UNCHANGED <<phoneVars, registered, made, dev, devicePromise, list, tooMany,
                   shown, noDevice, picked>>

--------------------------------------------------------------------------------
(* The list of supported devices, and the user.                              *)

\* downloadBuildsList(): the answer, its failure, and the "online" event.
ListArrives ==
    /\ list = "asked"
    /\ list' = "have"
    /\ UNCHANGED <<phoneVars, registered, made, dev, devicePromise, chain, tooMany,
                   pageVars, risky, sent>>

ListFails ==
    /\ "offline" \in Faults
    /\ list = "asked"
    /\ list' = "absent"
    /\ UNCHANGED <<phoneVars, registered, made, dev, devicePromise, chain, tooMany,
                   pageVars, risky, sent>>

Online ==
    /\ list = "absent"
    /\ list' = "asked"
    /\ UNCHANGED <<phoneVars, registered, made, dev, devicePromise, chain, tooMany,
                   pageVars, risky, sent>>

\* buildChecked() on a build of the list, or buildAdded() on a local file.
Pick(b) ==
    /\ step \in {"select", "flash"}
    /\ b # "local" => shown[b] > 0
    /\ picked' = b
    /\ step'   = "flash"
    /\ UNCHANGED <<phoneVars, registered, made, dev, devicePromise, chain, list, tooMany,
                   shown, noDevice, keepShown, risky, sent>>

--------------------------------------------------------------------------------
Answers(n) ==
    \/ \E w \in {"resolved", "rejected"} : Settle(n, w)
    \/ ChainModel(n) \/ ChainProps(n) \/ ChainFails(n) \/ ChainB2G(n)

\* What the object's phone is there to answer.
Prompt(n) ==
    \/ dev[n].wait = "pending" /\ Reachable(n)
    \/ dev[n].wait # "pending" /\ chain[n].dev # None /\ Reachable(chain[n].dev)

Next ==
    \/ \E p \in Phones : Plug(p) \/ Unplug(p) \/ Detect(p) \/ Lose(p)
    \/ \E n \in Objects : Answers(n)
    \/ ListArrives \/ ListFails \/ Online
    \/ \E b \in Phones \cup {"local"} : Pick(b)

\* A phone that is there answers, and the add-on notices the one that is not.
Fairness ==
    /\ \A n \in Objects : WF_vars(Prompt(n) /\ Answers(n))
    /\ \A p \in Phones : WF_vars(Lose(p))

Spec == Init /\ [][Next]_vars /\ Fairness

--------------------------------------------------------------------------------
(* Properties.                                                               *)

\* Every variable has its type.
TypeOK ==
    /\ mode       \in [Phones -> Modes]
    /\ registered \in [Phones -> 0..MaxObjects]
    /\ made       \in 0..MaxObjects
    /\ dev \in [Objects -> [phone : Phones \cup {"none"}, kind : Kinds \cup {"none"},
                            wait : Waits, read : BOOLEAN]]
    /\ devicePromise \in 0..MaxObjects
    /\ chain      \in [Objects -> [at : Ats, dev : 0..MaxObjects]]
    /\ list       \in {"absent", "asked", "have"}
    /\ tooMany    \in BOOLEAN
    /\ step       \in {"connect", "select", "flash"}
    /\ shown      \in [Phones -> Nat]
    /\ noDevice   \subseteq Phones
    /\ keepShown  \in BOOLEAN
    /\ picked     \in Phones \cup {"none", "local"}
    /\ polling    \in BOOLEAN
    /\ risky      \in BOOLEAN
    /\ sent       \in [Pings -> Nat]

\* The device that Device.get() hands out is registered, and as the object the
\* promise was made from: no step of the page ever starts on a phone known to be
\* gone, or on the object of an earlier connection.
HandedOutIsRegistered ==
    devicePromise # None =>
        /\ dev[devicePromise].phone \in Phones
        /\ registered[dev[devicePromise].phone] = devicePromise

\* The warning is up exactly while more than one device is registered.
TooManyShown == tooMany <=> Cardinality(Available) > 1

\* A phone the page has begun to wait for, with the list of devices at hand, takes
\* the page to its "select" step unless it goes first: no chain gets stuck half-way.
ReadyIsSelectable ==
    \A n \in Objects :
        dev[n].wait = "pending" /\ devicePromise = n /\ list = "have"
            ~> devicePromise # n \/ step # "connect"

================================================================================
