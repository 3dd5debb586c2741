-------------------------------- MODULE Install --------------------------------
(***************************************************************************)
(* install() of about.js, from the click on "Flash Device" to the report:  *)
(* distributionStep(), deviceStep(), imageStep() and flashStep(), run while *)
(* the Device module and the page of Connect go on reacting to the phone,   *)
(* which the install itself takes away and brings back: to become root, and *)
(* to be in fastboot mode.                                                 *)
(*                                                                         *)
(* A phase is what the install waits for; what follows the answer up to the *)
(* next wait is one step.  What imageStep() does with the imaging tools is  *)
(* the subject of ImageBuild: here it succeeds, fails or stays silent.      *)
(***************************************************************************)
EXTENDS Connect

CONSTANTS
    Partitions,   \* the images recovery.fstab names
    RequireRoot,  \* the values requiresRoot may have in a distribution
    B2GPhones     \* the phones that run B2G to begin with

ASSUME PartitionsAssumption  == "data" \in Partitions
ASSUME RequireRootAssumption == RequireRoot \subseteq BOOLEAN
ASSUME B2GPhonesAssumption   == B2GPhones \subseteq Phones

\* Waiting for the page or the main process ...
PagePhases  == {"downloading", "extracting", "injecting", "creating"}
\* ... for a call on the device held ...
PhonePhases == {"compat", "root", "b2g", "appini", "debuggable", "root2", "stop",
                "pulling", "rebooting", "getfast", "flashing", "leaving"}
\* ... or for a countdown.
Countdowns  == {"countdown", "countdown2", "countdown3"}
Ended       == {"done", "failed"}
\* Waiting for a promise that never settles: an unhandled call's, or imageStep()'s.
Lost        == {"hung", "silent"}
Phases      == {"idle"} \cup PagePhases \cup PhonePhases \cup Countdowns \cup Ended \cup Lost

VARIABLES
    run,    \* the install: see RunType
    wrote   \* the images of this install that each phone has been flashed with

connectVars == <<registered, made, devicePromise, chain, list, tooMany, shown, noDevice,
                 keepShown, picked>>
allVars == <<vars, run, wrote>>

RunType ==
    [phase     : Phases,
     held      : 0..MaxObjects,        \* the device the step under way got from Device.get()
     adb       : 0..MaxObjects,        \* deviceContext.adbDevice
     runsB2G   : BOOLEAN,              \* what checkDeviceIsB2G() found
     keepData  : BOOLEAN,              \* the "Keep your data" box is ticked
     fstab     : SUBSET Partitions,    \* distributionContext.deviceFstab
     attempted : SUBSET Partitions,    \* the images flashed or given up on
     payload   : BOOLEAN,              \* telemetryPayload has been made
     dialog    : {"none", "progress", "failed", "confirm"}]

InstallInit ==
    /\ Init
    /\ run = [phase |-> "idle", held |-> None, adb |-> None, runsB2G |-> FALSE,
              keepData |-> TRUE, fstab |-> {}, attempted |-> {}, payload |-> FALSE,
              dialog |-> "none"]
    /\ wrote = [p \in Phones |-> {}]

--------------------------------------------------------------------------------
(* The end of an install.                                                    *)

\* produceTelemetryFlashPayload() throws when the device of deviceStep() has no
\* _readProps: a device registered since isSupportedConfig() read them.
PayloadMade(now) == now.adb = None \/ dev[now.adb].read

\* The catch of install().  It makes the payload if there is none yet; when that
\* throws, neither the report nor the reject() after it happens.
Fail(now) ==
    LET reported == now.payload \/ PayloadMade(now)
    IN  /\ run'   = [now EXCEPT !.phase = "failed", !.dialog = "failed", !.payload = reported]
        /\ risky' = FALSE
        /\ IF reported THEN Send("failure") ELSE UNCHANGED sent

Succeed(now) ==
    /\ run'   = [now EXCEPT !.phase = "done", !.dialog = "confirm"]
    /\ risky' = FALSE
    /\ Send("success")

GoOn(now, next) == run' = [now EXCEPT !.phase = next] /\ UNCHANGED <<risky, sent>>

\* Device.get() inside a step, rejected at once without a devicePromise.
GetDevice(now, next) ==
    IF devicePromise = None THEN Fail(now) ELSE GoOn([now EXCEPT !.held = devicePromise], next)

\* What most steps leave alone.
Quiet      == UNCHANGED <<dev, step, mode, polling, wrote>>
HeldPhone  == dev[run.held].phone
IsHeld     == dev[run.held].wait = "resolved"
ModeTo(m)  == mode' = [mode EXCEPT ![HeldPhone] = m]

--------------------------------------------------------------------------------
(* The user.                                                                 *)

\* The box is displayed for a phone that runs B2G.
ToggleKeep ==
    /\ run.phase = "idle" /\ step = "flash" /\ keepShown
    /\ run' = [run EXCEPT !.keepData = ~@]
    /\ UNCHANGED <<connectVars, risky, sent>> /\ Quiet

\* Mutant: the install is not marked as a risky path.
ClickUnmarked ==
    /\ run.phase = "idle" /\ step = "flash"
    /\ run' = [run EXCEPT !.phase = "downloading", !.dialog = "progress"]
    /\ UNCHANGED <<connectVars, risky, sent>> /\ Quiet

\* install(): the progress dialog then covers the button.
Click ==
    /\ run.phase = "idle" /\ step = "flash"
    /\ run'   = [run EXCEPT !.phase = "downloading", !.dialog = "progress"]
    /\ risky' = TRUE
    /\ UNCHANGED <<connectVars, sent>> /\ Quiet

\* done(): the confirmation is taken down.
Dismiss ==
    /\ run.dialog = "confirm"
    /\ run'  = [run EXCEPT !.dialog = "none"]
    /\ step' = "select"
    /\ UNCHANGED <<connectVars, risky, sent, dev, mode, polling, wrote>>

--------------------------------------------------------------------------------
(* distributionStep() and deviceStep().                                      *)

Download == run.phase = "downloading" /\ GoOn(run, "extracting") /\ Quiet

\* The archives are extracted and devices.json is read.
Extract == run.phase = "extracting" /\ GetDevice(run, "compat") /\ Quiet

\* isSupportedConfig() with the whole of devices.json, an array, for configuration:
\* there is no "adb" entry in it to compare, so any phone in adb mode is compatible.
\* Then the blobs map and the fstab are read and ensureRootIfNeeded() begins.
Compat ==
    /\ run.phase = "compat" /\ IsHeld
    /\ dev[run.held].kind = "adb"
    /\ dev' = KeptProps(run.held)
    /\ \E required \in RequireRoot :
         GetDevice([run EXCEPT !.fstab = Partitions], IF required THEN "root" ELSE "b2g")
    /\ UNCHANGED <<step, mode, polling, wrote>>

\* summonRoot() answers; unless adbd was root already, it restarts.
Root ==
    /\ \/ run.phase = "root"  /\ IsHeld /\ GoOn(run, "countdown")
       \/ run.phase = "root2" /\ GoOn(run, "countdown2")
    /\ mode[HeldPhone] = "adb"
    /\ UNCHANGED mode \/ ModeTo("toadb")
    /\ UNCHANGED <<dev, step, polling, wrote>>

\* checkDeviceIsB2G(), readApplicationIni() and, on B2G, stopB2GOrDisableLockScreen().
CheckB2G ==
    /\ run.phase = "b2g" /\ IsHeld
    /\ GoOn([run EXCEPT !.runsB2G = HeldPhone \in B2GPhones], "appini") /\ Quiet

ReadAppIni ==
    /\ run.phase = "appini"
    /\ GoOn(run, IF run.runsB2G THEN "debuggable" ELSE "pulling") /\ Quiet

\* ro.debuggable: 1 is made root again, 0 only warned about, anything else refused.
Debuggable ==
    /\ run.phase = "debuggable"
    /\ GoOn(run, "root2") \/ GoOn(run, "pulling") \/ Fail(run)
    /\ Quiet

StopB2G == run.phase = "stop" /\ GoOn(run, "pulling") /\ Quiet

\* getBlobs() goes on whether or not a file could be pulled.  deviceContext is set,
\* the payload is made, and imageStep() begins.
Pull ==
    /\ run.phase = "pulling"
    /\ LET now == [run EXCEPT !.adb = run.held]
       IN  IF PayloadMade(now)
             THEN GoOn([now EXCEPT !.payload = TRUE], "injecting")
             ELSE Fail(now)
    /\ Quiet

--------------------------------------------------------------------------------
(* imageStep() and flashStep().                                              *)

\* Mutant: the data partition is not built, but stays in the fstab.
FstabUnpruned(now) == now.fstab

\* The data partition is flashed when coming from Android or when asked for.
FstabToFlash(now) ==
    IF now.runsB2G /\ now.keepData THEN now.fstab \ {"data"} ELSE now.fstab

\* The blobs are injected: what to build is decided now, not at the click.
Inject ==
    /\ run.phase = "injecting"
    /\ GoOn([run EXCEPT !.fstab = FstabToFlash(run)], "creating") /\ Quiet

\* The images are built; flashStep() has fastboot devices looked for, and reboots.
\* Or a builder waits for an answer that never comes: its wrapper rejected, which it
\* may do with no fault at all (SilenceIsMixUp of ImageBuild).
Create ==
    /\ run.phase = "creating"
    /\ \/ GoOn([run EXCEPT !.held = run.adb], "rebooting") /\ polling' = TRUE
       \/ GoOn(run, "silent") /\ UNCHANGED polling
    /\ UNCHANGED <<dev, step, mode, wrote>>

RebootBootloader ==
    /\ run.phase = "rebooting"
    /\ mode[HeldPhone] = "adb"
    /\ GoOn(run, "countdown3")
    /\ ModeTo("tofastboot")
    /\ UNCHANGED <<dev, step, polling, wrote>>

\* Whatever device is there: only its kind is checked.
GetFastboot ==
    /\ run.phase = "getfast" /\ IsHeld
    /\ IF dev[run.held].kind = "fastboot"
         THEN GoOn(run, "flashing") /\ polling' = FALSE
         ELSE Fail(run) /\ UNCHANGED polling
    /\ UNCHANGED <<dev, step, mode, wrote>>

\* Mutant: no catch after the flash of the last image.
LastMustSucceed(now, i, ok) ==
    [now EXCEPT !.attempted = @ \cup {i},
                !.phase = IF ok /\ now.attempted \cup {i} = now.fstab THEN "leaving" ELSE "flashing"]

\* Mutant: the image whose flash failed is the last one tried.
StopAtFailure(now, i, ok) ==
    [now EXCEPT !.attempted = @ \cup {i},
                !.phase = IF ok /\ now.attempted \cup {i} # now.fstab THEN "flashing" ELSE "leaving"]

\* flashNextImage(): on to the next image, the flash having failed or not; after the
\* last one the phone is rebooted.
AfterImage(now, i, ok) ==
    [now EXCEPT !.attempted = @ \cup {i},
                !.phase = IF now.attempted \cup {i} # now.fstab THEN "flashing" ELSE "leaving"]

FlashImage(i) ==
    /\ run.phase = "flashing"
    /\ i \in run.fstab \ run.attempted
    /\ \E ok \in BOOLEAN :
         /\ IF ok THEN mode[HeldPhone] = "fastboot" ELSE "flash" \in Faults \/ MayFail(run.held)
         /\ wrote' = [wrote EXCEPT ![HeldPhone] = IF ok THEN @ \cup {i} ELSE @]
         /\ run'   = AfterImage(run, i, ok)
    /\ UNCHANGED <<risky, sent, dev, step, mode, polling>>

Reboot ==
    /\ run.phase = "leaving"
    /\ mode[HeldPhone] = "fastboot"
    /\ Succeed(run)
    /\ ModeTo("toadb")
    /\ UNCHANGED <<dev, step, polling, wrote>>

--------------------------------------------------------------------------------
(* Countdowns and failures.                                                  *)

\* The five and ten seconds are meant to be longer than a restart: unless "slow",
\* the phone is back, and the add-on up to date with it, before the countdown ends.
BackInTime ==
    \/ "slow" \in Faults
    \/ /\ mode[HeldPhone] \notin {"toadb", "tofastboot"}
       /\ ~Appeared(HeldPhone) /\ ~Gone(HeldPhone)

Countdown ==
    /\ run.phase \in Countdowns /\ BackInTime
    /\ \/ run.phase = "countdown"  /\ GetDevice(run, "b2g")
       \/ run.phase = "countdown2" /\ GoOn(run, "stop")
       \/ run.phase = "countdown3" /\ GetDevice(run, "getfast")
    /\ Quiet

\* The calls whose failure is not handled: a promise is left that never settles.
Unhandled == {"root", "b2g", "appini", "root2"}

Hang ==
    /\ run.phase \in Unhandled /\ IsHeld /\ MayFail(run.held)
    /\ GoOn(run, "hung")
    /\ Quiet

\* A step fails: in the page, by the promise it holds, or by a call on the phone.
StepFails ==
    /\ \/ run.phase \in PagePhases /\ "step" \in Faults
       \/ run.phase \in {"compat", "root", "b2g", "getfast"} /\ dev[run.held].wait = "rejected"
       \/ run.phase = "compat" /\ IsHeld /\ (dev[run.held].kind # "adb" \/ MayFail(run.held))
       \/ run.phase \in {"debuggable", "stop", "rebooting", "leaving"} /\ MayFail(run.held)
    /\ Fail(run)
    /\ Quiet

\* A phone that restarts is there again, in the mode it was sent to.
Return(p) ==
    /\ \/ mode[p] = "toadb"      /\ mode' = [mode EXCEPT ![p] = "adb"]
       \/ mode[p] = "tofastboot" /\ mode' = [mode EXCEPT ![p] = "fastboot"]
    /\ UNCHANGED <<connectVars, dev, step, polling, risky, sent, run, wrote>>

--------------------------------------------------------------------------------
InstallStep ==
    /\ \/ Download \/ Extract \/ Compat \/ Root \/ CheckB2G \/ ReadAppIni \/ Debuggable
       \/ StopB2G \/ Pull \/ Inject \/ Create \/ RebootBootloader \/ GetFastboot
       \/ \E i \in Partitions : FlashImage(i)
       \/ Reboot \/ Countdown \/ Hang \/ StepFails
    /\ UNCHANGED connectVars

InstallNext ==
    \/ Next /\ UNCHANGED <<run, wrote>>
    \/ ToggleKeep \/ Click \/ Dismiss
    \/ InstallStep
    \/ \E p \in Phones : Return(p)

\* The phone in use is there to answer, and the devicePromise in use is settled.
Answering ==
    run.phase \in PhonePhases =>
        mode[HeldPhone] = dev[run.held].kind /\ registered[HeldPhone] = run.held

InstallSpec ==
    /\ InstallInit /\ [][InstallNext]_allVars
    /\ WF_allVars(Answering /\ InstallStep)
    /\ SF_allVars(Countdown /\ UNCHANGED connectVars)
    /\ \A p \in Phones : WF_allVars(Return(p)) /\ WF_allVars((Detect(p) \/ Lose(p)) /\ UNCHANGED <<run, wrote>>)
    /\ \A n \in Objects : WF_allVars(Prompt(n) /\ Answers(n) /\ UNCHANGED <<run, wrote>>)

--------------------------------------------------------------------------------
(* Properties.                                                               *)

\* The types of the install's own state, on top of those of Connect.
InstallTypeOK ==
    /\ TypeOK
    /\ run \in RunType
    /\ wrote \in [Phones -> SUBSET Partitions]

\* The data partition of a phone that ran B2G is only ever written when the user
\* has unticked "Keep your data", however late the phone was found to run B2G.
DataKept ==
    [][\A p \in B2GPhones : "data" \in wrote'[p] \ wrote[p] => ~run.keepData]_allVars

Underway == run.phase \notin {"idle"} \cup Ended

\* From the click until the install has succeeded or failed no ping is sent, and none
\* ever again by an install that is lost: although becoming root and rebooting reconnect
\* the phone, each connection starts a chain with a ping of its own, and chains of
\* earlier connections may still be on their way.
SilentUnderway == [][sent' # sent => ~Underway']_allVars

\* A success is reported, once and as a success, and a failure never is as one.  A
\* failure goes unreported only when deviceStep()'s device has no properties read.
Reports ==
    /\ run.phase = "done" => (OptIn => sent["success"] = 1) /\ sent["failure"] = 0
    /\ run.phase # "done" => sent["success"] = 0
    /\ run.phase = "failed" /\ OptIn =>
          sent["failure"] = 1 \/ (run.adb # None /\ ~run.payload)

\* What has been reported is what the install has come to.
ReportsRight == InstallTypeOK /\ Reports

\* The phone is only rebooted, and the install only declared a success, after every
\* image left in the fstab has been tried.
EveryImageTried == run.phase \in {"leaving", "done"} => run.attempted = run.fstab

\* An install under way succeeds or fails, unless the phone it talks to is gone or has
\* become another device, one of the four unhandled calls fails, or imageStep() never
\* settles: no failed flash, no slow restart and no disconnection it brings about
\* itself leaves it waiting.
InstallEnds == Underway ~> (run.phase \in Ended \cup Lost \/ ~Answering)

================================================================================
