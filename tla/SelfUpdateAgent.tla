-------------------------- MODULE SelfUpdateAgent --------------------------
(***************************************************************************)
(* The self update agent: its state machine with the handlers of its ten   *)
(* states, the data they share (Context), the bundle in the temporary file *)
(* and the two system slots that RAUC writes and marks on its behalf.      *)
(*                                                                         *)
(* A callback of the MQTT client is one action: it changes the context,    *)
(* calls FSM::handleEvent, and runs the body, the transition and the       *)
(* onEnter of the next state, nested events included.  Two bodies wait for *)
(* somebody else and are split there: Downloading::body waits for curl,    *)
(* Installing::body polls RAUC.  While they wait no other message is       *)
(* handled, but connection callbacks, RAUC, a crash and a reboot may come  *)
(* in between.                                                             *)
(***************************************************************************)
EXTENDS TransitionTable

CONSTANTS
    Versions,       \* versions of OS images and bundles
    StartModes,     \* values of Context::downloadMode the agent is started with
    Faults          \* what may go wrong around the agent, see AllFaults

NoVersion   == "no version"      \* the empty string
Unavailable == "unavailable"     \* RAUC could not tell a version
Absent      == "absent"          \* there is no temporary file
Partial     == "partial"         \* a file that is no complete bundle
Broken      == "broken"          \* a slot without a complete image

AllFaults == {"crash",           \* the process dies and is started again
              "timeout",         \* Installer gives up while RAUC still works
              "mark",            \* RAUC fails to mark a slot
              "dbus"}            \* a query or an install call gets no answer

ASSUME VersionsAssumption ==
    {NoVersion, Unavailable, Absent, Partial, Broken} \cap Versions = {}
ASSUME StartModesAssumption == StartModes \subseteq BOOLEAN
ASSUME FaultsAssumption == Faults \subseteq AllFaults

VARIABLES
    fsm,            \* FSM::activeState()
    desired,        \* Context::desiredState
    version,        \* Context::currentState.version
    downloadMode,   \* Context::downloadMode
    fallbackMode,   \* Context::fallbackMode
    busy,           \* the body that is waiting: "download", "install", "none"
    sent,           \* the messages the last handler published
    tempFile,       \* the bundle in updatesDirectory + tempFileName
    booted,         \* the image in the booted slot
    other,          \* the image in the other slot
    primary,        \* the slot the next boot takes: "booted" or "other"
    raucOp,         \* RAUC: "idle", "checking" or "writing"
    raucTarget,     \* RAUC: the version of the bundle it installs, Broken if
                    \* the file was truncated while RAUC read it
    raucResult      \* what its Completed signal told the polling agent

modes == <<downloadMode, fallbackMode>>
slots == <<booted, other, primary>>
rauc  == <<raucOp, raucTarget, raucResult>>
vars  == <<fsm, desired, version, modes, busy, sent, tempFile, slots, rauc>>

States == {"Uninitialized", "Connected", "Idle", "Downloading", "Installing",
           "Installed", "Activating", "Failed"}
Statuses == {"", "DOWNLOAD_FAILURE", "UPDATE_FAILURE", "UPDATE_SUCCESS"}
Messages == {"SystemVersion", "Identifying", "Identified", "Skipped",
             "IdentificationFailed", "Downloaded", "DownloadFailed",
             "VersionChecking", "Rejected", "Installed", "CurrentState",
             "InstallFailed", "InstallFailedFallback", "Activating",
             "Activated", "ActivationFailed", "Cleaned", "Complete",
             "Incomplete"}

TypeOK ==
    /\ fsm \in States
    /\ desired \in [version : Versions \cup {NoVersion}, status : Statuses]
    /\ version \in Versions \cup {NoVersion}
    /\ downloadMode \in BOOLEAN /\ fallbackMode \in BOOLEAN
    /\ busy \in {"none", "download", "install"}
    /\ sent \subseteq Messages
    /\ tempFile \in Versions \cup {Absent, Partial}
    /\ booted \in Versions
    /\ other \in Versions \cup {Broken}
    /\ primary \in {"booted", "other"}
    /\ raucOp \in {"idle", "checking", "writing"}
    /\ raucTarget \in Versions \cup {NoVersion, Broken}
    /\ raucResult \in {"none", "ok", "failed"}

----------------------------------------------------------------------------
(* The transition table: the states in which an event has a row.  In every *)
(* other state FSM::handleEvent finds nothing and the event is dropped.    *)
(*                                                                         *)
(* A definition under a line "Faulty" is a mistake that the definition     *)
(* after it could have; it stands in for it to see a property fail.        *)

(* Faulty: ACTIVATE is taken after a failed installation.                  *)
ActivatableWhenFailed == {"Installed", "Failed"}
(* Faulty: ACTIVATE is taken when there is no update.                      *)
ActivatableWhenIdle == {"Installed", "Idle"}
Activatable == {"Installed"}

(* Faulty: the row from Failed is missing.                                 *)
CleanableWhenActivated == {"Activating"}
Cleanable == {"Activating", "Failed"}

Accepting ==
    [ConnectivityEstablished |-> {"Uninitialized"},
     ConnectivityLost        |-> {"Connected", "Idle"},
     Identify                |-> {"Connected", "Idle"},
     GetCurrentState         |-> {"Connected", "Idle"},
     DownloadStart           |-> {"Downloading"},
     InstallStart            |-> {"Installing"},
     Activate                |-> Activatable,
     Cleanup                 |-> Cleanable,
     Rollback                |-> {"Downloading", "Installing", "Installed",
                                  "Activating", "Failed"}]

(* A handler that found no row: nothing is sent, the state stays.          *)
Dropped(event) ==
    /\ fsm \notin Accepting[event]
    /\ sent' = {}
    /\ UNCHANGED <<fsm, version, modes, busy, tempFile, slots, rauc>>

(* What the agent learns when it asks RAUC; "dbus" makes the call fail.    *)
BootedVersions(slot) ==
    {slot} \cup (IF "dbus" \in Faults THEN {NoVersion} ELSE {})

BundleVersions(file) ==
    (IF file \in Versions THEN {file} ELSE {Unavailable})
        \cup (IF "dbus" \in Faults THEN {Unavailable} ELSE {})

NewDesired(v) == [version |-> v, status |-> ""]

Init ==
    /\ fsm = "Uninitialized"
    /\ desired = NewDesired(NoVersion)
    /\ downloadMode \in StartModes /\ fallbackMode = FALSE
    /\ busy = "none"
    /\ sent = {}
    /\ tempFile = Absent
    /\ booted \in Versions
    /\ other \in Versions \cup {Broken}
    /\ primary = "booted"
    /\ raucOp = "idle" /\ raucTarget = NoVersion /\ raucResult = "none"
    /\ version \in BootedVersions(booted)

----------------------------------------------------------------------------
(* Connection callbacks.  They come from the client library at any time,   *)
(* also while a body waits.                                                *)

ConnectivityEstablished ==
    /\ UNCHANGED desired
    /\ \/ /\ fsm \in Accepting.ConnectivityEstablished
          /\ fsm' = "Connected"
          /\ sent' = {"SystemVersion"}
          /\ UNCHANGED <<version, modes, busy, tempFile, slots, rauc>>
       \/ Dropped("ConnectivityEstablished")

ConnectivityLost ==
    /\ UNCHANGED desired
    /\ \/ /\ fsm \in Accepting.ConnectivityLost
          /\ fsm' = "Uninitialized"
          /\ version' \in BootedVersions(booted)
          /\ sent' = {}
          /\ UNCHANGED <<modes, busy, tempFile, slots, rauc>>
       \/ Dropped("ConnectivityLost")

----------------------------------------------------------------------------
(* Downloading::body in download mode.                                     *)

(* Opening the file truncates it, also under a job of RAUC that the agent  *)
(* has given up or forgotten: it is spoilt, or RAUC has read all it needs. *)
TruncateBundle ==
    /\ tempFile' = Partial
    /\ \/ UNCHANGED raucTarget
       \/ raucOp # "idle" /\ raucTarget' = Broken

DownloadFails(d, messages) ==
    /\ fsm' = "Failed"
    /\ desired' = [d EXCEPT !.status = "DOWNLOAD_FAILURE"]
    /\ sent' = messages \cup {"DownloadFailed"}
    /\ busy' = "none"

BeginDownload(d, messages) ==
    \/ /\ fsm' = "Downloading"
       /\ desired' = d
       /\ sent' = messages
       /\ busy' = "download"
       /\ TruncateBundle
    \/ DownloadFails(d, messages) /\ UNCHANGED <<tempFile, raucTarget>>

(* Downloading::onEnter: in fallback mode the download starts by itself.   *)
EnterDownloading(d, messages, fallback) ==
    LET fresh == NewDesired(d.version) IN
    IF fallback
    THEN BeginDownload(fresh, messages)
    ELSE /\ fsm' = "Downloading"
         /\ desired' = fresh
         /\ sent' = messages
         /\ UNCHANGED <<busy, tempFile, raucTarget>>

(* curl is done.  Any bundle can be behind the URL, and an answer with     *)
(* HTTP status 200 that broke off counts as a download too.                *)
FinishDownload ==
    /\ busy = "download"
    /\ UNCHANGED <<version, modes, slots, rauc>>
    /\ \/ /\ desired.version # NoVersion
          /\ tempFile' \in Versions \cup {Partial}
          /\ fsm' = "Installing"
          /\ sent' = {"Downloaded"}
          /\ busy' = "none"
          /\ UNCHANGED desired
       \/ DownloadFails(desired, {}) /\ UNCHANGED tempFile

----------------------------------------------------------------------------
(* Faulty: messages are handled in several threads.                        *)
ListeningAlways == TRUE
(* The callback thread is free: the client library delivers one message at *)
(* a time.                                                                 *)
Listening == busy = "none"

(* message_arrived: requests of the update manager.  A request replaces    *)
(* the desired state before the state machine looks at the event.          *)

Identify(v, bootedVersion) ==
    IF bootedVersion # v
    THEN EnterDownloading(NewDesired(v), {"Identifying", "Identified"}, fallbackMode)
    ELSE /\ fsm' = IF fsm = "Idle" THEN "Failed" ELSE "Connected"
         /\ desired' = NewDesired(v)
         /\ sent' = {"Identifying", "Skipped"}
         /\ UNCHANGED <<busy, tempFile, raucTarget>>

ReceiveDesiredState(v) ==
    /\ Listening
    /\ \/ /\ fsm \in Accepting.Identify
          /\ \E b \in BootedVersions(booted) : Identify(v, b)
          /\ UNCHANGED <<version, modes, slots, raucOp, raucResult>>
       \/ Dropped("Identify") /\ desired' = NewDesired(v)

(* SendCurrentState::onEnter answers and raises Waiting: on to Idle.       *)
ReceiveStateRequest ==
    /\ Listening
    /\ desired' = NewDesired(NoVersion)
    /\ \/ /\ fsm \in Accepting.GetCurrentState
          /\ fsm' = "Idle"
          /\ sent' = {"SystemVersion"}
          /\ UNCHANGED <<version, modes, busy, tempFile, slots, rauc>>
       \/ Dropped("GetCurrentState")

(* A request without a mandatory field, or an unknown command.             *)
ReceiveInvalidRequest ==
    /\ Listening
    /\ sent' \in {{}, {"Identifying", "IdentificationFailed"}}
    /\ UNCHANGED <<fsm, desired, version, modes, busy, tempFile, slots, rauc>>

----------------------------------------------------------------------------
(* message_arrived: the commands.                                          *)

(* Faulty: any readable bundle is as good as the desired one.              *)
BundleAcceptedUnseen(b) == b \in Versions
(* Faulty: the version is not checked at all.                              *)
BundleAcceptedAlways(b) == TRUE
(* BundleChecker::isBundleVersionConsistent, b being what RAUC read.       *)
BundleAccepted(b) == b = desired.version

(* Downloading::body in stream mode: neither of its outputs has a row.     *)
CheckStream ==
    /\ \E b \in Versions \cup {Unavailable} :
          IF BundleAccepted(b)
          THEN sent' = {} /\ UNCHANGED desired
          ELSE /\ sent' = {"Rejected"}
               /\ desired' = [desired EXCEPT !.status = "DOWNLOAD_FAILURE"]
    /\ UNCHANGED <<fsm, busy, tempFile, raucTarget>>

ReceiveDownload ==
    /\ Listening
    /\ \/ /\ fsm \in Accepting.DownloadStart
          /\ IF downloadMode THEN BeginDownload(desired, {}) ELSE CheckStream
          /\ UNCHANGED <<version, modes, slots, raucOp, raucResult>>
       \/ Dropped("DownloadStart") /\ UNCHANGED desired

(* The tail of Installing::body, when Installer::start has failed.         *)
InstallationFails(messages) ==
    IF downloadMode
    THEN /\ fsm' = "Failed"
         /\ desired' = [desired EXCEPT !.status = "UPDATE_FAILURE"]
         /\ sent' = messages \cup {"InstallFailed"}
         /\ downloadMode' = (downloadMode /\ ~fallbackMode)
         /\ fallbackMode' = FALSE
         /\ busy' = "none"
         /\ UNCHANGED <<tempFile, raucTarget>>
    ELSE /\ downloadMode' = TRUE
         /\ fallbackMode' = TRUE
         /\ EnterDownloading(desired, messages \cup {"InstallFailedFallback"}, TRUE)

(* Faulty: nobody asks RAUC whether its operation is "idle".               *)
RaucTakesAnyTime(v) ==
    /\ raucOp' = "checking" /\ raucTarget' = v /\ raucResult' = "none"
    /\ UNCHANGED slots
(* Faulty: an UPDATE that finds RAUC at work waits for that job instead.   *)
RaucTakesOrJoins(v) ==
    /\ \/ /\ raucOp = "idle"
          /\ raucOp' = "checking" /\ raucTarget' = v /\ raucResult' = "none"
       \/ raucOp # "idle" /\ UNCHANGED rauc
    /\ UNCHANGED slots
(* RAUC takes a bundle only when it has nothing else to do.                *)
RaucTakes(v) ==
    /\ raucOp = "idle"
    /\ raucOp' = "checking" /\ raucTarget' = v /\ raucResult' = "none"
    /\ UNCHANGED slots

(* DBusRaucInstaller::installBundle with a bundle of version v.            *)
BeginInstall(v, messages) ==
    \/ /\ RaucTakes(v)
       /\ busy' = "install"
       /\ sent' = messages
       /\ UNCHANGED <<fsm, desired, modes, tempFile>>
    \/ /\ raucOp # "idle" \/ "dbus" \in Faults
       /\ InstallationFails(messages)
       /\ UNCHANGED <<slots, raucOp, raucResult>>

RejectBundle ==
    /\ fsm' = "Failed"
    /\ desired' = [desired EXCEPT !.status = "UPDATE_FAILURE"]
    /\ sent' = {"VersionChecking", "Rejected"}
    /\ UNCHANGED <<modes, busy, tempFile, slots, rauc>>

ReceiveUpdate ==
    /\ Listening
    /\ \/ /\ fsm \in Accepting.InstallStart
          /\ IF downloadMode
             THEN \E b \in BundleVersions(tempFile) :
                     IF BundleAccepted(b)
                     THEN BeginInstall(b, {"VersionChecking"})
                     ELSE RejectBundle
             ELSE \E v \in Versions : BeginInstall(v, {})
          /\ UNCHANGED version
       \/ Dropped("InstallStart") /\ UNCHANGED desired

(* Faulty: the agent gives up although it waited for less than 15 minutes. *)
InstallFailedEarly == raucResult \in {"failed", "none"}
(* Installer::start has given up.                                          *)
InstallFailed ==
    \/ raucResult = "failed"
    \/ raucResult = "none" /\ "timeout" \in Faults

(* Faulty: RAUC's activation stays.                                        *)
ActivateBootedForgotten == UNCHANGED primary
(* Installed::onEnter takes back RAUC's activation of the other slot; a    *)
(* failure to do so goes unnoticed.                                        *)
ActivateBooted ==
    \/ primary' = "booted"
    \/ "mark" \in Faults /\ UNCHANGED primary

(* Installed::onEnter.                                                     *)
EnterInstalled ==
    /\ fsm' = "Installed"
    /\ version' = desired.version
    /\ ActivateBooted

(* Installer::start returns.                                               *)
FinishInstall ==
    /\ busy = "install"
    /\ raucResult' = "none"
    /\ UNCHANGED <<booted, other, raucOp>>
    /\ \/ /\ raucResult = "ok"
          /\ EnterInstalled
          /\ sent' = {"Installed", "CurrentState"}
          /\ downloadMode' = (downloadMode /\ ~fallbackMode)
          /\ fallbackMode' = FALSE
          /\ busy' = "none"
          /\ UNCHANGED <<desired, tempFile, raucTarget>>
       \/ /\ InstallFailed
          /\ InstallationFails({})
          /\ UNCHANGED <<version, primary>>

(* Activating::onEnter.                                                    *)
ActivateOther ==
    /\ primary' = "other"
    /\ desired' = [desired EXCEPT !.status = "UPDATE_SUCCESS"]
    /\ sent' = {"Activating", "Activated"}

(* Faulty: the result of the call is not looked at.                        *)
ActivationFailsUnnoticed ==
    /\ "mark" \in Faults /\ UNCHANGED primary
    /\ desired' = [desired EXCEPT !.status = "UPDATE_SUCCESS"]
    /\ sent' = {"Activating", "Activated"}
(* Faulty: the failure is reported, but not kept in the context.           *)
ActivationFailsUnrecorded ==
    /\ "mark" \in Faults /\ UNCHANGED <<primary, desired>>
    /\ sent' = {"Activating", "ActivationFailed"}
ActivationFails ==
    /\ "mark" \in Faults /\ UNCHANGED primary
    /\ desired' = [desired EXCEPT !.status = "UPDATE_FAILURE"]
    /\ sent' = {"Activating", "ActivationFailed"}

ReceiveActivate ==
    /\ Listening
    /\ \/ /\ fsm \in Accepting.Activate
          /\ fsm' = "Activating"
          /\ ActivateOther \/ ActivationFails
          /\ UNCHANGED <<version, modes, busy, tempFile, booted, other, rauc>>
       \/ Dropped("Activate") /\ UNCHANGED desired

(* Cleaning::onEnter reports and raises Waiting: on to Idle.               *)
ReceiveCleanup ==
    /\ Listening
    /\ UNCHANGED desired
    /\ \/ /\ fsm \in Accepting.Cleanup
          /\ fsm' = "Idle"
          /\ tempFile' \in {Absent, tempFile}
          /\ sent' = {"Cleaned", IF desired.status = "UPDATE_SUCCESS"
                                 THEN "Complete" ELSE "Incomplete"}
          /\ UNCHANGED <<version, modes, busy, slots, rauc>>
       \/ Dropped("Cleanup")

ReceiveRollback ==
    /\ Listening
    /\ UNCHANGED desired
    /\ \/ /\ fsm \in Accepting.Rollback
          /\ fsm' = "Idle"
          /\ sent' = {}
          /\ UNCHANGED <<version, modes, busy, tempFile, slots, rauc>>
       \/ Dropped("Rollback")

----------------------------------------------------------------------------
(* RAUC, as the agent relies on it: it checks the bundle, marks the other  *)
(* slot not bootable, writes it, and makes it the slot of the next boot.   *)
(* A bundle that was truncated under it does not pass as written.          *)

AgentVars == <<fsm, desired, version, modes, busy, sent, tempFile>>

Signal(result) == raucResult' = IF busy = "install" THEN result ELSE "none"

RaucStartsWriting ==
    /\ raucOp = "checking" /\ raucOp' = "writing"
    /\ other' = Broken /\ primary' = "booted"
    /\ UNCHANGED <<AgentVars, booted, raucTarget, raucResult>>

RaucSucceeds ==
    /\ raucOp = "writing" /\ raucOp' = "idle"
    /\ raucTarget # Broken
    /\ other' = raucTarget /\ primary' = "other"
    /\ Signal("ok")
    /\ UNCHANGED <<AgentVars, booted, raucTarget>>

RaucFails ==
    /\ raucOp \in {"checking", "writing"} /\ raucOp' = "idle"
    /\ Signal("failed")
    /\ UNCHANGED <<AgentVars, slots, raucTarget>>

----------------------------------------------------------------------------
(* A new process: the context starts over, file and slots are what they    *)
(* were.  RAUC is another process and goes on.                             *)

StartAgent(slot) ==
    /\ fsm' = "Uninitialized"
    /\ desired' = NewDesired(NoVersion)
    /\ version' \in BootedVersions(slot)
    /\ downloadMode' \in StartModes /\ fallbackMode' = FALSE
    /\ busy' = "none"
    /\ sent' = {}
    /\ raucResult' = "none"
    /\ UNCHANGED tempFile

Crash ==
    /\ "crash" \in Faults
    /\ StartAgent(booted)
    /\ UNCHANGED <<slots, raucOp, raucTarget>>

(* The boot loader does not start a slot without an image.                 *)
BootsOther == primary = "other" /\ other # Broken

(* The system is restarted by hand; without faults, between two updates.   *)
Reboot ==
    /\ "crash" \in Faults \/ (busy = "none" /\ raucOp = "idle")
    /\ IF BootsOther
       THEN booted' = other /\ other' = booted
       ELSE UNCHANGED <<booted, other>>
    /\ primary' = "booted"
    /\ raucOp' = "idle" /\ UNCHANGED raucTarget
    /\ StartAgent(booted')

----------------------------------------------------------------------------
Request ==
    \/ \E v \in Versions : ReceiveDesiredState(v)
    \/ ReceiveStateRequest
    \/ ReceiveInvalidRequest
    \/ ReceiveDownload
    \/ ReceiveUpdate
    \/ ReceiveActivate
    \/ ReceiveCleanup
    \/ ReceiveRollback

Next ==
    \/ ConnectivityEstablished
    \/ ConnectivityLost
    \/ Request
    \/ FinishDownload
    \/ FinishInstall
    \/ RaucStartsWriting
    \/ RaucSucceeds
    \/ RaucFails
    \/ Crash
    \/ Reboot

Spec == Init /\ [][Next]_vars

----------------------------------------------------------------------------
(* Fairness: curl and RAUC end, and an Installer whose RAUC has ended gets *)
(* to know it.  Nothing is assumed of the timeout.                         *)
Progress ==
    /\ WF_vars(FinishDownload)
    /\ WF_vars(raucResult # "none" /\ FinishInstall)
    /\ WF_vars(RaucStartsWriting)
    /\ WF_vars(RaucSucceeds \/ RaucFails)

(* The update manager repeats the command that the feedback calls for, and *)
(* the client library connects again.                                      *)
PersistentManager ==
    /\ WF_vars(ConnectivityEstablished)
    /\ SF_vars(fsm = "Downloading" /\ ReceiveDownload)
    /\ SF_vars(fsm = "Installing" /\ ReceiveUpdate)
    /\ SF_vars(fsm = "Installed" /\ ReceiveActivate)
    /\ SF_vars(ReceiveCleanup)

FairSpec == Spec /\ Progress /\ PersistentManager

----------------------------------------------------------------------------
(* Safety.                                                                 *)

(* While the agent reports a new image, the other slot holds exactly the   *)
(* version it reports: what was checked against the desired state, written *)
(* by RAUC and announced is one version, whatever requests came meanwhile. *)
ReportedImageIsInOtherSlot ==
    fsm \in {"Installed", "Activating"} => other = version

(* A status of UPDATE_SUCCESS, which turns the next CLEANUP into COMPLETE, *)
(* is only there while the new image really is the one of the next boot,   *)
(* also after rollbacks, lost connections and late work of RAUC.           *)
SuccessIsActivated ==
    desired.status = "UPDATE_SUCCESS" => primary = "other" /\ other \in Versions

(* The next boot never takes a slot without a complete image.              *)
NextBootIsComplete == primary = "other" => other \in Versions

(* An installed image waits for the ACTIVATE command: it is not yet the    *)
(* one of the next boot (comment in Installed::onEnter).                   *)
InstalledWaitsForActivation == fsm = "Installed" => primary = "booted"

(* An installation that the agent waits for reads the file that was        *)
(* checked, from its beginning to its end, and what it has written is that *)
(* file.  A download may truncate the bundle under a job that was given up *)
(* or that a process before has begun, but no UPDATE ever waits for such a *)
(* job, although RAUC goes on with it while the next one comes.            *)
AwaitedBundleIsUntouched ==
    busy = "install" => raucTarget = tempFile /\ (raucResult = "ok" => other = tempFile)

(* The other slot becomes the one of the next boot only by ACTIVATE, or by *)
(* RAUC while the UPDATE that started it has not been answered yet.        *)
OnlyActivateSwitches ==
    [][primary = "booted" /\ primary' = "other" =>
          \/ fsm = "Installed" /\ fsm' = "Activating"
          \/ busy = "install"]_vars

(* The agent keeps the promise of SlotUpdate: every boot takes the running *)
(* image unless ACTIVATE has armed an image that was offered before.  What *)
(* RAUC does in between, a complete image already switched to, stays       *)
(* hidden until Installed::onEnter has taken the switch back.              *)
Unanswered == busy = "install" /\ raucResult = "ok"

Spare == IF Unanswered THEN Broken ELSE other

Stage == IF fsm = "Installed" THEN "offered"
         ELSE IF primary = "other" /\ ~Unanswered THEN "armed" ELSE "quiet"

Slots == INSTANCE SlotUpdate WITH running <- booted, spare <- Spare, stage <- Stage

SlotProtocol == Slots!Spec

(* The agent keeps to the contract that Installer offers, with all faults: *)
(* it asks RAUC for one installation at a time, counts no signal of a job  *)
(* it has given up, and while it reports a new image RAUC rests.           *)
Contract == INSTANCE Installation WITH
    waiting <- busy = "install",
    job     <- IF raucOp = "idle" THEN "none"
               ELSE IF busy = "install" THEN "asked" ELSE "stray",
    ended   <- raucResult,
    success <- fsm \in {"Installed", "Activating"}

KeepsContract == Contract!Spec

(* Whenever a callback is through, the state machine is where the table of *)
(* SelfUpdateAgent::init leads it: an event is dropped only where it has   *)
(* no row or the body's output has none, and no handler goes elsewhere.    *)
Leads(event) == HandleEvent(fsm, event, fsm')

EventsFollowTable ==
    [][ /\ ConnectivityEstablished => Leads("ConnectivityEstablished")
        /\ ConnectivityLost => Leads("ConnectivityLost")
        /\ \A v \in Versions : ReceiveDesiredState(v) => Leads("Identify")
        /\ ReceiveStateRequest => Leads("GetCurrentState")
        /\ ReceiveDownload => IF busy' = "none" THEN Leads("DownloadStart") ELSE UNCHANGED fsm
        /\ FinishDownload => Leads("DownloadStart")
        /\ ReceiveUpdate => IF busy' = "none" THEN Leads("InstallStart") ELSE UNCHANGED fsm
        /\ FinishInstall => Leads("InstallStart")
        /\ ReceiveActivate => Leads("Activate")
        /\ ReceiveCleanup => Leads("Cleanup")
        /\ ReceiveRollback => Leads("Rollback") ]_vars

(* Liveness.                                                               *)

(* With a manager that repeats its commands an update in download mode     *)
(* comes to its end: the agent gets back to where it takes a new one.      *)
UpdateConcludes ==
    (fsm = "Downloading" /\ downloadMode) ~> (fsm \in {"Idle", "Uninitialized"})

----------------------------------------------------------------------------
(* The inductive invariant behind the safety properties.                   *)

(* Only download mode gets past Downloading, so fallback mode never starts *)
(* and the else branches of Installing::body are never taken.              *)
OnlyDownloadModeInstalls ==
    /\ fallbackMode = FALSE
    /\ fsm = "Installing" => downloadMode
    /\ busy = "download" => fsm = "Downloading" /\ downloadMode

(* While the body polls, RAUC has the bundle that was checked against the  *)
(* desired state; a result is only there for a poll to see.                *)
PollingMatchesRauc ==
    /\ busy = "install" =>
          /\ fsm = "Installing"
          /\ desired.version = raucTarget
          /\ raucTarget \in Versions
    /\ raucOp # "idle" => raucTarget \in Versions \cup {Broken}
    /\ raucResult # "none" => busy = "install" /\ raucOp = "idle"
    /\ raucResult = "ok" => other = raucTarget /\ primary = "other"

(* Once an image is installed, RAUC is at rest until the next UPDATE.      *)
RaucRestsAfterInstall ==
    /\ fsm \in {"Installed", "Activating"} => raucOp = "idle" /\ version \in Versions
    /\ desired.status = "UPDATE_SUCCESS" =>
          /\ fsm \in {"Activating", "Idle", "Connected", "Uninitialized"}
          /\ raucOp = "idle"

(* When nothing goes wrong around the agent, RAUC works only while the     *)
(* agent polls it, and what it writes is not the slot of the next boot.    *)
RaucWorksForAgent ==
    /\ raucOp # "idle" => busy = "install"
    /\ raucOp = "writing" => other = Broken /\ primary = "booted"

Consistent ==
    /\ TypeOK
    /\ OnlyDownloadModeInstalls
    /\ PollingMatchesRauc
    /\ RaucRestsAfterInstall
    /\ ReportedImageIsInOtherSlot
    /\ SuccessIsActivated
    /\ NextBootIsComplete
    /\ AwaitedBundleIsUntouched

----------------------------------------------------------------------------
(* What the documentation says and the code does not do.                   *)

(* README: a state request can be received at any point of time and the    *)
(* agent sends back the version.  (Not asked of an agent that has not got  *)
(* its connection callback yet.)                                           *)
StateRequestIsAnswered ==
    [][ReceiveStateRequest /\ fsm # "Uninitialized" =>
          "SystemVersion" \in sent']_vars

(* README: the current state is the installed version of the booted slot.  *)
ReportedVersionIsBooted == "SystemVersion" \in sent => version = booted

(* Help text and state diagram: in stream mode, too, commands lead from    *)
(* Downloading on to an installed bundle, a failure or the end.            *)
StreamUpdateProceeds ==
    (fsm = "Downloading") ~> (fsm # "Downloading")
=============================================================================
