----------------------- MODULE SelfUpdateAgentProofs -----------------------
(***************************************************************************)
(* Proofs about SelfUpdateAgent, for every set of versions, start modes    *)
(* and faults: the inductive invariant Consistent, and from it the type    *)
(* invariant and the safety properties that the model checker checks.      *)
(***************************************************************************)
EXTENDS SelfUpdateAgent, TLAPS

(* The markers for things that are no version are told apart from versions *)
(* and, where the agent compares them, from each other.                    *)
LEMMA Markers == {NoVersion, Unavailable, Broken} \cap Versions = {} /\ NoVersion # Unavailable
<1>1. NoVersion # Unavailable
  BY DEF NoVersion, Unavailable
<1> QED BY <1>1, VersionsAssumption

(* The first states: nothing is under way.                                 *)
LEMMA InitConsistent == Init => Consistent
<1> SUFFICES ASSUME Init PROVE Consistent
  OBVIOUS
<1>1. desired \in [version : Versions \cup {NoVersion}, status : Statuses] /\ desired.status = ""
  BY DEF Init, NewDesired, Statuses
<1>2. TypeOK
  BY <1>1, StartModesAssumption DEF Init, TypeOK, States, BootedVersions
<1> QED
  BY <1>1, <1>2
     DEF Init, Consistent, OnlyDownloadModeInstalls, PollingMatchesRauc,
         RaucRestsAfterInstall, ReportedImageIsInOtherSlot, SuccessIsActivated,
         NextBootIsComplete, AwaitedBundleIsUntouched

(* A new desired state has no status yet.                                  *)
LEMMA NewDesiredFresh ==
    ASSUME NEW v \in Versions \cup {NoVersion}
    PROVE  /\ NewDesired(v) \in [version : Versions \cup {NoVersion}, status : Statuses]
           /\ NewDesired(v).status = ""
           /\ NewDesired(v).version = v
<1>1. NewDesired(v) \in [version : Versions \cup {NoVersion}, status : Statuses]
  BY DEF NewDesired, Statuses
<1>2. NewDesired(v).status = ""
  BY DEF NewDesired
<1>3. NewDesired(v).version = v
  BY DEF NewDesired
<1> QED BY <1>1, <1>2, <1>3

(* A handler that only publishes.                                          *)
LEMMA FrameConsistent ==
    ASSUME Consistent,
           UNCHANGED <<fsm, desired, version, modes, busy, tempFile, slots, rauc>>,
           sent' \subseteq Messages
    PROVE  Consistent'
<1>1. TypeOK'
  BY DEF Consistent, TypeOK, modes, slots, rauc
<1> QED
  BY <1>1
     DEF Consistent, OnlyDownloadModeInstalls, PollingMatchesRauc,
         RaucRestsAfterInstall, ReportedImageIsInOtherSlot, SuccessIsActivated,
         NextBootIsComplete, AwaitedBundleIsUntouched, modes, slots, rauc

(* A request that replaces the desired state but is dropped otherwise.     *)
LEMMA ReplacedConsistent ==
    ASSUME Consistent, busy = "none",
           UNCHANGED <<fsm, version, modes, busy, tempFile, slots, rauc>>,
           sent' \subseteq Messages,
           NEW v \in Versions \cup {NoVersion}, desired' = NewDesired(v)
    PROVE  Consistent'
<1>1. /\ desired' \in [version : Versions \cup {NoVersion}, status : Statuses]
      /\ desired'.status = ""
  BY DEF NewDesired, Statuses
<1>2. TypeOK'
  BY <1>1 DEF Consistent, TypeOK, modes, slots, rauc
<1> QED
  BY <1>1, <1>2
     DEF Consistent, OnlyDownloadModeInstalls, PollingMatchesRauc,
         RaucRestsAfterInstall, ReportedImageIsInOtherSlot, SuccessIsActivated,
         NextBootIsComplete, AwaitedBundleIsUntouched, modes, slots, rauc

(* An event without a row changes nothing.                                 *)
LEMMA DroppedConsistent ==
    ASSUME Consistent, NEW event, Dropped(event), UNCHANGED desired
    PROVE  Consistent'
BY FrameConsistent DEF Dropped

(* Connection callbacks: the agent greets, or starts over.                 *)
LEMMA ConnectivityConsistent ==
    ASSUME Consistent, ConnectivityEstablished \/ ConnectivityLost
    PROVE  Consistent'
<1> USE DEF Consistent, TypeOK
<1>1. CASE ConnectivityEstablished
  <2>1. CASE Dropped("ConnectivityEstablished")
    BY <1>1, <2>1, DroppedConsistent DEF ConnectivityEstablished
  <2>2. CASE ~ Dropped("ConnectivityEstablished")
    <3>1. /\ fsm = "Uninitialized" /\ fsm' = "Connected"
          /\ sent' = {"SystemVersion"}
          /\ UNCHANGED <<desired, version, modes, busy, tempFile, slots, rauc>>
      BY <1>1, <2>2 DEF ConnectivityEstablished, Accepting
    <3>2. TypeOK'
      BY <3>1 DEF States, Messages, modes, slots, rauc
    <3> QED
      BY <3>1, <3>2
         DEF OnlyDownloadModeInstalls, PollingMatchesRauc, RaucRestsAfterInstall,
             ReportedImageIsInOtherSlot, SuccessIsActivated, NextBootIsComplete,
             AwaitedBundleIsUntouched, modes, slots, rauc
  <2> QED BY <2>1, <2>2
<1>2. CASE ConnectivityLost
  <2>1. CASE Dropped("ConnectivityLost")
    BY <1>2, <2>1, DroppedConsistent DEF ConnectivityLost
  <2>2. CASE ~ Dropped("ConnectivityLost")
    <3>1. /\ fsm \in {"Connected", "Idle"} /\ fsm' = "Uninitialized"
          /\ version' \in BootedVersions(booted)
          /\ sent' = {}
          /\ UNCHANGED <<desired, modes, busy, tempFile, slots, rauc>>
      BY <1>2, <2>2 DEF ConnectivityLost, Accepting
    <3>2. TypeOK'
      BY <3>1 DEF States, BootedVersions, modes, slots, rauc
    <3> QED
      BY <3>1, <3>2
         DEF OnlyDownloadModeInstalls, PollingMatchesRauc, RaucRestsAfterInstall,
             ReportedImageIsInOtherSlot, SuccessIsActivated, NextBootIsComplete,
             AwaitedBundleIsUntouched, modes, slots, rauc
  <2> QED BY <2>1, <2>2
<1> QED BY <1>1, <1>2

(* A failed download, from the handler of a command, from fallback mode or *)
(* from curl.                                                              *)
LEMMA DownloadFailsConsistent ==
    ASSUME Consistent, busy # "install",
           NEW d, d.version \in Versions \cup {NoVersion},
           d = [version |-> d.version, status |-> d.status],
           NEW messages \in SUBSET Messages,
           DownloadFails(d, messages),
           UNCHANGED <<version, modes, tempFile, slots, rauc>>
    PROVE  Consistent'
<1> USE DEF Consistent, OnlyDownloadModeInstalls, PollingMatchesRauc,
            RaucRestsAfterInstall, ReportedImageIsInOtherSlot, SuccessIsActivated,
            NextBootIsComplete, AwaitedBundleIsUntouched, modes, slots, rauc
<1>1. /\ desired' \in [version : Versions \cup {NoVersion}, status : Statuses]
      /\ desired'.status = "DOWNLOAD_FAILURE"
  BY DEF DownloadFails, Statuses
<1>2. fsm' = "Failed" /\ busy' = "none" /\ sent' \subseteq Messages
  BY DEF DownloadFails, Messages
<1>3. TypeOK'
  BY <1>1, <1>2 DEF TypeOK, States
<1> QED
  BY <1>1, <1>2, <1>3

(* A download begins, or fails before curl is started.                     *)
LEMMA BeginDownloadConsistent ==
    ASSUME Consistent, busy = "none", downloadMode,
           NEW d \in [version : Versions \cup {NoVersion}, status : Statuses],
           d.status # "UPDATE_SUCCESS",
           NEW messages \in SUBSET Messages,
           BeginDownload(d, messages),
           UNCHANGED <<version, modes, slots, raucOp, raucResult>>
    PROVE  Consistent'
<1> USE DEF Consistent, OnlyDownloadModeInstalls, PollingMatchesRauc,
            RaucRestsAfterInstall, ReportedImageIsInOtherSlot, SuccessIsActivated,
            NextBootIsComplete, AwaitedBundleIsUntouched, modes, slots, rauc
<1>1. CASE DownloadFails(d, messages) /\ UNCHANGED <<tempFile, raucTarget>>
  BY <1>1, DownloadFailsConsistent
<1>2. CASE ~ (DownloadFails(d, messages) /\ UNCHANGED <<tempFile, raucTarget>>)
  <2>1. /\ fsm' = "Downloading" /\ busy' = "download"
        /\ desired' = d /\ sent' = messages /\ tempFile' = Partial
        /\ raucTarget' \in {raucTarget, Broken}
    BY <1>2 DEF BeginDownload, TruncateBundle
  <2>2. TypeOK'
    BY <2>1 DEF TypeOK, States
  <2> QED
    BY <2>1, <2>2
<1> QED BY <1>1, <1>2

(* curl is done: on to Installing, or the download failed.                 *)
LEMMA FinishDownloadConsistent ==
    ASSUME Consistent, FinishDownload
    PROVE  Consistent'
<1> USE DEF Consistent, OnlyDownloadModeInstalls, PollingMatchesRauc,
            RaucRestsAfterInstall, ReportedImageIsInOtherSlot, SuccessIsActivated,
            NextBootIsComplete, AwaitedBundleIsUntouched, modes, slots, rauc
<1>1. CASE DownloadFails(desired, {}) /\ UNCHANGED tempFile
  BY <1>1, DownloadFailsConsistent DEF FinishDownload, TypeOK
<1>2. CASE ~ (DownloadFails(desired, {}) /\ UNCHANGED tempFile)
  <2>1. /\ busy = "download" /\ busy' = "none"
        /\ tempFile' \in Versions \cup {Partial}
        /\ fsm' = "Installing" /\ sent' = {"Downloaded"}
        /\ UNCHANGED <<desired, version, modes, slots, rauc>>
    BY <1>2 DEF FinishDownload
  <2>2. TypeOK'
    BY <2>1 DEF TypeOK, States, Messages
  <2> QED
    BY <2>1, <2>2
<1> QED BY <1>1, <1>2

(* A desired state is taken up, skipped, or dropped by the state machine.  *)
LEMMA DesiredStateConsistent ==
    ASSUME Consistent, NEW v \in Versions, ReceiveDesiredState(v)
    PROVE  Consistent'
<1> USE DEF Consistent, OnlyDownloadModeInstalls, PollingMatchesRauc,
            RaucRestsAfterInstall, ReportedImageIsInOtherSlot, SuccessIsActivated,
            NextBootIsComplete, AwaitedBundleIsUntouched, modes, slots, rauc
<1>1. busy = "none"
  BY DEF ReceiveDesiredState, Listening
<1>2. /\ NewDesired(v) \in [version : Versions \cup {NoVersion}, status : Statuses]
      /\ NewDesired(v).status = ""
      /\ NewDesired(NewDesired(v).version) = NewDesired(v)
  BY NewDesiredFresh
<1>3. CASE Dropped("Identify") /\ desired' = NewDesired(v)
  BY <1>1, <1>3, ReplacedConsistent DEF Dropped
<1>4. CASE ~ (Dropped("Identify") /\ desired' = NewDesired(v))
  <2>1. /\ fsm \in {"Connected", "Idle"}
        /\ UNCHANGED <<version, modes, busy, tempFile, slots, rauc>>
        /\ desired' = NewDesired(v)
        /\ \/ fsm' = "Downloading" /\ sent' = {"Identifying", "Identified"}
           \/ fsm' \in {"Failed", "Connected"} /\ sent' = {"Identifying", "Skipped"}
    BY <1>1, <1>2, <1>4
       DEF ReceiveDesiredState, Identify, EnterDownloading, Accepting
  <2>2. TypeOK'
    <3>1. fsm' \in States /\ sent' \subseteq Messages
      BY <2>1 DEF States, Messages
    <3> QED
      BY <1>2, <2>1, <3>1 DEF TypeOK
  <2> QED
    BY <1>1, <1>2, <2>1, <2>2
<1> QED BY <1>3, <1>4

(* A state request wipes the desired state, answered or not.               *)
LEMMA StateRequestConsistent ==
    ASSUME Consistent, ReceiveStateRequest
    PROVE  Consistent'
<1> USE DEF Consistent, OnlyDownloadModeInstalls, PollingMatchesRauc,
            RaucRestsAfterInstall, ReportedImageIsInOtherSlot, SuccessIsActivated,
            NextBootIsComplete, AwaitedBundleIsUntouched, modes, slots, rauc
<1>1. busy = "none" /\ desired' = NewDesired(NoVersion)
  BY DEF ReceiveStateRequest, Listening
<1>2. CASE Dropped("GetCurrentState")
  BY <1>1, <1>2, ReplacedConsistent DEF Dropped
<1>3. CASE ~ Dropped("GetCurrentState")
  <2>1. /\ fsm \in {"Connected", "Idle"} /\ fsm' = "Idle"
        /\ sent' = {"SystemVersion"}
        /\ UNCHANGED <<version, modes, busy, tempFile, slots, rauc>>
    BY <1>3 DEF ReceiveStateRequest, Accepting
  <2>2. /\ desired' \in [version : Versions \cup {NoVersion}, status : Statuses]
        /\ desired'.status = ""
    BY <1>1 DEF NewDesired, Statuses
  <2>3. TypeOK'
    BY <2>1, <2>2 DEF TypeOK, States, Messages
  <2> QED
    BY <1>1, <2>1, <2>2, <2>3
<1> QED BY <1>2, <1>3

(* An invalid request only publishes.                                      *)
LEMMA InvalidRequestConsistent ==
    ASSUME Consistent, ReceiveInvalidRequest
    PROVE  Consistent'
BY FrameConsistent DEF ReceiveInvalidRequest, Messages

(* DOWNLOAD starts a download, or in stream mode checks the bundle.        *)
LEMMA DownloadConsistent ==
    ASSUME Consistent, ReceiveDownload
    PROVE  Consistent'
<1> USE DEF Consistent, OnlyDownloadModeInstalls, PollingMatchesRauc,
            RaucRestsAfterInstall, ReportedImageIsInOtherSlot, SuccessIsActivated,
            NextBootIsComplete, AwaitedBundleIsUntouched, modes, slots, rauc
<1>1. busy = "none"
  BY DEF ReceiveDownload, Listening
<1>2. CASE Dropped("DownloadStart") /\ UNCHANGED desired
  BY <1>2, DroppedConsistent
<1>3. CASE ~ (Dropped("DownloadStart") /\ UNCHANGED desired)
  <2>1. fsm = "Downloading" /\ UNCHANGED <<version, modes, slots, raucOp, raucResult>>
    BY <1>3 DEF ReceiveDownload, Accepting
  <2>2. CASE downloadMode
    <3>1. BeginDownload(desired, {})
      BY <1>3, <2>2 DEF ReceiveDownload
    <3>2. desired.status # "UPDATE_SUCCESS"
      BY <2>1
    <3> QED
      BY <1>1, <2>1, <2>2, <3>1, <3>2, BeginDownloadConsistent DEF TypeOK
  <2>3. CASE ~ downloadMode
    <3>1. CheckStream
      BY <1>3, <2>3 DEF ReceiveDownload
    <3>2. CASE sent' = {} /\ UNCHANGED desired
      BY <2>1, <3>1, <3>2, FrameConsistent DEF CheckStream
    <3>3. CASE ~ (sent' = {} /\ UNCHANGED desired)
      <4>1. /\ sent' = {"Rejected"}
            /\ desired' = [desired EXCEPT !.status = "DOWNLOAD_FAILURE"]
            /\ UNCHANGED <<fsm, busy, tempFile, raucTarget>>
        BY <3>1, <3>3 DEF CheckStream
      <4>2. /\ desired' \in [version : Versions \cup {NoVersion}, status : Statuses]
            /\ desired'.status = "DOWNLOAD_FAILURE"
        BY <4>1 DEF TypeOK, Statuses
      <4>3. TypeOK'
        BY <2>1, <4>1, <4>2 DEF TypeOK, Messages
      <4> QED
        BY <1>1, <2>1, <4>1, <4>2, <4>3
    <3> QED BY <3>2, <3>3
  <2> QED BY <2>2, <2>3
<1> QED BY <1>2, <1>3

(* Installer::start has failed, at once or after polling.  In Installing   *)
(* the agent is in download mode, so there is no fallback.                 *)
LEMMA InstallationFailsConsistent ==
    ASSUME Consistent, fsm = "Installing",
           NEW messages \in SUBSET Messages,
           InstallationFails(messages),
           UNCHANGED <<version, slots>>,
           UNCHANGED raucOp, raucResult' = "none"
    PROVE  Consistent'
<1> USE DEF Consistent, OnlyDownloadModeInstalls, PollingMatchesRauc,
            RaucRestsAfterInstall, ReportedImageIsInOtherSlot, SuccessIsActivated,
            NextBootIsComplete, AwaitedBundleIsUntouched, modes, slots, rauc
<1>1. downloadMode
  OBVIOUS
<1>2. /\ fsm' = "Failed" /\ busy' = "none"
      /\ desired' = [desired EXCEPT !.status = "UPDATE_FAILURE"]
      /\ sent' = messages \cup {"InstallFailed"}
      /\ downloadMode' \in BOOLEAN /\ fallbackMode' = FALSE
      /\ UNCHANGED <<tempFile, raucTarget>>
  BY <1>1 DEF InstallationFails
<1>3. /\ desired' \in [version : Versions \cup {NoVersion}, status : Statuses]
      /\ desired'.status = "UPDATE_FAILURE"
  BY <1>2 DEF TypeOK, Statuses
<1>4. fsm' \in States /\ sent' \subseteq Messages
  BY <1>2 DEF States, Messages
<1>5. TypeOK'
  BY <1>2, <1>3, <1>4 DEF TypeOK
<1> QED
  BY <1>2, <1>3, <1>5

(* The bundle that RAUC takes is the one that was checked.                 *)
LEMMA UpdateConsistent ==
    ASSUME Consistent, ReceiveUpdate
    PROVE  Consistent'
<1> USE DEF Consistent, OnlyDownloadModeInstalls, PollingMatchesRauc,
            RaucRestsAfterInstall, ReportedImageIsInOtherSlot, SuccessIsActivated,
            NextBootIsComplete, AwaitedBundleIsUntouched, modes, slots, rauc
<1>1. busy = "none"
  BY DEF ReceiveUpdate, Listening
<1>2. CASE Dropped("InstallStart") /\ UNCHANGED desired
  BY <1>2, DroppedConsistent
<1>3. CASE ~ (Dropped("InstallStart") /\ UNCHANGED desired)
  <2>1. fsm = "Installing" /\ downloadMode /\ UNCHANGED version
    BY <1>3 DEF ReceiveUpdate, Accepting
  <2>2. PICK b \in BundleVersions(tempFile) :
            IF BundleAccepted(b) THEN BeginInstall(b, {"VersionChecking"})
                                 ELSE RejectBundle
    BY <1>3, <2>1 DEF ReceiveUpdate
  <2>3. CASE RejectBundle
    <3>1. /\ fsm' = "Failed"
          /\ desired' = [desired EXCEPT !.status = "UPDATE_FAILURE"]
          /\ sent' = {"VersionChecking", "Rejected"}
          /\ UNCHANGED <<modes, busy, tempFile, slots, rauc>>
      BY <2>3 DEF RejectBundle
    <3>2. /\ desired' \in [version : Versions \cup {NoVersion}, status : Statuses]
          /\ desired'.status = "UPDATE_FAILURE"
      BY <3>1 DEF TypeOK, Statuses
    <3>3. fsm' \in States /\ sent' \subseteq Messages
      BY <3>1 DEF States, Messages
    <3>4. TypeOK'
      BY <2>1, <3>1, <3>2, <3>3 DEF TypeOK
    <3> QED
      BY <1>1, <2>1, <3>1, <3>2, <3>4
  <2>4. CASE BundleAccepted(b) /\ BeginInstall(b, {"VersionChecking"})
    <3>1. b = desired.version /\ b \in Versions /\ b = tempFile
      BY <2>4, Markers DEF BundleAccepted, BundleVersions, TypeOK
    <3>2. CASE InstallationFails({"VersionChecking"}) /\ UNCHANGED <<slots, raucOp, raucResult>>
      <4>1. raucResult = "none"
        BY <1>1 DEF TypeOK
      <4> QED
        BY <2>1, <3>2, <4>1, InstallationFailsConsistent DEF Messages
    <3>3. CASE ~ (InstallationFails({"VersionChecking"})
                  /\ UNCHANGED <<slots, raucOp, raucResult>>)
      <4>1. /\ raucOp = "idle" /\ raucOp' = "checking"
            /\ raucTarget' = b /\ raucResult' = "none"
            /\ busy' = "install" /\ sent' = {"VersionChecking"}
            /\ UNCHANGED <<fsm, desired, modes, tempFile, slots>>
        BY <2>4, <3>3 DEF BeginInstall, RaucTakes
      <4>2. TypeOK'
        BY <2>1, <3>1, <4>1 DEF TypeOK, Messages
      <4> QED
        BY <2>1, <3>1, <4>1, <4>2
    <3> QED BY <3>2, <3>3
  <2> QED BY <2>2, <2>3, <2>4
<1> QED BY <1>2, <1>3

(* Installer::start returns: installed or failed.                          *)
LEMMA FinishInstallConsistent ==
    ASSUME Consistent, FinishInstall
    PROVE  Consistent'
<1> USE DEF Consistent, OnlyDownloadModeInstalls, PollingMatchesRauc,
            RaucRestsAfterInstall, ReportedImageIsInOtherSlot, SuccessIsActivated,
            NextBootIsComplete, AwaitedBundleIsUntouched, modes, slots, rauc
<1>1. /\ busy = "install" /\ raucResult' = "none"
      /\ UNCHANGED <<booted, other, raucOp>>
  BY DEF FinishInstall
<1>2. CASE InstallationFails({}) /\ UNCHANGED <<version, primary>>
  BY <1>1, <1>2, InstallationFailsConsistent
<1>3. CASE ~ (InstallationFails({}) /\ UNCHANGED <<version, primary>>)
  <2>1. /\ raucResult = "ok" /\ fsm' = "Installed"
        /\ version' = desired.version
        /\ sent' = {"Installed", "CurrentState"}
        /\ downloadMode' \in BOOLEAN /\ fallbackMode' = FALSE
        /\ busy' = "none"
        /\ primary' \in {"booted", primary}
        /\ UNCHANGED <<desired, tempFile, raucTarget>>
    BY <1>3 DEF FinishInstall, EnterInstalled, ActivateBooted
  <2>2. TypeOK'
    BY <1>1, <2>1 DEF TypeOK, States, Messages
  <2> QED
    BY <1>1, <2>1, <2>2
<1> QED BY <1>2, <1>3

(* ACTIVATE reports a success only when the slot was switched.             *)
LEMMA ActivateConsistent ==
    ASSUME Consistent, ReceiveActivate
    PROVE  Consistent'
<1> USE DEF Consistent, OnlyDownloadModeInstalls, PollingMatchesRauc,
            RaucRestsAfterInstall, ReportedImageIsInOtherSlot, SuccessIsActivated,
            NextBootIsComplete, AwaitedBundleIsUntouched, modes, slots, rauc
<1>1. busy = "none"
  BY DEF ReceiveActivate, Listening
<1>2. CASE Dropped("Activate") /\ UNCHANGED desired
  BY <1>2, DroppedConsistent
<1>3. CASE ~ (Dropped("Activate") /\ UNCHANGED desired)
  <2>1. /\ fsm = "Installed" /\ fsm' = "Activating"
        /\ ActivateOther \/ ActivationFails
        /\ UNCHANGED <<version, modes, busy, tempFile, booted, other, rauc>>
    BY <1>3 DEF ReceiveActivate, Accepting, Activatable
  <2>2. /\ \/ primary' = "other" /\ desired'.status = "UPDATE_SUCCESS"
           \/ primary' = primary /\ desired'.status = "UPDATE_FAILURE"
        /\ desired' \in [version : Versions \cup {NoVersion}, status : Statuses]
    BY <2>1 DEF ActivateOther, ActivationFails, TypeOK, Statuses
  <2>3. fsm' \in States /\ sent' \subseteq Messages
    BY <2>1 DEF ActivateOther, ActivationFails, States, Messages
  <2>4. TypeOK'
    BY <2>1, <2>2, <2>3 DEF TypeOK
  <2> QED
    BY <1>1, <2>1, <2>2, <2>4
<1> QED BY <1>2, <1>3

(* CLEANUP leads back to Idle and leaves the slots alone.                  *)
LEMMA CleanupConsistent ==
    ASSUME Consistent, ReceiveCleanup
    PROVE  Consistent'
<1> USE DEF Consistent, OnlyDownloadModeInstalls, PollingMatchesRauc,
            RaucRestsAfterInstall, ReportedImageIsInOtherSlot, SuccessIsActivated,
            NextBootIsComplete, AwaitedBundleIsUntouched, modes, slots, rauc
<1>1. busy = "none"
  BY DEF ReceiveCleanup, Listening
<1>2. CASE Dropped("Cleanup") /\ UNCHANGED desired
  BY <1>2, DroppedConsistent
<1>3. CASE ~ (Dropped("Cleanup") /\ UNCHANGED desired)
  <2>1. /\ fsm \in {"Activating", "Failed"} /\ fsm' = "Idle"
        /\ tempFile' \in {Absent, tempFile}
        /\ sent' \subseteq {"Cleaned", "Complete", "Incomplete"}
        /\ UNCHANGED <<desired, version, modes, busy, slots, rauc>>
    BY <1>3 DEF ReceiveCleanup, Accepting, Cleanable
  <2>2. fsm' \in States /\ sent' \subseteq Messages
    BY <2>1 DEF States, Messages
  <2>3. TypeOK'
    BY <2>1, <2>2 DEF TypeOK
  <2> QED
    BY <1>1, <2>1, <2>2, <2>3
<1> QED BY <1>2, <1>3

(* ROLLBACK leads back to Idle and leaves the slots alone.                 *)
LEMMA RollbackConsistent ==
    ASSUME Consistent, ReceiveRollback
    PROVE  Consistent'
<1> USE DEF Consistent, OnlyDownloadModeInstalls, PollingMatchesRauc,
            RaucRestsAfterInstall, ReportedImageIsInOtherSlot, SuccessIsActivated,
            NextBootIsComplete, AwaitedBundleIsUntouched, modes, slots, rauc
<1>1. busy = "none"
  BY DEF ReceiveRollback, Listening
<1>2. CASE Dropped("Rollback") /\ UNCHANGED desired
  BY <1>2, DroppedConsistent
<1>3. CASE ~ (Dropped("Rollback") /\ UNCHANGED desired)
  <2>1. /\ fsm # "Uninitialized" /\ fsm' = "Idle" /\ sent' = {}
        /\ UNCHANGED <<desired, version, modes, busy, tempFile, slots, rauc>>
    BY <1>3 DEF ReceiveRollback, Accepting
  <2>2. fsm' \in States /\ sent' \subseteq Messages
    BY <2>1 DEF States, Messages
  <2>3. TypeOK'
    BY <2>1, <2>2 DEF TypeOK
  <2> QED
    BY <1>1, <2>1, <2>2, <2>3
<1> QED BY <1>2, <1>3

(* RAUC.                                                                   *)
LEMMA RaucConsistent ==
    ASSUME Consistent, RaucStartsWriting \/ RaucSucceeds \/ RaucFails
    PROVE  Consistent'
<1> USE DEF Consistent, OnlyDownloadModeInstalls, PollingMatchesRauc,
            RaucRestsAfterInstall, ReportedImageIsInOtherSlot, SuccessIsActivated,
            NextBootIsComplete, AwaitedBundleIsUntouched, modes, slots, rauc
<1>1. CASE RaucStartsWriting
  <2>1. TypeOK'
    BY <1>1 DEF RaucStartsWriting, AgentVars, TypeOK
  <2> QED
    BY <1>1, <2>1 DEF RaucStartsWriting, AgentVars
<1>2. CASE RaucSucceeds
  <2>1. TypeOK'
    BY <1>2 DEF RaucSucceeds, Signal, AgentVars, TypeOK
  <2> QED
    BY <1>2, <2>1 DEF RaucSucceeds, Signal, AgentVars
<1>3. CASE RaucFails
  <2>1. TypeOK'
    BY <1>3 DEF RaucFails, Signal, AgentVars, TypeOK
  <2> QED
    BY <1>3, <2>1 DEF RaucFails, Signal, AgentVars
<1> QED BY <1>1, <1>2, <1>3

(* A new process.  That a reboot into the other slot finds an image there  *)
(* is NextBootIsComplete.                                                  *)
LEMMA RestartConsistent ==
    ASSUME Consistent, Crash \/ Reboot
    PROVE  Consistent'
<1> USE DEF Consistent, OnlyDownloadModeInstalls, PollingMatchesRauc,
            RaucRestsAfterInstall, ReportedImageIsInOtherSlot, SuccessIsActivated,
            NextBootIsComplete, AwaitedBundleIsUntouched, modes, slots, rauc
<1>1. /\ booted' \in Versions /\ other' \in Versions \cup {Broken}
      /\ \/ UNCHANGED <<booted, other, primary, raucOp>>
         \/ primary' = "booted" /\ raucOp' = "idle"
      /\ UNCHANGED <<raucTarget, tempFile>>
  BY DEF Crash, Reboot, StartAgent, BootsOther, TypeOK
<1>2. PICK slot \in Versions : StartAgent(slot)
  BY <1>1 DEF Crash, Reboot, TypeOK
<1>3. /\ fsm' = "Uninitialized" /\ busy' = "none" /\ sent' = {}
      /\ version' \in Versions \cup {NoVersion}
      /\ downloadMode' \in BOOLEAN /\ fallbackMode' = FALSE
      /\ raucResult' = "none"
  BY <1>2, StartModesAssumption DEF StartAgent, BootedVersions
<1>4. /\ desired' \in [version : Versions \cup {NoVersion}, status : Statuses]
      /\ desired'.status = ""
  BY <1>2 DEF StartAgent, NewDesired, Statuses
<1>5. TypeOK'
  BY <1>1, <1>3, <1>4 DEF TypeOK, States
<1> QED
  BY <1>1, <1>3, <1>4, <1>5

(* Every step keeps Consistent.                                            *)
LEMMA NextConsistent ==
    ASSUME Consistent, [Next]_vars
    PROVE  Consistent'
<1>1. CASE UNCHANGED vars
  BY <1>1, FrameConsistent DEF vars, Consistent, TypeOK
<1>2. CASE Request
  BY <1>2, DesiredStateConsistent, StateRequestConsistent, InvalidRequestConsistent,
     DownloadConsistent, UpdateConsistent, ActivateConsistent, CleanupConsistent,
     RollbackConsistent DEF Request
<1> QED
  BY <1>1, <1>2, ConnectivityConsistent, FinishDownloadConsistent,
     FinishInstallConsistent, RaucConsistent, RestartConsistent DEF Next

(* The agent, RAUC, crashes and reboots included, keeps Consistent.        *)
THEOREM AlwaysConsistent == Spec => []Consistent
<1>1. Consistent /\ [Next]_vars => Consistent'
  BY NextConsistent
<1> QED BY <1>1, InitConsistent, PTL DEF Spec

(* Type correctness.                                                       *)
THEOREM AgentIsTyped == Spec => []TypeOK
<1>1. Consistent => TypeOK
  BY DEF Consistent
<1> QED BY <1>1, AlwaysConsistent, PTL

(* In Installed and Activating the other slot holds the version that the   *)
(* agent reports, whatever faults occur.                                   *)
THEOREM ReportedImageIsThere == Spec => []ReportedImageIsInOtherSlot
<1>1. Consistent => ReportedImageIsInOtherSlot
  BY DEF Consistent
<1> QED BY <1>1, AlwaysConsistent, PTL

(* UPDATE_SUCCESS is never kept without an activated image.                *)
THEOREM SuccessMeansActivated == Spec => []SuccessIsActivated
<1>1. Consistent => SuccessIsActivated
  BY DEF Consistent
<1> QED BY <1>1, AlwaysConsistent, PTL

(* No boot takes an incomplete image, even when RAUC is cut off by a crash *)
(* or goes on after the Installer has given up.                            *)
THEOREM BootIsSafe == Spec => []NextBootIsComplete
<1>1. Consistent => NextBootIsComplete
  BY DEF Consistent
<1> QED BY <1>1, AlwaysConsistent, PTL

(* An UPDATE waits only for a job that reads the file which was checked,   *)
(* and its success is that file, also when jobs that were given up or were *)
(* begun by a process before are spoilt by a later download.               *)
THEOREM AwaitedBundleStays == Spec => []AwaitedBundleIsUntouched
<1>1. Consistent => AwaitedBundleIsUntouched
  BY DEF Consistent
<1> QED BY <1>1, AlwaysConsistent, PTL

(* One step of InstalledWaitsForActivation.  In Installed RAUC is at rest, *)
(* so nothing but ACTIVATE, which leaves the state, can switch the slots.  *)
LEMMA NextInstalledWaits ==
    ASSUME "mark" \notin Faults,
           Consistent, InstalledWaitsForActivation, [Next]_vars
    PROVE  InstalledWaitsForActivation'
<1> USE DEF InstalledWaitsForActivation
<1> SUFFICES ASSUME fsm' = "Installed" PROVE primary' = "booted"
  OBVIOUS
<1>1. CASE UNCHANGED vars
  BY <1>1 DEF vars, slots
<1>2. CASE FinishInstall
  <2>1. CASE InstallationFails({})
    BY <2>1 DEF InstallationFails, EnterDownloading, BeginDownload, DownloadFails
  <2>2. CASE ~ InstallationFails({})
    BY <1>2, <2>2 DEF FinishInstall, EnterInstalled, ActivateBooted
  <2> QED BY <2>1, <2>2
<1>3. CASE ReceiveUpdate
  <2>1. CASE fsm = "Installing"
    <3>1. downloadMode
      BY <2>1 DEF Consistent, OnlyDownloadModeInstalls
    <3> QED
      BY <1>3, <2>1, <3>1
         DEF ReceiveUpdate, BeginInstall, InstallationFails, RejectBundle,
             Dropped, Accepting, slots
  <2>2. CASE fsm # "Installing"
    BY <1>3, <2>2 DEF ReceiveUpdate, Dropped, Accepting, slots
  <2> QED BY <2>1, <2>2
<1>4. CASE RaucStartsWriting \/ RaucSucceeds \/ RaucFails
  <2>1. fsm' = fsm /\ raucOp # "idle"
    BY <1>4 DEF RaucStartsWriting, RaucSucceeds, RaucFails, AgentVars
  <2> QED
    BY <2>1 DEF Consistent, RaucRestsAfterInstall
<1>5. CASE Crash \/ Reboot
  BY <1>5 DEF Crash, Reboot, StartAgent
<1>6. CASE ConnectivityEstablished \/ ConnectivityLost
  BY <1>6 DEF ConnectivityEstablished, ConnectivityLost, Dropped, slots
<1>7. CASE FinishDownload
  BY <1>7 DEF FinishDownload, DownloadFails, slots
<1>8. ASSUME NEW v \in Versions, ReceiveDesiredState(v) PROVE primary' = "booted"
  BY <1>8
     DEF ReceiveDesiredState, Identify, EnterDownloading, BeginDownload,
         DownloadFails, Dropped, slots
<1>9. CASE ReceiveDownload
  BY <1>9
     DEF ReceiveDownload, BeginDownload, DownloadFails, CheckStream, Dropped, slots
<1>10. CASE ReceiveActivate
  BY <1>10 DEF ReceiveActivate, Dropped, Accepting, Activatable, slots
<1>11. CASE \/ ReceiveStateRequest \/ ReceiveInvalidRequest
            \/ ReceiveCleanup \/ ReceiveRollback
  BY <1>11
     DEF ReceiveStateRequest, ReceiveInvalidRequest, ReceiveCleanup,
         ReceiveRollback, Dropped, slots
<1> QED
  BY <1>1, <1>2, <1>3, <1>4, <1>5, <1>6, <1>7, <1>8, <1>9, <1>10, <1>11
     DEF Next, Request

(* As long as RAUC marks slots when it is asked to, an installed image is  *)
(* not booted before ACTIVATE, crashes and given up installations included.*)
THEOREM InstallationWaits ==
    ASSUME "mark" \notin Faults
    PROVE  Spec => []InstalledWaitsForActivation
<1>1. Init => InstalledWaitsForActivation
  BY DEF Init, InstalledWaitsForActivation
<1>2. /\ Consistent /\ InstalledWaitsForActivation /\ [Next]_vars
      => InstalledWaitsForActivation'
  BY NextInstalledWaits
<1> QED
  BY <1>1, <1>2, AlwaysConsistent, PTL DEF Spec
=============================================================================
