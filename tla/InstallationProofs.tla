------------------------- MODULE InstallationProofs -------------------------
(***************************************************************************)
(* The agent keeps the contract of Installation, for every set of          *)
(* versions, start modes and faults: the steps of SelfUpdateAgent are      *)
(* steps of the contract or are not seen there.                            *)
(***************************************************************************)
EXTENDS SelfUpdateAgentProofs

Reporting == {"Installed", "Activating"}

(* Nobody waits after the step, and RAUC is let alone: either the agent    *)
(* takes no bundle for installed then, or it did so before.                *)
LEMMA NobodyWaits ==
    ASSUME Consistent, UNCHANGED raucOp, busy' # "install", raucResult' = "none",
           fsm' \in Reporting => fsm \in Reporting
    PROVE  [Contract!Next]_(Contract!ivars)
<1>1. CASE fsm' \notin Reporting
  <2>1. Contract!GiveUp
    BY <1>1 DEF Contract!GiveUp, Reporting
  <2> QED BY <2>1 DEF Contract!Next
<1>2. CASE fsm' \in Reporting
  <2>1. busy # "install" /\ raucResult = "none"
    BY <1>2 DEF Consistent, PollingMatchesRauc, Reporting
  <2> QED BY <1>2, <2>1 DEF Contract!ivars, Reporting
<1> QED BY <1>1, <1>2

(* A step that leaves the state machine's state, its body and RAUC alone.  *)
LEMMA NothingSeen ==
    ASSUME UNCHANGED <<fsm, busy, raucOp, raucResult>>
    PROVE  [Contract!Next]_(Contract!ivars)
BY DEF Contract!ivars

LEMMA DroppedIsNotSeen ==
    ASSUME NEW event, Dropped(event)
    PROVE  [Contract!Next]_(Contract!ivars)
BY NothingSeen DEF Dropped, rauc

(* Connection callbacks and the end of a download.                         *)
LEMMA ConnectionsKeepContract ==
    ASSUME Consistent, ConnectivityEstablished \/ ConnectivityLost \/ FinishDownload
    PROVE  [Contract!Next]_(Contract!ivars)
<1> USE DEF Consistent, PollingMatchesRauc, OnlyDownloadModeInstalls
<1>1. CASE \E event \in {"ConnectivityEstablished", "ConnectivityLost"} : Dropped(event)
  BY <1>1, DroppedIsNotSeen
<1>2. CASE ConnectivityEstablished /\ ~Dropped("ConnectivityEstablished")
  <2>1. fsm = "Uninitialized" /\ fsm' = "Connected" /\ UNCHANGED <<busy, rauc>>
    BY <1>2 DEF ConnectivityEstablished, Accepting
  <2> QED BY <2>1, NobodyWaits DEF rauc, Reporting
<1>3. CASE ConnectivityLost /\ ~Dropped("ConnectivityLost")
  <2>1. fsm \in {"Connected", "Idle"} /\ fsm' = "Uninitialized" /\ UNCHANGED <<busy, rauc>>
    BY <1>3 DEF ConnectivityLost, Accepting
  <2> QED BY <2>1, NobodyWaits DEF rauc, Reporting
<1>4. CASE FinishDownload
  <2>1. /\ fsm' \in {"Installing", "Failed"} /\ busy = "download" /\ busy' = "none"
        /\ UNCHANGED rauc
    BY <1>4 DEF FinishDownload, DownloadFails
  <2> QED BY <2>1, NobodyWaits DEF rauc, Reporting
<1> QED BY <1>1, <1>2, <1>3, <1>4

(* The requests and commands that have nothing to do with RAUC's jobs.     *)
LEMMA RequestsKeepContract ==
    ASSUME Consistent,
           \/ \E v \in Versions : ReceiveDesiredState(v)
           \/ ReceiveStateRequest \/ ReceiveInvalidRequest \/ ReceiveDownload
           \/ ReceiveActivate \/ ReceiveCleanup \/ ReceiveRollback
    PROVE  [Contract!Next]_(Contract!ivars)
<1>1. CASE \E event \in DOMAIN Accepting : Dropped(event)
  BY <1>1, DroppedIsNotSeen
<1>2. CASE ~\E event \in DOMAIN Accepting : Dropped(event)
  <2>1. {"Identify", "GetCurrentState", "DownloadStart", "Activate", "Cleanup", "Rollback"}
            \subseteq DOMAIN Accepting
    BY DEF Accepting
  <2>2. busy = "none" /\ busy' # "install" /\ UNCHANGED <<raucOp, raucResult>>
    <3>1. ASSUME NEW v \in Versions, ReceiveDesiredState(v)
          PROVE  busy = "none" /\ busy' # "install" /\ UNCHANGED <<raucOp, raucResult>>
      BY <1>2, <2>1, <3>1
         DEF ReceiveDesiredState, Listening, Identify, EnterDownloading, BeginDownload,
             DownloadFails, rauc
    <3>2. CASE ReceiveDownload
      BY <1>2, <2>1, <3>2
         DEF ReceiveDownload, Listening, BeginDownload, DownloadFails, CheckStream, rauc
    <3>3. CASE \/ ReceiveStateRequest \/ ReceiveInvalidRequest
               \/ ReceiveActivate \/ ReceiveCleanup \/ ReceiveRollback
      BY <1>2, <2>1, <3>3
         DEF ReceiveStateRequest, ReceiveInvalidRequest, ReceiveActivate, ReceiveCleanup,
             ReceiveRollback, Listening, rauc
    <3> QED BY <3>1, <3>2, <3>3
  <2>3. fsm' \in Reporting => fsm \in Reporting
    <3>1. ASSUME NEW v \in Versions, ReceiveDesiredState(v)
          PROVE  fsm' \notin Reporting
      BY <1>2, <2>1, <3>1
         DEF ReceiveDesiredState, Identify, EnterDownloading, BeginDownload,
             DownloadFails, Reporting
    <3>2. CASE ReceiveDownload
      BY <1>2, <2>1, <3>2
         DEF ReceiveDownload, BeginDownload, DownloadFails, CheckStream, Reporting
    <3>3. CASE ReceiveActivate
      BY <1>2, <2>1, <3>3 DEF ReceiveActivate, Accepting, Activatable, Reporting
    <3>4. CASE \/ ReceiveStateRequest \/ ReceiveInvalidRequest
               \/ ReceiveCleanup \/ ReceiveRollback
      BY <1>2, <2>1, <3>4
         DEF ReceiveStateRequest, ReceiveInvalidRequest, ReceiveCleanup,
             ReceiveRollback, Reporting
    <3> QED BY <3>1, <3>2, <3>3, <3>4
  <2>4. raucResult' = "none" /\ UNCHANGED raucOp
    BY <2>2 DEF Consistent, PollingMatchesRauc
  <2> QED BY <2>2, <2>3, <2>4, NobodyWaits
<1> QED BY <1>1, <1>2

(* UPDATE: RAUC is asked, or the attempt is over.                          *)
LEMMA UpdateKeepsContract ==
    ASSUME Consistent, ReceiveUpdate
    PROVE  [Contract!Next]_(Contract!ivars)
<1> USE DEF Consistent, PollingMatchesRauc
<1>1. CASE Dropped("InstallStart")
  BY <1>1, DroppedIsNotSeen
<1>2. CASE ~Dropped("InstallStart")
  <2>1. fsm = "Installing" /\ busy = "none" /\ downloadMode /\ raucResult = "none"
    BY <1>2 DEF ReceiveUpdate, Listening, Accepting, OnlyDownloadModeInstalls
  <2>2. CASE RejectBundle
    <3>1. fsm' = "Failed" /\ UNCHANGED <<busy, raucOp, raucResult>>
      BY <2>2 DEF RejectBundle, rauc
    <3> QED BY <2>1, <3>1, NobodyWaits DEF Reporting
  <2>3. ASSUME NEW b \in BundleVersions(tempFile), BeginInstall(b, {"VersionChecking"})
        PROVE  [Contract!Next]_(Contract!ivars)
    <3>1. CASE RaucTakes(b) /\ busy' = "install" /\ UNCHANGED fsm
      <4>1. Contract!Ask
        BY <2>1, <3>1 DEF RaucTakes, Contract!Ask
      <4> QED BY <4>1 DEF Contract!Next
    <3>2. CASE InstallationFails({"VersionChecking"}) /\ UNCHANGED <<raucOp, raucResult>>
      <4>1. fsm' = "Failed" /\ busy' = "none" /\ UNCHANGED <<raucOp, raucResult>>
        BY <2>1, <3>2 DEF InstallationFails
      <4> QED BY <2>1, <4>1, NobodyWaits DEF Reporting
    <3> QED BY <2>3, <3>1, <3>2 DEF BeginInstall
  <2> QED BY <1>2, <2>1, <2>2, <2>3 DEF ReceiveUpdate
<1> QED BY <1>1, <1>2

(* The body returns: a success only for what RAUC has ended well.          *)
LEMMA ReturnKeepsContract ==
    ASSUME Consistent, FinishInstall
    PROVE  [Contract!Next]_(Contract!ivars)
<1> USE DEF Consistent, PollingMatchesRauc
<1>1. CASE raucResult = "ok" /\ EnterInstalled /\ busy' = "none"
  <2>1. raucOp = "idle" /\ fsm' = "Installed"
    BY <1>1 DEF EnterInstalled
  <2>2. Contract!Succeed
    BY <1>1, <2>1 DEF FinishInstall, Contract!Succeed
  <2> QED BY <2>2 DEF Contract!Next
<1>2. CASE InstallationFails({})
  <2>1. fsm = "Installing" /\ downloadMode
    BY DEF FinishInstall, OnlyDownloadModeInstalls
  <2>2. fsm' = "Failed" /\ busy' = "none"
    BY <1>2, <2>1 DEF InstallationFails
  <2> QED BY <2>2, NobodyWaits DEF FinishInstall, Reporting
<1> QED BY <1>1, <1>2 DEF FinishInstall

(* RAUC goes on and ends, also when nobody waits for it any more.          *)
LEMMA RaucKeepsContract ==
    ASSUME Consistent, RaucStartsWriting \/ RaucSucceeds \/ RaucFails
    PROVE  [Contract!Next]_(Contract!ivars)
<1> USE DEF Consistent, PollingMatchesRauc, AgentVars, Signal
<1>1. CASE RaucStartsWriting
  BY <1>1 DEF RaucStartsWriting, Contract!ivars
<1>2. CASE RaucSucceeds
  <2>1. Contract!End("ok")
    BY <1>2 DEF RaucSucceeds, Contract!End
  <2> QED BY <2>1 DEF Contract!Next
<1>3. CASE RaucFails
  <2>1. Contract!End("failed")
    BY <1>3 DEF RaucFails, Contract!End
  <2> QED BY <2>1 DEF Contract!Next
<1> QED BY <1>1, <1>2, <1>3

(* A new process has given up what the old one waited for; a reboot stops  *)
(* RAUC as well.                                                           *)
LEMMA RestartKeepsContract ==
    ASSUME Consistent, Crash \/ Reboot
    PROVE  [Contract!Next]_(Contract!ivars)
<1>1. CASE Crash
  BY <1>1, NobodyWaits DEF Crash, StartAgent, Reporting
<1>2. CASE Reboot
  <2>1. Contract!PowerOff
    BY <1>2 DEF Reboot, StartAgent, Contract!PowerOff
  <2> QED BY <2>1 DEF Contract!Next
<1> QED BY <1>1, <1>2

(* With every fault, the agent implements Installation: it asks RAUC for   *)
(* one installation at a time, takes only the success of the job it waits  *)
(* for, and RAUC rests while it reports a new image.                       *)
THEOREM AgentKeepsContract == Spec => KeepsContract
<1>1. Init => Contract!Init
  BY DEF Init, Contract!Init
<1>2. ASSUME Consistent, [Next]_vars
      PROVE  [Contract!Next]_(Contract!ivars)
  <2>1. CASE UNCHANGED vars
    BY <2>1, NothingSeen DEF vars, rauc
  <2>2. CASE Request
    BY <1>2, <2>2, RequestsKeepContract, UpdateKeepsContract DEF Request
  <2> QED
    BY <1>2, <2>1, <2>2, ConnectionsKeepContract, ReturnKeepsContract,
       RaucKeepsContract, RestartKeepsContract DEF Next
<1>3. Consistent /\ [Next]_vars => [Contract!Next]_(Contract!ivars)
  BY <1>2
<1> QED
  BY <1>1, <1>3, AlwaysConsistent, PTL DEF Spec, KeepsContract, Contract!Spec
=============================================================================
