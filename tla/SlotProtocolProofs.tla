------------------------- MODULE SlotProtocolProofs -------------------------
(***************************************************************************)
(* Proof that the agent implements SlotUpdate, and that only ACTIVATE      *)
(* switches the slots, as long as it is not restarted amid an update, does *)
(* not give up on RAUC, and RAUC marks the slots it is asked to mark.      *)
(***************************************************************************)
EXTENDS SelfUpdateAgentProofs

Undisturbed == Faults \subseteq {"dbus"}

Orderly == Consistent /\ RaucWorksForAgent /\ InstalledWaitsForActivation

(* A handler that does not touch RAUC.                                     *)
LEMMA FrameWorks ==
    ASSUME RaucWorksForAgent, UNCHANGED <<slots, raucOp>>,
           busy = "install" => busy' = "install" \/ raucOp = "idle"
    PROVE  RaucWorksForAgent'
BY DEF RaucWorksForAgent, slots, rauc

(* Every step keeps RaucWorksForAgent.                                     *)
LEMMA NextWorks ==
    ASSUME Undisturbed, Consistent, RaucWorksForAgent, [Next]_vars
    PROVE  RaucWorksForAgent'
<1>1. CASE UNCHANGED vars
  BY <1>1, FrameWorks DEF vars, rauc
<1>2. CASE FinishInstall
  <2>1. busy = "install" /\ raucResult \in {"ok", "failed"}
    BY <1>2 DEF FinishInstall, EnterInstalled, InstallFailed, Undisturbed
  <2>2. raucOp = "idle"
    BY <2>1 DEF Consistent, PollingMatchesRauc
  <2>3. raucOp' = "idle"
    BY <1>2, <2>2 DEF FinishInstall
  <2> QED
    BY <2>3 DEF RaucWorksForAgent
<1>3. CASE ReceiveUpdate
  <2>1. busy = "none" /\ raucOp = "idle"
    BY <1>3 DEF ReceiveUpdate, Listening, RaucWorksForAgent, Consistent, TypeOK
  <2>2. CASE UNCHANGED <<slots, raucOp>>
    BY <2>1, <2>2, FrameWorks
  <2>3. CASE ~ UNCHANGED <<slots, raucOp>>
    <3>1. PICK v, messages : BeginInstall(v, messages)
      BY <1>3, <2>3 DEF ReceiveUpdate, RejectBundle, Dropped, rauc
    <3>2. busy' = "install" /\ raucOp' = "checking"
      BY <2>3, <3>1 DEF BeginInstall, RaucTakes
    <3> QED
      BY <3>2 DEF RaucWorksForAgent
  <2> QED BY <2>2, <2>3
<1>4. CASE RaucStartsWriting \/ RaucSucceeds \/ RaucFails
  BY <1>4
     DEF RaucStartsWriting, RaucSucceeds, RaucFails, AgentVars, RaucWorksForAgent
<1>5. CASE Crash \/ Reboot
  <2>1. raucOp' = "idle"
    BY <1>5 DEF Crash, Reboot, Undisturbed
  <2> QED
    BY <2>1 DEF RaucWorksForAgent
<1>6. CASE ConnectivityEstablished \/ ConnectivityLost
  BY <1>6, FrameWorks DEF ConnectivityEstablished, ConnectivityLost, Dropped, rauc
<1>7. CASE FinishDownload
  BY <1>7, FrameWorks DEF FinishDownload, rauc
<1>8. ASSUME NEW v \in Versions, ReceiveDesiredState(v) PROVE RaucWorksForAgent'
  BY <1>8, FrameWorks DEF ReceiveDesiredState, Listening, Dropped, rauc
<1>9. CASE ReceiveDownload
  BY <1>9, FrameWorks DEF ReceiveDownload, Listening, Dropped, rauc
<1>10. CASE ReceiveActivate
  <2>1. busy = "none" /\ UNCHANGED rauc
    BY <1>10 DEF ReceiveActivate, Listening, Dropped
  <2>2. raucOp' = "idle"
    BY <2>1 DEF RaucWorksForAgent, Consistent, TypeOK, rauc
  <2> QED
    BY <2>2 DEF RaucWorksForAgent
<1>11. CASE \/ ReceiveStateRequest \/ ReceiveInvalidRequest
            \/ ReceiveCleanup \/ ReceiveRollback
  BY <1>11, FrameWorks
     DEF ReceiveStateRequest, ReceiveInvalidRequest, ReceiveCleanup,
         ReceiveRollback, Listening, Dropped, rauc
<1> QED
  BY <1>1, <1>2, <1>3, <1>4, <1>5, <1>6, <1>7, <1>8, <1>9, <1>10, <1>11
     DEF Next, Request

(* Undisturbed, the agent is always Orderly.                               *)
LEMMA AlwaysOrderly ==
    ASSUME Undisturbed
    PROVE  Spec => []Orderly
<1>1. Init => RaucWorksForAgent
  BY DEF Init, RaucWorksForAgent
<1>2. Consistent /\ RaucWorksForAgent /\ [Next]_vars => RaucWorksForAgent'
  BY NextWorks
<1>3. "mark" \notin Faults
  BY DEF Undisturbed
<1>4. Spec => []InstalledWaitsForActivation
  BY <1>3, InstallationWaits
<1>5. Consistent /\ RaucWorksForAgent /\ InstalledWaitsForActivation => Orderly
  BY DEF Orderly
<1> QED
  BY <1>1, <1>2, <1>4, <1>5, AlwaysConsistent, PTL DEF Spec

----------------------------------------------------------------------------
(* A step that leaves the slots alone and neither offers an image nor      *)
(* withdraws one is not seen by SlotUpdate.                                *)
LEMMA SlotsStutter ==
    ASSUME UNCHANGED slots, fsm = "Installed" <=> fsm' = "Installed",
           Unanswered <=> Unanswered'
    PROVE  UNCHANGED Slots!svars
BY DEF Slots!svars, slots, Spare, Stage

(* The first states of the agent are first states of SlotUpdate.           *)
LEMMA InitSlots == Init => Slots!Init
BY DEF Init, Slots!Init, Spare, Stage, Unanswered

(* Installer::start returns: the new image is offered, or nothing is seen. *)
LEMMA FinishInstallSlots ==
    ASSUME Undisturbed, Orderly, FinishInstall
    PROVE  [Slots!Next]_(Slots!svars)
<1> USE DEF Orderly, Consistent
<1>1. busy = "install" /\ fsm = "Installing" /\ raucResult' = "none"
  BY DEF FinishInstall, EnterInstalled, PollingMatchesRauc
<1>2. CASE InstallationFails({}) /\ UNCHANGED <<version, primary>>
  <2>1. fsm' = "Failed" /\ UNCHANGED slots
    BY <1>1, <1>2
       DEF FinishInstall, EnterInstalled, InstallationFails, OnlyDownloadModeInstalls, slots
  <2>2. CASE raucResult = "ok"
    <3>1. ~ InstallFailed
      BY <2>2 DEF InstallFailed
    <3>2. EnterInstalled
      BY <3>1, SMT DEF FinishInstall
    <3>3. fsm' = "Installed"
      BY <3>2 DEF EnterInstalled
    <3> QED BY <2>1, <3>3
  <2>3. CASE raucResult # "ok"
    BY <1>1, <2>1, <2>3, SlotsStutter DEF Unanswered
  <2> QED BY <2>2, <2>3
<1>3. CASE ~ (InstallationFails({}) /\ UNCHANGED <<version, primary>>)
  <2>1. /\ raucResult = "ok" /\ fsm' = "Installed"
        /\ UNCHANGED <<booted, other>>
    BY <1>3 DEF FinishInstall, EnterInstalled
  <2>2. other \in Versions
    BY <1>1, <2>1 DEF PollingMatchesRauc
  <2>3. Spare = Broken /\ Stage = "quiet"
    BY <1>1, <2>1 DEF Spare, Stage, Unanswered
  <2>4. Spare' = other /\ Stage' = "offered"
    BY <1>1, <2>1 DEF Spare, Stage, Unanswered
  <2>5. Slots!Offer
    BY <2>1, <2>2, <2>3, <2>4 DEF Slots!Offer
  <2> QED BY <2>5 DEF Slots!Next
<1> QED BY <1>2, <1>3

(* RAUC erases the other slot; what it writes afterwards stays hidden.     *)
LEMMA RaucSlots ==
    ASSUME Orderly, RaucStartsWriting \/ RaucSucceeds \/ RaucFails
    PROVE  [Slots!Next]_(Slots!svars)
<1> USE DEF Orderly, Consistent
<1>1. raucOp # "idle" /\ UNCHANGED AgentVars
  BY DEF RaucStartsWriting, RaucSucceeds, RaucFails
<1>2. busy = "install" /\ fsm = "Installing" /\ raucResult = "none"
  BY <1>1 DEF RaucWorksForAgent, PollingMatchesRauc, TypeOK
<1>3. busy' = "install" /\ fsm' = "Installing"
  BY <1>1, <1>2 DEF AgentVars
<1>4. CASE RaucStartsWriting
  <2>1. Spare' = Broken /\ Stage' = "quiet" /\ Stage # "offered" /\ UNCHANGED booted
    BY <1>2, <1>3, <1>4 DEF RaucStartsWriting, Spare, Stage
  <2> QED BY <2>1 DEF Slots!Erase, Slots!Next
<1>5. CASE RaucSucceeds
  <2>1. other = Broken /\ primary = "booted"
    BY <1>5 DEF RaucSucceeds, RaucWorksForAgent
  <2>2. Unanswered' /\ UNCHANGED booted
    BY <1>2, <1>3, <1>5 DEF RaucSucceeds, Signal, Unanswered
  <2>3. Spare = Broken /\ Stage = "quiet" /\ Spare' = Broken /\ Stage' = "quiet"
    BY <1>2, <1>3, <2>1, <2>2 DEF Spare, Stage
  <2> QED BY <2>2, <2>3 DEF Slots!svars
<1>6. CASE RaucFails
  <2>1. ~ Unanswered /\ ~ Unanswered' /\ UNCHANGED slots
    BY <1>2, <1>6 DEF RaucFails, Signal, Unanswered
  <2> QED BY <1>2, <1>3, <2>1, SlotsStutter
<1> QED BY <1>4, <1>5, <1>6

(* A reboot between two updates takes the armed image, else the same.      *)
LEMMA RebootSlots ==
    ASSUME Undisturbed, Orderly, Reboot
    PROVE  Slots!Boot
<1> USE DEF Orderly, Consistent
<1>1. busy = "none" /\ busy' = "none" /\ fsm' = "Uninitialized" /\ primary' = "booted"
  BY DEF Reboot, StartAgent, Undisturbed
<1>2. Spare = other /\ Spare' = other' /\ Stage' = "quiet"
  BY <1>1 DEF Spare, Stage, Unanswered
<1>3. CASE Stage = "armed"
  <2>1. primary = "other"
    BY <1>3 DEF Stage
  <2>2. other # Broken
    BY <2>1, Markers DEF NextBootIsComplete
  <2>3. booted' = other /\ other' = booted
    BY <2>1, <2>2 DEF Reboot, BootsOther
  <2> QED BY <1>2, <1>3, <2>3 DEF Slots!Boot
<1>4. CASE Stage # "armed"
  <2>1. primary # "other"
    BY <1>1, <1>4 DEF Stage, Unanswered, InstalledWaitsForActivation
  <2>2. UNCHANGED <<booted, other>>
    BY <2>1 DEF Reboot, BootsOther
  <2> QED BY <1>2, <1>4, <2>2 DEF Slots!Boot
<1> QED BY <1>3, <1>4

(* The commands that decide about an installed image.                      *)
LEMMA DecisionSlots ==
    ASSUME Undisturbed, Orderly, ReceiveActivate \/ ReceiveRollback
    PROVE  [Slots!Next]_(Slots!svars)
<1> USE DEF Orderly, Consistent
<1>1. busy = "none" /\ busy' = "none"
  BY DEF ReceiveActivate, ReceiveRollback, Listening, Dropped
<1>2. ~ Unanswered /\ ~ Unanswered' /\ Spare = other /\ Spare' = other'
  BY <1>1 DEF Unanswered, Spare
<1>3. CASE fsm = "Installed" /\ ReceiveActivate
  <2>1. /\ fsm' = "Activating" /\ primary' = "other"
        /\ UNCHANGED <<booted, other>>
    BY <1>3
       DEF ReceiveActivate, Accepting, Activatable, ActivateOther,
           ActivationFails, Dropped, Undisturbed
  <2>2. Stage = "offered" /\ Stage' = "armed"
    BY <1>2, <1>3, <2>1 DEF Stage
  <2> QED BY <1>2, <2>1, <2>2 DEF Slots!Arm, Slots!Next
<1>4. CASE fsm = "Installed" /\ ReceiveRollback
  <2>1. fsm' = "Idle" /\ primary = "booted" /\ UNCHANGED slots
    BY <1>4 DEF ReceiveRollback, Accepting, Dropped, InstalledWaitsForActivation
  <2>2. Stage = "offered" /\ Stage' = "quiet"
    BY <1>4, <2>1 DEF Stage, slots
  <2> QED BY <1>2, <2>1, <2>2 DEF Slots!Withdraw, Slots!Next, slots
<1>5. CASE fsm # "Installed"
  <2>1. fsm' # "Installed" /\ UNCHANGED slots
    BY <1>5 DEF ReceiveActivate, ReceiveRollback, Accepting, Activatable, Dropped
  <2> QED BY <1>2, <1>5, <2>1, SlotsStutter
<1> QED BY <1>3, <1>4, <1>5

(* Everything else leaves the slots to themselves.                         *)
LEMMA OtherSlots ==
    ASSUME Orderly,
           \/ UNCHANGED vars
           \/ ConnectivityEstablished \/ ConnectivityLost \/ FinishDownload
           \/ \E v \in Versions : ReceiveDesiredState(v)
           \/ ReceiveStateRequest \/ ReceiveInvalidRequest \/ ReceiveDownload
           \/ ReceiveCleanup
    PROVE  UNCHANGED slots /\ (fsm = "Installed" <=> fsm' = "Installed")
           /\ (Unanswered <=> Unanswered')
<1> USE DEF Orderly, Consistent
<1>1. CASE UNCHANGED vars
  BY <1>1 DEF vars, slots, rauc, Unanswered
<1>2. CASE ConnectivityEstablished \/ ConnectivityLost
  BY <1>2
     DEF ConnectivityEstablished, ConnectivityLost, Accepting, Dropped, rauc,
         Unanswered
<1>3. CASE FinishDownload
  BY <1>3
     DEF FinishDownload, DownloadFails, OnlyDownloadModeInstalls, Unanswered
<1>4. ASSUME NEW v \in Versions, ReceiveDesiredState(v)
      PROVE  UNCHANGED slots /\ (fsm = "Installed" <=> fsm' = "Installed")
             /\ (Unanswered <=> Unanswered')
  BY <1>4
     DEF ReceiveDesiredState, Listening, Identify, EnterDownloading,
         OnlyDownloadModeInstalls, Accepting, Dropped, Unanswered
<1>5. CASE ReceiveDownload
  BY <1>5
     DEF ReceiveDownload, Listening, BeginDownload, DownloadFails, CheckStream,
         Accepting, Dropped, Unanswered
<1>6. CASE ReceiveStateRequest \/ ReceiveInvalidRequest \/ ReceiveCleanup
  BY <1>6
     DEF ReceiveStateRequest, ReceiveInvalidRequest, ReceiveCleanup, Listening,
         Accepting, Cleanable, Dropped, Unanswered
<1> QED BY <1>1, <1>2, <1>3, <1>4, <1>5, <1>6

(* UPDATE hands a bundle to RAUC or fails: the slots stay.                 *)
LEMMA UpdateSlots ==
    ASSUME Undisturbed, Orderly, ReceiveUpdate
    PROVE  UNCHANGED slots /\ (fsm = "Installed" <=> fsm' = "Installed")
           /\ (Unanswered <=> Unanswered')
<1> USE DEF Orderly, Consistent
<1>1. ~ Unanswered
  BY DEF ReceiveUpdate, Listening, Unanswered
<1>2. CASE Dropped("InstallStart")
  BY <1>1, <1>2 DEF Dropped, rauc, Unanswered
<1>3. CASE ~ Dropped("InstallStart")
  <2>1. fsm = "Installing" /\ busy = "none" /\ downloadMode
    BY <1>3
       DEF ReceiveUpdate, Listening, Accepting, OnlyDownloadModeInstalls
  <2>2. PICK b \in BundleVersions(tempFile) :
            BeginInstall(b, {"VersionChecking"}) \/ RejectBundle
    BY <1>3, <2>1 DEF ReceiveUpdate
  <2>3. /\ UNCHANGED slots /\ fsm' \in {"Installing", "Failed"}
        /\ busy' = "none" \/ raucResult' = "none"
    BY <2>1, <2>2
       DEF BeginInstall, RejectBundle, RaucTakes, InstallationFails,
           Undisturbed
  <2> QED BY <1>1, <2>1, <2>3 DEF Unanswered
<1> QED BY <1>2, <1>3

(* A step of the agent is a step of SlotUpdate, or is not seen there.      *)
LEMMA NextSlots ==
    ASSUME Undisturbed, Orderly, [Next]_vars
    PROVE  [Slots!Next]_(Slots!svars)
<1>1. CASE FinishInstall
  BY <1>1, FinishInstallSlots
<1>2. CASE RaucStartsWriting \/ RaucSucceeds \/ RaucFails
  BY <1>2, RaucSlots
<1>3. CASE Reboot
  BY <1>3, RebootSlots DEF Slots!Next
<1>4. CASE ReceiveActivate \/ ReceiveRollback
  BY <1>4, DecisionSlots
<1>5. CASE ReceiveUpdate
  BY <1>5, UpdateSlots, SlotsStutter
<1>6. CASE \/ UNCHANGED vars
           \/ ConnectivityEstablished \/ ConnectivityLost \/ FinishDownload
           \/ \E v \in Versions : ReceiveDesiredState(v)
           \/ ReceiveStateRequest \/ ReceiveInvalidRequest \/ ReceiveDownload
           \/ ReceiveCleanup
  BY <1>6, OtherSlots, SlotsStutter
<1>7. ~ Crash
  BY DEF Crash, Undisturbed
<1> QED
  BY <1>1, <1>2, <1>3, <1>4, <1>5, <1>6, <1>7 DEF Next, Request

(* Undisturbed, the agent implements SlotUpdate: every boot takes the      *)
(* running image unless ACTIVATE has armed an image offered before.        *)
THEOREM SlotProtocolHolds ==
    ASSUME Undisturbed
    PROVE  Spec => SlotProtocol
<1>1. Orderly /\ [Next]_vars => [Slots!Next]_(Slots!svars)
  BY NextSlots
<1>2. Spec => []Orderly
  BY AlwaysOrderly
<1> QED
  BY <1>1, <1>2, InitSlots, PTL DEF Spec, SlotProtocol, Slots!Spec

----------------------------------------------------------------------------
(* The slots are switched by ACTIVATE, or by RAUC during an UPDATE.        *)
LEMMA SwitchIsAsked ==
    ASSUME Undisturbed, Orderly, [Next]_vars, primary = "booted", primary' = "other"
    PROVE  (fsm = "Installed" /\ fsm' = "Activating") \/ busy = "install"
<1> USE DEF Orderly, Consistent
<1>1. CASE FinishInstall \/ RaucStartsWriting \/ RaucSucceeds \/ RaucFails
  BY <1>1
     DEF FinishInstall, EnterInstalled, RaucStartsWriting, RaucSucceeds, RaucFails,
         RaucWorksForAgent
<1>2. CASE ReceiveActivate
  BY <1>2 DEF ReceiveActivate, Accepting, Activatable, Dropped, slots
<1>3. CASE ReceiveRollback
  BY <1>3 DEF ReceiveRollback, Dropped, slots
<1>4. CASE ReceiveUpdate
  BY <1>4, UpdateSlots DEF slots
<1>5. CASE Crash \/ Reboot
  BY <1>5 DEF Crash, Reboot, slots
<1>6. CASE \/ UNCHANGED vars
           \/ ConnectivityEstablished \/ ConnectivityLost \/ FinishDownload
           \/ \E v \in Versions : ReceiveDesiredState(v)
           \/ ReceiveStateRequest \/ ReceiveInvalidRequest \/ ReceiveDownload
           \/ ReceiveCleanup
  BY <1>6, OtherSlots DEF slots
<1> QED
  BY <1>1, <1>2, <1>3, <1>4, <1>5, <1>6 DEF Next, Request

(* Undisturbed, no slot is made the next one behind the manager's back.    *)
THEOREM SwitchesAreAsked ==
    ASSUME Undisturbed
    PROVE  Spec => OnlyActivateSwitches
<1>1. Orderly /\ [Next]_vars
      => [primary = "booted" /\ primary' = "other" =>
             \/ fsm = "Installed" /\ fsm' = "Activating"
             \/ busy = "install"]_vars
  BY SwitchIsAsked
<1>2. Spec => []Orderly
  BY AlwaysOrderly
<1> QED BY <1>1, <1>2, PTL DEF Spec, OnlyActivateSwitches
=============================================================================
