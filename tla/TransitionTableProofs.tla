----------------------- MODULE TransitionTableProofs -----------------------
(***************************************************************************)
(* Proof that the handlers of SelfUpdateAgent lead where the table of      *)
(* SelfUpdateAgent::init says, and of what the table itself says.          *)
(***************************************************************************)
EXTENDS SelfUpdateAgentProofs

(* The table has 25 rows.                                                  *)
LEMMA TableRows == DOMAIN Table = 1 .. 25
BY DEF Table

(* Every row can be taken: its output is one of the body.                  *)
LEMMA OutputsComeFromBodies ==
    \A i \in 1 .. 25 : Table[i].output \in {NotUsed} \cup BodyOutputs(Table[i].from)
BY DEF Table, On, OnOutput, BodyOutputs, NotUsed

(* From a transient state Waiting leads on to Idle.                        *)
LEMMA WaitingLeadsOn ==
    \A s \in Transient : \E j \in 1 .. 25 : Row(j, "Waiting", s) /\ Table[j].to = "Idle"
<1>1. Row(20, "Waiting", "Cleaning") /\ Table[20].to = "Idle"
  BY DEF Table, On, Row
<1>2. Row(25, "Waiting", "SendCurrentState") /\ Table[25].to = "Idle"
  BY DEF Table, On, Row
<1> QED BY <1>1, <1>2 DEF Transient

(* What a row does for the state it is a row of.                           *)
LEMMA RowLeads ==
    ASSUME NEW i \in 1 .. 25
    PROVE  HandleEvent(Table[i].from, Table[i].when,
                       IF Table[i].to \in Transient THEN "Idle" ELSE Table[i].to)
<1>1. Takes(i, IF Table[i].to \in Transient THEN "Idle" ELSE Table[i].to)
  BY TableRows, WaitingLeadsOn DEF Takes
<1>2. Row(i, Table[i].when, Table[i].from)
  BY DEF Row
<1> QED BY <1>1, <1>2, TableRows, OutputsComeFromBodies DEF HandleEvent

(* The transitions that the handlers make, by the number of their row.     *)
LEMMA ConnectionRows ==
    /\ HandleEvent("Uninitialized", "ConnectivityEstablished", "Connected")
    /\ \A s \in {"Connected", "Idle"} : HandleEvent(s, "ConnectivityLost", "Uninitialized")
<1> USE DEF Table, On, OnOutput, Transient
<1>1. HandleEvent("Uninitialized", "ConnectivityEstablished", "Connected")
  BY RowLeads, 1 \in 1 .. 25
<1>2. HandleEvent("Connected", "ConnectivityLost", "Uninitialized")
  BY RowLeads, 2 \in 1 .. 25
<1>3. HandleEvent("Idle", "ConnectivityLost", "Uninitialized")
  BY RowLeads, 21 \in 1 .. 25
<1> QED BY <1>1, <1>2, <1>3

LEMMA RequestRows ==
    /\ \A s \in {"Connected", "Idle"} :
          HandleEvent(s, "Identify", "Downloading") /\ HandleEvent(s, "GetCurrentState", "Idle")
    /\ HandleEvent("Connected", "Identify", "Connected")
    /\ HandleEvent("Idle", "Identify", "Failed")
<1> USE DEF Table, On, OnOutput, Transient
<1>1. HandleEvent("Connected", "Identify", "Downloading")
  BY RowLeads, 3 \in 1 .. 25
<1>2. HandleEvent("Connected", "Identify", "Connected")
  BY RowLeads, 4 \in 1 .. 25
<1>3. HandleEvent("Connected", "GetCurrentState", "Idle")
  BY RowLeads, 5 \in 1 .. 25
<1>4. HandleEvent("Idle", "Identify", "Downloading")
  BY RowLeads, 22 \in 1 .. 25
<1>5. HandleEvent("Idle", "Identify", "Failed")
  BY RowLeads, 23 \in 1 .. 25
<1>6. HandleEvent("Idle", "GetCurrentState", "Idle")
  BY RowLeads, 24 \in 1 .. 25
<1> QED BY <1>1, <1>2, <1>3, <1>4, <1>5, <1>6

LEMMA BodyRows ==
    /\ \A t \in {"Installing", "Failed"} : HandleEvent("Downloading", "DownloadStart", t)
    /\ \A t \in {"Installed", "Failed"} : HandleEvent("Installing", "InstallStart", t)
<1> USE DEF Table, On, OnOutput, Transient
<1>1. HandleEvent("Downloading", "DownloadStart", "Installing")
  BY RowLeads, 6 \in 1 .. 25
<1>2. HandleEvent("Downloading", "DownloadStart", "Failed")
  BY RowLeads, 7 \in 1 .. 25
<1>3. HandleEvent("Installing", "InstallStart", "Installed")
  BY RowLeads, 9 \in 1 .. 25
<1>4. HandleEvent("Installing", "InstallStart", "Failed")
  BY RowLeads, 11 \in 1 .. 25
<1> QED BY <1>1, <1>2, <1>3, <1>4

LEMMA CommandRows ==
    /\ HandleEvent("Installed", "Activate", "Activating")
    /\ \A s \in {"Activating", "Failed"} : HandleEvent(s, "Cleanup", "Idle")
    /\ \A s \in Accepting.Rollback : HandleEvent(s, "Rollback", "Idle")
<1> USE DEF Table, On, OnOutput, Transient
<1>1. HandleEvent("Installed", "Activate", "Activating")
  BY RowLeads, 14 \in 1 .. 25
<1>2. HandleEvent("Activating", "Cleanup", "Idle") /\ HandleEvent("Failed", "Cleanup", "Idle")
  BY RowLeads, 16 \in 1 .. 25, 18 \in 1 .. 25
<1>3. HandleEvent("Downloading", "Rollback", "Idle") /\ HandleEvent("Installing", "Rollback", "Idle")
  BY RowLeads, 8 \in 1 .. 25, 13 \in 1 .. 25
<1>4. HandleEvent("Installed", "Rollback", "Idle")
  BY RowLeads, 15 \in 1 .. 25
<1>5. HandleEvent("Activating", "Rollback", "Idle") /\ HandleEvent("Failed", "Rollback", "Idle")
  BY RowLeads, 17 \in 1 .. 25, 19 \in 1 .. 25
<1> QED BY <1>1, <1>2, <1>3, <1>4, <1>5 DEF Accepting

(* In stream mode the body's output has no row: the state stays.           *)
LEMMA StreamStays == HandleEvent("Downloading", "DownloadStart", "Downloading")
<1>1. ~Drops("Downloading", "DownloadStart")
  <2>1. Row(6, "DownloadStart", "Downloading")
    BY DEF Table, OnOutput, Row
  <2> QED BY <2>1, TableRows, 6 \in 1 .. 25 DEF Drops
<1>2. \A i \in 1 .. 25 : Row(i, "DownloadStart", "Downloading") =>
          Table[i].output \notin {NotUsed, "BundleVersionOK"}
  BY DEF Table, On, OnOutput, Row, NotUsed
<1>3. "BundleVersionOK" \in BodyOutputs("Downloading")
  BY DEF BodyOutputs
<1> QED BY <1>1, <1>2, <1>3, TableRows DEF HandleEvent, Loses

(* The rows of an event begin in the states from which it is accepted.     *)
LEMMA RowsAreAccepted ==
    ASSUME NEW i \in 1 .. 25, Table[i].when # "Waiting"
    PROVE  Table[i].from \in Accepting[Table[i].when]
BY DEF Table, On, OnOutput, Accepting, Activatable, Cleanable

(* Each event has a row from every state in which it is accepted.          *)
LEMMA AcceptedHaveRows ==
    ASSUME NEW event \in DOMAIN Accepting, NEW s \in Accepting[event]
    PROVE  \E i \in 1 .. 25 : Row(i, event, s)
<1> DEFINE Has(e, from) == \E i \in 1 .. 25 : Row(i, e, from)
<1>1. /\ Has("ConnectivityEstablished", "Uninitialized")
      /\ Has("ConnectivityLost", "Connected") /\ Has("ConnectivityLost", "Idle")
  <2> USE DEF Table, On, OnOutput, Row
  <2>1. Row(1, "ConnectivityEstablished", "Uninitialized")
    OBVIOUS
  <2>2. Row(2, "ConnectivityLost", "Connected") /\ Row(21, "ConnectivityLost", "Idle")
    OBVIOUS
  <2> HIDE DEF Table, Row
  <2> QED BY <2>1, <2>2
<1>2. \A from \in {"Connected", "Idle"} : Has("Identify", from) /\ Has("GetCurrentState", from)
  <2> USE DEF Table, On, OnOutput, Row
  <2>1. Row(3, "Identify", "Connected") /\ Row(22, "Identify", "Idle")
    OBVIOUS
  <2>2. Row(5, "GetCurrentState", "Connected") /\ Row(24, "GetCurrentState", "Idle")
    OBVIOUS
  <2> HIDE DEF Table, Row
  <2> QED BY <2>1, <2>2
<1>3. /\ Has("DownloadStart", "Downloading") /\ Has("InstallStart", "Installing")
      /\ Has("Activate", "Installed")
      /\ Has("Cleanup", "Activating") /\ Has("Cleanup", "Failed")
  <2> USE DEF Table, On, OnOutput, Row
  <2>1. Row(6, "DownloadStart", "Downloading") /\ Row(9, "InstallStart", "Installing")
    OBVIOUS
  <2>2. Row(14, "Activate", "Installed")
    OBVIOUS
  <2>3. Row(16, "Cleanup", "Activating") /\ Row(18, "Cleanup", "Failed")
    OBVIOUS
  <2> HIDE DEF Table, Row
  <2> QED BY <2>1, <2>2, <2>3
<1>4. \A from \in Accepting.Rollback : Has("Rollback", from)
  <2> USE DEF Table, On, OnOutput, Row
  <2>1. Row(8, "Rollback", "Downloading") /\ Row(13, "Rollback", "Installing")
    OBVIOUS
  <2>2. Row(15, "Rollback", "Installed")
    OBVIOUS
  <2>3. Row(17, "Rollback", "Activating") /\ Row(19, "Rollback", "Failed")
    OBVIOUS
  <2> HIDE DEF Table, Row
  <2> QED BY <2>1, <2>2, <2>3 DEF Accepting
<1> HIDE DEF Has
<1>5. Has(event, s)
  BY <1>1, <1>2, <1>3, <1>4 DEF Accepting, Activatable, Cleanable
<1> QED BY <1>5 DEF Has

(* The handlers of SelfUpdateAgent drop an event exactly in the states     *)
(* from which the table has no row for it.                                 *)
THEOREM DroppedHaveNoRow ==
    \A event \in DOMAIN Accepting, s \in StateNames : s \notin Accepting[event] <=> Drops(s, event)
<1> SUFFICES ASSUME NEW event \in DOMAIN Accepting, NEW s \in StateNames
             PROVE  s \notin Accepting[event] <=> Drops(s, event)
  OBVIOUS
<1>1. event # "Waiting"
  BY DEF Accepting
<1>2. ASSUME s \notin Accepting[event] PROVE Drops(s, event)
  BY <1>1, <1>2, RowsAreAccepted, TableRows DEF Drops, Row
<1>3. ASSUME s \in Accepting[event] PROVE ~Drops(s, event)
  BY <1>3, AcceptedHaveRows, TableRows DEF Drops
<1> QED BY <1>2, <1>3

(* Whatever a body returns has a row for the event it was run for, with    *)
(* one exception: the checks of stream mode in Downloading.                *)
THEOREM OnlyStreamOutputsAreLost ==
    \A s \in StateNames : \A event :
        Loses(s, event) => s = "Downloading" /\ event = "DownloadStart"
<1> SUFFICES ASSUME NEW s \in StateNames, NEW event, Loses(s, event)
             PROVE  s = "Downloading" /\ event = "DownloadStart"
  OBVIOUS
<1>1. PICK output \in BodyOutputs(s) : \A i \in 1 .. 25 :
          Row(i, event, s) => Table[i].output \notin {NotUsed, output}
  BY TableRows DEF Loses
<1>2. PICK i \in 1 .. 25 : Row(i, event, s)
  BY TableRows DEF Loses, Drops
<1>3. Table[i].output # NotUsed /\ Table[i].output # output
  BY <1>1, <1>2
<1>4. CASE s \in {"Connected", "Idle"}
  <2>1. event = "Identify"
    BY <1>2, <1>3, <1>4 DEF Row, Table, On, OnOutput
  <2>2. /\ Row(3, "Identify", "Connected") /\ Row(4, "Identify", "Connected")
        /\ Row(22, "Identify", "Idle") /\ Row(23, "Identify", "Idle")
    BY DEF Row, Table, OnOutput
  <2>3. /\ Table[3].output = "BundleVersionOK" /\ Table[4].output = "BundleVersionUnchanged"
        /\ Table[22].output = "BundleVersionOK" /\ Table[23].output = "BundleVersionUnchanged"
    BY DEF Table, OnOutput
  <2> QED BY <1>1, <1>4, <2>1, <2>2, <2>3 DEF BodyOutputs
<1>5. CASE s = "Installing"
  <2>1. event = "InstallStart"
    BY <1>2, <1>3, <1>5 DEF Row, Table, On, OnOutput
  <2>2. \A j \in 9 .. 12 : Row(j, "InstallStart", "Installing")
    BY DEF Row, Table, OnOutput
  <2>3. /\ Table[9].output = "InstallCompleted"
        /\ Table[10].output = "BundleVersionInconsistent"
        /\ Table[11].output = "InstallFailed" /\ Table[12].output = "InstallFailedFallback"
    BY DEF Table, OnOutput
  <2> QED BY <1>1, <1>5, <2>1, <2>2, <2>3 DEF BodyOutputs
<1>6. CASE s = "Downloading"
  BY <1>2, <1>3, <1>6 DEF Row, Table, On, OnOutput
<1>7. CASE s \notin {"Connected", "Idle", "Installing", "Downloading"}
  BY <1>2, <1>3, <1>7, OutputsComeFromBodies DEF Row, BodyOutputs
<1> QED BY <1>4, <1>5, <1>6, <1>7

----------------------------------------------------------------------------
(* The handlers.  A dropped event leads nowhere.                           *)
LEMMA DroppedLeads ==
    ASSUME TypeOK, NEW event \in DOMAIN Accepting, Dropped(event)
    PROVE  Leads(event)
<1>1. fsm \notin Accepting[event] /\ fsm' = fsm /\ fsm \in StateNames
  BY DEF Dropped, TypeOK, States, StateNames
<1> QED BY <1>1, DroppedHaveNoRow DEF Leads, HandleEvent

(* Connection callbacks.                                                   *)
LEMMA ConnectionsFollow ==
    ASSUME TypeOK
    PROVE  /\ ConnectivityEstablished => Leads("ConnectivityEstablished")
           /\ ConnectivityLost => Leads("ConnectivityLost")
<1>1. {"ConnectivityEstablished", "ConnectivityLost"} \subseteq DOMAIN Accepting
  BY DEF Accepting
<1>2. ASSUME ConnectivityEstablished PROVE Leads("ConnectivityEstablished")
  BY <1>1, <1>2, DroppedLeads, ConnectionRows DEF ConnectivityEstablished, Leads, Accepting
<1>3. ASSUME ConnectivityLost PROVE Leads("ConnectivityLost")
  BY <1>1, <1>3, DroppedLeads, ConnectionRows DEF ConnectivityLost, Leads, Accepting
<1> QED BY <1>2, <1>3

(* Requests about states and versions.                                     *)
LEMMA InquiriesFollow ==
    ASSUME Consistent
    PROVE  /\ \A v \in Versions : ReceiveDesiredState(v) => Leads("Identify")
           /\ ReceiveStateRequest => Leads("GetCurrentState")
<1> USE DEF Consistent
<1>1. {"Identify", "GetCurrentState"} \subseteq DOMAIN Accepting
  BY DEF Accepting
<1>2. ASSUME NEW v \in Versions, ReceiveDesiredState(v) PROVE Leads("Identify")
  <2>1. CASE Dropped("Identify")
    BY <1>1, <2>1, DroppedLeads
  <2>2. CASE ~Dropped("Identify")
    <3>1. fsm \in {"Connected", "Idle"} /\ \E b \in BootedVersions(booted) : Identify(v, b)
      BY <1>2, <2>2 DEF ReceiveDesiredState, Accepting
    <3>2. \/ fsm' = "Downloading"
          \/ fsm' = IF fsm = "Idle" THEN "Failed" ELSE "Connected"
      BY <3>1 DEF Identify, EnterDownloading, OnlyDownloadModeInstalls
    <3> QED BY <3>1, <3>2, RequestRows DEF Leads
  <2> QED BY <2>1, <2>2
<1>3. ASSUME ReceiveStateRequest PROVE Leads("GetCurrentState")
  BY <1>1, <1>3, DroppedLeads, RequestRows DEF ReceiveStateRequest, Leads, Accepting
<1> QED BY <1>2, <1>3

(* The command DOWNLOAD and the end of a download.                         *)
LEMMA DownloadsFollow ==
    ASSUME Consistent
    PROVE  /\ ReceiveDownload =>
                 IF busy' = "none" THEN Leads("DownloadStart") ELSE UNCHANGED fsm
           /\ FinishDownload => Leads("DownloadStart")
<1> USE DEF Consistent
<1>1. "DownloadStart" \in DOMAIN Accepting
  BY DEF Accepting
<1>2. ASSUME ReceiveDownload
      PROVE  IF busy' = "none" THEN Leads("DownloadStart") ELSE UNCHANGED fsm
  <2>1. CASE Dropped("DownloadStart")
    BY <1>1, <2>1, DroppedLeads DEF Dropped
  <2>2. CASE ~Dropped("DownloadStart")
    <3>1. fsm = "Downloading" /\ (BeginDownload(desired, {}) \/ CheckStream)
      BY <1>2, <2>2 DEF ReceiveDownload, Accepting
    <3>2. CASE CheckStream
      BY <3>1, <3>2, StreamStays DEF CheckStream, Leads
    <3>3. CASE BeginDownload(desired, {})
      BY <3>1, <3>3, BodyRows DEF BeginDownload, DownloadFails, Leads
    <3> QED BY <3>1, <3>2, <3>3
  <2> QED BY <2>1, <2>2
<1>3. ASSUME FinishDownload PROVE Leads("DownloadStart")
  <2>1. fsm = "Downloading"
    BY <1>3 DEF FinishDownload, OnlyDownloadModeInstalls
  <2>2. fsm' \in {"Installing", "Failed"}
    BY <1>3 DEF FinishDownload, DownloadFails
  <2> QED BY <2>1, <2>2, BodyRows DEF Leads
<1> QED BY <1>2, <1>3

(* The command UPDATE and the end of an installation.                      *)
LEMMA InstallationsFollow ==
    ASSUME Consistent
    PROVE  /\ ReceiveUpdate =>
                 IF busy' = "none" THEN Leads("InstallStart") ELSE UNCHANGED fsm
           /\ FinishInstall => Leads("InstallStart")
<1> USE DEF Consistent
<1>1. "InstallStart" \in DOMAIN Accepting
  BY DEF Accepting
<1>2. ASSUME ReceiveUpdate
      PROVE  IF busy' = "none" THEN Leads("InstallStart") ELSE UNCHANGED fsm
  <2>1. CASE Dropped("InstallStart")
    BY <1>1, <2>1, DroppedLeads DEF Dropped
  <2>2. CASE ~Dropped("InstallStart")
    <3>1. /\ fsm = "Installing" /\ downloadMode
          /\ RejectBundle \/ \E b \in BundleVersions(tempFile) : BeginInstall(b, {"VersionChecking"})
      BY <1>2, <2>2 DEF ReceiveUpdate, Accepting, OnlyDownloadModeInstalls
    <3>2. CASE RejectBundle
      <4>1. fsm = "Installing" /\ fsm' = "Failed"
        BY <3>1, <3>2 DEF RejectBundle
      <4>2. busy' = "none"
        BY <1>2, <3>2 DEF RejectBundle, ReceiveUpdate, Listening
      <4>3. Leads("InstallStart")
        BY <4>1, BodyRows DEF Leads
      <4> QED BY <4>2, <4>3
    <3>3. ASSUME NEW b \in BundleVersions(tempFile), BeginInstall(b, {"VersionChecking"})
          PROVE  IF busy' = "none" THEN Leads("InstallStart") ELSE UNCHANGED fsm
      BY <3>1, <3>3, BodyRows DEF BeginInstall, InstallationFails, Leads
    <3> QED BY <3>1, <3>2, <3>3
  <2> QED BY <2>1, <2>2
<1>3. ASSUME FinishInstall PROVE Leads("InstallStart")
  <2>1. fsm = "Installing" /\ downloadMode
    BY <1>3 DEF FinishInstall, PollingMatchesRauc, OnlyDownloadModeInstalls
  <2>2. fsm' \in {"Installed", "Failed"}
    BY <1>3, <2>1 DEF FinishInstall, EnterInstalled, InstallationFails
  <2> QED BY <2>1, <2>2, BodyRows DEF Leads
<1> QED BY <1>2, <1>3

(* The other commands.                                                     *)
LEMMA CommandsFollow ==
    ASSUME TypeOK
    PROVE  /\ ReceiveActivate => Leads("Activate")
           /\ ReceiveCleanup => Leads("Cleanup")
           /\ ReceiveRollback => Leads("Rollback")
<1>1. {"Activate", "Cleanup", "Rollback"} \subseteq DOMAIN Accepting
  BY DEF Accepting
<1>2. ASSUME ReceiveActivate PROVE Leads("Activate")
  BY <1>1, <1>2, DroppedLeads, CommandRows
     DEF ReceiveActivate, Leads, Accepting, Activatable
<1>3. ASSUME ReceiveCleanup PROVE Leads("Cleanup")
  BY <1>1, <1>3, DroppedLeads, CommandRows DEF ReceiveCleanup, Leads, Accepting, Cleanable
<1>4. ASSUME ReceiveRollback PROVE Leads("Rollback")
  BY <1>1, <1>4, DroppedLeads, CommandRows DEF ReceiveRollback, Leads
<1> QED BY <1>2, <1>3, <1>4

(* Every callback ends in the state that the table gives for its event,    *)
(* whatever goes wrong around the agent.                                   *)
THEOREM HandlersFollowTable == Spec => EventsFollowTable
<1> DEFINE Follows ==
      /\ ConnectivityEstablished => Leads("ConnectivityEstablished")
      /\ ConnectivityLost => Leads("ConnectivityLost")
      /\ \A v \in Versions : ReceiveDesiredState(v) => Leads("Identify")
      /\ ReceiveStateRequest => Leads("GetCurrentState")
      /\ ReceiveDownload => IF busy' = "none" THEN Leads("DownloadStart") ELSE UNCHANGED fsm
      /\ FinishDownload => Leads("DownloadStart")
      /\ ReceiveUpdate => IF busy' = "none" THEN Leads("InstallStart") ELSE UNCHANGED fsm
      /\ FinishInstall => Leads("InstallStart")
      /\ ReceiveActivate => Leads("Activate")
      /\ ReceiveCleanup => Leads("Cleanup")
      /\ ReceiveRollback => Leads("Rollback")
<1>1. ASSUME Consistent PROVE Follows
  <2>1. TypeOK
    BY <1>1 DEF Consistent
  <2> QED
    BY <1>1, <2>1, ConnectionsFollow, InquiriesFollow, DownloadsFollow,
       InstallationsFollow, CommandsFollow
<1> HIDE DEF Follows
<1>2. Consistent /\ [Next]_vars => [Follows]_vars
  BY <1>1
<1>3. [][Follows]_vars => EventsFollowTable
  BY DEF Follows, EventsFollowTable
<1> QED BY <1>2, <1>3, AlwaysConsistent, PTL DEF Spec
=============================================================================
