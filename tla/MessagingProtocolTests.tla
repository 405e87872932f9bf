----------------------- MODULE MessagingProtocolTests -----------------------
(***************************************************************************)
(* What the unit tests of the messaging protocol give it, and what they    *)
(* expect from it.                                                         *)
(***************************************************************************)
EXTENDS MessagingProtocol

Id == "random-uuid-as-string"
One == <<"wanted">>

CompleteRequest ==
    [json |-> TRUE, activityId |-> Id, domains |-> One, components |-> One,
     config |-> One, version |-> "1.1", url |-> "http"]

Expect(request, verdict) == [request |-> request, verdict |-> verdict]

TestedLists == {
    Expect(CompleteRequest, "ok"),
    Expect([CompleteRequest EXCEPT !.activityId = "empty"], "logic error"),
    Expect([CompleteRequest EXCEPT !.domains = <<>>], "runtime error"),
    Expect([CompleteRequest EXCEPT !.components = <<>>], "runtime error"),
    Expect([CompleteRequest EXCEPT !.config = <<>>], "runtime error") }

TestedTexts == {
    Expect([CompleteRequest EXCEPT !.version = "empty"], "runtime error"),
    Expect([CompleteRequest EXCEPT !.url = "empty"], "runtime error") }

StateRequest(id) == [json |-> TRUE, activityId |-> id]

TestedStateRequests == {
    Expect(StateRequest(Id), "ok"),
    Expect(StateRequest("missing"), "logic error"),
    Expect(StateRequest("empty"), "logic error") }

CommandRequest(command) == [json |-> TRUE, activityId |-> Id, command |-> command]

TestedCommands ==
    [DOWNLOAD |-> "DownloadStart", UPDATE |-> "InstallStart", CLEANUP |-> "Cleanup",
     ACTIVATE |-> "Activate", ROLLBACK |-> "Rollback"]

(* The readers return or throw what the tests expect.                      *)
ReadersPassTheirTests ==
    /\ \A t \in TestedLists \cup TestedTexts : ReadDesiredState(t.request) = t.verdict
    /\ \A t \in TestedStateRequests : ReadCurrentStateRequest(t.request) = t.verdict
    /\ \A c \in DOMAIN TestedCommands :
          /\ ReadCommand(CommandRequest(c)) = "ok"
          /\ CommandEvents[c] = TestedCommands[c]
    /\ ReadCommand(CommandRequest("UNKNOWN")) = "runtime error"

----------------------------------------------------------------------------
(* SetUp.                                                                  *)
TestContext ==
    [activityId |-> "id", bundleVersion |-> "1.0", currentVersion |-> "1.0",
     actionStatus |-> "", downloaded |-> 0, installed |-> 0]

Case(type, context, expected) == [type |-> type, context |-> context, expected |-> expected]
Bare(status) == [activityId |-> "id", status |-> status, actions |-> <<>>]
Acting(status, action, progress) ==
    [activityId |-> "id", status |-> status,
     actions |-> <<[version |-> "1.0", status |-> action, progress |-> progress]>>]

TestedVersions == {
    Case("SystemVersion", [TestContext EXCEPT !.activityId = ""],
         [activityId |-> "", softwareVersion |-> "1.0"]),
    Case("SystemVersion", TestContext,
         [activityId |-> "id", softwareVersion |-> "1.0"]) }

TestedIdentification == {
    Case("Identifying", TestContext, Bare("IDENTIFYING")),
    Case("Identified", TestContext, Acting("IDENTIFIED", "IDENTIFIED", 0)),
    Case("IdentificationFailed", TestContext, Bare("IDENTIFICATION_FAILED")),
    Case("Skipped", TestContext, Bare("COMPLETED")),
    Case("Rejected", TestContext, Acting("UPDATE_FAILURE", "UPDATE_FAILURE", 0)) }

TestedDownload == {
    Case("Downloading", [TestContext EXCEPT !.downloaded = 10],
         Acting("DOWNLOADING", "DOWNLOADING", 10)),
    Case("Downloaded", [TestContext EXCEPT !.downloaded = 10],
         Acting("DOWNLOAD_SUCCESS", "DOWNLOAD_SUCCESS", 100)),
    Case("DownloadFailed",
         [TestContext EXCEPT !.downloaded = 66, !.actionStatus = "DOWNLOAD_FAILURE"],
         Acting("DOWNLOAD_FAILURE", "DOWNLOAD_FAILURE", 66)) }

TestedInstallation == {
    Case("VersionChecking", TestContext, Acting("UPDATING", "UPDATING", 0)),
    Case("Installing", [TestContext EXCEPT !.installed = 42],
         Acting("UPDATING", "UPDATING", 42)),
    Case("Installed", [TestContext EXCEPT !.installed = 100],
         Acting("UPDATE_SUCCESS", "UPDATING", 100)),
    Case("InstallFailed", [TestContext EXCEPT !.installed = 66],
         Acting("UPDATE_FAILURE", "UPDATE_FAILURE", 66)) }

TestedFallback == {
    Case("InstallFailedFallback", TestContext, Acting("RUNNING", "UPDATING", 0)),
    Case("CurrentState", TestContext, Nothing) }

TestedActivation == {
    Case("Cleaned", [TestContext EXCEPT !.actionStatus = "STATUS"],
         Acting("CLEANUP_SUCCESS", "STATUS", 0)),
    Case("Activating", TestContext, Acting("ACTIVATING", "UPDATING", 0)),
    Case("Activated", TestContext, Acting("ACTIVATION_SUCCESS", "UPDATED", 0)),
    Case("ActivationFailed", TestContext,
         Acting("ACTIVATION_FAILURE", "UPDATE_FAILURE", 0)) }

TestedMessages == TestedVersions \cup TestedIdentification \cup TestedDownload
                  \cup TestedInstallation \cup TestedFallback \cup TestedActivation

(* The messages are what the tests expect.                                 *)
WriterPassesItsTests ==
    \A t \in TestedMessages : CreateMessage(t.type, t.context) = t.expected
=============================================================================
