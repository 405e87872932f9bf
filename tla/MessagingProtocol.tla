-------------------------- MODULE MessagingProtocol --------------------------
(***************************************************************************)
(* What MqttMessagingProtocolJSON reads from requests and writes into      *)
(* messages.  A request is a record of the places that are looked at: a    *)
(* text, or why there is none; of a list the items up to the first that    *)
(* decides.  Wording, time and the escapes of the templates are left out.  *)
(***************************************************************************)
EXTENDS SequencesExt

NoText == {"missing", "mistyped", "empty"}
Items == {"wanted", "other", "keyless"}
MissingList == <<"missing">>        \* stands for a place without a list

(* A request that is no JSON has none of the places.                       *)
NoJson == [json |-> FALSE]

(* The first check that fails decides what is thrown.                      *)
Verdict(checks) ==
    LET first == SelectInSeq(checks, LAMBDA c : c # "ok") IN
    IF first = 0 THEN "ok" ELSE checks[first]

(* Faulty: whatever is there is taken for a text.                          *)
TextOfAnyType(place) == IF place = "missing" THEN "json exception" ELSE "ok"
(* json.at(...) assigned to a string.                                      *)
Text(place) == IF place \in {"missing", "mistyped"} THEN "json exception" ELSE "ok"
Filled(place, error) == IF place = "empty" THEN error ELSE "ok"

(* find_by_key_value: the search ends at the item with the wanted value,   *)
(* or at one without the key, which throws.                                *)
EndOfSearch(list) == SelectInSeq(list, LAMBDA item : item # "other")

(* Faulty: an item without the key throws std::out_of_range, a logic error. *)
FoundInMaps(list) ==
    IF list = MissingList THEN "json exception"
    ELSE IF EndOfSearch(list) = 0 THEN "runtime error"
    ELSE IF list[EndOfSearch(list)] = "keyless" THEN "logic error" ELSE "ok"
Found(list) ==
    IF list = MissingList \/ (EndOfSearch(list) # 0 /\ list[EndOfSearch(list)] = "keyless")
    THEN "json exception"
    ELSE IF EndOfSearch(list) = 0 THEN "runtime error" ELSE "ok"

(* The checks that every reader begins with.                               *)
Named(request) ==
    <<Text(request.activityId), Filled(request.activityId, "logic error")>>

Placed(request) ==
    <<Found(request.domains), Found(request.components), Found(request.config),
      Text(request.version), Text(request.url),
      Filled(request.version, "runtime error"), Filled(request.url, "runtime error")>>

ReadDesiredState(request) ==
    IF ~request.json THEN "parse error" ELSE Verdict(Named(request) \o Placed(request))

ReadCurrentStateRequest(request) ==
    IF ~request.json THEN "parse error"
    ELSE IF request.activityId = "missing" THEN "logic error"
    ELSE Verdict(Named(request))

CommandEvents ==
    [DOWNLOAD |-> "DownloadStart", UPDATE |-> "InstallStart", ACTIVATE |-> "Activate",
     CLEANUP |-> "Cleanup", ROLLBACK |-> "Rollback"]

(* An unknown command throws, whatever it is.                              *)
Known(request) ==
    <<IF request.command = "missing" THEN "json exception" ELSE "ok",
      IF request.command \in DOMAIN CommandEvents THEN "ok" ELSE "runtime error">>

ReadCommand(request) ==
    IF ~request.json THEN "parse error" ELSE Verdict(Named(request) \o Known(request))

----------------------------------------------------------------------------
(* createMessage.  c is what it reads of the context.                      *)

Nothing == [text |-> ""]

SystemVersion(c) == [activityId |-> c.activityId, softwareVersion |-> c.currentVersion]

Feedback(c, status) ==
    [activityId |-> c.activityId, status |-> status, actions |-> <<>>]

FeedbackOn(c, status, action, progress) ==
    [activityId |-> c.activityId, status |-> status,
     actions |-> <<[version |-> c.bundleVersion, status |-> action, progress |-> progress]>>]

LastAction(c) == c.actionStatus

CreateMessage(type, c) ==
    CASE type = "SystemVersion"  -> SystemVersion(c)
      [] type = "Identifying"    -> Feedback(c, "IDENTIFYING")
      [] type = "Identified"     -> FeedbackOn(c, "IDENTIFIED", "IDENTIFIED", 0)
      [] type = "IdentificationFailed" -> Feedback(c, "IDENTIFICATION_FAILED")
      [] type = "Skipped"        -> Feedback(c, "COMPLETED")
      [] type = "Rejected"       -> FeedbackOn(c, "UPDATE_FAILURE", "UPDATE_FAILURE", 0)
      [] type = "Downloading"    -> FeedbackOn(c, "DOWNLOADING", "DOWNLOADING", c.downloaded)
      [] type = "Downloaded"     -> FeedbackOn(c, "DOWNLOAD_SUCCESS", "DOWNLOAD_SUCCESS", 100)
      [] type = "DownloadFailed" -> FeedbackOn(c, "DOWNLOAD_FAILURE", LastAction(c), c.downloaded)
      [] type = "VersionChecking" -> FeedbackOn(c, "UPDATING", "UPDATING", 0)
      [] type = "Installing"     -> FeedbackOn(c, "UPDATING", "UPDATING", c.installed)
      [] type = "Installed"      -> FeedbackOn(c, "UPDATE_SUCCESS", "UPDATING", 100)
      [] type = "InstallFailed"  -> FeedbackOn(c, "UPDATE_FAILURE", "UPDATE_FAILURE", c.installed)
      [] type = "InstallFailedFallback" -> FeedbackOn(c, "RUNNING", "UPDATING", 0)
      [] type = "CurrentState"   -> Nothing
      [] type = "Cleaned"        -> FeedbackOn(c, "CLEANUP_SUCCESS", LastAction(c), 0)
      [] type = "Activating"     -> FeedbackOn(c, "ACTIVATING", "UPDATING", 0)
      [] type = "Activated"      -> FeedbackOn(c, "ACTIVATION_SUCCESS", "UPDATED", 0)
      [] type = "ActivationFailed" -> FeedbackOn(c, "ACTIVATION_FAILURE", "UPDATE_FAILURE", 0)
      [] type = "Complete"       -> FeedbackOn(c, "COMPLETE", LastAction(c), 0)
      [] type = "Incomplete"     -> FeedbackOn(c, "INCOMPLETE", LastAction(c), 0)
=============================================================================
