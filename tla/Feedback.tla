------------------------------ MODULE Feedback ------------------------------
(***************************************************************************)
(* The agent together with its messaging protocol: requests as they come   *)
(* from MQTT, read or refused by message_arrived, and messages with the    *)
(* activity and the version that they name.  Every step is one of          *)
(* SelfUpdateAgent; this module adds the activityId of the context.        *)
(*                                                                         *)
(* A message is created when it is sent.  No handler changes what it names *)
(* after its first message, so Published may read it from the state that   *)
(* the handler leaves.                                                     *)
(***************************************************************************)
EXTENDS SelfUpdateAgent, MessagingProtocolTests

CONSTANT Activities     \* activityIds that managers use

ASSUME ActivitiesAssumption == "" \notin Activities /\ Activities \cap NoText = {}

VARIABLES
    activity,       \* Context::desiredState.activityId
    startedBy,      \* history: the activity of the request whose body waits
    failure         \* history: the failure that was reported last since the
                    \* desired state was last replaced

feedbackVars == <<vars, activity, startedBy, failure>>

FeedbackTypeOK ==
    /\ activity \in Activities \cup {""}
    /\ startedBy \in Activities \cup {""}
    /\ failure \in {"", "DOWNLOAD_FAILURE", "UPDATE_FAILURE"}

FeedbackInit == Init /\ activity = "" /\ startedBy = "" /\ failure = ""

----------------------------------------------------------------------------
(* Requests: complete ones, and those with one place that is not.          *)

Lists == {MissingList, <<>>, <<"other">>, <<"keyless", "wanted">>,
          <<"other", "wanted">>, <<"wanted", "keyless">>}

CompleteRequests ==
    [json : {TRUE}, activityId : Activities, domains : {One}, components : {One},
     config : {One}, version : Versions, url : {"http"}]

Untold ==
    UNION {{[r EXCEPT !.activityId = text], [r EXCEPT !.version = text],
            [r EXCEPT !.url = text]} : r \in CompleteRequests, text \in NoText}
Unlisted ==
    UNION {{[r EXCEPT !.domains = list], [r EXCEPT !.components = list],
            [r EXCEPT !.config = list]} : r \in CompleteRequests, list \in Lists}

DesiredStates == CompleteRequests \cup {NoJson} \cup Untold \cup Unlisted

StateRequests == {NoJson} \cup [json : {TRUE}, activityId : Activities \cup NoText]

Commands ==
    {NoJson} \cup
    [json : {TRUE}, activityId : Activities \cup NoText,
     command : DOMAIN CommandEvents \cup {"missing", "UNKNOWN"}]

----------------------------------------------------------------------------
(* What the published messages name.  The percentages are those of         *)
(* Downloader and Installer.                                               *)

Published(message) ==
    CreateMessage(message,
        [activityId |-> activity, bundleVersion |-> desired.version,
         currentVersion |-> version, actionStatus |-> desired.status,
         downloaded |-> "transferred", installed |-> "written"])

(* The histories that go with a step.                                      *)
Failing(messages, before) ==
    IF "DownloadFailed" \in messages THEN "DOWNLOAD_FAILURE"
    ELSE IF messages \cap {"Rejected", "InstallFailed", "ActivationFailed"} # {}
         THEN "UPDATE_FAILURE"
         ELSE IF "Activated" \in messages THEN "" ELSE before

Remember(id, before) ==
    /\ activity' = id
    /\ startedBy' = IF busy' = "none" THEN "" ELSE IF busy = "none" THEN id ELSE startedBy
    /\ failure' = Failing(sent', before)

----------------------------------------------------------------------------
(* What the readers return of these requests, and what is left of one that *)
(* they refuse.                                                            *)

Identifications ==
    {[activityId |-> r.activityId, version |-> r.version] :
        r \in {d \in DesiredStates : ReadDesiredState(d) = "ok"}}

StateInquiries ==
    {r.activityId : r \in {q \in StateRequests : ReadCurrentStateRequest(q) = "ok"}}

CommandsRead ==
    {[activityId |-> r.activityId, event |-> CommandEvents[r.command]] :
        r \in {c \in Commands : ReadCommand(c) = "ok"}}

Refusal(request, verdict) ==
    [activityId |-> IF request.json THEN request.activityId ELSE "missing",
     verdict |-> verdict]

Refusals ==
    {r \in {Refusal(d, ReadDesiredState(d)) : d \in DesiredStates} \cup
           {Refusal(q, ReadCurrentStateRequest(q)) : q \in StateRequests} \cup
           {Refusal(c, ReadCommand(c)) : c \in Commands} : r.verdict # "ok"}

----------------------------------------------------------------------------
(* message_arrived.                                                        *)

IdentifyRequest(d) ==
    /\ ReceiveDesiredState(d.version)
    /\ Remember(d.activityId, "")

CurrentStateRequest(id) ==
    /\ ReceiveStateRequest
    /\ Remember(id, "")

Command(c) ==
    /\ CASE c.event = "DownloadStart" -> ReceiveDownload
         [] c.event = "InstallStart"  -> ReceiveUpdate
         [] c.event = "Activate"      -> ReceiveActivate
         [] c.event = "Cleanup"       -> ReceiveCleanup
         [] c.event = "Rollback"      -> ReceiveRollback
    /\ Remember(c.activityId, failure)

(* Faulty: the refusal is sent under the activity of an earlier request.   *)
AnsweredAsBefore(refusal) == activity
(* The catch blocks read the activityId again.                             *)
Answered(refusal) == refusal.activityId

NewProcess == activity' = "" /\ startedBy' = "" /\ failure' = ""

(* No answer if the request is no JSON or its activityId is empty.  If the *)
(* activityId is what cannot be read, reading it again throws out of the   *)
(* callback and ends the process.                                          *)
Refuse(refusal) ==
    \/ /\ refusal.verdict \in {"parse error", "logic error"}
       /\ ReceiveInvalidRequest /\ sent' = {}
       /\ Remember(activity, failure)
    \/ /\ refusal.verdict \in {"json exception", "runtime error"}
       /\ Text(refusal.activityId) = "ok"
       /\ ReceiveInvalidRequest /\ sent' # {}
       /\ Remember(Answered(refusal), failure)
    \/ /\ refusal.verdict \in {"json exception", "runtime error"}
       /\ Text(refusal.activityId) # "ok"
       /\ Listening /\ Crash /\ NewProcess

message_arrived ==
    \/ \E d \in Identifications : IdentifyRequest(d)
    \/ \E id \in StateInquiries : CurrentStateRequest(id)
    \/ \E c \in CommandsRead : Command(c)
    \/ \E refusal \in Refusals : Refuse(refusal)

----------------------------------------------------------------------------
(* Whatever else happens to the agent.                                     *)

Connectivity ==
    /\ ConnectivityEstablished \/ ConnectivityLost
    /\ UNCHANGED <<activity, startedBy, failure>>

BodyReturns ==
    /\ FinishDownload \/ FinishInstall
    /\ Remember(activity, failure)

RaucWorks ==
    /\ RaucStartsWriting \/ RaucSucceeds \/ RaucFails
    /\ UNCHANGED <<activity, startedBy, failure>>

Restart == (Crash \/ Reboot) /\ NewProcess

FeedbackNext ==
    \/ message_arrived
    \/ Connectivity
    \/ BodyReturns
    \/ RaucWorks
    \/ Restart

FeedbackSpec == FeedbackInit /\ [][FeedbackNext]_feedbackVars

----------------------------------------------------------------------------
(* A download or an installation reports under the activity of the request *)
(* that started it, however long it takes and whatever is sent meanwhile.  *)
BodyAnswersItsRequest == busy # "none" => activity = startedBy

(* Every feedback names the activity that a manager gave, also when it is  *)
(* the refusal of the first request a new process gets.                    *)
FeedbackIsAddressed ==
    \A message \in sent \ {"SystemVersion", "CurrentState"} :
        Published(message).activityId \in Activities

(* A request that names an activity and is refused is refused openly: its  *)
(* manager is told, under that activity, and the process goes on, whatever *)
(* in the request is wrong, in whichever order its lists come and whatever *)
(* update the context belongs to.  Nothing else of the refused request     *)
(* gets into the context, so the update goes on to the end it would have.  *)
RefusalsAreTold ==
    [][\A refusal \in Refusals :
          refusal.activityId \in Activities /\ Refuse(refusal) =>
              /\ "IdentificationFailed" \in sent'
              /\ Published("IdentificationFailed")'.activityId = refusal.activityId
              /\ UNCHANGED <<fsm, desired, version, failure>> ]_feedbackVars

(* The status of the closing message is the outcome that was reported:     *)
(* INCOMPLETE carries the failure of the step that failed, and COMPLETE    *)
(* is not sent after a failure (table of statuses in docs/bfb.md).  A      *)
(* request that replaces the desired state takes the failure with it.      *)
ClosingTellsTheOutcome ==
    /\ "Incomplete" \in sent => Published("Incomplete").actions[1].status = failure
    /\ "Complete" \in sent =>
          Published("Complete").actions[1].status = "UPDATE_SUCCESS" /\ failure = ""

(* UPDATE_SUCCESS names the image that is in the other slot, although the  *)
(* desired state may have been replaced since the bundle was downloaded,   *)
(* and no success is reported for an update whose version was wiped out.   *)
SuccessNamesTheImage ==
    /\ "Installed" \in sent => Published("Installed").actions[1].version = other
    /\ "Downloaded" \in sent => Published("Downloaded").actions[1].version \in Versions

(* ACTIVATION_SUCCESS names the image it has activated (docs/bfb.md: SUA   *)
(* has activated the partition with new image).                            *)
ActivationNamesTheImage ==
    "Activated" \in sent => Published("Activated").actions[1].version = other
=============================================================================
