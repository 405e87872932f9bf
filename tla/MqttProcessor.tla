---------------------------- MODULE MqttProcessor ----------------------------
(***************************************************************************)
(* The MQTT processor: the callbacks that the client library makes, the    *)
(* attempts to connect again with their counter, and what becomes of a     *)
(* handler when a send in the middle of it throws.  The state machine is   *)
(* the one of SelfUpdateAgent, here with its table row by row and in the   *)
(* steps in which callbacks of several threads would meet.                 *)
(*                                                                         *)
(* Texts, versions and slots are not here: a body returns any of its       *)
(* outputs.                                                                *)
(***************************************************************************)
EXTENDS TransitionTable

CONSTANTS
    Threads,        \* the threads of the library that make callbacks
    Serial,         \* does the library make one callback at a time?
    MaxRetries,     \* MAX_RETRIES
    MaxDue,         \* bound: callbacks that wait to be made
    Faults          \* "client": calls of the client library may throw

ASSUME RetriesAssumption == MaxRetries \in Nat
ASSUME DueAssumption == MaxDue \in Nat
ASSUME SerialAssumption == Serial \in BOOLEAN
ASSUME ClientFaultsAssumption == Faults \subseteq {"client"}

VARIABLES
    link,           \* "none" before connect(), "trying", "up", "down"
    due,            \* callbacks about the connection that are to be made
    fsm,            \* FSM::activeState()
    retries,        \* MqttCallback::_retries
    process,        \* "running", "gave up" (too many retries) or "aborted"
    call,           \* what each thread is doing, see Frames
    greeted,        \* was the version published on this connection?
    failures        \* attempts reported as failed since the last "connected"
                    \* or "connection_lost"

vars == <<link, due, fsm, retries, process, call, greeted, failures>>

Callbacks == {"connected", "connection_lost", "on_failure"}
Requests == {"Identify", "GetCurrentState", "DownloadStart", "InstallStart",
             "Activate", "Cleanup", "Rollback"}
Events == Requests \cup {"ConnectivityEstablished", "ConnectivityLost", "Waiting", "none"}
Outputs == {Unset} \cup UNION {BodyOutputs(s) : s \in StateNames}

(* A callback on its way: where it is, which one it is, and the local      *)
(* variables of its handleEvent (row is 0 before the loop has stopped).    *)
Frames == [at : {"free", "look", "body", "enter", "after", "wait", "refuse"},
           callback : Callbacks \cup {"message"},
           event : Events,
           row : 0 .. Len(Table),
           output : Outputs]

Free == [at |-> "free", callback |-> "message", event |-> "none",
         row |-> 0, output |-> Unset]
Handling(callback, event) ==
    [at |-> "look", callback |-> callback, event |-> event,
     row |-> 0, output |-> Unset]

TypeOK ==
    /\ link \in {"none", "trying", "up", "down"}
    /\ due \in Seq(Callbacks)
    /\ fsm \in StateNames
    /\ retries \in 0 .. MaxRetries + 1
    /\ process \in {"running", "gave up", "aborted"}
    /\ call \in [Threads -> Frames]
    /\ greeted \in BOOLEAN
    /\ failures \in Nat

Init ==
    /\ link = "none"
    /\ due = <<>>
    /\ fsm = "Uninitialized"
    /\ retries = 0
    /\ process = "running"
    /\ call = [t \in Threads |-> Free]
    /\ greeted = FALSE
    /\ failures = 0

----------------------------------------------------------------------------
(* The client library.  It tells every change of the connection by one     *)
(* callback, in the order of the changes, and tries again by itself when   *)
(* the connection is down.                                                 *)

Library == <<fsm, retries, process, call, failures>>

Report(callback) ==
    /\ Len(due) < MaxDue
    /\ due' = Append(due, callback)

Succeed ==
    /\ process = "running" /\ link = "trying"
    /\ link' = "up" /\ Report("connected")
    /\ greeted' = FALSE
    /\ UNCHANGED Library

Fail ==
    /\ process = "running" /\ link = "trying"
    /\ link' = "down" /\ Report("on_failure")
    /\ UNCHANGED <<Library, greeted>>

Break ==
    /\ process = "running" /\ link = "up"
    /\ link' = "down" /\ Report("connection_lost")
    /\ UNCHANGED <<Library, greeted>>

Redial ==
    /\ process = "running" /\ link = "down"
    /\ link' = "trying"
    /\ UNCHANGED <<due, Library, greeted>>

(* MqttProcessor::start: connect() until it does not throw.                *)
Connect ==
    /\ process = "running" /\ link = "none"
    /\ link' = "trying"
    /\ UNCHANGED <<due, Library, greeted>>

----------------------------------------------------------------------------
(* Callbacks begin.                                                        *)

(* Faulty: callbacks of several threads may overlap.                       *)
MayCallAnyTime(t) ==
    /\ process = "running"
    /\ call[t].at = "free"
MayCall(t) ==
    /\ process = "running"
    /\ call[t].at = "free"
    /\ Serial => \A s \in Threads : call[s].at = "free"

Goto(t, frame) == call' = [call EXCEPT ![t] = frame]
Continue(t, place) == call' = [call EXCEPT ![t].at = place]

EventOf(callback) ==
    IF callback = "connected" THEN "ConnectivityEstablished" ELSE "ConnectivityLost"

Deliver(t) ==
    /\ MayCall(t) /\ due # <<>>
    /\ due' = Tail(due)
    /\ Goto(t, Handling(Head(due), EventOf(Head(due))))
    /\ failures' = IF Head(due) = "on_failure" THEN failures + 1 ELSE 0
    /\ UNCHANGED <<link, fsm, retries, process, greeted>>

(* message_arrived with a request that could be read.                      *)
Receive(t, request) ==
    /\ MayCall(t) /\ link = "up"
    /\ Goto(t, Handling("message", request))
    /\ UNCHANGED <<link, due, fsm, retries, process, greeted, failures>>

(* message_arrived with one that is refused; one that is only logged       *)
(* changes nothing.                                                        *)
ReceiveMalformed(t) ==
    /\ MayCall(t) /\ link = "up"
    /\ Goto(t, [Free EXCEPT !.at = "refuse"])
    /\ UNCHANGED <<link, due, fsm, retries, process, greeted, failures>>

End(how) ==
    /\ process' = how
    /\ UNCHANGED <<link, due, fsm, retries, call, greeted, failures>>

(* Without its activityId the catch block throws out of the callback.      *)
ReceiveAnonymous(t) ==
    /\ MayCall(t) /\ link = "up"
    /\ End("aborted")

----------------------------------------------------------------------------
(* FSM::handleEvent in the thread t.                                       *)

At(t, place) == process = "running" /\ call[t].at = place

(* One round of the loop, up to a body to be run or to the transition.     *)
Take(t, i) ==
    IF Table[i].output # NotUsed /\ call[t].output = Unset
    THEN Goto(t, [call[t] EXCEPT !.at = "body", !.row = i]) /\ UNCHANGED fsm
    ELSE /\ fsm' = Table[i].to
         /\ Continue(t, IF Table[i].to # fsm THEN "enter" ELSE "after")

Look(t) ==
    /\ At(t, "look")
    /\ LET stops == Stops(call[t].row, fsm, call[t].event, call[t].output) IN
          \/ stops = {} /\ Continue(t, "after") /\ UNCHANGED fsm
          \/ \E i \in stops :
                /\ \A j \in stops : i <= j
                /\ Take(t, i)
    /\ UNCHANGED <<link, due, retries, process, greeted, failures>>

(* The body of the active state, which takes its time; Idle, Connected,    *)
(* Downloading and Installing send.                                        *)
Body(t) ==
    /\ At(t, "body")
    /\ \E output \in BodyOutputs(fsm) :
          Goto(t, [call[t] EXCEPT !.at = "look", !.output = output])
    /\ UNCHANGED <<link, due, fsm, retries, process, greeted, failures>>

(* Faulty: the greeting is left out.                                       *)
GreetsOnRequest == fsm = "SendCurrentState"
(* onEnter of these states publishes the version.                          *)
Greets == fsm \in {"Connected", "SendCurrentState"}

(* onEnter of the active state; two of them raise Waiting.                 *)
Enter(t) ==
    /\ At(t, "enter")
    /\ greeted' = (greeted \/ (Greets /\ link = "up"))
    /\ IF fsm \in {"SendCurrentState", "Cleaning"}
       THEN Goto(t, Handling(call[t].callback, "Waiting"))
       ELSE Continue(t, "after")
    /\ UNCHANGED <<link, due, fsm, retries, process, failures>>

(* A send finds the client not connected, or a publish still on its way,   *)
(* and its reconnect() throws.  A message callback catches that as if the  *)
(* request were malformed; any other callback ends the process.            *)
Sends(t) ==
    \/ At(t, "body") /\ fsm \in {"Connected", "Idle", "Downloading", "Installing"}
    \/ At(t, "enter") /\ fsm \in {"Connected", "SendCurrentState", "Installed",
                                  "Activating", "Cleaning"}
    \/ At(t, "refuse")

SendThrows(t) ==
    /\ "client" \in Faults
    /\ Sends(t)
    /\ IF call[t].callback = "message" /\ call[t].at # "refuse"
       THEN /\ Continue(t, "refuse")
            /\ UNCHANGED <<link, due, fsm, retries, process, greeted, failures>>
       ELSE End("aborted")

(* subscribe() throws in connected().                                      *)
SubscribeThrows(t) ==
    /\ "client" \in Faults
    /\ At(t, "look") /\ call[t].callback = "connected" /\ call[t].row = 0
    /\ End("aborted")

Refuse(t) ==
    /\ At(t, "refuse")
    /\ Goto(t, Free)
    /\ UNCHANGED <<link, due, fsm, retries, process, greeted, failures>>

----------------------------------------------------------------------------
(* What the callbacks do after handleEvent.                                *)

(* Faulty: the counter goes on through all outages.                        *)
RetriesAfterLossKept == retries
RetriesAfterLoss == 0

(* Faulty: there is no end of retries.                                     *)
TooManyRetriesNever == FALSE
(* on_failure: ++_retries > MAX_RETRIES                                    *)
TooManyRetries == retries + 1 > MaxRetries

Finish(t) ==
    /\ At(t, "after")
    /\ \/ /\ call[t].callback \in {"connected", "message"}
          /\ Goto(t, Free)
          /\ UNCHANGED <<retries, process>>
       \/ /\ call[t].callback = "connection_lost"
          /\ retries' = RetriesAfterLoss
          /\ Continue(t, "wait")
          /\ UNCHANGED process
       \/ /\ call[t].callback = "on_failure"
          /\ retries' = retries + 1
          /\ process' = IF TooManyRetries THEN "gave up" ELSE process
          /\ Continue(t, "wait")
    /\ UNCHANGED <<link, due, fsm, greeted, failures>>

(* MqttCallback::reconnect after its 2.5 seconds.                          *)
Reconnect(t) ==
    /\ At(t, "wait")
    /\ \/ /\ link' = IF link = "down" THEN "trying" ELSE link
          /\ Goto(t, Free)
          /\ UNCHANGED <<due, fsm, retries, process, greeted, failures>>
       \/ "client" \in Faults /\ End("aborted")

(* Somebody starts the agent again.                                        *)
Restart ==
    /\ process # "running"
    /\ link' = "none" /\ due' = <<>> /\ fsm' = "Uninitialized" /\ retries' = 0
    /\ process' = "running" /\ call' = [t \in Threads |-> Free]
    /\ greeted' = FALSE /\ failures' = 0

Step(t) ==
    \/ Look(t) \/ Body(t) \/ Enter(t) \/ SendThrows(t) \/ SubscribeThrows(t)
    \/ Refuse(t) \/ Finish(t) \/ Reconnect(t)

Next ==
    \/ Succeed \/ Fail \/ Break \/ Redial \/ Connect \/ Restart
    \/ \E t \in Threads :
          \/ Deliver(t)
          \/ \E request \in Requests : Receive(t, request)
          \/ ReceiveMalformed(t)
          \/ ReceiveAnonymous(t)
          \/ Step(t)

Spec == Init /\ [][Next]_vars

----------------------------------------------------------------------------
(* Safety.                                                                 *)

(* Nothing is going on, and nothing is left to be told.                    *)
AtRest ==
    /\ process = "running"
    /\ due = <<>>
    /\ \A t \in Threads : call[t].at = "free"

(* The agent is not deaf on a connection that stands: it is in             *)
(* Uninitialized, where it drops every request, only while it is not       *)
(* connected (README: default state, or state in case connection is lost). *)
DeafOnlyWhileDisconnected == AtRest /\ link = "up" => fsm # "Uninitialized"

(* In Connected the version was published on the connection that stands,   *)
(* not only on one before it.                                              *)
ConnectedIsAnnounced == AtRest /\ link = "up" /\ fsm = "Connected" => greeted

(* The exit after too many retries comes from one outage: the failures of  *)
(* separate outages do not add up, although only connection_lost resets    *)
(* the counter.                                                            *)
GivesUpInOneOutage == process = "gave up" => failures > MaxRetries

(* Every transition is one row of the table, from the state that is active *)
(* to the one that becomes active: handleEvent does not compare a row with *)
(* the state again after it has run the body, and no other callback has    *)
(* changed the state meanwhile.                                            *)
TransitionsAreRows ==
    [][process = "running" /\ fsm' # fsm =>
          \E i \in DOMAIN Table : Table[i].from = fsm /\ Table[i].to = fsm']_vars

----------------------------------------------------------------------------
(* The inductive invariant behind the safety properties, for a library     *)
(* that makes one callback at a time.                                      *)

OneCall == \A s, t \in Threads :
    call[s].at # "free" /\ call[t].at # "free" => s = t

(* What a handler raises fits the callback it began with, and the row at   *)
(* which its loop has stopped is one of the active state.                  *)
EventFits(c) ==
    CASE c.callback = "connected" -> c.event = "ConnectivityEstablished"
      [] c.callback \in {"connection_lost", "on_failure"} -> c.event = "ConnectivityLost"
      [] OTHER -> c.event \in Requests \cup {"Waiting", "none"}

EventsMatchCallbacks == \A t \in Threads :
    /\ EventFits(call[t])
    /\ call[t].row # 0 /\ call[t].at \in {"look", "body"} =>
          Table[call[t].row].when = call[t].event /\ Table[call[t].row].from = fsm
    /\ call[t].at = "enter" =>
          /\ fsm = "Connected" => call[t].callback = "connected"
          /\ fsm \in {"SendCurrentState", "Cleaning"} => call[t].callback = "message"

(* The last thing that the library has to tell is how the link is.         *)
DueMatchesLink ==
    /\ link = "none" => due = <<>>
    /\ due # <<>> => (link = "up" <=> due[Len(due)] = "connected")
    /\ \A i \in 1 .. Len(due) - 1 : due[i] = "connected" => due[i + 1] = "connection_lost"

(* When all is told and the link is up, only the handler that will leave   *)
(* Uninitialized may find the agent there.                                 *)
Unheard(t) == call[t].at = "look" /\ call[t].row = 0 /\ call[t].output = Unset

UpIsHeard == due = <<>> /\ link = "up" =>
    /\ \A t \in Threads : call[t].at # "free" => call[t].callback \in {"connected", "message"}
    /\ fsm = "Uninitialized" => \E t \in Threads :
          Unheard(t) /\ call[t].event = "ConnectivityEstablished"

(* The next thing that the library tells is a loss.                        *)
NextIsLoss == IF due = <<>> THEN link = "up" ELSE due[1] = "connection_lost"

(* A connection that is being handled is the last one, or is already lost  *)
(* again and the loss is what comes next.                                  *)
HandledInOrder == \A t \in Threads :
    call[t].at # "free" /\ call[t].callback = "connected" => NextIsLoss

CountingFailure(t) ==
    call[t].callback = "on_failure" /\ call[t].at \in {"look", "body", "enter", "after"}
CountingLoss(t) ==
    call[t].callback = "connection_lost" /\ call[t].at \in {"look", "body", "enter", "after"}

RetriesAreOfThisOutage ==
    /\ \A t \in Threads : CountingFailure(t) => retries < failures
    /\ \/ retries <= failures
       \/ NextIsLoss
       \/ \E t \in Threads : CountingLoss(t)
    /\ process = "gave up" => failures > MaxRetries
    /\ process # "gave up" => retries <= MaxRetries

ConnectedIsCurrent == fsm = "Connected" =>
    /\ \/ NextIsLoss
       \/ \E t \in Threads : Unheard(t) /\ call[t].event = "ConnectivityLost"
    /\ due = <<>> /\ link = "up" =>
          greeted \/ \E t \in Threads : call[t].at = "enter"

LeavingTransient == fsm \in {"SendCurrentState", "Cleaning"} =>
    \E t \in Threads :
       call[t].at = "enter" \/ (Unheard(t) /\ call[t].event = "Waiting")

Orderly ==
    /\ TypeOK
    /\ OneCall
    /\ EventsMatchCallbacks
    /\ DueMatchesLink
    /\ UpIsHeard
    /\ HandledInOrder
    /\ RetriesAreOfThisOutage
    /\ ConnectedIsCurrent

----------------------------------------------------------------------------
(* What the documentation says and the code does not do.                   *)

(* SendCurrentState and Cleaning are left by the handler that entered      *)
(* them; they have no row for any request (README: Cleanup --> Idle).      *)
TransientStatesAreLeft == AtRest => fsm \notin {"SendCurrentState", "Cleaning"}

(* README: Uninitialized is the state in case connection is lost.          *)
LossIsNoticed == AtRest /\ link # "up" => fsm = "Uninitialized"
=============================================================================
