----------------------------- MODULE Downloader -----------------------------
(***************************************************************************)
(* A download and its progress: the body of the state Downloading, the     *)
(* callback that curl calls with the bytes it has got, the limiter that    *)
(* decides which of them are reported, and the subscriptions through which *)
(* the reports reach the state.                                            *)
(*                                                                         *)
(* The limiter and the list of subscribers are static: they outlive the    *)
(* state objects, of which each visit of Downloading has its own.          *)
(***************************************************************************)
EXTENDS Integers

CONSTANTS
    Sizes,              \* sizes a server may announce; 0: it announces none
    MaxBytes,           \* bound: bytes of a transfer
    MaxSubscriptions    \* bound: subscriptions in the life of a process

ASSUME SizesAssumption == Sizes \subseteq Nat
ASSUME MaxBytesAssumption == MaxBytes \in Nat
ASSUME MaxSubscriptionsAssumption == MaxSubscriptions \in Nat

VARIABLES
    phase,          \* "away": another state is active; "waiting": for the
                    \* command; "transfer": the body is in curl_easy_perform
    downloadMode,   \* Context::downloadMode
    subscribers,    \* Dispatcher::_subscribers, by their ids
    owned,          \* DispatcherSubscriber::_subscriptions of the state object
    nextId,         \* the id of the next subscription
    limiter,        \* progressNotificationLimiter
    total,          \* dltotal and ...
    now,            \* ... dlnow of the last progress callback
    percent,        \* DesiredState::downloadProgressPercentage
    notified,       \* reports of this transfer
    file,           \* the temporary file: "absent", "partial", "complete"
    result          \* what the last download returned: "none", "ok", "failed"

subscriptions == <<subscribers, owned, nextId>>
progress      == <<limiter, total, now, percent, notified>>
vars          == <<phase, downloadMode, subscriptions, progress, file, result>>

Ids == 0 .. MaxSubscriptions - 1

TypeOK ==
    /\ phase \in {"away", "waiting", "transfer"}
    /\ downloadMode \in BOOLEAN
    /\ subscribers \subseteq Ids /\ owned \subseteq Ids
    /\ nextId \in 0 .. MaxSubscriptions
    /\ limiter \in 0 .. 100
    /\ total \in Nat /\ now \in Nat
    /\ percent \in 0 .. 99
    /\ notified \in Nat
    /\ file \in {"absent", "partial", "complete"}
    /\ result \in {"none", "ok", "failed"}

Init ==
    /\ phase = "away"
    /\ downloadMode \in BOOLEAN
    /\ subscribers = {} /\ owned = {} /\ nextId = 0
    /\ limiter = 0 /\ total = 0 /\ now = 0 /\ percent = 0 /\ notified = 0
    /\ file = "absent"
    /\ result = "none"

----------------------------------------------------------------------------
(* State objects and their subscriptions.                                  *)

(* Faulty: subscriptions outlive the object whose callbacks they hold.     *)
DestroyObjectOnly == owned' = {} /\ UNCHANGED subscribers
(* The active state object is replaced: it takes its subscriptions along.  *)
DestroyObject == owned' = {} /\ subscribers' = subscribers \ owned

Subscribe ==
    /\ nextId < MaxSubscriptions
    /\ nextId' = nextId + 1
    /\ subscribers' = subscribers \cup {nextId}
    /\ owned' = owned \cup {nextId}

(* Downloading::onEnter.                                                   *)
Enter ==
    /\ phase = "away" /\ phase' = "waiting"
    /\ DestroyObject
    /\ percent' = 0
    /\ UNCHANGED <<downloadMode, nextId, limiter, total, now, notified, file, result>>

Rollback ==
    /\ phase = "waiting" /\ phase' = "away"
    /\ DestroyObject
    /\ UNCHANGED <<downloadMode, nextId, progress, file, result>>

----------------------------------------------------------------------------
(* Downloading::body.                                                      *)

(* In stream mode the body only checks the bundle, and the state stays.    *)
CheckStream ==
    /\ phase = "waiting" /\ ~downloadMode
    /\ Subscribe
    /\ UNCHANGED <<phase, downloadMode, progress, file, result>>

(* download up to curl_easy_perform: opening the file truncates it.        *)
Open ==
    /\ phase = "waiting" /\ downloadMode /\ phase' = "transfer"
    /\ Subscribe
    /\ file' = "partial"
    /\ total' = 0 /\ now' = 0 /\ notified' = 0
    /\ UNCHANGED <<downloadMode, limiter, percent, result>>

(* curl, the folder or the file cannot be had.  The body subscribes before *)
(* and its object goes at once.                                            *)
FailToOpen ==
    /\ phase = "waiting" /\ downloadMode /\ phase' = "away"
    /\ nextId < MaxSubscriptions /\ nextId' = nextId + 1
    /\ DestroyObject
    /\ result' = "failed"
    /\ UNCHANGED <<downloadMode, progress, file>>

(* Faulty: more bytes than announced count as more than 100 percent.       *)
PercentageUnclamped(n, t) == IF t = 0 THEN 0 ELSE (100 * n) \div t
(* The percentage of n bytes out of t.                                     *)
Percentage(n, t) ==
    LET p == (100 * n) \div t
    IN  IF t = 0 THEN 0 ELSE IF p > 100 THEN 100 ELSE p

(* Faulty: the end is reported as one more step.                           *)
DueAlsoAtTheEnd(p) == p >= limiter
(* A percentage that progress_callback reports.                            *)
Due(p) == p # 100 /\ p >= limiter

(* curl has got n bytes of an answer of t, the same answer or, following a *)
(* redirection, another one, and calls back.                               *)
Receive(t, n) ==
    /\ phase = "transfer"
    /\ \/ n >= now /\ (t = total \/ now = 0)
       \/ n = 0
    /\ total' = t /\ now' = n
    /\ IF Due(Percentage(n, t))
       THEN /\ percent' = IF subscribers = {} THEN percent ELSE Percentage(n, t)
            /\ limiter' = limiter + 10
            /\ notified' = notified + 1
       ELSE UNCHANGED <<percent, limiter, notified>>
    /\ UNCHANGED <<phase, downloadMode, subscriptions, file, result>>

(* Faulty: the limiter is reset only after a success.                      *)
ResetAfter(r) == limiter' = IF r = "ok" THEN 0 ELSE limiter
(* Whatever the result, the next transfer reports from the beginning.      *)
Reset(r) == limiter' = 0

Return(r) ==
    /\ phase' = "away"
    /\ DestroyObject
    /\ result' = r
    /\ Reset(r)
    /\ UNCHANGED <<downloadMode, nextId, total, now, percent, notified>>

(* curl_easy_perform ends.  Only the HTTP status decides on the result: an *)
(* answer that breaks off, or cannot be written, is a success as well.     *)
Finish ==
    /\ phase = "transfer"
    /\ \/ Return("ok") /\ (total = 0 \/ now >= total) /\ file' = "complete"
       \/ Return("ok") /\ UNCHANGED file
       \/ Return("failed") /\ UNCHANGED file

(* The process dies; a new one finds the file as it is.                    *)
Crash ==
    /\ phase' = "away"
    /\ subscribers' = {} /\ owned' = {} /\ nextId' = 0
    /\ limiter' = 0 /\ total' = 0 /\ now' = 0 /\ percent' = 0 /\ notified' = 0
    /\ result' = "none"
    /\ UNCHANGED <<downloadMode, file>>

----------------------------------------------------------------------------
Next ==
    \/ Enter
    \/ Rollback
    \/ CheckStream
    \/ Open
    \/ FailToOpen
    \/ \E t \in Sizes, n \in 0 .. MaxBytes : Receive(t, n)
    \/ Finish
    \/ Crash

Spec == Init /\ [][Next]_vars

----------------------------------------------------------------------------
(* progress_callback reports at most ten times in a transfer, and the n-th *)
(* report is of at least 10 * (n - 1) percent, with jumps, redirections    *)
(* and servers that announce no size or the wrong one.                     *)
ReportsComeInSteps ==
    /\ notified <= 10
    /\ phase = "transfer" /\ notified > 0 => percent >= 10 * (notified - 1)

(* Every transfer is reported from its beginning, whatever became of the   *)
(* transfers before: the first callback that is not yet at the end counts. *)
FirstProgressIsReported ==
    [][\A t \in Sizes, n \in 0 .. MaxBytes :
          Receive(t, n) /\ notified = 0 /\ Percentage(n, t) < 100
              => notified' = 1]_vars

(* Reports reach the state object that is active and no other: callbacks   *)
(* of an object that is gone are never called, and a transfer has exactly  *)
(* one listener, although the body subscribes each time it runs.           *)
ListenersLive ==
    /\ subscribers = owned
    /\ phase = "away" => owned = {}
    /\ phase = "transfer" => \E i \in Ids : owned = {i}

(* The documentation of DOWNLOAD_SUCCESS: the image is downloaded without  *)
(* errors.                                                                 *)
SuccessIsComplete == result = "ok" /\ phase = "away" => file = "complete"
=============================================================================
