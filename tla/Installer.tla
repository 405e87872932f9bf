----------------------------- MODULE Installer -----------------------------
(***************************************************************************)
(* Installer::start and DBusRaucInstaller in the steps that RAUC can come  *)
(* between: the agent learns how an installation ends from signals that    *)
(* wait in GLib's main context until somebody iterates it, and from the    *)
(* Progress property it polls.  An installation that the agent has given   *)
(* up, or that somebody else has started, a process before it or another   *)
(* client of RAUC, goes on in RAUC and signals its end all the same.       *)
(*                                                                         *)
(* SelfUpdateAgent sees of all this one call that is accepted or not, and  *)
(* one result; SuccessIsOurs is what it relies on.                         *)
(***************************************************************************)
EXTENDS Naturals

CONSTANTS
    MaxCalls,       \* bound: calls of Installer::start
    MaxWaits,       \* waitingTimeout in poll intervals
    Faults          \* what may go wrong, see AllFaults

AllFaults == {"crash",      \* the agent's process dies and is started again
              "restart",    \* the RAUC service dies and is started again
              "dbus"}       \* a call gets no answer

ASSUME MaxCallsAssumption == MaxCalls \in Nat
ASSUME MaxWaitsAssumption == MaxWaits \in Nat
ASSUME FaultsAssumption == Faults \subseteq AllFaults

VARIABLES
    pc,             \* the next step of Installer::start; "out": not running
    call,           \* the number of the last call
    result,         \* what it returned: "none", "ok", "failed", "timeout"
    installing,     \* DBusRaucInstaller::is_installing
    succeeded,      \* DBusRaucInstaller::is_succeeded
    waited,         \* waitingTime in poll intervals
    pending,        \* what the last of the signals that wait in the main
                    \* context says of an installation, or "none"
    restarted,      \* does the sign of a restarted RAUC wait there?
    raucJob,        \* the call whose bundle RAUC installs, or NoJob
    progress,       \* RAUC's Progress property
    outcome,        \* how the installation of a call ended in RAUC
    exclusive,      \* is the agent RAUC's only client?  It never changes
    shared          \* history: another client has begun to install during
                    \* the loop of this call

agent == <<pc, call, result, installing, succeeded, waited>>
signals == <<pending, restarted>>
vars  == <<agent, signals, raucJob, progress, outcome, exclusive, shared>>

Calls    == 1 .. MaxCalls
Others   == 0               \* the job of a process before, or another client
NoJob    == MaxCalls + 1    \* RAUC's operation is "idle"

(* "busy": less than 100 percent; the others are 100 percent, told apart   *)
(* by their messages: "Checking bundle done.", "Installing done.", or any  *)
(* other.                                                                  *)
Progresses == {"busy", "checked", "done", "failed"}

TypeOK ==
    /\ pc \in {"out", "drain", "query", "call", "poll", "progress"}
    /\ call \in 0 .. MaxCalls
    /\ result \in {"none", "ok", "failed", "timeout"}
    /\ installing \in BOOLEAN /\ succeeded \in BOOLEAN
    /\ waited \in 0 .. MaxWaits
    /\ pending \in {"none", "installing", "ok", "failed"} /\ restarted \in BOOLEAN
    /\ raucJob \in Calls \cup {Others, NoJob}
    /\ progress \in Progresses
    /\ outcome \in [Calls \cup {Others} -> {"none", "ok", "failed"}]
    /\ exclusive \in BOOLEAN /\ shared \in BOOLEAN

Init ==
    /\ pc = "out" /\ call = 0 /\ result = "none"
    /\ installing = FALSE /\ succeeded = FALSE
    /\ waited = 0
    /\ pending = "none" /\ restarted = FALSE
    /\ raucJob \in {Others, NoJob}
    /\ progress \in Progresses
    /\ outcome = [j \in Calls \cup {Others} |-> "none"]
    /\ exclusive \in BOOLEAN /\ shared = FALSE

----------------------------------------------------------------------------
(* Signals.  An iteration of the main context handles all that wait, in    *)
(* their order, and each one that is about an installation overrules those *)
(* before it.                                                              *)

(* Faulty: that RAUC begins to install is not heeded.                      *)
QueueEndsOnly(s) == IF s = "installing" THEN pending ELSE s
(* Signal s after what waits already.                                      *)
Queue(s) == s

(* The handler for the sign of a restarted RAUC asks installing(), which   *)
(* iterates in its turn: all other signals, later ones included, have been *)
(* handled when it looks at the flags.                                     *)
Believing == pending = "installing" \/ (pending = "none" /\ installing)
FailsByRestart == restarted /\ Believing

(* Faulty: success does not end the installation.                          *)
StillInstallingAfterOk == (Believing \/ pending = "ok") /\ ~FailsByRestart
(* on_completed and on_properties_changed: the flags after an iteration.   *)
StillInstalling == Believing /\ ~FailsByRestart

Succeeded ==
    /\ pending = "ok" \/ (pending = "none" /\ succeeded)
    /\ ~FailsByRestart

Iterate ==
    /\ installing' = StillInstalling
    /\ succeeded' = Succeeded
    /\ pending' = "none" /\ restarted' = FALSE

----------------------------------------------------------------------------
(* Installer::start.                                                       *)

Return(r) == pc' = "out" /\ result' = r

(* getBundleVersion and getSlotStatus, which the states call outside of    *)
(* start, handle the signals that wait.                                    *)
GetBundleVersion ==
    /\ pc = "out"
    /\ Iterate
    /\ UNCHANGED <<pc, call, result, waited, raucJob, progress, outcome, exclusive, shared>>

(* The agent is about to install a bundle.                                 *)
Begin ==
    /\ pc = "out" /\ call < MaxCalls
    /\ pc' = "drain" /\ call' = call + 1 /\ result' = "none" /\ waited' = 0
    /\ shared' = FALSE
    /\ UNCHANGED <<installing, succeeded, signals, raucJob, progress, outcome, exclusive>>

(* installBundle: signals of earlier installations are handled first.      *)
Drain ==
    /\ pc = "drain" /\ pc' = "query"
    /\ Iterate
    /\ UNCHANGED <<call, result, waited, raucJob, progress, outcome, exclusive, shared>>

(* installBundle: RAUC's operation must be "idle".                         *)
Query ==
    /\ pc = "query"
    /\ \/ raucJob = NoJob /\ pc' = "call" /\ UNCHANGED result
       \/ (raucJob # NoJob \/ "dbus" \in Faults) /\ Return("failed")
    /\ UNCHANGED <<call, installing, succeeded, waited, signals, raucJob, progress, outcome, exclusive, shared>>

RaucTakes ==
    /\ raucJob = NoJob
    /\ raucJob' = call /\ pending' = Queue("installing")

(* installBundle: the call.  RAUC announces that it installs before it     *)
(* replies; its Progress property is at first what it was.  A call without *)
(* an answer may have reached RAUC or not, and RAUC refuses it when it has *)
(* another bundle by now.                                                  *)
Call ==
    /\ pc = "call"
    /\ succeeded' = FALSE
    /\ \/ /\ RaucTakes
          /\ pc' = "poll" /\ installing' = TRUE
          /\ UNCHANGED result
       \/ /\ "dbus" \in Faults /\ RaucTakes
          /\ Return("failed") /\ installing' = FALSE
       \/ /\ "dbus" \in Faults \/ raucJob # NoJob
          /\ Return("failed") /\ installing' = FALSE
          /\ UNCHANGED <<raucJob, pending>>
    /\ UNCHANGED <<call, waited, restarted, progress, outcome, exclusive, shared>>

(* installing() and, when the loop ends, succeeded().                      *)
Poll ==
    /\ pc = "poll"
    /\ Iterate
    /\ IF installing'
       THEN pc' = "progress" /\ UNCHANGED result
       ELSE Return(IF succeeded' THEN "ok" ELSE "failed")
    /\ UNCHANGED <<call, waited, raucJob, progress, outcome, exclusive, shared>>

(* Faulty: the limit is checked one round too late.                        *)
WaitOnceMore(p) ==
    /\ UNCHANGED <<installing, succeeded>>
    /\ IF waited > MaxWaits
       THEN Return("timeout") /\ UNCHANGED waited
       ELSE pc' = "poll" /\ UNCHANGED result /\ waited' = waited + 1
(* The loop's body, p being the progress it gets; a call that fails reads  *)
(* as 0 percent.  At 100 percent the loop goes on at once.                 *)
Wait(p) ==
    /\ IF p = "failed"
       THEN installing' = FALSE /\ succeeded' = FALSE
       ELSE UNCHANGED <<installing, succeeded>>
    /\ IF waited >= MaxWaits
       THEN Return("timeout") /\ UNCHANGED waited
       ELSE /\ pc' = "poll" /\ UNCHANGED result
            /\ waited' = IF p \in {"done", "failed"} THEN waited ELSE waited + 1

GetProgress ==
    /\ pc = "progress"
    /\ \E p \in {progress} \cup (IF "dbus" \in Faults THEN {"busy"} ELSE {}) : Wait(p)
    /\ UNCHANGED <<call, signals, raucJob, progress, outcome, exclusive, shared>>

(* The process starts over: nothing is installing and no signal waits.     *)
Crash ==
    /\ "crash" \in Faults
    /\ pc' = "out" /\ result' = "none" /\ waited' = 0
    /\ installing' = FALSE /\ succeeded' = FALSE
    /\ pending' = "none" /\ restarted' = FALSE
    /\ UNCHANGED <<call, raucJob, progress, outcome, exclusive, shared>>

----------------------------------------------------------------------------
(* RAUC: it reports progress, at last 100 percent, and then completes.     *)

RaucWorks ==
    /\ raucJob # NoJob /\ outcome[raucJob] = "none"
    /\ progress' = "busy"
    /\ UNCHANGED <<agent, signals, raucJob, outcome, exclusive, shared>>

RaucReports ==
    /\ raucJob # NoJob /\ outcome[raucJob] = "none"
    /\ \E o \in {"ok", "failed"} :
          /\ outcome' = [outcome EXCEPT ![raucJob] = o]
          /\ progress' = IF o = "ok" THEN "done" ELSE "failed"
    /\ UNCHANGED <<agent, signals, raucJob, exclusive, shared>>

RaucCompletes ==
    /\ raucJob # NoJob /\ outcome[raucJob] # "none"
    /\ raucJob' = NoJob
    /\ pending' = Queue(outcome[raucJob])
    /\ UNCHANGED <<agent, restarted, progress, outcome, exclusive, shared>>

(* The bundle is checked for the agent or another client.                  *)
RaucChecksBundle ==
    /\ raucJob = NoJob
    /\ progress' = "checked"
    /\ UNCHANGED <<agent, signals, raucJob, outcome, exclusive, shared>>

RaucRestarts ==
    /\ "restart" \in Faults
    /\ raucJob' = NoJob
    /\ outcome' = IF raucJob # NoJob /\ outcome[raucJob] = "none"
                  THEN [outcome EXCEPT ![raucJob] = "failed"] ELSE outcome
    /\ progress' = "busy"
    /\ restarted' = TRUE
    /\ UNCHANGED <<agent, pending, exclusive, shared>>

(* Another client installs a bundle (once).  Its signals come to the agent *)
(* like those of the agent's own installations.                            *)
OthersInstall ==
    /\ ~exclusive
    /\ raucJob = NoJob /\ outcome[Others] = "none"
    /\ raucJob' = Others
    /\ pending' = Queue("installing")
    /\ shared' = (shared \/ pc \in {"poll", "progress"})
    /\ UNCHANGED <<agent, restarted, progress, outcome, exclusive>>

----------------------------------------------------------------------------
Start == GetBundleVersion \/ Begin \/ Drain \/ Query \/ Call \/ Poll \/ GetProgress

Rauc == RaucWorks \/ RaucReports \/ RaucCompletes \/ RaucChecksBundle \/ RaucRestarts
        \/ OthersInstall

Next == Start \/ Crash \/ Rauc

Spec == Init /\ [][Next]_vars

(* The thread that runs the loop is scheduled.                             *)
LoopRuns == WF_vars(Drain \/ Query \/ Call \/ Poll \/ GetProgress)

(* RAUC ends an installation and signals it.                               *)
RaucEnds == WF_vars(RaucReports) /\ WF_vars(RaucCompletes)

FairSpec == Spec /\ LoopRuns /\ RaucEnds

----------------------------------------------------------------------------
(* Installer::start returns OK only if the bundle of this very call was    *)
(* installed, whatever earlier installations still do and signal.  The one *)
(* exception is a success of another client that began to install while    *)
(* the loop was running.                                                   *)
SuccessIsOurs ==
    result = "ok" => outcome[call] = "ok" \/ (shared /\ outcome[Others] = "ok")

(* If RAUC has no other client, the loop keeps the contract that the state *)
(* machine builds on: it answers with a success only when RAUC has ended   *)
(* this call's installation well, and RAUC rests then until the next call. *)
(* With other clients nothing is promised, and the contract sees nothing.  *)
Polling == pc \in {"poll", "progress"}

Contract == INSTANCE Installation WITH
    waiting <- exclusive /\ Polling,
    job     <- IF ~exclusive \/ raucJob = NoJob THEN "none"
               ELSE IF Polling /\ raucJob = call THEN "asked" ELSE "stray",
    ended   <- IF exclusive /\ Polling /\ raucJob # call THEN outcome[call] ELSE "none",
    success <- exclusive /\ result = "ok"

KeepsContract == Contract!Spec

(* Installer::start returns: success, failure, a given up or a restarted   *)
(* RAUC, one of them ends the loop.                                        *)
StartReturns == (pc # "out") ~> (pc = "out")
=============================================================================
