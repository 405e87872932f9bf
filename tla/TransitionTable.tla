--------------------------- MODULE TransitionTable ---------------------------
(***************************************************************************)
(* The table that SelfUpdateAgent::init gives to the state machine, row by *)
(* row and in its order, and what FSM::handleEvent reads from it.          *)
(***************************************************************************)
EXTENDS Naturals, Sequences

NotUsed == "NotUsed"    \* FotaEvent::NotUsed: the row does not ask the body
Unset   == "unset"      \* the body has not been run yet (output_set is false)

On(event, from, to) ==
    [when |-> event, from |-> from, to |-> to, output |-> NotUsed]
OnOutput(event, from, to, output) ==
    [when |-> event, from |-> from, to |-> to, output |-> output]

Table == <<
    On("ConnectivityEstablished", "Uninitialized", "Connected"),
    On("ConnectivityLost", "Connected", "Uninitialized"),
    OnOutput("Identify", "Connected", "Downloading", "BundleVersionOK"),
    OnOutput("Identify", "Connected", "Connected", "BundleVersionUnchanged"),
    On("GetCurrentState", "Connected", "SendCurrentState"),
    OnOutput("DownloadStart", "Downloading", "Installing", "DownloadSucceeded"),
    OnOutput("DownloadStart", "Downloading", "Failed", "DownloadFailed"),
    On("Rollback", "Downloading", "Idle"),
    OnOutput("InstallStart", "Installing", "Installed", "InstallCompleted"),
    OnOutput("InstallStart", "Installing", "Failed", "BundleVersionInconsistent"),
    OnOutput("InstallStart", "Installing", "Failed", "InstallFailed"),
    OnOutput("InstallStart", "Installing", "Downloading", "InstallFailedFallback"),
    On("Rollback", "Installing", "Idle"),
    On("Activate", "Installed", "Activating"),
    On("Rollback", "Installed", "Idle"),
    On("Cleanup", "Activating", "Cleaning"),
    On("Rollback", "Activating", "Idle"),
    On("Cleanup", "Failed", "Cleaning"),
    On("Rollback", "Failed", "Idle"),
    On("Waiting", "Cleaning", "Idle"),
    On("ConnectivityLost", "Idle", "Uninitialized"),
    OnOutput("Identify", "Idle", "Downloading", "BundleVersionOK"),
    OnOutput("Identify", "Idle", "Failed", "BundleVersionUnchanged"),
    On("GetCurrentState", "Idle", "SendCurrentState"),
    On("Waiting", "SendCurrentState", "Idle") >>

StateNames == {"Uninitialized", "Connected", "SendCurrentState", "Idle",
               "Downloading", "Installing", "Installed", "Activating",
               "Failed", "Cleaning"}

(* The rows at which the loop of handleEvent stops, after it has gone      *)
(* through the first n rows in state s: a row without an output, one whose *)
(* output is that of the body, or any one if the body is still to be run.  *)
(* The row for which the body was run is not compared with s again.        *)
Stops(n, s, event, output) ==
    {i \in DOMAIN Table :
        \/ i = n /\ Table[i].output = output
        \/ /\ i > n /\ Table[i].from = s /\ Table[i].when = event
           /\ output = Unset \/ Table[i].output \in {NotUsed, output}}

(* What the bodies return; State::body, which the others inherit, returns  *)
(* NotUsed.  Idle inherits the body of Connected.                          *)
BodyOutputs(s) ==
    CASE s \in {"Connected", "Idle"} -> {"BundleVersionOK", "BundleVersionUnchanged"}
      [] s = "Downloading" -> {"DownloadSucceeded", "DownloadFailed",
                               "BundleVersionOK", "BundleVersionInconsistent"}
      [] s = "Installing" -> {"InstallCompleted", "BundleVersionInconsistent",
                              "InstallFailed", "InstallFailedFallback"}
      [] OTHER -> {NotUsed}

----------------------------------------------------------------------------
(* What a call of handleEvent comes to when nobody interrupts it: it ends  *)
(* in t if it begins in s.                                                 *)

Row(i, event, from) == Table[i].when = event /\ Table[i].from = from

(* The loop finds no row, so that the event is dropped.                    *)
Drops(s, event) == \A i \in DOMAIN Table : ~Row(i, event, s)

(* The body is run, and what it returns is in no row.                      *)
Loses(s, event) ==
    /\ ~Drops(s, event)
    /\ \E output \in BodyOutputs(s) :
          \A i \in DOMAIN Table :
              Row(i, event, s) => Table[i].output \notin {NotUsed, output}

(* The states whose onEnter raises Waiting.                                *)
Transient == {"SendCurrentState", "Cleaning"}

(* A transition by row i, and the one that onEnter adds to it.             *)
Takes(i, t) ==
    IF Table[i].to \in Transient
    THEN \E j \in DOMAIN Table : Row(j, "Waiting", Table[i].to) /\ t = Table[j].to
    ELSE t = Table[i].to

HandleEvent(s, event, t) ==
    \/ (Drops(s, event) \/ Loses(s, event)) /\ t = s
    \/ \E i \in DOMAIN Table :
          /\ Row(i, event, s)
          /\ Table[i].output \in {NotUsed} \cup BodyOutputs(s)
          /\ Takes(i, t)
=============================================================================
