---------------------------- MODULE Installation ----------------------------
(***************************************************************************)
(* What Installing::body relies on when it has RAUC install a bundle: at   *)
(* most one installation at a time, a success only for the one that was    *)
(* asked for, and a RAUC at rest from then until the next call.  Installer *)
(* shows how signals and polls keep this; SelfUpdateAgent builds on it.    *)
(***************************************************************************)
VARIABLES
    waiting,    \* does the agent wait for the end of an installation?
    job,        \* RAUC installs "none", the bundle "asked" for, or a "stray"
                \* one that nobody waits for (any more)
    ended,      \* how the installation ended that is waited for, or "none"
    success     \* does the agent take its bundle for installed?

ivars == <<waiting, job, ended, success>>

Init == ~waiting /\ job \in {"none", "stray"} /\ ended = "none" /\ success = FALSE

(* RAUC takes the bundle.                                                  *)
Ask ==
    /\ ~waiting /\ job = "none"
    /\ waiting' = TRUE /\ job' = "asked" /\ ended' = "none" /\ success' = FALSE

(* RAUC takes the bundle, but the agent does not get to know it.           *)
LoseReply ==
    /\ ~waiting /\ job = "none"
    /\ job' = "stray" /\ success' = FALSE
    /\ UNCHANGED <<waiting, ended>>

End(result) ==
    /\ job # "none" /\ job' = "none"
    /\ ended' = IF job = "asked" THEN result ELSE ended
    /\ UNCHANGED <<waiting, success>>

Succeed ==
    /\ waiting /\ ended = "ok"
    /\ waiting' = FALSE /\ ended' = "none" /\ success' = TRUE
    /\ UNCHANGED job

(* The agent fails, gives up, is restarted, or has something else to do.   *)
(* It does not stop RAUC.                                                  *)
GiveUp ==
    /\ waiting' = FALSE /\ ended' = "none" /\ success' = FALSE
    /\ job' = IF job = "none" THEN "none" ELSE "stray"

PowerOff == waiting' = FALSE /\ ended' = "none" /\ success' = FALSE /\ job' = "none"

Next ==
    \/ Ask
    \/ LoseReply
    \/ End("ok") \/ End("failed")
    \/ Succeed
    \/ GiveUp
    \/ PowerOff

Spec == Init /\ [][Next]_ivars
=============================================================================
