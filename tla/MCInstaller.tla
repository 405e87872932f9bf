---------------------------- MODULE MCInstaller ----------------------------
(* Installer on small instances.                                           *)
EXTENDS Installer

(* Nothing is assumed of RAUC: it may stop at any point.                   *)
LoopSpec == Spec /\ LoopRuns
=============================================================================
