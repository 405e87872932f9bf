----------------------------- MODULE SlotUpdate -----------------------------
(***************************************************************************)
(* What an update of one of two system slots promises: the new image grows *)
(* in the slot that is not running, is offered when it is complete, and    *)
(* only an offered image can be armed for the next boot.  Up to then every *)
(* boot takes the running slot again.                                      *)
(***************************************************************************)
CONSTANTS Versions, Broken

VARIABLES
    running,    \* the image of the running slot
    spare,      \* the image of the slot that is not running
    stage       \* "quiet", "offered" or "armed"

svars == <<running, spare, stage>>

Init ==
    /\ running \in Versions
    /\ spare \in Versions \cup {Broken}
    /\ stage = "quiet"

(* Writing begins: the old content is gone, and so is an armed boot.       *)
Erase ==
    /\ stage # "offered"
    /\ spare' = Broken /\ stage' = "quiet"
    /\ UNCHANGED running

(* The new image is complete and waits to be armed.                        *)
Offer ==
    /\ stage = "quiet" /\ spare = Broken
    /\ spare' \in Versions /\ stage' = "offered"
    /\ UNCHANGED running

(* The offer is withdrawn: the image stays where it is, unused.            *)
Withdraw ==
    /\ stage = "offered" /\ stage' = "quiet"
    /\ UNCHANGED <<running, spare>>

Arm ==
    /\ stage = "offered" /\ stage' = "armed"
    /\ UNCHANGED <<running, spare>>

(* A boot takes the armed image, else the running one.                     *)
Boot ==
    /\ stage' = "quiet"
    /\ IF stage = "armed"
       THEN running' = spare /\ spare' = running
       ELSE UNCHANGED <<running, spare>>

Next == Erase \/ Offer \/ Withdraw \/ Arm \/ Boot

Spec == Init /\ [][Next]_svars
=============================================================================
