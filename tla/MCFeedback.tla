----------------------------- MODULE MCFeedback -----------------------------
(* Feedback on small instances: the constants TLC needs.                   *)
EXTENDS Feedback, TLC

(* What the unit tests of the protocol expect of the readers and of the    *)
(* writer, compared with the operators that this model uses for them.      *)
ASSUME ReadersAssumption == ReadersPassTheirTests
ASSUME WriterAssumption == WriterPassesItsTests

(* Versions and activities are only compared.                              *)
RequestSymmetry == Permutations(Versions) \cup Permutations(Activities)
=============================================================================
