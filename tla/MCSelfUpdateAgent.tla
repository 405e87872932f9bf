------------------------- MODULE MCSelfUpdateAgent -------------------------
(* SelfUpdateAgent on small instances: the constants TLC needs.            *)
EXTENDS SelfUpdateAgent, TLC

VersionSymmetry == Permutations(Versions)
=============================================================================
