--------------------------- MODULE MCMqttProcessor ---------------------------
(* MqttProcessor on small instances.                                       *)
EXTENDS MqttProcessor, TLC

ThreadSymmetry == Permutations(Threads)
=============================================================================
