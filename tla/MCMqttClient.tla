----------------------------- MODULE MCMqttClient -----------------------------
(***************************************************************************)
(* MqttClient for TLC: one task that sends telemetry beside the command    *)
(* task, blocks of the heap as interchangeable model values.               *)
(***************************************************************************)
EXTENDS MqttClient, TLC

Symmetry == Permutations(Buffers)
=============================================================================
