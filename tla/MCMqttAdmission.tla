-------------------------- MODULE MCMqttAdmission --------------------------
(* MqttAdmission for TLC: requests and clients are symmetric.               *)
EXTENDS MqttAdmission, TLC

Symmetry == Permutations(Requests) \union Permutations(Clients)
=============================================================================
