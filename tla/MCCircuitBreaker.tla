-------------------------- MODULE MCCircuitBreaker --------------------------
(* Instances of CircuitBreaker for TLC. *)
EXTENDS CircuitBreaker, TLC

CONSTANTS client1, client2, client3
ClientSymmetry == Permutations(Caller)
=============================================================================
