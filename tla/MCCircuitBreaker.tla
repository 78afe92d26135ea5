-------------------------- MODULE MCCircuitBreaker --------------------------
(* Small configurations of one circuit breaker for TLC. *)
EXTENDS CircuitBreaker

\* failure_threshold stays at 2 while half_open_max_probes is edited.
MCSteady == {[threshold |-> 2, probes |-> n] : n \in 0 .. 2}
=============================================================================
