-------------------------- MODULE MCCircuitBreaker --------------------------
(* CircuitBreaker with three overlapping callers. The periods run 2, 4, 6    *)
(* (the cap), and a fourth re-open overflows the shift modulo 32.                *)
EXTENDS CircuitBreaker

=============================================================================
