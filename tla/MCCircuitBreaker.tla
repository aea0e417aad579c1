-------------------------- MODULE MCCircuitBreaker --------------------------
(* Two keys, the thresholds of KeyPool::new (3 failures, 2 successes), a   *)
(* window of 2 ticks and counters of 5 values, so that the counters wrap within it.       *)
EXTENDS CircuitBreaker

=============================================================================
