--------------------------- MODULE BreakerPromise ---------------------------
(***************************************************************************)
(* What the circuit breaker of src/src/circuit_breaker.rs promises for     *)
(* each key (its header comment: blow after consecutive failures past the  *)
(* threshold, half-open after the timeout), as a machine with one          *)
(* unbounded run length per key instead of two u32 counters.               *)
(***************************************************************************)
EXTENDS Naturals

CONSTANTS Keys, FailureThreshold, SuccessThreshold, Timeout

VARIABLES
    mode,       \* mode[k]: Closed, Open or HalfOpen
    run,        \* run[k]: outcomes in a row that count towards leaving mode[k]
    elapsed     \* elapsed[k]: ticks since the key was opened, up to Timeout

vars == <<mode, run, elapsed>>

Init ==
    /\ mode    = [k \in Keys |-> "Closed"]
    /\ run     = [k \in Keys |-> 0]
    /\ elapsed = [k \in Keys |-> 0]

\* k moves to mode m with a new run.
Enter(k, m) ==
    /\ mode'    = [mode EXCEPT ![k] = m]
    /\ run'     = [run EXCEPT ![k] = 0]
    /\ elapsed' = [elapsed EXCEPT ![k] = 0]

SetRun(k, n) ==
    /\ run' = [run EXCEPT ![k] = n]
    /\ UNCHANGED <<mode, elapsed>>

Blow(k) ==
    \/ mode[k] = "Closed" /\ run[k] + 1 = FailureThreshold /\ Enter(k, "Open")
    \/ mode[k] = "HalfOpen" /\ Enter(k, "Open")

\* The failure count of a key that just closed starts at 0.
Recover(k) ==
    mode[k] = "HalfOpen" /\ run[k] + 1 = SuccessThreshold /\ Enter(k, "Closed")

CountFailure(k) ==
    mode[k] = "Closed" /\ run[k] + 1 < FailureThreshold /\ SetRun(k, run[k] + 1)

CountSuccess(k) ==
    mode[k] = "HalfOpen" /\ run[k] + 1 < SuccessThreshold /\ SetRun(k, run[k] + 1)

\* One success of a closed key forgets its failures.
Forgive(k) == mode[k] = "Closed" /\ SetRun(k, 0)

Probe(k) == mode[k] = "Open" /\ elapsed[k] = Timeout /\ Enter(k, "HalfOpen")

Tick ==
    /\ elapsed' = [k \in Keys |-> IF mode[k] = "Open" /\ elapsed[k] < Timeout
                                  THEN elapsed[k] + 1 ELSE elapsed[k]]
    /\ UNCHANGED <<mode, run>>

Next ==
    \/ \E k \in Keys : \/ Blow(k) \/ Recover(k) \/ Probe(k)
                       \/ CountFailure(k) \/ CountSuccess(k) \/ Forgive(k)
    \/ Tick

Spec == Init /\ [][Next]_vars

=============================================================================
