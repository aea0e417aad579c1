--------------------------- MODULE CircuitBreaker ---------------------------
(***************************************************************************)
(* The per-key circuit breaker of src/src/circuit_breaker.rs.              *)
(*                                                                         *)
(* CircuitBreaker.keys is a DashMap: every public method takes the entry   *)
(* of one key, works under its shard lock and returns, so one call is one  *)
(* action.  Calls come from the key selection (is_available) and from the  *)
(* detached report tasks (record_success, record_failure), in any order.   *)
(* The part of the module above VARIABLE health is pure: KeyPool applies   *)
(* the same operators to its own copy of the map.                          *)
(***************************************************************************)
EXTENDS Naturals

CONSTANTS
    Keys,               \* identifiers of the upstream API keys
    FailureThreshold,   \* failure_threshold: 3 in KeyPool::new
    SuccessThreshold,   \* success_threshold: 2 in KeyPool::new
    Timeout,            \* timeout, in clock ticks: 60 s in KeyPool::new
    U32                 \* the counters are u32 and wrap at U32 (2^32)

ASSUME BreakerAssumption ==
    /\ U32 \in Nat
    /\ Timeout \in Nat
    /\ FailureThreshold \in Nat \ {0} /\ FailureThreshold < U32
    /\ SuccessThreshold \in Nat \ {0} /\ SuccessThreshold < U32

-----------------------------------------------------------------------------
(* The health of one key. `elapsed` stands for since.elapsed(): it counts  *)
(* the ticks since the key was opened and stops at Timeout, because the    *)
(* code only compares it with the timeout.  It is 0 unless Open.           *)

BreakerState == {"Closed", "Open", "HalfOpen"}

Health == [ state                 : BreakerState,
            elapsed               : 0..Timeout,
            consecutive_failures  : 0..(U32 - 1),
            consecutive_successes : 0..(U32 - 1) ]

\* What an entry can look like: only an open key has a window running, and the
\* counters count outcomes in a row, so never both kinds at once.
KeyHealth ==
    {h \in Health : /\ h.state # "Open" => h.elapsed = 0
                    /\ h.consecutive_failures = 0 \/ h.consecutive_successes = 0}

Entry(state, elapsed, failures, successes) ==
    [ state |-> state, elapsed |-> elapsed,
      consecutive_failures |-> failures, consecutive_successes |-> successes ]

\* The entry or_insert creates; an absent key is indistinguishable from it.
FreshHealth == Entry("Closed", 0, 0, 0)

\* Operators named Bug_... are deliberate mistakes; each is put in the place
\* of the definition that follows it to see that a property notices.

\* `+= 1` on a u32: the release build wraps.
Increment(n) == IF n + 1 = U32 THEN 0 ELSE n + 1

WindowOver(h) == h.state = "Open" /\ h.elapsed >= Timeout

\* What is_available returns for an entry ...
Admits(h) == h.state # "Open" \/ WindowOver(h)

Bug_ProbeKeepsSuccesses(h) ==
    IF WindowOver(h)
    THEN Entry("HalfOpen", 0, h.consecutive_failures, h.consecutive_successes)
    ELSE h

\* ... and what it leaves in the map: an expired window becomes HalfOpen.
AfterIsAvailable(h) ==
    IF WindowOver(h) THEN Entry("HalfOpen", 0, h.consecutive_failures, 0) ELSE h

Recovers(h) ==
    h.state = "HalfOpen" /\ Increment(h.consecutive_successes) >= SuccessThreshold

Bug_SuccessKeepsFailures(h) ==
    Entry(IF Recovers(h) THEN "Closed" ELSE h.state, h.elapsed,
          h.consecutive_failures, Increment(h.consecutive_successes))

AfterRecordSuccess(h) ==
    Entry(IF Recovers(h) THEN "Closed" ELSE h.state, h.elapsed,
          0, Increment(h.consecutive_successes))

Bug_AnyFailureReopens(h) ==
    h.state # "Closed" \/ Increment(h.consecutive_failures) >= FailureThreshold

\* A failure opens the key (and starts its window) from Closed at the
\* threshold and from HalfOpen at once; one that is already open stays as it is.
Trips(h) ==
    \/ h.state = "Closed" /\ Increment(h.consecutive_failures) >= FailureThreshold
    \/ h.state = "HalfOpen"

Bug_FailureKeepsSuccesses(h) ==
    Entry(IF Trips(h) THEN "Open" ELSE h.state, IF Trips(h) THEN 0 ELSE h.elapsed,
          Increment(h.consecutive_failures), h.consecutive_successes)

AfterRecordFailure(h) ==
    Entry(IF Trips(h) THEN "Open" ELSE h.state, IF Trips(h) THEN 0 ELSE h.elapsed,
          Increment(h.consecutive_failures), 0)

\* One tick of the clock as the entry sees it.
AfterTick(h) ==
    IF h.state = "Open" /\ h.elapsed < Timeout
    THEN Entry(h.state, h.elapsed + 1, h.consecutive_failures, h.consecutive_successes)
    ELSE h

-----------------------------------------------------------------------------
VARIABLE health     \* CircuitBreaker.keys

Init == health = [k \in Keys |-> FreshHealth]

IsAvailable(k)   == health' = [health EXCEPT ![k] = AfterIsAvailable(@)]
RecordSuccess(k) == health' = [health EXCEPT ![k] = AfterRecordSuccess(@)]
RecordFailure(k) == health' = [health EXCEPT ![k] = AfterRecordFailure(@)]
Tick             == health' = [k \in Keys |-> AfterTick(health[k])]

Next ==
    \/ \E k \in Keys : IsAvailable(k) \/ RecordSuccess(k) \/ RecordFailure(k)
    \/ Tick

Spec == Init /\ [][Next]_health

\* Time passes, and every key keeps being considered: key selection calls
\* is_available on every active key, so this is the assumption that requests
\* keep coming.  Nothing is assumed about reports.
FairSpec ==
    /\ Spec
    /\ WF_health(Tick)
    /\ \A k \in Keys : WF_health(IsAvailable(k))

-----------------------------------------------------------------------------
(* Properties *)

\* Every entry is a KeyHealth: record_success and record_failure each end the
\* run the other counts (also in states where the counter is not looked at, from
\* which a later probe would otherwise inherit it), and a window is left behind
\* whenever a key leaves Open.
TypeOK == health \in [Keys -> KeyHealth]

\* A closed key is always short of the failure threshold and a half-open key
\* short of the success threshold: no interleaving of reports, expiries and
\* counter wrap-arounds leaves a key that has already earned a transition and
\* has not made it (record_failure and record_success compare with >= and
\* is_available clears the successes gathered before the probe).
ThresholdsDecide ==
    \A k \in Keys :
        /\ health[k].state = "Closed"   => health[k].consecutive_failures < FailureThreshold
        /\ health[k].state = "HalfOpen" => health[k].consecutive_successes < SuccessThreshold

\* The outcomes in a row that count towards leaving the state of h.
Run(h) == IF h.state = "Closed" THEN h.consecutive_failures
          ELSE IF h.state = "HalfOpen" THEN h.consecutive_successes ELSE 0

Mode    == [k \in Keys |-> health[k].state]
Elapsed == [k \in Keys |-> health[k].elapsed]
RunOf   == [k \in Keys |-> Run(health[k])]

\* The promise of the breaker, without counters that run on in states where
\* they mean nothing and without wrapping.
Promise == INSTANCE BreakerPromise WITH mode <- Mode, run <- RunOf, elapsed <- Elapsed

\* The counters of the code implement the promise: a key opens exactly at
\* FailureThreshold failures in a row and closes exactly at SuccessThreshold
\* successes in a row since its probe began.
ImplementsPromise == Promise!Spec

\* A blown fuse never sticks: however many late failures are reported while a
\* key is open (they must not restart its window), it is offered for a probe.
OpenIsProbed ==
    \A k \in Keys : health[k].state = "Open" ~> health[k].state = "HalfOpen"

=============================================================================
