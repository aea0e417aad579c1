------------------------ MODULE CircuitBreakerProofs ------------------------
(***************************************************************************)
(* Theorems about CircuitBreaker, for every set of keys, every window and  *)
(* every pair of thresholds that fits the counters.                        *)
(***************************************************************************)
EXTENDS CircuitBreaker, TLAPS

\* The inductive invariant of one entry: its type, with one run of outcomes at a
\* time and no window unless it is open (the promise resets the window on the
\* way out), and its distance from the threshold its state looks at.  The latter
\* is what makes wrapping harmless: in a state where a counter is compared it is
\* below its threshold, hence below U32 - 1.
Decided(h) ==
    /\ h.state = "Closed"   => h.consecutive_failures < FailureThreshold
    /\ h.state = "HalfOpen" => h.consecutive_successes < SuccessThreshold

Sound(h) == h \in KeyHealth /\ Decided(h)

IInv == health \in [Keys -> KeyHealth] /\ \A k \in Keys : Sound(health[k])

-----------------------------------------------------------------------------
(* Each operation of the breaker keeps an entry sound. *)

\* The entry or_insert creates is sound.
LEMMA FreshSound == Sound(FreshHealth)
BY BreakerAssumption
   DEF Sound, Decided, KeyHealth, Health, BreakerState, FreshHealth, Entry

\* is_available: entering HalfOpen clears the successes gathered before.
LEMMA IsAvailableSound ==
    ASSUME NEW h, Sound(h)
    PROVE  Sound(AfterIsAvailable(h))
BY BreakerAssumption
   DEF Sound, Decided, KeyHealth, Health, BreakerState,
       AfterIsAvailable, WindowOver, Entry

\* record_success: a half-open key at its threshold closes with no failures.
LEMMA RecordSuccessSound ==
    ASSUME NEW h, Sound(h)
    PROVE  Sound(AfterRecordSuccess(h))
BY BreakerAssumption
   DEF Sound, Decided, KeyHealth, Health, BreakerState,
       AfterRecordSuccess, Recovers, Increment, Entry

\* record_failure: a closed key at its threshold opens.
LEMMA RecordFailureSound ==
    ASSUME NEW h, Sound(h)
    PROVE  Sound(AfterRecordFailure(h))
BY BreakerAssumption
   DEF Sound, Decided, KeyHealth, Health, BreakerState,
       AfterRecordFailure, Trips, Increment, Entry

\* The clock only moves windows that are running.
LEMMA TickSound ==
    ASSUME NEW h, Sound(h)
    PROVE  Sound(AfterTick(h))
BY BreakerAssumption
   DEF Sound, Decided, KeyHealth, Health, BreakerState, AfterTick, Entry

\* Replacing one entry by a sound one keeps the invariant.
LEMMA UpdateSound ==
    ASSUME IInv, NEW k \in Keys, NEW g, Sound(g),
           health' = [health EXCEPT ![k] = g]
    PROVE  IInv'
<1>1. health' \in [Keys -> KeyHealth]
  BY DEF IInv, Sound
<1>2. ASSUME NEW i \in Keys PROVE Sound(health'[i])
  BY DEF IInv
<1> QED
  BY <1>1, <1>2 DEF IInv, Sound, Decided

-----------------------------------------------------------------------------
(* The invariant. *)

\* A new breaker has an empty map: every key starts as a fresh entry.
LEMMA InitIInv == Init => IInv
BY FreshSound DEF Init, IInv, Sound

\* Every call on every key, and the clock, preserve the invariant.
LEMMA NextIInv == IInv /\ [Next]_health => IInv'
<1> SUFFICES ASSUME IInv, [Next]_health PROVE IInv'
  OBVIOUS
<1>1. ASSUME NEW k \in Keys, IsAvailable(k) PROVE IInv'
  BY <1>1, IsAvailableSound, UpdateSound DEF IInv, IsAvailable
<1>2. ASSUME NEW k \in Keys, RecordSuccess(k) PROVE IInv'
  BY <1>2, RecordSuccessSound, UpdateSound DEF IInv, RecordSuccess
<1>3. ASSUME NEW k \in Keys, RecordFailure(k) PROVE IInv'
  BY <1>3, RecordFailureSound, UpdateSound DEF IInv, RecordFailure
<1>4. CASE Tick
  <2>1. \A k \in Keys : health'[k] = AfterTick(health[k])
    BY <1>4 DEF Tick
  <2>2. \A k \in Keys : Sound(health'[k])
    BY <2>1, TickSound DEF IInv
  <2>3. health' \in [Keys -> KeyHealth]
    BY <1>4, TickSound DEF Tick, IInv, Sound
  <2> QED
    BY <2>2, <2>3 DEF IInv, Sound, Decided
<1>5. CASE UNCHANGED health
  BY <1>5 DEF IInv, Sound, Decided
<1> QED
  BY <1>1, <1>2, <1>3, <1>4, <1>5 DEF Next

\* The inductive invariant holds in every reachable state of the breaker.
THEOREM BreakerInvariant == Spec => []IInv
BY InitIInv, NextIInv, PTL DEF Spec

\* Type correctness, with what it says of runs and windows: whatever the order of
\* reports, expiries and probes, no entry keeps a run of both kinds of outcome.
THEOREM TypeCorrect == Spec => []TypeOK
<1>1. IInv => TypeOK
  BY DEF IInv, TypeOK
<1> QED
  BY <1>1, BreakerInvariant, PTL

\* No key is ever left at or past the threshold its state compares with.
THEOREM ThresholdsDecideHolds == Spec => []ThresholdsDecide
<1>1. IInv => ThresholdsDecide
  BY DEF IInv, Sound, Decided, ThresholdsDecide
<1> QED
  BY <1>1, BreakerInvariant, PTL

-----------------------------------------------------------------------------
(* The breaker implements its promise. *)

\* What replacing one entry does to the three variables of the promise.
LEMMA UpdateMapped ==
    ASSUME health \in [Keys -> KeyHealth], NEW k \in Keys, NEW g,
           health' = [health EXCEPT ![k] = g]
    PROVE  /\ Mode'    = [Mode EXCEPT ![k] = g.state]
           /\ RunOf'   = [RunOf EXCEPT ![k] = Run(g)]
           /\ Elapsed' = [Elapsed EXCEPT ![k] = g.elapsed]
<1>1. \A i \in Keys : health'[i] = IF i = k THEN g ELSE health[i]
  OBVIOUS
<1>2. Mode' = [Mode EXCEPT ![k] = g.state]
  BY <1>1 DEF Mode
<1>3. RunOf' = [RunOf EXCEPT ![k] = Run(g)]
  BY <1>1 DEF RunOf, Run
<1>4. Elapsed' = [Elapsed EXCEPT ![k] = g.elapsed]
  BY <1>1 DEF Elapsed
<1> QED
  BY <1>2, <1>3, <1>4

\* A step of one key is a step of the promise, when the new entry relates to
\* the old one as one of the promise's actions says, or leaves it alone.
LEMMA IsAvailableImplements ==
    ASSUME IInv, NEW k \in Keys, IsAvailable(k)
    PROVE  [Promise!Next]_(Promise!vars)
<1> DEFINE h == health[k]
           g == AfterIsAvailable(h)
<1>1. Sound(h) /\ Mode[k] = h.state /\ RunOf[k] = Run(h) /\ Elapsed[k] = h.elapsed
  BY DEF IInv, Mode, RunOf, Elapsed
<1>2. /\ Mode'    = [Mode EXCEPT ![k] = g.state]
      /\ RunOf'   = [RunOf EXCEPT ![k] = Run(g)]
      /\ Elapsed' = [Elapsed EXCEPT ![k] = g.elapsed]
  BY UpdateMapped DEF IsAvailable, IInv
<1>3. CASE WindowOver(h)
  <2>1. g.state = "HalfOpen" /\ Run(g) = 0 /\ g.elapsed = 0
    BY <1>3 DEF AfterIsAvailable, Entry, Run
  <2>2. h.state = "Open" /\ h.elapsed = Timeout
    BY <1>1, <1>3, BreakerAssumption DEF WindowOver, Sound, KeyHealth, Health
  <2>3. Promise!Probe(k)
    BY <1>1, <1>2, <2>1, <2>2 DEF Promise!Probe, Promise!Enter
  <2> QED
    BY <2>3 DEF Promise!Next
<1>4. CASE ~WindowOver(h)
  <2>1. g = h
    BY <1>4 DEF AfterIsAvailable
  <2>2. UNCHANGED health
    BY <2>1 DEF IsAvailable, IInv
  <2> QED
    BY <2>2 DEF Promise!vars, Mode, RunOf, Elapsed
<1> QED
  BY <1>3, <1>4

\* record_success forgives a closed key, counts or completes a probe, and
\* changes nothing the promise sees of an open key.
LEMMA RecordSuccessImplements ==
    ASSUME IInv, NEW k \in Keys, RecordSuccess(k)
    PROVE  [Promise!Next]_(Promise!vars)
<1> DEFINE h == health[k]
           g == AfterRecordSuccess(h)
<1>1. Sound(h) /\ Mode[k] = h.state /\ RunOf[k] = Run(h) /\ Elapsed[k] = h.elapsed
  BY DEF IInv, Mode, RunOf, Elapsed
<1>2. /\ Mode'    = [Mode EXCEPT ![k] = g.state]
      /\ RunOf'   = [RunOf EXCEPT ![k] = Run(g)]
      /\ Elapsed' = [Elapsed EXCEPT ![k] = g.elapsed]
  BY UpdateMapped DEF RecordSuccess, IInv
<1>3. CASE h.state = "Closed"
  <2>1. g.state = h.state /\ Run(g) = 0 /\ g.elapsed = h.elapsed
    BY <1>3 DEF AfterRecordSuccess, Recovers, Entry, Run
  <2>2. Promise!Forgive(k)
    BY <1>1, <1>2, <1>3, <2>1 DEF Promise!Forgive, Promise!SetRun, Mode, Elapsed
  <2> QED
    BY <2>2 DEF Promise!Next
<1>4. CASE h.state = "HalfOpen"
  <2> DEFINE n == h.consecutive_successes
  <2>1. n \in Nat /\ n < SuccessThreshold /\ Increment(n) = n + 1 /\ h.elapsed = 0 /\ RunOf[k] = n
    BY <1>1, <1>4, BreakerAssumption
       DEF Sound, Decided, KeyHealth, Health, Increment, Run
  <2>2. CASE n + 1 = SuccessThreshold
    <3>1. g.state = "Closed" /\ Run(g) = 0 /\ g.elapsed = 0
      BY <1>4, <2>1, <2>2, BreakerAssumption DEF AfterRecordSuccess, Recovers, Entry, Run
    <3>2. Promise!Recover(k)
      BY <1>1, <1>2, <1>4, <2>1, <2>2, <3>1 DEF Promise!Recover, Promise!Enter
    <3> QED
      BY <3>2 DEF Promise!Next
  <2>3. CASE n + 1 # SuccessThreshold
    <3>1. n + 1 < SuccessThreshold
      BY <2>1, <2>3, BreakerAssumption
    <3>2. g.state = h.state /\ Run(g) = n + 1 /\ g.elapsed = h.elapsed
      BY <1>4, <2>1, <3>1, BreakerAssumption DEF AfterRecordSuccess, Recovers, Entry, Run
    <3>3. Promise!CountSuccess(k)
      BY <1>1, <1>2, <1>4, <2>1, <3>1, <3>2
         DEF Promise!CountSuccess, Promise!SetRun, Mode, Elapsed
    <3> QED
      BY <3>3 DEF Promise!Next
  <2> QED
    BY <2>2, <2>3
<1>5. CASE h.state = "Open"
  <2>1. g.state = h.state /\ Run(g) = Run(h) /\ g.elapsed = h.elapsed
    BY <1>5 DEF AfterRecordSuccess, Recovers, Entry, Run
  <2>2. UNCHANGED <<Mode, RunOf, Elapsed>>
    BY <1>1, <1>2, <2>1 DEF Mode, RunOf, Elapsed
  <2> QED
    BY <2>2 DEF Promise!vars
<1> QED
  BY <1>1, <1>3, <1>4, <1>5 DEF Sound, KeyHealth, Health, BreakerState

\* record_failure blows a half-open key, and a closed one at the threshold;
\* otherwise it counts, or changes nothing the promise sees of an open key.
LEMMA RecordFailureImplements ==
    ASSUME IInv, NEW k \in Keys, RecordFailure(k)
    PROVE  [Promise!Next]_(Promise!vars)
<1> DEFINE h == health[k]
           g == AfterRecordFailure(h)
<1>1. Sound(h) /\ Mode[k] = h.state /\ RunOf[k] = Run(h) /\ Elapsed[k] = h.elapsed
  BY DEF IInv, Mode, RunOf, Elapsed
<1>2. /\ Mode'    = [Mode EXCEPT ![k] = g.state]
      /\ RunOf'   = [RunOf EXCEPT ![k] = Run(g)]
      /\ Elapsed' = [Elapsed EXCEPT ![k] = g.elapsed]
  BY UpdateMapped DEF RecordFailure, IInv
<1>3. CASE h.state = "Closed"
  <2> DEFINE n == h.consecutive_failures
  <2>1. n \in Nat /\ n < FailureThreshold /\ Increment(n) = n + 1 /\ h.elapsed = 0 /\ RunOf[k] = n
    BY <1>1, <1>3, BreakerAssumption
       DEF Sound, Decided, KeyHealth, Health, Increment, Run
  <2>2. CASE n + 1 = FailureThreshold
    <3>1. g.state = "Open" /\ Run(g) = 0 /\ g.elapsed = 0
      BY <1>3, <2>1, <2>2, BreakerAssumption DEF AfterRecordFailure, Trips, Entry, Run
    <3>2. Promise!Blow(k)
      BY <1>1, <1>2, <1>3, <2>1, <2>2, <3>1 DEF Promise!Blow, Promise!Enter
    <3> QED
      BY <3>2 DEF Promise!Next
  <2>3. CASE n + 1 # FailureThreshold
    <3>1. n + 1 < FailureThreshold
      BY <2>1, <2>3, BreakerAssumption
    <3>2. g.state = h.state /\ Run(g) = n + 1 /\ g.elapsed = h.elapsed
      BY <1>3, <2>1, <3>1, BreakerAssumption DEF AfterRecordFailure, Trips, Entry, Run
    <3>3. Promise!CountFailure(k)
      BY <1>1, <1>2, <1>3, <2>1, <3>1, <3>2
         DEF Promise!CountFailure, Promise!SetRun, Mode, Elapsed
    <3> QED
      BY <3>3 DEF Promise!Next
  <2> QED
    BY <2>2, <2>3
<1>4. CASE h.state = "HalfOpen"
  <2>1. g.state = "Open" /\ Run(g) = 0 /\ g.elapsed = 0
    BY <1>4 DEF AfterRecordFailure, Trips, Entry, Run
  <2>2. Promise!Blow(k)
    BY <1>1, <1>2, <1>4, <2>1 DEF Promise!Blow, Promise!Enter
  <2> QED
    BY <2>2 DEF Promise!Next
<1>5. CASE h.state = "Open"
  <2>1. g.state = h.state /\ Run(g) = Run(h) /\ g.elapsed = h.elapsed
    BY <1>5 DEF AfterRecordFailure, Trips, Entry, Run
  <2>2. UNCHANGED <<Mode, RunOf, Elapsed>>
    BY <1>1, <1>2, <2>1 DEF Mode, RunOf, Elapsed
  <2> QED
    BY <2>2 DEF Promise!vars
<1> QED
  BY <1>1, <1>3, <1>4, <1>5 DEF Sound, KeyHealth, Health, BreakerState

\* A tick of the code's clock is a tick of the promise.
LEMMA TickImplements ==
    ASSUME IInv, Tick
    PROVE  Promise!Tick
<1>1. \A k \in Keys : /\ health'[k].state = health[k].state
                      /\ Run(health'[k]) = Run(health[k])
                      /\ health'[k].elapsed = IF health[k].state = "Open" /\ health[k].elapsed < Timeout
                                              THEN health[k].elapsed + 1 ELSE health[k].elapsed
  <2> SUFFICES ASSUME NEW k \in Keys
               PROVE  /\ health'[k].state = health[k].state
                      /\ Run(health'[k]) = Run(health[k])
                      /\ health'[k].elapsed = IF health[k].state = "Open" /\ health[k].elapsed < Timeout
                                              THEN health[k].elapsed + 1 ELSE health[k].elapsed
    OBVIOUS
  <2>1. health'[k] = AfterTick(health[k])
    BY DEF Tick
  <2>2. CASE health[k].state = "Open" /\ health[k].elapsed < Timeout
    BY <2>1, <2>2 DEF AfterTick, Entry, Run
  <2>3. CASE ~(health[k].state = "Open" /\ health[k].elapsed < Timeout)
    BY <2>1, <2>3 DEF AfterTick, Run
  <2> QED
    BY <2>2, <2>3
<1> QED
  BY <1>1 DEF Promise!Tick, Mode, RunOf, Elapsed

\* The code's u32 counters implement the promise of the breaker: it opens after
\* exactly FailureThreshold failures in a row, probes after Timeout, and closes
\* after exactly SuccessThreshold successes in a row, for ever.
THEOREM BreakerImplementsPromise == Spec => ImplementsPromise
<1>1. Init => Promise!Init
  BY DEF Init, Promise!Init, Mode, RunOf, Elapsed, FreshHealth, Entry, Run
<1>2. IInv /\ [Next]_health => [Promise!Next]_(Promise!vars)
  <2> SUFFICES ASSUME IInv, [Next]_health PROVE [Promise!Next]_(Promise!vars)
    OBVIOUS
  <2>1. CASE UNCHANGED health
    BY <2>1 DEF Promise!vars, Mode, RunOf, Elapsed
  <2>2. CASE Tick
    BY <2>2, TickImplements DEF Promise!Next
  <2> QED
    BY <2>1, <2>2, IsAvailableImplements, RecordSuccessImplements, RecordFailureImplements
       DEF Next
<1> QED
  BY <1>1, <1>2, BreakerInvariant, PTL DEF Spec, ImplementsPromise, Promise!Spec

=============================================================================
