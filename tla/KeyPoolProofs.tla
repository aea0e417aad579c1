--------------------------- MODULE KeyPoolProofs ---------------------------
(***************************************************************************)
(* Theorems about KeyPool, for any number of keys, endpoints, requests and *)
(* report tasks, any models and limits, and any thresholds of the breaker. *)
(***************************************************************************)
EXTENDS KeyPool, NumberInduction, FiniteSetTheorems, TLAPS

\* What is shown of a single breaker entry there is used for the pool's map.
Proved == INSTANCE CircuitBreakerProofs

-----------------------------------------------------------------------------
(* The order of the keys. *)

\* Among any keys one was created first.
LEMMA FirstKey ==
    ASSUME NEW ks \in SUBSET Keys, ks # {}
    PROVE  \E k \in ks : \A j \in ks : CreatedAt[k] <= CreatedAt[j]
<1> DEFINE times == {CreatedAt[k] : k \in ks}
<1>1. times \in SUBSET Nat /\ times # {}
  BY PoolAssumption
<1>2. PICK x \in times : \A y \in times : x <= y
  BY <1>1, LeastNumber
<1> QED
  BY <1>2

\* The keys of ks that come before k.
Before(ks, k) == {j \in ks : CreatedAt[j] < CreatedAt[k]}

\* A list has an element at every index below its length.
LEMMA NthExists ==
    ASSUME NEW ks \in SUBSET Keys, NEW n \in Nat, n < Cardinality(ks)
    PROVE  \E k \in ks : Cardinality(Before(ks, k)) = n
<1> DEFINE Good == {i \in Nat : i < Cardinality(ks) => \E k \in ks : Cardinality(Before(ks, k)) = i}
<1>1. IsFiniteSet(ks) /\ Cardinality(ks) \in Nat
  BY PoolAssumption, FS_Subset, FS_CardinalityType
<1>2. 0 \in Good
  <2> SUFFICES ASSUME 0 < Cardinality(ks)
               PROVE  \E k \in ks : Cardinality(Before(ks, k)) = 0
    OBVIOUS
  <2>1. PICK k \in ks : \A j \in ks : CreatedAt[k] <= CreatedAt[j]
    BY <1>1, FS_EmptySet, FirstKey
  <2>2. Before(ks, k) = {}
    BY <2>1, PoolAssumption DEF Before
  <2> QED
    BY <2>2, FS_EmptySet
<1>3. ASSUME NEW i \in Good PROVE i + 1 \in Good
  <2> SUFFICES ASSUME i + 1 < Cardinality(ks)
               PROVE  \E k \in ks : Cardinality(Before(ks, k)) = i + 1
    OBVIOUS
  <2>1. PICK k \in ks : Cardinality(Before(ks, k)) = i
    BY <1>1
  <2> DEFINE later == {j \in ks : CreatedAt[k] < CreatedAt[j]}
  <2>2. IsFiniteSet(Before(ks, k))
    BY <1>1, FS_Subset DEF Before
  <2>3. k \notin Before(ks, k)
    BY PoolAssumption DEF Before
  <2>4. Cardinality(Before(ks, k) \union {k}) = i + 1
    BY <2>1, <2>2, <2>3, FS_AddElement
  <2>5. later # {}
    <3> SUFFICES ASSUME later = {} PROVE FALSE
      OBVIOUS
    <3>1. ks = Before(ks, k) \union {k}
      BY PoolAssumption DEF Before
    <3> QED
      BY <3>1, <2>4
  <2>6. PICK m \in later : \A j \in later : CreatedAt[m] <= CreatedAt[j]
    BY <2>5, FirstKey
  <2>7. Before(ks, m) = Before(ks, k) \union {k}
    BY <2>6, PoolAssumption DEF Before
  <2> QED
    BY <2>4, <2>6, <2>7
<1>4. Good = Nat
  BY <1>2, <1>3, Induction
<1> QED
  BY <1>4

\* ... which is what Nth names.
LEMMA NthElement ==
    ASSUME NEW ks \in SUBSET Keys, NEW n \in Nat, n < Cardinality(ks)
    PROVE  Nth(ks, n) \in ks
BY NthExists DEF Nth, Before

\* Round robin over keys that are not empty finds one of them.
LEMMA RoundRobinElement ==
    ASSUME NEW ks \in SUBSET Keys, ks # {}, counter \in Nat
    PROVE  RoundRobin(ks) \in ks
<1>1. Cardinality(ks) \in Nat \ {0}
  BY PoolAssumption, FS_Subset, FS_CardinalityType, FS_EmptySet
<1>2. counter % Cardinality(ks) \in Nat /\ counter % Cardinality(ks) < Cardinality(ks)
  BY <1>1, Z3
<1> QED
  BY <1>2, NthElement DEF RoundRobin

-----------------------------------------------------------------------------
(* The breaker of the pool. *)

Sound(h) == Proved!Sound(h)

\* What CircuitBreakerProofs shows of an entry holds of the pool's entries.
LEMMA EntriesSound ==
    /\ Sound(Breaker!FreshHealth)
    /\ \A h : Sound(h) => /\ h \in Breaker!KeyHealth
                          /\ Sound(Breaker!AfterIsAvailable(h))
                          /\ Sound(Breaker!AfterRecordSuccess(h))
                          /\ Sound(Breaker!AfterRecordFailure(h))
                          /\ Sound(Breaker!AfterTick(h))
<1> USE BreakerAssumption DEF Sound, Breaker!BreakerAssumption, Breaker!Entry, Proved!Entry
<1>1. Sound(Breaker!FreshHealth)
  BY Proved!FreshSound DEF Breaker!FreshHealth, Proved!FreshHealth
<1> SUFFICES ASSUME NEW h, Sound(h)
             PROVE  /\ h \in Breaker!KeyHealth
                    /\ Sound(Breaker!AfterIsAvailable(h))
                    /\ Sound(Breaker!AfterRecordSuccess(h))
                    /\ Sound(Breaker!AfterRecordFailure(h))
                    /\ Sound(Breaker!AfterTick(h))
  BY <1>1
<1>2. h \in Breaker!KeyHealth
  BY DEF Proved!Sound, Proved!KeyHealth, Breaker!KeyHealth, Proved!Health, Breaker!Health, Proved!BreakerState, Breaker!BreakerState
<1>3. Sound(Breaker!AfterIsAvailable(h))
  BY Proved!IsAvailableSound
     DEF Breaker!AfterIsAvailable, Proved!AfterIsAvailable, Breaker!WindowOver, Proved!WindowOver
<1>4. Sound(Breaker!AfterRecordSuccess(h))
  BY Proved!RecordSuccessSound
     DEF Breaker!AfterRecordSuccess, Proved!AfterRecordSuccess, Breaker!Recovers, Proved!Recovers,
         Breaker!Increment, Proved!Increment
<1>5. Sound(Breaker!AfterRecordFailure(h))
  BY Proved!RecordFailureSound
     DEF Breaker!AfterRecordFailure, Proved!AfterRecordFailure, Breaker!Trips, Proved!Trips,
         Breaker!Increment, Proved!Increment
<1>6. Sound(Breaker!AfterTick(h))
  BY Proved!TickSound DEF Breaker!AfterTick, Proved!AfterTick
<1> QED
  BY <1>2, <1>3, <1>4, <1>5, <1>6

-----------------------------------------------------------------------------
(* The inductive invariant. *)

\* Every entry of the breaker is of its type and short of its threshold.
Entries == health \in [Keys -> Breaker!KeyHealth] /\ \A k \in Keys : Sound(health[k])

\* The types of the rows and the histories, of the requests, of the reports.
TypeRest ==
    /\ active \in [Keys -> BOOLEAN]
    /\ failed \in [Keys -> Nat]
    /\ serving \subseteq Endpoints
    /\ seen \in [Keys -> Nat]
    /\ lost \in [Keys -> Nat]
    /\ unauthorized \subseteq Keys
    /\ spared \subseteq Keys
    /\ excused \subseteq Keys

TypeRequest ==
    /\ counter \in 0..(CounterMod - 1)
    /\ pc \in [Requests -> {"idle", "filter", "refused", "sent"}]
    /\ keys \in [Requests -> SUBSET Keys]
    /\ checked \in [Requests -> Nat]
    /\ available \in [Requests -> SUBSET Keys]
    /\ matching \in [Requests -> SUBSET Keys]
    /\ chosen \in [Requests -> Keys \union {NoKey}]

TypeReport == report \in [Reports -> [pc : ReportPc, key : Keys \union {NoKey}, outcome : Outcome]]

\* A request that filters has a snapshot, matching is what Serves makes of the
\* keys the breaker admitted, and a choice is gone with its attempt.
Filtering ==
    \A r \in Requests :
        /\ pc[r] = "filter" => keys[r] # {}
        /\ matching[r] = {k \in available[r] : Serves(r, k)}
        /\ pc[r] # "sent" => chosen[r] = NoKey

Choosing == TypeRequest /\ Filtering /\ SentKeyServesModel

\* A report names a key until it ends, and only a 401 disables one outright.
Reporting ==
    \A t \in Reports :
        /\ report[t].pc = "free" <=> report[t].key = NoKey
        /\ report[t].pc = "disable" => report[t].outcome = "401"

\* A key that should be out of service is, or a report is about to see to it, or
\* the history says what went wrong.
Retiring ==
    \A k \in Keys : active[k] =>
        /\ k \in unauthorized =>
             \/ k \in spared
             \/ \E t \in Reports : /\ report[t].key = k /\ report[t].outcome = "401"
                                   /\ report[t].pc \in {"breaker", "disable"}
        /\ OverLimit(k) =>
             \/ k \in excused
             \/ \E t \in Reports : report[t].key = k /\ report[t].pc \in {"read", "blacklist"}

IInv ==
    /\ Entries /\ TypeRest /\ TypeReport /\ Choosing
    /\ Reporting /\ FailuresCounted /\ Retiring

-----------------------------------------------------------------------------
(* The steps, by the part of the state they change. *)

\* Only four steps touch the breaker, each as its interface allows.
LEMMA HealthSteps ==
    ASSUME IInv, [Next]_vars
    PROVE  \/ Breaker!Next
           \/ health' = [k \in Keys |-> Breaker!FreshHealth]
           \/ UNCHANGED health
<1>1. ASSUME NEW r \in Requests, CheckKey(r) PROVE Breaker!Next
  <2> DEFINE k == Nth(keys[r], checked[r])
  <2>1. k \in Keys
    BY <1>1, NthElement DEF CheckKey, IInv, Choosing, TypeRequest
  <2>2. Breaker!IsAvailable(k)
    BY <1>1 DEF CheckKey, Breaker!IsAvailable
  <2> QED
    BY <2>1, <2>2 DEF Breaker!Next
<1>2. ASSUME NEW t \in Reports, ReportToBreaker(t) PROVE Breaker!Next
  <2> DEFINE k == report[t].key
  <2>1. k \in Keys
    BY <1>2 DEF ReportToBreaker, IInv, TypeReport, Reporting
  <2>2. Breaker!RecordFailure(k) \/ Breaker!RecordSuccess(k)
    BY <1>2 DEF ReportToBreaker, Breaker!RecordFailure, Breaker!RecordSuccess
  <2> QED
    BY <2>1, <2>2 DEF Breaker!Next
<1>3. CASE Tick
  BY <1>3 DEF Tick, Breaker!Next, Breaker!Tick
<1>4. CASE Restart
  BY <1>4 DEF Restart
<1>5. ASSUME NEW r \in Requests, RequestStep(r), ~CheckKey(r) PROVE UNCHANGED health
  BY <1>5 DEF RequestStep, TakeSnapshot, SnapshotFails, RefuseModel, SelectKey, EndUnreported, Answer
<1>6. ASSUME NEW t \in Reports, ReportStep(t), ~ReportToBreaker(t) PROVE UNCHANGED health
  BY <1>6 DEF ReportStep, DisableUnauthorized, CountStats, CountFails, AfterCount,
                ReadFailures, ReadFails, Blacklist
<1>7. CASE Administer
  BY <1>7 DEF Administer, TestPassed, UpdateKeyStatus, RestoreInvalidKeys, UpdateEndpointStatus, PutBack
<1>8. CASE UNCHANGED vars
  BY <1>8 DEF vars
<1> QED
  BY <1>1, <1>2, <1>3, <1>4, <1>5, <1>6, <1>7, <1>8 DEF Next

\* Calls of the breaker and restarts keep its entries sound.
LEMMA EntriesKept == IInv /\ [Next]_vars => Entries'
<1> SUFFICES ASSUME IInv, [Next]_vars PROVE Entries'
  OBVIOUS
<1> USE DEF IInv, Entries
<1>1. ASSUME NEW k \in Keys, NEW h, Sound(h), health' = [health EXCEPT ![k] = h] PROVE Entries'
  <2>1. h \in Breaker!KeyHealth
    BY <1>1, EntriesSound
  <2> QED
    BY <1>1, <2>1 DEF Sound, Proved!Sound, Proved!Decided
<1>2. ASSUME NEW k \in Keys, Breaker!IsAvailable(k) PROVE Entries'
  BY <1>1, <1>2, EntriesSound DEF Breaker!IsAvailable
<1>3. ASSUME NEW k \in Keys, Breaker!RecordSuccess(k) PROVE Entries'
  BY <1>1, <1>3, EntriesSound DEF Breaker!RecordSuccess
<1>4. ASSUME NEW k \in Keys, Breaker!RecordFailure(k) PROVE Entries'
  BY <1>1, <1>4, EntriesSound DEF Breaker!RecordFailure
<1>5. ASSUME Breaker!Tick PROVE Entries'
  <2>1. \A k \in Keys : Sound(Breaker!AfterTick(health[k])) /\ Breaker!AfterTick(health[k]) \in Breaker!KeyHealth
    BY EntriesSound
  <2> QED
    BY <1>5, <2>1 DEF Breaker!Tick, Sound, Proved!Sound, Proved!Decided
<1>6. ASSUME health' = [k \in Keys |-> Breaker!FreshHealth] PROVE Entries'
  BY <1>6, EntriesSound DEF Sound, Proved!Sound, Proved!Decided
<1>7. ASSUME UNCHANGED health PROVE Entries'
  BY <1>7 DEF Sound, Proved!Sound, Proved!Decided
<1> QED
  BY HealthSteps, <1>2, <1>3, <1>4, <1>5, <1>6, <1>7 DEF Breaker!Next

\* The steps that leave the requests alone.
LEMMA OtherSteps ==
    ASSUME [Next]_vars
    PROVE  \/ \E r \in Requests : RequestStep(r)
           \/ Restart
           \/ UNCHANGED <<counter, request>>
<1>1. ASSUME NEW t \in Reports, ReportStep(t) PROVE UNCHANGED <<counter, request>>
  BY <1>1 DEF ReportStep, ReportToBreaker, DisableUnauthorized, CountStats, CountFails, AfterCount,
                ReadFailures, ReadFails, Blacklist
<1>2. CASE Administer
  BY <1>2 DEF Administer, TestPassed, UpdateKeyStatus, RestoreInvalidKeys, UpdateEndpointStatus, PutBack
<1>3. CASE Tick
  BY <1>3 DEF Tick
<1>4. CASE UNCHANGED vars
  BY <1>4 DEF vars
<1> QED
  BY <1>1, <1>2, <1>3, <1>4 DEF Next

\* A request that is not refused has keys to choose from, and they all serve
\* its model: with a model and no match, some key would be unrestricted, but an
\* unrestricted key is a match.
LEMMA FinalKeysServe ==
    ASSUME Choosing, NEW r \in Requests, Filtered(r), ~Refuses(r)
    PROVE  Selected(r) \in Keys /\ Serves(r, Selected(r))
<1>1. FinalKeys(r) = matching[r]
  BY DEF FinalKeys, Refuses, AllHaveModels, Choosing, Filtering, Serves
<1>2. counter \in Nat /\ matching[r] \in SUBSET Keys /\ keys[r] \in SUBSET Keys /\ keys[r] # {}
  BY PoolAssumption DEF Choosing, TypeRequest, Filtering, Filtered
<1>3. CASE matching[r] = {}
  <2>1. Selected(r) \in keys[r]
    BY <1>1, <1>2, <1>3, RoundRobinElement DEF Selected
  <2>2. Model[r] = NoModel
    BY <1>3 DEF Refuses, AllHaveModels, Choosing, Filtering, Serves
  <2> QED
    BY <1>2, <2>1, <2>2 DEF Serves
<1>4. CASE matching[r] # {}
  <2>1. Selected(r) \in matching[r]
    BY <1>1, <1>2, <1>4, RoundRobinElement DEF Selected
  <2> QED
    BY <1>2, <2>1 DEF Choosing, Filtering
<1> QED
  BY <1>3, <1>4

\* The selection in its steps, an answer and a restart keep what is known of the
\* lists and the choice of each request.
LEMMA ChoosingKept == IInv /\ [Next]_vars => Choosing'
<1> SUFFICES ASSUME Choosing, [Next]_vars PROVE Choosing'
  BY DEF IInv
<1> USE DEF Choosing
<1>1. ASSUME NEW r \in Requests, TakeSnapshot(r) PROVE Choosing'
  <2>1. Snapshot \in SUBSET Keys
    BY DEF Snapshot
  <2>2. TypeRequest'
    BY <1>1, <2>1 DEF TakeSnapshot, Lists, TypeRequest
  <2>3. Filtering'
    BY <1>1 DEF TakeSnapshot, Lists, TypeRequest, Filtering, Serves, Unrestricted
  <2>4. SentKeyServesModel'
    BY <1>1 DEF TakeSnapshot, TypeRequest, Filtering, SentKeyServesModel, Serves, Unrestricted
  <2> QED
    BY <2>2, <2>3, <2>4
<1>2. ASSUME NEW r \in Requests, CheckKey(r) PROVE Choosing'
  <2> DEFINE k == Nth(keys[r], checked[r])
  <2>1. k \in Keys
    BY <1>2, NthElement DEF CheckKey, TypeRequest
  <2> HIDE DEF k
  <2>2. /\ UNCHANGED <<counter, pc, keys, chosen>>
        /\ checked' = [checked EXCEPT ![r] = @ + 1]
        /\ \/ /\ available' = [available EXCEPT ![r] = @ \union {k}]
              /\ matching'  = [matching EXCEPT ![r] = IF Serves(r, k) THEN @ \union {k} ELSE @]
           \/ UNCHANGED <<available, matching>>
    BY <1>2 DEF CheckKey, k
  <2>3. TypeRequest'
    BY <2>1, <2>2 DEF TypeRequest
  <2>4. Filtering'
    BY <2>1, <2>2 DEF TypeRequest, Filtering, Serves, Unrestricted
  <2>5. SentKeyServesModel'
    BY <2>2 DEF SentKeyServesModel, Serves, Unrestricted
  <2> QED
    BY <2>3, <2>4, <2>5
<1>3. ASSUME NEW r \in Requests, SelectKey(r) PROVE Choosing'
  <2> DEFINE k == Selected(r)
  <2>1. k \in Keys /\ Serves(r, k)
    BY <1>3, FinalKeysServe DEF SelectKey
  <2> HIDE DEF k
  <2>2. /\ counter' = (counter + 1) % CounterMod
        /\ chosen' = [chosen EXCEPT ![r] = k]
        /\ Lists(r, {})
        /\ pc' = [pc EXCEPT ![r] = "sent"]
    BY <1>3 DEF SelectKey, Choose, k
  <2>3. counter' \in 0..(CounterMod - 1)
    BY <2>2, PoolAssumption, Z3 DEF TypeRequest
  <2>4. TypeRequest'
    BY <2>1, <2>2, <2>3 DEF TypeRequest, Lists
  <2>5. Filtering'
    BY <2>2 DEF Filtering, Lists, TypeRequest, Serves, Unrestricted
  <2>6. SentKeyServesModel'
    <3>1. \A q \in Requests : q # r => pc'[q] = pc[q] /\ chosen'[q] = chosen[q]
      BY <2>2 DEF TypeRequest
    <3>2. chosen'[r] = k
      BY <2>2 DEF TypeRequest
    <3> QED
      BY <2>1, <3>1, <3>2 DEF SentKeyServesModel, Serves, Unrestricted
  <2> QED
    BY <2>4, <2>5, <2>6
<1>4. ASSUME NEW r \in Requests, RefuseModel(r) PROVE Choosing'
  <2>1. TypeRequest'
    BY <1>4 DEF RefuseModel, lists, TypeRequest
  <2>2. Filtering'
    BY <1>4 DEF RefuseModel, Filtered, lists, TypeRequest, Filtering, Serves, Unrestricted
  <2>3. SentKeyServesModel'
    BY <1>4 DEF RefuseModel, TypeRequest, SentKeyServesModel, Serves, Unrestricted
  <2> QED
    BY <2>1, <2>2, <2>3
<1>5. ASSUME NEW r \in Requests,
             /\ pc' = [pc EXCEPT ![r] = "idle"]
             /\ Choose(r, NoKey)
             /\ UNCHANGED <<counter, lists>>
      PROVE  Choosing'
  <2>1. TypeRequest'
    BY <1>5 DEF Choose, lists, TypeRequest
  <2>2. Filtering'
    BY <1>5 DEF Choose, lists, TypeRequest, Filtering, Serves, Unrestricted
  <2>3. SentKeyServesModel'
    BY <1>5 DEF Choose, TypeRequest, SentKeyServesModel, Serves, Unrestricted
  <2> QED
    BY <2>1, <2>2, <2>3
<1>6. ASSUME NEW r \in Requests, EndUnreported(r) \/ \E t \in Reports, o \in Outcomes : Answer(r, t, o)
      PROVE  Choosing'
  BY <1>5, <1>6 DEF EndUnreported, Answer
<1>7. CASE Restart
  BY <1>7, PoolAssumption DEF Restart, TypeRequest, Filtering, SentKeyServesModel, Serves, Unrestricted
<1>8. CASE UNCHANGED <<counter, request>>
  BY <1>8 DEF request, lists, TypeRequest, Filtering, SentKeyServesModel, Serves, Unrestricted
<1>9. ASSUME NEW r \in Requests, SnapshotFails(r) PROVE Choosing'
  <2>1. TypeRequest'
    BY <1>9 DEF SnapshotFails, Lists, TypeRequest
  <2>2. Filtering'
    BY <1>9 DEF SnapshotFails, Lists, TypeRequest, Filtering, Serves, Unrestricted
  <2>3. SentKeyServesModel'
    BY <1>9 DEF SnapshotFails, TypeRequest, SentKeyServesModel, Serves, Unrestricted
  <2> QED
    BY <2>1, <2>2, <2>3
<1> QED
  BY OtherSteps, <1>1, <1>2, <1>3, <1>4, <1>6, <1>7, <1>8, <1>9 DEF RequestStep

-----------------------------------------------------------------------------
(* The reports. *)

\* A report begins (Answer), moves on (Goto) or ends (Finish); only one of a 401
\* ever gets to the UPDATE that disables its key at once.
LEMMA ReportKept == IInv /\ [Next]_vars => TypeReport' /\ Reporting'
<1> SUFFICES ASSUME TypeReport, Reporting, TypeRequest, [Next]_vars
             PROVE  TypeReport' /\ Reporting'
  BY DEF IInv, Choosing
<1> USE DEF TypeReport, Reporting, ReportPc
<1>1. ASSUME NEW t \in Reports, NEW label \in ReportPc, Goto(t, label),
             report[t].pc # "free", label # "free",
             label = "disable" => report[t].outcome = "401"
      PROVE  TypeReport' /\ Reporting'
  BY <1>1 DEF Goto
<1>2. ASSUME NEW t \in Reports, Finish(t) PROVE TypeReport' /\ Reporting'
  BY <1>2 DEF Finish, Outcome
<1>3. ASSUME NEW t \in Reports, ReportStep(t) PROVE TypeReport' /\ Reporting'
  <2>1. CASE ReportToBreaker(t)
    BY <1>1, <2>1 DEF ReportToBreaker
  <2>2. CASE DisableUnauthorized(t)
    BY <1>1, <2>2 DEF DisableUnauthorized
  <2>3. CASE CountStats(t) \/ CountFails(t)
    BY <1>1, <1>2, <2>3 DEF CountStats, CountFails, AfterCount
  <2>4. CASE ReadFailures(t) \/ ReadFails(t)
    BY <1>1, <1>2, <2>4 DEF ReadFailures, ReadFails
  <2>5. CASE Blacklist(t)
    BY <1>2, <2>5 DEF Blacklist
  <2> QED
    BY <1>3, <2>1, <2>2, <2>3, <2>4, <2>5 DEF ReportStep
<1>4. ASSUME NEW r \in Requests, NEW t \in Reports, NEW o \in Outcomes, Answer(r, t, o)
      PROVE  TypeReport' /\ Reporting'
  BY <1>4, PoolAssumption DEF Answer, TypeRequest
<1>5. CASE Restart
  BY <1>5, PoolAssumption DEF Restart, Idle, Outcome
<1>6. ASSUME UNCHANGED report PROVE TypeReport' /\ Reporting'
  BY <1>6
<1>7. ASSUME NEW r \in Requests, RequestStep(r)
      PROVE  UNCHANGED report \/ \E t \in Reports, o \in Outcomes : Answer(r, t, o)
  BY <1>7 DEF RequestStep, TakeSnapshot, SnapshotFails, CheckKey, RefuseModel, SelectKey, EndUnreported
<1>8. CASE Administer
  BY <1>6, <1>8 DEF Administer, TestPassed, UpdateKeyStatus, RestoreInvalidKeys, UpdateEndpointStatus, PutBack
<1>9. CASE Tick \/ UNCHANGED vars
  BY <1>6, <1>9 DEF Tick, vars
<1> QED
  BY <1>3, <1>4, <1>5, <1>6, <1>7, <1>8, <1>9 DEF Next

-----------------------------------------------------------------------------
(* The rows, and the failures counted in them. *)

\* The reports still to count a failure of k are finitely many.
LEMMA UncountedFinite ==
    ASSUME NEW k
    PROVE  IsFiniteSet(Uncounted(k)) /\ Cardinality(Uncounted(k)) \in Nat
<1>1. Uncounted(k) \in SUBSET Reports
  BY DEF Uncounted, Pending
<1> QED
  BY <1>1, PoolAssumption, FS_Subset, FS_CardinalityType

\* The three counters and what relates them.
Counted ==
    /\ failed \in [Keys -> Nat] /\ seen \in [Keys -> Nat] /\ lost \in [Keys -> Nat]
    /\ FailuresCounted

\* No step loses a failure or counts one twice: an answer adds one to seen and
\* to the reports on their way, the UPDATE moves one from those to the row or,
\* if it fails, to lost, and a restart loses all that are on their way.
LEMMA CountedKept == IInv /\ [Next]_vars => Counted'
<1> SUFFICES ASSUME Counted, TypeReport, Reporting, TypeRequest, [Next]_vars
             PROVE  Counted'
  BY DEF IInv, Choosing, TypeRest, Counted
<1> USE DEF Counted
<1>1. ASSUME UNCHANGED <<failed, seen, lost>>, \A k \in Keys : Uncounted(k)' = Uncounted(k)
      PROVE  Counted'
  BY <1>1 DEF FailuresCounted
<1>2. ASSUME NEW t \in Reports, ReportToBreaker(t) PROVE Counted'
  <2>1. \A k \in Keys : Uncounted(k)' = Uncounted(k)
    BY <1>2 DEF ReportToBreaker, Goto, TypeReport, ReportPc, Uncounted, Pending
  <2> QED
    BY <1>1, <1>2, <2>1 DEF ReportToBreaker, row, history
<1>3. ASSUME NEW t \in Reports, DisableUnauthorized(t) PROVE Counted'
  <2>1. \A k \in Keys : Uncounted(k)' = Uncounted(k)
    BY <1>3 DEF DisableUnauthorized, Goto, TypeReport, ReportPc, Uncounted, Pending
  <2> QED
    BY <1>1, <1>3, <2>1 DEF DisableUnauthorized
<1>4. ASSUME NEW t \in Reports, ReadFailures(t) \/ ReadFails(t) PROVE Counted'
  <2>1. report[t].pc = "read" /\ (Goto(t, "blacklist") \/ Finish(t))
    BY <1>4 DEF ReadFailures, ReadFails
  <2>2. \A k \in Keys : Uncounted(k)' = Uncounted(k)
    BY <2>1, PoolAssumption DEF Goto, Finish, TypeReport, ReportPc, Uncounted, Pending
  <2> QED
    BY <1>1, <1>4, <2>2 DEF ReadFailures, ReadFails, row, history
<1>5. ASSUME NEW t \in Reports, Blacklist(t) PROVE Counted'
  <2>1. \A k \in Keys : Uncounted(k)' = Uncounted(k)
    BY <1>5, PoolAssumption DEF Blacklist, Finish, TypeReport, ReportPc, Uncounted, Pending
  <2> QED
    BY <1>1, <1>5, <2>1 DEF Blacklist
<1>6. ASSUME NEW t \in Reports, CountStats(t) \/ CountFails(t) PROVE Counted'
  <2> DEFINE key == report[t].key
             failing == Failing(report[t].outcome)
  <2>1. key \in Keys
    BY <1>6 DEF CountStats, CountFails, TypeReport, Reporting
  <2>2. /\ \/ failed' = AddFailure(t, failed) /\ UNCHANGED lost
           \/ lost' = AddFailure(t, lost) /\ UNCHANGED failed
        /\ Goto(t, "read") \/ Finish(t)
        /\ UNCHANGED seen
        /\ report[t].pc = "stats"
    BY <1>6 DEF CountStats, CountFails, AfterCount
  <2>3. ASSUME NEW k \in Keys PROVE Uncounted(k)' = Uncounted(k) \ {t}
    BY <2>2, PoolAssumption DEF Goto, Finish, TypeReport, ReportPc, Uncounted, Pending
  <2>4. ASSUME NEW k \in Keys PROVE t \in Uncounted(k) <=> k = key /\ failing
    BY <2>2 DEF Uncounted, Pending
  <2>5. ASSUME NEW k \in Keys
        PROVE  Cardinality(Uncounted(k)') = IF k = key /\ failing THEN Cardinality(Uncounted(k)) - 1
                                            ELSE Cardinality(Uncounted(k))
    BY <2>3, <2>4, UncountedFinite, FS_RemoveElement
  <2>6. ASSUME NEW count \in [Keys -> Nat]
        PROVE  /\ AddFailure(t, count) \in [Keys -> Nat]
               /\ \A k \in Keys : AddFailure(t, count)[k]
                                  = IF k = key /\ failing THEN count[k] + 1 ELSE count[k]
    BY <2>1 DEF AddFailure
  <2>7. failed' \in [Keys -> Nat] /\ lost' \in [Keys -> Nat]
    BY <2>2, <2>6
  <2> HIDE DEF key, failing
  <2>8. ASSUME NEW k \in Keys
        PROVE  failed'[k] + Cardinality(Uncounted(k)') + lost'[k] = seen'[k]
    <3>1. failed'[k] + lost'[k] = failed[k] + lost[k] + IF k = key /\ failing THEN 1 ELSE 0
      BY <2>2, <2>6
    <3>2. /\ failed[k] + Cardinality(Uncounted(k)) + lost[k] = seen[k] /\ seen'[k] = seen[k]
          /\ failed[k] \in Nat /\ lost[k] \in Nat /\ failed'[k] \in Nat /\ lost'[k] \in Nat
          /\ Cardinality(Uncounted(k)) \in Nat
      BY <2>2, <2>7, UncountedFinite DEF FailuresCounted
    <3> QED
      BY <2>5, <3>1, <3>2
  <2> QED
    BY <2>2, <2>7, <2>8 DEF FailuresCounted
<1>7. ASSUME NEW r \in Requests, NEW t \in Reports, NEW o \in Outcomes, Answer(r, t, o)
      PROVE  Counted'
  <2> DEFINE key == chosen[r]
  <2>1. key \in Keys
    BY <1>7 DEF Answer, TypeRequest
  <2>2. /\ report[t].pc = "free"
        /\ report' = [report EXCEPT ![t] = [pc |-> "breaker", key |-> key, outcome |-> o]]
        /\ seen' = [seen EXCEPT ![key] = IF Failing(o) THEN @ + 1 ELSE @]
        /\ UNCHANGED <<failed, lost>>
    BY <1>7 DEF Answer, row
  <2> HIDE DEF key
  <2>3. ASSUME NEW k \in Keys
        PROVE  Uncounted(k)' = IF k = key /\ Failing(o) THEN Uncounted(k) \union {t} ELSE Uncounted(k)
    BY <2>1, <2>2 DEF TypeReport, Uncounted, Pending
  <2>4. ASSUME NEW k \in Keys PROVE t \notin Uncounted(k)
    BY <2>2 DEF Uncounted, Pending
  <2>5. ASSUME NEW k \in Keys
        PROVE  Cardinality(Uncounted(k)') = IF k = key /\ Failing(o) THEN Cardinality(Uncounted(k)) + 1
                                            ELSE Cardinality(Uncounted(k))
    BY <2>3, <2>4, UncountedFinite, FS_AddElement
  <2>6. ASSUME NEW k \in Keys PROVE seen'[k] = IF k = key /\ Failing(o) THEN seen[k] + 1 ELSE seen[k]
    BY <2>1, <2>2
  <2>7. ASSUME NEW k \in Keys
        PROVE  failed'[k] + Cardinality(Uncounted(k)') + lost'[k] = seen'[k]
    BY <2>2, <2>5, <2>6, UncountedFinite DEF FailuresCounted
  <2>8. seen' \in [Keys -> Nat]
    BY <2>1, <2>2
  <2> QED
    BY <2>2, <2>7, <2>8 DEF FailuresCounted
<1>8. CASE Restart
  <2>1. ASSUME NEW k \in Keys PROVE Uncounted(k)' = {}
    BY <1>8, PoolAssumption DEF Restart, Idle, Uncounted, Pending
  <2>2. /\ lost' = [k \in Keys |-> lost[k] + Cardinality(Uncounted(k))]
        /\ UNCHANGED <<failed, seen>>
    BY <1>8 DEF Restart, row
  <2>3. lost' \in [Keys -> Nat]
    BY <2>2, UncountedFinite
  <2>4. ASSUME NEW k \in Keys
        PROVE  failed'[k] + Cardinality(Uncounted(k)') + lost'[k] = seen'[k]
    <3>1. /\ failed[k] + Cardinality(Uncounted(k)) + lost[k] = seen[k]
          /\ failed[k] \in Nat /\ lost[k] \in Nat /\ Cardinality(Uncounted(k)) \in Nat
      BY UncountedFinite DEF FailuresCounted
    <3>2. failed'[k] = failed[k] /\ seen'[k] = seen[k] /\ lost'[k] = lost[k] + Cardinality(Uncounted(k))
      BY <2>2
    <3>3. Cardinality(Uncounted(k)') = 0
      BY <2>1, FS_EmptySet
    <3> QED
      BY <3>1, <3>2, <3>3
  <2> QED
    BY <2>2, <2>3, <2>4 DEF FailuresCounted
<1>9. ASSUME UNCHANGED <<failed, seen, lost, report>> PROVE Counted'
  <2>1. \A k \in Keys : Uncounted(k)' = Uncounted(k)
    BY <1>9 DEF Uncounted, Pending, Failing
  <2> QED
    BY <1>1, <1>9, <2>1
<1>10. ASSUME NEW r \in Requests, RequestStep(r)
       PROVE  UNCHANGED <<failed, seen, lost, report>> \/ \E t \in Reports, o \in Outcomes : Answer(r, t, o)
  BY <1>10 DEF RequestStep, TakeSnapshot, SnapshotFails, CheckKey, RefuseModel, SelectKey, EndUnreported, row, history
<1>11. CASE Administer
  <2>1. UNCHANGED <<failed, seen, lost, report>>
    BY <1>11 DEF Administer, TestPassed, UpdateKeyStatus, RestoreInvalidKeys, UpdateEndpointStatus, PutBack, history
  <2> QED
    BY <1>9, <2>1
<1>12. CASE Tick \/ UNCHANGED vars
  BY <1>9, <1>12 DEF Tick, vars, row, history
<1> QED
  BY <1>2, <1>3, <1>4, <1>5, <1>6, <1>7, <1>8, <1>9, <1>10, <1>11, <1>12 DEF Next, ReportStep

\* The other rows and histories stay what they are.
LEMMA RestKept == IInv /\ [Next]_vars => TypeRest'
<1> SUFFICES ASSUME IInv, [Next]_vars PROVE TypeRest'
  OBVIOUS
<1>1. failed' \in [Keys -> Nat] /\ seen' \in [Keys -> Nat] /\ lost' \in [Keys -> Nat]
  BY CountedKept DEF Counted
<1> DEFINE Rows == /\ active \in [Keys -> BOOLEAN] /\ serving \subseteq Endpoints
                   /\ unauthorized \subseteq Keys /\ spared \subseteq Keys /\ excused \subseteq Keys
<1> SUFFICES ASSUME Rows PROVE Rows'
  BY <1>1 DEF TypeRest, IInv
<1>2. ASSUME NEW r \in Requests, RequestStep(r) PROVE Rows'
  <2>1. UNCHANGED <<active, serving, excused>>
    BY <1>2 DEF RequestStep, TakeSnapshot, SnapshotFails, CheckKey, RefuseModel, SelectKey, EndUnreported, Answer,
                row, history
  <2>2. CASE UNCHANGED <<unauthorized, spared>>
    BY <2>1, <2>2
  <2>3. ASSUME NEW t \in Reports, NEW o \in Outcomes, Answer(r, t, o)
        PROVE  unauthorized' \subseteq Keys /\ spared' \subseteq Keys
    BY <2>3 DEF Answer, IInv, Choosing, TypeRequest
  <2> QED
    BY <1>2, <2>1, <2>2, <2>3
       DEF RequestStep, TakeSnapshot, SnapshotFails, CheckKey, RefuseModel, SelectKey, EndUnreported, history
<1>3. ASSUME NEW t \in Reports, ReportStep(t) PROVE Rows'
  <2>1. UNCHANGED <<serving, unauthorized>>
    BY <1>3 DEF ReportStep, ReportToBreaker, DisableUnauthorized, CountStats, CountFails, AfterCount,
                ReadFailures, ReadFails, Blacklist, row, history
  <2>2. report[t].key \in Keys
    BY <1>3 DEF ReportStep, ReportToBreaker, DisableUnauthorized, CountStats, CountFails,
                ReadFailures, ReadFails, Blacklist, IInv, TypeReport, Reporting
  <2>3. active' \in [Keys -> BOOLEAN]
    BY <1>3 DEF ReportStep, ReportToBreaker, DisableUnauthorized, CountStats, CountFails, AfterCount,
                ReadFailures, ReadFails, Blacklist, row, Disable, SetActive
  <2>4. spared' \subseteq Keys
    BY <1>3, <2>2 DEF ReportStep, ReportToBreaker, DisableUnauthorized, CountStats, CountFails, AfterCount,
                      ReadFailures, ReadFails, Blacklist, history, Disable
  <2>5. excused' \subseteq Keys
    BY <1>3, <2>2 DEF ReportStep, ReportToBreaker, DisableUnauthorized, CountStats, CountExcuse,
                      CountFails, ReadFailures, ReadFails, Blacklist, history, Disable
  <2> QED
    BY <2>1, <2>3, <2>4, <2>5
<1>4. CASE Administer
  BY <1>4 DEF Administer, TestPassed, UpdateKeyStatus, RestoreInvalidKeys, UpdateEndpointStatus, PutBack,
              SetActive, history
<1>5. CASE Restart
  BY <1>5 DEF Restart, row
<1>6. CASE Tick \/ UNCHANGED vars
  BY <1>6 DEF Tick, vars, row, history
<1> QED
  BY <1>2, <1>3, <1>4, <1>5, <1>6 DEF Next

-----------------------------------------------------------------------------
(* Bad keys are retired. *)

\* The two ways a report is about to take k out of service.
Leaving(k) == \E t \in Reports : /\ report[t].key = k /\ report[t].outcome = "401"
                                 /\ report[t].pc \in {"breaker", "disable"}

Closing(k) == \E t \in Reports : report[t].key = k /\ report[t].pc \in {"read", "blacklist"}

\* The steps that take keys out of service or put them back leave nothing due.
LEMMA SetActiveKept ==
    ASSUME IInv, NEW ks \in SUBSET Keys, UNCHANGED failed,
           \/ /\ SetActive(ks, FALSE)
              /\ UNCHANGED <<unauthorized, spared, excused>>
              /\ \A t \in Reports : report'[t] # report[t] => report[t].key \in ks
           \/ PutBack(ks)
    PROVE  Retiring'
<1> SUFFICES ASSUME NEW k \in Keys, active'[k]
             PROVE  /\ k \in unauthorized' => k \in spared' \/ Leaving(k)'
                    /\ OverLimit(k)' => k \in excused' \/ Closing(k)'
  BY DEF Retiring, Leaving, Closing
<1>1. CASE PutBack(ks)
  BY <1>1 DEF PutBack, SetActive, IInv, Retiring, TypeRest, Leaving, Closing, OverLimit
<1>2. CASE ~PutBack(ks)
  <2>1. k \notin ks /\ active[k] /\ UNCHANGED <<unauthorized, spared, excused>>
    BY <1>2 DEF SetActive
  <2>2. \A t \in Reports : report[t].key = k => report'[t] = report[t]
    BY <1>2, <2>1
  <2>3. Leaving(k) => Leaving(k)'
    BY <2>2 DEF Leaving
  <2>4. Closing(k) => Closing(k)'
    BY <2>2 DEF Closing
  <2>5. OverLimit(k)' <=> OverLimit(k)
    BY DEF OverLimit
  <2> QED
    BY <2>1, <2>3, <2>4, <2>5 DEF IInv, Retiring, Leaving, Closing
<1> QED
  BY <1>1, <1>2

\* A report that gives up on the limit excuses its key, and does no more.
Excusing(t) ==
    /\ report[t].pc \in {"read", "blacklist"}
    /\ excused' = excused \union {report[t].key}
    /\ \A u \in Reports : report'[u] # report[u] => u = t

LEMMA ExcusingKept ==
    ASSUME IInv, NEW t \in Reports, Excusing(t), UNCHANGED <<active, failed, unauthorized, spared>>
    PROVE  Retiring'
<1>1. \A k \in Keys : Leaving(k) => Leaving(k)'
  BY DEF Excusing, Leaving
<1>2. \A k \in Keys : Closing(k) => Closing(k)' \/ k \in excused'
  BY DEF Excusing, Closing
<1>3. \A k \in Keys : k \in excused => k \in excused'
  BY DEF Excusing
<1> QED
  BY <1>1, <1>2, <1>3 DEF IInv, Retiring, Leaving, Closing, OverLimit

\* A report at work keeps what is due, until it has seen to it.
LEMMA RetiringKept == IInv /\ [Next]_vars => Retiring'
<1> SUFFICES ASSUME IInv, [Next]_vars PROVE Retiring'
  OBVIOUS
<1> USE DEF IInv
<1>1. ASSUME UNCHANGED <<active, failed, excused>>,
             \A k \in Keys : \/ k \in unauthorized' => k \in unauthorized /\ (k \in spared => k \in spared')
                             \/ Leaving(k)',
             \A k \in Keys : (Leaving(k) => Leaving(k)') /\ (Closing(k) => Closing(k)')
      PROVE  Retiring'
  BY <1>1 DEF Retiring, Leaving, Closing, OverLimit
<1>2. ASSUME NEW r \in Requests, NEW t \in Reports, NEW o \in Outcomes, Answer(r, t, o)
      PROVE  Retiring'
  <2>1. /\ report[t].pc = "free" /\ UNCHANGED <<active, failed, excused>>
        /\ report' = [report EXCEPT ![t] = [pc |-> "breaker", key |-> chosen[r], outcome |-> o]]
        /\ \/ /\ o = "401"
              /\ unauthorized' = unauthorized \union {chosen[r]} /\ spared' = spared \ {chosen[r]}
           \/ UNCHANGED <<unauthorized, spared>>
    BY <1>2 DEF Answer, row
  <2>2. \A k \in Keys : \/ k \in unauthorized' => k \in unauthorized /\ (k \in spared => k \in spared')
                       \/ Leaving(k)'
    BY <2>1 DEF TypeReport, Leaving
  <2>3. \A k \in Keys : (Leaving(k) => Leaving(k)') /\ (Closing(k) => Closing(k)')
    BY <2>1 DEF TypeReport, Leaving, Closing
  <2> QED
    BY <1>1, <2>1, <2>2, <2>3
<1>3. ASSUME NEW t \in Reports, ReportToBreaker(t) PROVE Retiring'
  <2>1. /\ report[t].pc = "breaker" /\ UNCHANGED <<active, failed, excused, unauthorized, spared>>
        /\ report' = [report EXCEPT ![t].pc = IF report[t].outcome = "401" THEN "disable" ELSE "stats"]
    BY <1>3 DEF ReportToBreaker, Goto, row, history
  <2>2. \A k \in Keys : (Leaving(k) => Leaving(k)') /\ (Closing(k) => Closing(k)')
    BY <2>1 DEF TypeReport, Leaving, Closing
  <2> QED
    BY <1>1, <2>1, <2>2
<1>4. ASSUME NEW t \in Reports, DisableUnauthorized(t) PROVE Retiring'
  <2>1. report[t].key \in Keys
    BY <1>4 DEF DisableUnauthorized, TypeReport, Reporting
  <2>2. \A u \in Reports : report'[u] # report[u] => u = t
    BY <1>4 DEF DisableUnauthorized, Goto, TypeReport
  <2>3. CASE SetActive({report[t].key}, FALSE) /\ UNCHANGED spared
    BY <1>4, <2>1, <2>2, <2>3, SetActiveKept DEF DisableUnauthorized
  <2>4. CASE spared' = spared \union {report[t].key} /\ UNCHANGED active
    <3>1. UNCHANGED <<active, failed, unauthorized, excused>>
      BY <1>4, <2>4 DEF DisableUnauthorized
    <3>2. \A k \in Keys : Closing(k) => Closing(k)'
      BY <1>4, <2>2 DEF DisableUnauthorized, Closing
    <3>3. \A k \in Keys : Leaving(k) => Leaving(k)' \/ k \in spared'
      BY <2>2, <2>4 DEF Leaving
    <3>4. \A k \in Keys : k \in spared => k \in spared'
      BY <2>4
    <3> QED
      BY <3>1, <3>2, <3>3, <3>4 DEF Retiring, Leaving, Closing, OverLimit
  <2> QED
    BY <1>4, <2>3, <2>4 DEF DisableUnauthorized, Disable
<1>5. ASSUME NEW t \in Reports, Blacklist(t) PROVE Retiring'
  <2>1. report[t].key \in Keys
    BY <1>5 DEF Blacklist, TypeReport, Reporting
  <2>2. \A u \in Reports : report'[u] # report[u] => u = t
    BY <1>5 DEF Blacklist, Finish, TypeReport
  <2>3. CASE SetActive({report[t].key}, FALSE) /\ UNCHANGED excused
    BY <1>5, <2>1, <2>2, <2>3, SetActiveKept DEF Blacklist
  <2>4. CASE excused' = excused \union {report[t].key} /\ UNCHANGED active
    <3>1. UNCHANGED <<active, failed, unauthorized, spared>> /\ report[t].pc = "blacklist"
      BY <1>5, <2>4 DEF Blacklist
    <3>2. Excusing(t)
      BY <2>2, <2>4, <3>1 DEF Excusing
    <3> QED
      BY <3>1, <3>2, ExcusingKept
  <2> QED
    BY <1>5, <2>3, <2>4 DEF Blacklist, Disable
<1>6. ASSUME NEW t \in Reports, CountStats(t) PROVE Retiring'
  <2> PICK key : key = report[t].key
    OBVIOUS
  <2>1. /\ report[t].pc = "stats" /\ UNCHANGED <<active, unauthorized, spared>>
        /\ failed' = [failed EXCEPT ![key] = IF Failing(report[t].outcome) THEN @ + 1 ELSE @]
        /\ CountExcuse(t)
        /\ IF ReadsBack(t) THEN Goto(t, "read") ELSE Finish(t)
    BY <1>6 DEF CountStats, AddFailure, AfterCount
  <2>2. key \in Keys
    BY <2>1 DEF TypeReport, Reporting
  <2>3. \A u \in Reports : u # t => report'[u] = report[u]
    BY <2>1 DEF Goto, Finish, TypeReport
  <2>4. \A k \in Keys : (Leaving(k) => Leaving(k)') /\ (Closing(k) => Closing(k)')
    BY <2>1, <2>3 DEF Leaving, Closing
  <2>5. ASSUME NEW k \in Keys, k # key
        PROVE  (OverLimit(k)' <=> OverLimit(k)) /\ (k \in excused' <=> k \in excused)
    BY <2>1, <2>2, <2>5 DEF CountExcuse, TypeRest, OverLimit
  <2>6. CASE ReadsBack(t)
    <3>1. Closing(key)'
      BY <2>1, <2>6 DEF Goto, TypeReport, Closing
    <3> QED
      BY <2>1, <2>4, <2>5, <3>1 DEF Retiring, Leaving, Closing
  <2>7. CASE ~ReadsBack(t)
    <3>1. active[key] /\ OverLimit(key)' => OverLimit(key) \/ key \in excused'
      BY <2>1, <2>2, <2>7, PoolAssumption DEF CountExcuse, ReadsBack, Failing, OverLimit, TypeRest
    <3>2. excused \subseteq excused'
      BY <2>1, <2>7 DEF CountExcuse
    <3> QED
      BY <2>1, <2>4, <2>5, <3>1, <3>2 DEF Retiring, Leaving, Closing
  <2> QED
    BY <2>6, <2>7
<1>7. ASSUME NEW t \in Reports, ReadFailures(t) PROVE Retiring'
  <2> DEFINE key == report[t].key
  <2>1. /\ report[t].pc = "read" /\ UNCHANGED <<active, failed, excused, unauthorized, spared>>
        /\ IF failed[key] >= MaxFailures[key] THEN Goto(t, "blacklist") ELSE Finish(t)
    BY <1>7 DEF ReadFailures, row, history
  <2>2. \A u \in Reports : u # t => report'[u] = report[u]
    BY <2>1 DEF Goto, Finish, TypeReport
  <2>3. \A k \in Keys : Leaving(k) => Leaving(k)'
    BY <2>1, <2>2 DEF Leaving
  <2>4. ASSUME NEW k \in Keys, OverLimit(k), Closing(k) PROVE Closing(k)'
    <3>1. CASE k # key
      BY <2>2, <2>4, <3>1 DEF Closing
    <3>2. CASE k = key
      <4>1. Goto(t, "blacklist")
        BY <2>1, <2>4, <3>2 DEF OverLimit
      <4> QED
        BY <3>2, <4>1 DEF Goto, TypeReport, Closing
    <3> QED
      BY <3>1, <3>2
  <2> QED
    BY <2>1, <2>3, <2>4 DEF Retiring, Leaving, Closing, OverLimit
<1>8. CASE Restart
  <2>1. /\ UNCHANGED <<active, failed, unauthorized>>
        /\ spared' = spared \union {k \in unauthorized : Pending(k, {"breaker", "disable"}) # {}}
        /\ excused' = excused \union {k \in Keys : Pending(k, {"read", "blacklist"}) # {}}
    BY <1>8 DEF Restart, row
  <2>2. \A k \in Keys : Leaving(k) /\ k \in unauthorized => k \in spared'
    BY <2>1 DEF Leaving, Pending
  <2>3. \A k \in Keys : Closing(k) => k \in excused'
    BY <2>1 DEF Closing, Pending
  <2> QED
    BY <2>1, <2>2, <2>3 DEF Retiring, Leaving, Closing, OverLimit
<1>9. CASE Administer
  <2>1. ASSUME NEW k \in Keys, NEW b \in BOOLEAN, TestPassed(k) \/ UpdateKeyStatus(k, b) PROVE Retiring'
    BY <2>1, SetActiveKept DEF TestPassed, UpdateKeyStatus, PutBack, history
  <2>2. ASSUME NEW e \in Endpoints, RestoreInvalidKeys(e) PROVE Retiring'
    BY <2>2, SetActiveKept DEF RestoreInvalidKeys, PutBack
  <2>3. ASSUME NEW e \in Endpoints, NEW b \in BOOLEAN, UpdateEndpointStatus(e, b) PROVE Retiring'
    BY <2>3 DEF UpdateEndpointStatus, history, Retiring, OverLimit
  <2> QED
    BY <1>9, <2>1, <2>2, <2>3 DEF Administer
<1>10. ASSUME UNCHANGED <<row, report, history>> PROVE Retiring'
  BY <1>10 DEF row, history, Retiring, OverLimit
<1>11. ASSUME NEW r \in Requests, RequestStep(r)
       PROVE  UNCHANGED <<row, report, history>> \/ \E t \in Reports, o \in Outcomes : Answer(r, t, o)
  BY <1>11 DEF RequestStep, TakeSnapshot, SnapshotFails, CheckKey, RefuseModel, SelectKey, EndUnreported
<1>12. CASE Tick \/ UNCHANGED vars
  BY <1>10, <1>12 DEF Tick, vars
<1>13. ASSUME NEW t \in Reports, ReadFails(t) PROVE Retiring'
  <2>1. \A u \in Reports : report'[u] # report[u] => u = t
    BY <1>13 DEF ReadFails, Finish, TypeReport
  <2>2. UNCHANGED <<active, failed, unauthorized, spared>> /\ Excusing(t)
    BY <1>13, <2>1 DEF ReadFails, row, Excusing
  <2> QED
    BY <2>2, ExcusingKept
<1>14. ASSUME NEW t \in Reports, CountFails(t) PROVE Retiring'
  <2>1. /\ report[t].pc = "stats" /\ UNCHANGED <<active, failed, unauthorized, spared>>
        /\ IF ReadsBack(t) THEN Goto(t, "read") /\ excused' = excused \ {report[t].key}
                           ELSE Finish(t) /\ UNCHANGED excused
    BY <1>14 DEF CountFails, AfterCount
  <2>2. \A u \in Reports : u # t => report'[u] = report[u]
    BY <2>1 DEF Goto, Finish, TypeReport
  <2>3. \A k \in Keys : (Leaving(k) => Leaving(k)') /\ (Closing(k) => Closing(k)')
    BY <2>1, <2>2 DEF Leaving, Closing
  <2>4. \A k \in Keys : k \in excused => k \in excused' \/ Closing(k)'
    BY <2>1 DEF Goto, TypeReport, Closing
  <2> QED
    BY <2>1, <2>3, <2>4 DEF Retiring, Leaving, Closing, OverLimit
<1> QED
  BY <1>2, <1>3, <1>4, <1>5, <1>6, <1>7, <1>8, <1>9, <1>10, <1>11, <1>12, <1>13, <1>14 DEF Next, ReportStep

-----------------------------------------------------------------------------
(* The theorems. *)

\* A new pool satisfies the invariant.
LEMMA InitIInv == Init => IInv
<1> SUFFICES ASSUME Init PROVE IInv
  OBVIOUS
<1> USE DEF Init
<1>1. Entries
  BY EntriesSound DEF Entries
<1>2. TypeRest /\ TypeReport /\ Reporting
  BY PoolAssumption DEF TypeRest, TypeReport, Reporting, Idle, ReportPc, Outcome
<1>3. Choosing
  BY PoolAssumption DEF Choosing, TypeRequest, Filtering, SentKeyServesModel
<1>4. FailuresCounted
  <2>1. \A k \in Keys : Uncounted(k) = {}
    BY PoolAssumption DEF Uncounted, Pending, Idle
  <2>2. \A k \in Keys : failed[k] = 0 /\ seen[k] = 0 /\ lost[k] = 0 /\ Cardinality(Uncounted(k)) = 0
    BY <2>1, FS_EmptySet
  <2> QED
    BY <2>2 DEF FailuresCounted
<1>5. Retiring
  <2>1. \A k \in Keys : ~OverLimit(k)
    BY PoolAssumption DEF OverLimit
  <2> QED
    BY <2>1 DEF Retiring
<1> QED
  BY <1>1, <1>2, <1>3, <1>4, <1>5 DEF IInv

\* Every step keeps the invariant.
LEMMA NextIInv == IInv /\ [Next]_vars => IInv'
BY EntriesKept, RestKept, ReportKept, ChoosingKept, CountedKept, RetiringKept DEF IInv, Counted

\* The inductive invariant holds in every reachable state of the pool.
THEOREM PoolInvariant == Spec => []IInv
BY InitIInv, NextIInv, PTL DEF Spec

\* Type correctness: a request that filters has a snapshot to choose from, so
\* no index is taken modulo 0, and the key it chooses is one of it (NthElement).
THEOREM TypeCorrect == Spec => []TypeOK
<1>1. IInv => TypeOK
  BY DEF IInv, Entries, TypeRest, TypeReport, Choosing, TypeRequest, Filtering, TypeOK
<1> QED
  BY <1>1, PoolInvariant, PTL

\* failed_requests, the reports still to increment it and the failures whose
\* UPDATE failed or died add up to the failed answers of a key, for any number of
\* concurrent reports and whatever of their database calls fails.
THEOREM FailuresCountedHolds == Spec => []FailuresCounted
<1>1. IInv => FailuresCounted
  BY DEF IInv
<1> QED
  BY <1>1, PoolInvariant, PTL

\* With no report running, a key that answered 401 or is over its limit is out
\* of service, or a database call that failed, a stopped process or the
\* administrator kept it in, however the database steps of reports interleaved.
THEOREM BadKeysRetiredHolds == Spec => []BadKeysRetired
<1>1. IInv => BadKeysRetired
  BY DEF IInv, Retiring, BadKeysRetired, Pending, ReportPc, TypeReport
<1> QED
  BY <1>1, PoolInvariant, PTL

\* No request for a model is sent with a key that does not serve it, for any
\* number of keys, endpoints and requests.
THEOREM SentKeyServesModelHolds == Spec => []SentKeyServesModel
<1>1. IInv => SentKeyServesModel
  BY DEF IInv, Choosing
<1> QED
  BY <1>1, PoolInvariant, PTL

\* Every step of the pool is one of the breaker's on its map, or a restart.
THEOREM UsesBreakerHolds == Spec => UsesBreaker
<1>1. IInv /\ [Next]_vars
        => [Breaker!Next \/ health' = [k \in Keys |-> Breaker!FreshHealth]]_health
  BY HealthSteps
<1> QED
  BY <1>1, PoolInvariant, PTL DEF Spec, UsesBreaker

\* Hence the guarantee of the breaker survives its use by concurrent requests
\* and reports, and restarts: no key is left at or past a threshold.
THEOREM PoolKeepsThresholds == Spec => []Breaker!ThresholdsDecide
<1>1. IInv => Breaker!ThresholdsDecide
  BY DEF IInv, Entries, Sound, Proved!Sound, Proved!Decided, Breaker!ThresholdsDecide
<1> QED
  BY <1>1, PoolInvariant, PTL

============================================================================
