------------------------------ MODULE KeyPool ------------------------------
(***************************************************************************)
(* The key pool of src/src/key_pool.rs, together with the circuit breaker  *)
(* it owns, the rows of api_keys it reads and writes, the requests that    *)
(* select keys and the detached tasks that report outcomes.                *)
(*                                                                         *)
(* A request runs next_key in the steps other tasks can interleave with:   *)
(* the database snapshot, one is_available call per key of the snapshot    *)
(* (each takes only that key's shard lock), the counter and the choice.    *)
(* The upstream then answers, and the handler spawns report_result as a    *)
(* task of its own: the breaker first, then up to three database calls,    *)
(* each under its own lock.  Any of them may fail, which report_result     *)
(* only logs.  An administrator and a restart act at will.                 *)
(***************************************************************************)
EXTENDS Naturals, FiniteSets

CONSTANTS
    Requests,           \* concurrent HTTP requests of one access token
    Keys,               \* the keys bound to that token
    CreatedAt,          \* CreatedAt[k]: the place of k in ORDER BY created_at
    Endpoints,          \* the upstream endpoints of those keys
    EndpointOf,         \* EndpointOf[k]: api_keys.endpoint_id
    Model,              \* Model[r]: the model r asks for, or NoModel (GET /v1/models)
    NoModel,
    NoKey,              \* stands for the configured fallback, and for no key
    Offers,             \* Offers[k]: endpoint_models and the keys of model_mapping
    MaxFailures,        \* MaxFailures[k]: max_failures of k's endpoint, 0 = off
    HasFallback,        \* an upstream.api_key is configured
    Reports,            \* slots for report tasks: bound on those outstanding at once
    Outcomes,           \* the upstream answers considered
    FailureBound,       \* bound on the failed answers of one key
    CounterMod,         \* the counter counts modulo this multiple of 1..|Keys|
    FailureThreshold, SuccessThreshold, Timeout, U32   \* see CircuitBreaker

\* How an upstream attempt ends, as report_result tells the statuses apart.
Outcome == {"ok", "network", "401", "fusing", "client"}

ASSUME PoolAssumption ==
    /\ IsFiniteSet(Keys) /\ NoKey \notin Keys
    /\ IsFiniteSet(Reports)
    /\ CreatedAt \in [Keys -> Nat]
    /\ \A j, k \in Keys : CreatedAt[j] = CreatedAt[k] => j = k
    /\ EndpointOf \in [Keys -> Endpoints]
    /\ Outcomes \subseteq Outcome
    /\ MaxFailures \in [Keys -> Nat]
    /\ FailureBound \in Nat
    /\ CounterMod \in Nat \ {0}
    /\ HasFallback \in BOOLEAN

VARIABLES
    health,     \* KeyPool.circuit_breaker.keys
    active,     \* api_keys.is_active
    failed,     \* api_keys.failed_requests
    serving,    \* the endpoints with upstream_endpoints.is_active
    counter,    \* KeyPool.counter
    pc,         \* where each request is in next_key and its attempt
    keys,       \* keys[r]: the snapshot get_active_keys_for_token returned
    checked,    \* checked[r]: how many of them the breaker has been asked about
    available,  \* available[r]: available_keys
    matching,   \* matching[r]: model_filtered
    chosen,     \* chosen[r]: the selected key, NoKey for the configured fallback
    report,     \* report[t]: a report_result task
    seen,       \* history: failed answers of each key
    lost,       \* history: those whose UPDATE failed or died with the process
    unauthorized, \* history: keys that answered 401 and were not enabled since
    spared,     \* history: those among them whose disabling failed, or died with
                \* the process, since their last 401
    excused     \* history: keys the administrator enabled, or whose read back or
                \* blacklisting failed or died with the process, since their
                \* last failure was read back

lists    == <<keys, checked, available, matching>>
request  == <<pc, lists, chosen>>
row      == <<active, failed, serving>>
history  == <<seen, lost, unauthorized, spared, excused>>
vars == <<health, row, counter, request, report, history>>

Breaker == INSTANCE CircuitBreaker

\* KeyPool::new gives the breaker a window and thresholds that fit its counters.
ASSUME BreakerAssumption == Breaker!BreakerAssumption

-----------------------------------------------------------------------------
(* Selecting a key: next_key *)

Unrestricted(k) == Offers[k] = {}

Serves(r, k) == Model[r] = NoModel \/ Unrestricted(k) \/ Model[r] \in Offers[k]

\* The join over keys and endpoints, both active (the token is, or the request
\* would not have come this far).
Snapshot == {k \in Keys : active[k] /\ EndpointOf[k] \in serving}

\* Every list of the code is in the order of the snapshot, so it is given by
\* the set of its keys: this is its element at index n, from 0.
Nth(ks, n) == CHOOSE k \in ks : Cardinality({j \in ks : CreatedAt[j] < CreatedAt[k]}) = n

\* The locals of next_key start from, and end with, nothing.
Lists(r, snapshot) ==
    /\ keys'      = [keys EXCEPT ![r] = snapshot]
    /\ checked'   = [checked EXCEPT ![r] = 0]
    /\ available' = [available EXCEPT ![r] = {}]
    /\ matching'  = [matching EXCEPT ![r] = {}]

Choose(r, k) == chosen' = [chosen EXCEPT ![r] = k]

Bug_EmptySnapshotFiltered(r) ==
    /\ pc[r] \in {"idle", "refused"}
    /\ Lists(r, Snapshot)
    /\ pc' = [pc EXCEPT ![r] = "filter"]
    /\ UNCHANGED <<health, row, counter, chosen, report, history>>

\* next_key reads the active keys; none at all falls back to the configuration
\* or refuses.
TakeSnapshot(r) ==
    /\ pc[r] \in {"idle", "refused"}
    /\ Lists(r, Snapshot)
    /\ pc' = [pc EXCEPT ![r] = IF Snapshot # {} THEN "filter"
                               ELSE IF HasFallback THEN "sent" ELSE "refused"]
    /\ UNCHANGED <<health, row, counter, chosen, report, history>>

\* ... or that read fails, which refuses the request, a fallback or not.
SnapshotFails(r) ==
    /\ pc[r] \in {"idle", "refused"}
    /\ Lists(r, {})
    /\ pc' = [pc EXCEPT ![r] = "refused"]
    /\ UNCHANGED <<health, row, counter, chosen, report, history>>

\* The filter asks the breaker about the next key: an expired window becomes
\* half-open even if this request ends up with another key.  The model filter
\* that follows is local to the request, so it is taken in the same pass.
CheckKey(r) ==
    LET k == Nth(keys[r], checked[r])
    IN  /\ pc[r] = "filter"
        /\ checked[r] < Cardinality(keys[r])
        /\ checked' = [checked EXCEPT ![r] = @ + 1]
        /\ health'  = [health EXCEPT ![k] = Breaker!AfterIsAvailable(@)]
        /\ IF Breaker!Admits(health[k])
           THEN /\ available' = [available EXCEPT ![r] = @ \union {k}]
                /\ matching'  = [matching EXCEPT ![r] = IF Serves(r, k) THEN @ \union {k} ELSE @]
           ELSE UNCHANGED <<available, matching>>
        /\ UNCHANGED <<row, counter, pc, keys, chosen, report, history>>

\* all_have_models, over the keys the breaker admitted: true of none at all.
AllHaveModels(r) == \A k \in available[r] : ~Unrestricted(k)

Refuses(r) == matching[r] = {} /\ Model[r] # NoModel /\ AllHaveModels(r)

UnrestrictedKeys(r) == {k \in available[r] : Unrestricted(k)}

Bug_FinalIgnoresModel(r) ==
    IF Model[r] # NoModel /\ Cardinality(available[r]) > 1 THEN available[r] ELSE matching[r]

\* final_keys: the keys for the model; if there are none, the unrestricted
\* ones; if none either, whatever the breaker admitted.
FinalKeys(r) ==
    IF matching[r] = {} /\ Model[r] # NoModel
    THEN IF UnrestrictedKeys(r) = {} THEN available[r] ELSE UnrestrictedKeys(r)
    ELSE matching[r]

RoundRobin(ks) == Nth(ks, counter % Cardinality(ks))

\* With every key fused the code falls back to the whole snapshot.
Selected(r) == IF FinalKeys(r) = {} THEN RoundRobin(keys[r]) ELSE RoundRobin(FinalKeys(r))

Filtered(r) == pc[r] = "filter" /\ checked[r] = Cardinality(keys[r])

RefuseModel(r) ==
    /\ Filtered(r) /\ Refuses(r)
    /\ pc' = [pc EXCEPT ![r] = "refused"]
    /\ UNCHANGED <<health, row, counter, lists, chosen, report, history>>

SelectKey(r) ==
    /\ Filtered(r) /\ ~Refuses(r)
    /\ counter' = (counter + 1) % CounterMod
    /\ Choose(r, Selected(r))
    /\ Lists(r, {})
    /\ pc'      = [pc EXCEPT ![r] = "sent"]
    /\ UNCHANGED <<health, row, report, history>>

-----------------------------------------------------------------------------
(* The answer, and the report it spawns *)

Failing(o) == o # "ok"

ReportPc == {"free", "breaker", "disable", "stats", "read", "blacklist"}

\* The attempt ends and report_result is spawned, for a key of the database.
Answer(r, t, o) ==
    /\ pc[r] = "sent" /\ chosen[r] # NoKey /\ Model[r] # NoModel
    /\ report[t].pc = "free"
    /\ Failing(o) => seen[chosen[r]] < FailureBound
    /\ pc'     = [pc EXCEPT ![r] = "idle"]
    /\ report' = [report EXCEPT ![t] = [pc |-> "breaker", key |-> chosen[r], outcome |-> o]]
    /\ seen'   = [seen EXCEPT ![chosen[r]] = IF Failing(o) THEN @ + 1 ELSE @]
    /\ IF o = "401" THEN /\ unauthorized' = unauthorized \union {chosen[r]}
                         /\ spared' = spared \ {chosen[r]}
                    ELSE UNCHANGED <<unauthorized, spared>>
    /\ Choose(r, NoKey)
    /\ UNCHANGED <<health, row, counter, lists, lost, excused>>

\* An attempt with the fallback key or for the model list, and one whose client
\* went away before the answer, end without a report.
EndUnreported(r) ==
    /\ pc[r] = "sent"
    /\ pc' = [pc EXCEPT ![r] = "idle"]
    /\ Choose(r, NoKey)
    /\ UNCHANGED <<health, row, counter, lists, report, history>>

\* update_api_key_status and the UPDATE of restore_invalid_keys.
SetActive(ks, b) == active' = [k \in Keys |-> IF k \in ks THEN b ELSE active[k]]

Goto(t, label) == report' = [report EXCEPT ![t].pc = label]
Finish(t)      == report' = [report EXCEPT ![t] = [pc |-> "free", key |-> NoKey, outcome |-> "ok"]]

\* should_fuse; a success and every other 4xx count as a success.
Fuses(o) == o \in {"network", "401", "fusing"}

Bug_FailureCountsTwice(t) ==
    LET k == report[t].key
        o == report[t].outcome
    IN  /\ report[t].pc = "breaker"
        /\ health' = [health EXCEPT ![k] = IF Fuses(o)
                                           THEN Breaker!AfterRecordFailure(Breaker!AfterRecordFailure(@))
                                           ELSE Breaker!AfterRecordSuccess(@)]
        /\ Goto(t, IF o = "401" THEN "disable" ELSE "stats")
        /\ UNCHANGED <<row, counter, request, history>>

ReportToBreaker(t) ==
    LET k == report[t].key
        o == report[t].outcome
    IN  /\ report[t].pc = "breaker"
        /\ health' = [health EXCEPT ![k] = IF Fuses(o) THEN Breaker!AfterRecordFailure(@)
                                           ELSE Breaker!AfterRecordSuccess(@)]
        /\ Goto(t, IF o = "401" THEN "disable" ELSE "stats")
        /\ UNCHANGED <<row, counter, request, history>>

\* update_api_key_status(false), which may fail and leave the row as it is;
\* `kept` is the history of the keys it left in service.
Disable(k, kept) ==
    \/ SetActive({k}, FALSE) /\ UNCHANGED kept
    \/ kept' = kept \union {k} /\ UNCHANGED active

Bug_DisableAwaitsOthers(t) ==
    /\ report[t].pc = "disable"
    /\ \A u \in Reports : report[u].pc = "disable" => u = t
    /\ Disable(report[t].key, spared)
    /\ Goto(t, "stats")
    /\ UNCHANGED <<health, failed, serving, counter, request, seen, lost, unauthorized, excused>>

\* 401: the key is disabled before the statistics; a failure is only logged.
DisableUnauthorized(t) ==
    /\ report[t].pc = "disable"
    /\ Disable(report[t].key, spared)
    /\ Goto(t, "stats")
    /\ UNCHANGED <<health, failed, serving, counter, request, seen, lost, unauthorized, excused>>

\* After a failure other than 401, with a limit, the count is read back.
ReadsBack(t) == Failing(report[t].outcome) /\ report[t].outcome # "401" /\ MaxFailures[report[t].key] > 0

\* History: a counted and read back failure ends the excuse of its key; the
\* count of a 401 that finds the key enabled again (between its two database
\* calls) is the one failure nobody reads back.
CountExcuse(t) ==
    excused' = IF ReadsBack(t) THEN excused \ {report[t].key}
               ELSE IF report[t].outcome = "401" /\ active[report[t].key]
               THEN excused \union {report[t].key} ELSE excused

AddFailure(t, count) ==
    [count EXCEPT ![report[t].key] = IF Failing(report[t].outcome) THEN @ + 1 ELSE @]

AfterCount(t) ==
    /\ IF ReadsBack(t) THEN Goto(t, "read") ELSE Finish(t)
    /\ UNCHANGED <<health, active, serving, counter, request, seen, unauthorized, spared>>

Bug_StatsSkip401(t) ==
    /\ report[t].pc = "stats"
    /\ failed' = IF report[t].outcome = "401" THEN failed ELSE AddFailure(t, failed)
    /\ CountExcuse(t)
    /\ AfterCount(t)
    /\ UNCHANGED lost

\* increment_key_stats, one UPDATE.
CountStats(t) ==
    /\ report[t].pc = "stats"
    /\ failed' = AddFailure(t, failed)
    /\ CountExcuse(t)
    /\ AfterCount(t)
    /\ UNCHANGED lost

\* An UPDATE that fails is logged: a failure is not counted, but read back
\* nevertheless.
CountFails(t) ==
    /\ report[t].pc = "stats"
    /\ lost' = AddFailure(t, lost)
    /\ excused' = IF ReadsBack(t) THEN excused \ {report[t].key} ELSE excused
    /\ AfterCount(t)
    /\ UNCHANGED failed

OverLimit(k) == MaxFailures[k] > 0 /\ failed[k] >= MaxFailures[k]

Bug_ReadOffByOne(t) ==
    /\ report[t].pc = "read"
    /\ IF failed[report[t].key] > MaxFailures[report[t].key] THEN Goto(t, "blacklist") ELSE Finish(t)
    /\ UNCHANGED <<health, row, counter, request, history>>

\* list_api_keys through a reader connection.
ReadFailures(t) ==
    /\ report[t].pc = "read"
    /\ IF failed[report[t].key] >= MaxFailures[report[t].key] THEN Goto(t, "blacklist") ELSE Finish(t)
    /\ UNCHANGED <<health, row, counter, request, history>>

\* `if let Ok(keys)`: without an answer the limit is not looked at.
ReadFails(t) ==
    /\ report[t].pc = "read"
    /\ excused' = excused \union {report[t].key}
    /\ Finish(t)
    /\ UNCHANGED <<health, row, counter, request, seen, lost, unauthorized, spared>>

Blacklist(t) ==
    /\ report[t].pc = "blacklist"
    /\ Disable(report[t].key, excused)
    /\ Finish(t)
    /\ UNCHANGED <<health, failed, serving, counter, request, seen, lost, unauthorized, spared>>

ReportStep(t) ==
    \/ ReportToBreaker(t) \/ DisableUnauthorized(t)
    \/ CountStats(t) \/ CountFails(t)
    \/ ReadFailures(t) \/ ReadFails(t) \/ Blacklist(t)

-----------------------------------------------------------------------------
(* The administrator, the clock and the process *)

\* None of the three ways to put keys back in service touches failed_requests
\* or the breaker.  History: the keys are excused for what they did so far.
PutBack(ks) ==
    /\ SetActive(ks, TRUE)
    /\ unauthorized' = unauthorized \ ks
    /\ spared'       = spared \ ks
    /\ excused'      = excused \union ks
    /\ UNCHANGED <<health, failed, serving, counter, request, report, seen, lost>>

\* test_key: a passed test; a failed one changes nothing.
TestPassed(k) == PutBack({k})

\* batch_restore_keys: every inactive key of the endpoint at once.
RestoreInvalidKeys(e) == PutBack({k \in Keys : EndpointOf[k] = e /\ ~active[k]})

\* update_key_status.
UpdateKeyStatus(k, b) ==
    IF b THEN PutBack({k})
    ELSE /\ SetActive({k}, FALSE)
         /\ UNCHANGED <<health, failed, serving, counter, request, report, history>>

\* update_endpoint_status: the keys keep their own status, so one the pool
\* retired stays retired when its endpoint comes back.
UpdateEndpointStatus(e, b) ==
    /\ serving' = IF b THEN serving \union {e} ELSE serving \ {e}
    /\ UNCHANGED <<health, active, failed, counter, request, report, history>>

Administer ==
    \/ \E k \in Keys : TestPassed(k)
    \/ \E k \in Keys, b \in BOOLEAN : UpdateKeyStatus(k, b)
    \/ \E e \in Endpoints : RestoreInvalidKeys(e)
    \/ \E e \in Endpoints, b \in BOOLEAN : UpdateEndpointStatus(e, b)

Tick ==
    /\ health' = [k \in Keys |-> Breaker!AfterTick(health[k])]
    /\ UNCHANGED <<row, counter, request, report, history>>

Idle == [pc |-> "free", key |-> NoKey, outcome |-> "ok"]

Pending(k, labels) == {t \in Reports : report[t].key = k /\ report[t].pc \in labels}

\* Failed answers of k whose increment is still to come.
Uncounted(k) == {t \in Pending(k, {"breaker", "disable", "stats"}) : Failing(report[t].outcome)}

\* The process stops at any point and starts again: the rows survive, the
\* breaker, the counter, the requests and the report tasks do not.
Restart ==
    /\ health'  = [k \in Keys |-> Breaker!FreshHealth]
    /\ counter' = 0
    /\ pc'        = [r \in Requests |-> "idle"]
    /\ keys'      = [r \in Requests |-> {}]
    /\ checked'   = [r \in Requests |-> 0]
    /\ available' = [r \in Requests |-> {}]
    /\ matching'  = [r \in Requests |-> {}]
    /\ chosen'    = [r \in Requests |-> NoKey]
    /\ report'  = [t \in Reports |-> Idle]
    /\ lost'    = [k \in Keys |-> lost[k] + Cardinality(Uncounted(k))]
    /\ spared'  = spared \union {k \in unauthorized : Pending(k, {"breaker", "disable"}) # {}}
    /\ excused' = excused \union {k \in Keys : Pending(k, {"read", "blacklist"}) # {}}
    /\ UNCHANGED <<row, seen, unauthorized>>

-----------------------------------------------------------------------------
Init ==
    /\ health = [k \in Keys |-> Breaker!FreshHealth]
    /\ active = [k \in Keys |-> TRUE]
    /\ failed = [k \in Keys |-> 0]
    /\ serving = Endpoints
    /\ counter = 0
    /\ pc        = [r \in Requests |-> "idle"]
    /\ keys      = [r \in Requests |-> {}]
    /\ checked   = [r \in Requests |-> 0]
    /\ available = [r \in Requests |-> {}]
    /\ matching  = [r \in Requests |-> {}]
    /\ chosen    = [r \in Requests |-> NoKey]
    /\ report = [t \in Reports |-> Idle]
    /\ seen = [k \in Keys |-> 0]
    /\ lost = [k \in Keys |-> 0]
    /\ unauthorized = {}
    /\ spared = {}
    /\ excused = {}

RequestStep(r) ==
    \/ TakeSnapshot(r) \/ SnapshotFails(r) \/ CheckKey(r)
    \/ RefuseModel(r) \/ SelectKey(r) \/ EndUnreported(r)
    \/ \E t \in Reports, o \in Outcomes : Answer(r, t, o)

Next ==
    \/ \E r \in Requests : RequestStep(r)
    \/ \E t \in Reports : ReportStep(t)
    \/ Administer
    \/ Tick
    \/ Restart

Spec == Init /\ [][Next]_vars

\* A spawned task is run by the executor until it ends: each of its database
\* calls answers or fails (a connection waits 5 s for a lock and then errs).
FairSpec == Spec /\ \A t \in Reports : WF_vars(ReportStep(t))

-----------------------------------------------------------------------------
(* Properties *)

\* Types, and what keeps the round robin from an index modulo 0 (a panic): a
\* request that filters has keys in its snapshot to fall back to, whatever the
\* breaker and the model leave of them.
TypeOK ==
    /\ health \in [Keys -> Breaker!KeyHealth]
    /\ active \in [Keys -> BOOLEAN]
    /\ failed \in [Keys -> Nat]
    /\ serving \subseteq Endpoints
    /\ counter \in 0..(CounterMod - 1)
    /\ pc \in [Requests -> {"idle", "filter", "refused", "sent"}]
    /\ keys \in [Requests -> SUBSET Keys]
    /\ \A r \in Requests : pc[r] = "filter" => keys[r] # {}
    /\ checked \in [Requests -> Nat]
    /\ available \in [Requests -> SUBSET Keys]
    /\ matching \in [Requests -> SUBSET Keys]
    /\ chosen \in [Requests -> Keys \union {NoKey}]
    /\ report \in [Reports -> [pc : ReportPc, key : Keys \union {NoKey}, outcome : Outcome]]
    /\ seen \in [Keys -> Nat]
    /\ lost \in [Keys -> Nat]
    /\ unauthorized \subseteq Keys
    /\ spared \subseteq Keys
    /\ excused \subseteq Keys

\* The pool touches the breaker only as its interface allows, so everything
\* shown of CircuitBreaker holds here (a restart begins a new breaker).
UsesBreaker ==
    [][Breaker!Next \/ health' = [k \in Keys |-> Breaker!FreshHealth]]_health

\* A request that names a model is only ever sent with a key whose endpoint
\* serves it, whatever the breaker did to the list in between: the branch of
\* next_key that falls back to keys without the model is never taken.
SentKeyServesModel ==
    \A r \in Requests : pc[r] = "sent" /\ chosen[r] # NoKey => Serves(r, chosen[r])

\* No failure is counted twice, and none goes missing but by an UPDATE that
\* failed or a process that stopped: failed_requests of a key, the reports still
\* on their way to increment it and the failures so lost add up to its failed
\* answers, whatever else of a report fails.
FailuresCounted ==
    \A k \in Keys : failed[k] + Cardinality(Uncounted(k)) + lost[k] = seen[k]

\* The three separate database steps of a report (count, read back, disable)
\* and any interleaving with other reports cannot leave a key in service that
\* they should have retired.  Once no report of k is running, an active key has
\* not answered 401 since it was last enabled, unless the disabling itself
\* failed or died with the process; and it is below max_failures, unless since
\* its last failure was read back it was enabled by hand, a 401 was counted
\* after that, or that read or the blacklisting failed or died.  A count that
\* fails is no excuse: what it leaves is read back all the same.
BadKeysRetired ==
    \A k \in Keys :
        active[k] /\ Pending(k, ReportPc) = {}
            => /\ k \in unauthorized => k \in spared
               /\ OverLimit(k) => k \in excused

\* A key that answered 401 leaves service (or is enabled again by hand) even if
\* the request that saw the answer is long gone; only a failing UPDATE or a
\* process that stops can keep it there.
UnauthorizedLeaves ==
    \A k \in Keys :
        k \in unauthorized ~> k \notin unauthorized \/ ~active[k] \/ k \in spared

\* key_pool.rs:146 - with every key fused, requests are still served: a request
\* is refused only for lack of active keys, or with some key not fused.
AllFusedStillServed ==
    \A r \in Requests : pc[r] = "refused" => keys[r] = {} \/ available[r] # {}

=============================================================================
