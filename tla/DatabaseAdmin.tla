--------------------------- MODULE DatabaseAdmin ---------------------------
(***************************************************************************)
(* The administration API of src/src/stats_api.rs on the tables of         *)
(* Database, between one start-up and the next: endpoints, keys, access    *)
(* tokens with their channels, settings, and the model list of an          *)
(* endpoint, which a background task may fetch from the upstream.          *)
(*                                                                         *)
(* A method of Database that writes holds the writer's mutex to its end;   *)
(* readers have connections of their own and see what is committed, so     *)
(* the statements of a method are steps of their own.  A statement that    *)
(* fails ends its method where it is.                                      *)
(***************************************************************************)
EXTENDS Database

CONSTANTS
    Calls,          \* calls of the API, with their background tasks, at once
    CallBound       \* bound on the calls that are made

ASSUME AdminAssumption == CallBound \in Nat

VARIABLES
    models,     \* upstream_endpoints.models: empty, set by hand, or fetched
    task,       \* where each call is
    calls,      \* history: the calls so far
    granted,    \* history: the channels a token was last asked to have
    partial     \* history: the tokens whose last change did not bind them all

vars == <<dbVars, models, task, calls, granted, partial>>

Idle == [at |-> "idle", id |-> NoId, rest |-> {}, current |-> FALSE]

Task == [at : {"idle", "bind", "drop_token", "drop_endpoint", "batch", "check", "save", "sync"},
         id : Endpoints \cup Tokens \cup {NoId}, rest : SUBSET (Endpoints \cup Keys),
         current : BOOLEAN]

Serving == boot = "serving"

\* self.writer.lock(): a method with statements still to come keeps the mutex.
InMethod == {"bind", "drop_token", "drop_endpoint", "batch"}

Bug_NoLock == TRUE

WriterFree == \A c \in Calls : task[c].at \notin InMethod

SetTask(c, at, id, rest) == task' = [task EXCEPT ![c] = [Idle EXCEPT !.at = at, !.id = id, !.rest = rest]]

\* A call that comes in and takes the mutex.
Call(c) ==
    /\ Serving /\ WriterFree
    /\ task[c].at = "idle"
    /\ calls < CallBound
    /\ calls' = calls + 1

\* A call of one statement.
Single(c) == Call(c) /\ UNCHANGED <<start, past, schema>>

Done(c) == task' = [task EXCEPT ![c] = Idle]

-----------------------------------------------------------------------------
(* Access tokens *)

\* The tokens' channels as a call wants them.
Grant(c, t, channels) ==
    /\ granted' = [granted EXCEPT ![t] = channels]
    /\ partial' = partial \ {t}
    /\ IF channels = {} THEN task' = task ELSE SetTask(c, "bind", t, channels)

\* add_access_token: the row, then one binding per channel.
AddAccessToken(c, t, channels) ==
    /\ Call(c)
    /\ New(token, t)
    /\ token' = [token EXCEPT ![t] = "live"]
    /\ Grant(c, t, channels)
    /\ UNCHANGED <<start, past, schema, setting, endpoint, owner, bindings, models>>

WithoutToken(t) == {b \in bindings : b[1] # t}

\* update_access_token_channels: all bindings go, then one comes per channel.
\* Whether there is such a token is not asked.
ReplaceChannels(c, t, channels) ==
    /\ Call(c)
    /\ token[t] # "unused"
    /\ bindings' = WithoutToken(t)
    /\ Grant(c, t, channels)
    /\ UNCHANGED <<start, past, schema, setting, endpoint, owner, token, models>>

\* INSERT OR IGNORE of the next binding.
Bind(c) ==
    /\ task[c].at = "bind"
    /\ \E e \in task[c].rest :
          /\ bindings' = bindings \cup {<<task[c].id, e>>}
          /\ IF task[c].rest = {e} THEN Done(c)
             ELSE SetTask(c, "bind", task[c].id, task[c].rest \ {e})
    /\ UNCHANGED <<start, past, schema, setting, endpoint, owner, token, models, calls, granted, partial>>

\* delete_access_token: the bindings, then the row.
DeleteAccessToken(c, t) ==
    /\ Call(c)
    /\ token[t] = "live"
    /\ bindings' = WithoutToken(t)
    /\ granted' = [granted EXCEPT ![t] = {}]
    /\ SetTask(c, "drop_token", t, {})
    /\ UNCHANGED <<start, past, schema, setting, endpoint, owner, token, models, partial>>

DropTokenRow(c) ==
    /\ task[c].at = "drop_token"
    /\ token' = [token EXCEPT ![task[c].id] = "deleted"]
    /\ Done(c)
    /\ UNCHANGED <<start, past, schema, setting, endpoint, owner, bindings, models, calls, granted, partial>>

-----------------------------------------------------------------------------
(* Endpoints and keys *)

AddEndpoint(c, e) ==
    /\ Single(c)
    /\ New(endpoint, e)
    /\ endpoint' = [endpoint EXCEPT ![e] = "live"]
    /\ UNCHANGED <<setting, owner, token, bindings, models, granted, partial, task>>

Freed(ks) == owner' = [k \in Keys |-> IF k \in ks THEN "deleted" ELSE owner[k]]

KeysOf(e) == {k \in Keys : owner[k] = e}

\* delete_endpoint: its keys, then its row.  Bindings to it stay.
DeleteEndpoint(c, e) ==
    /\ Call(c)
    /\ endpoint[e] = "live"
    /\ Freed(KeysOf(e))
    /\ SetTask(c, "drop_endpoint", e, {})
    /\ UNCHANGED <<start, past, schema, setting, endpoint, token, bindings, models, granted, partial>>

DropEndpointRow(c) ==
    /\ task[c].at = "drop_endpoint"
    /\ endpoint' = [endpoint EXCEPT ![task[c].id] = "deleted"]
    /\ models' = [models EXCEPT ![task[c].id] = "empty"]
    /\ Done(c)
    /\ UNCHANGED <<start, past, schema, setting, owner, token, bindings, calls, granted, partial>>

Bug_AddKeyWithoutLock(c, e, k) ==
    /\ Serving /\ task[c].at = "idle" /\ calls < CallBound
    /\ endpoint[e] # "unused" /\ New(owner, k)
    /\ calls' = calls + 1
    /\ owner' = [owner EXCEPT ![k] = e]
    /\ SetTask(c, "check", e, {})
    /\ UNCHANGED <<start, past, schema, setting, endpoint, token, bindings, models, granted, partial>>

\* add_api_key for an id the client still shows, deleted or not (the code takes
\* any string for the id); the handler then looks at the model list.
AddKey(c, e, k) ==
    /\ Call(c)
    /\ endpoint[e] # "unused" /\ New(owner, k)
    /\ owner' = [owner EXCEPT ![k] = e]
    /\ SetTask(c, "check", e, {})
    /\ UNCHANGED <<start, past, schema, setting, endpoint, token, bindings, models, granted, partial>>

\* add_api_keys_batch opens a transaction: the rows are not there for readers,
\* nor after a stop, until it commits.
BatchAddKeys(c, e, ks) ==
    /\ Call(c)
    /\ endpoint[e] # "unused" /\ \A k \in ks : owner[k] = "unused"
    /\ task' = [task EXCEPT ![c] = [Idle EXCEPT !.at = "batch", !.id = e, !.rest = ks]]
    /\ UNCHANGED <<dbVars, models, granted, partial>>

Commit(c) ==
    /\ task[c].at = "batch"
    /\ owner' = [k \in Keys |-> IF k \in task[c].rest THEN task[c].id ELSE owner[k]]
    /\ IF task[c].rest = {} THEN Done(c)
       ELSE SetTask(c, "check", task[c].id, {})
    /\ UNCHANGED <<start, past, schema, setting, endpoint, token, bindings, models, calls, granted, partial>>

\* delete_api_key, and delete_keys_by_endpoint with and without its filter.
DeleteKeys(c, ks) ==
    /\ Single(c)
    /\ Freed(ks)
    /\ UNCHANGED <<setting, endpoint, token, bindings, models, granted, partial, task>>

SetSetting(c, name, value) ==
    /\ Single(c)
    /\ setting' = [setting EXCEPT ![name] = value]
    /\ UNCHANGED <<endpoint, owner, token, bindings, models, granted, partial, task>>

-----------------------------------------------------------------------------
(* The model list of an endpoint *)

\* A list set by hand outdates what tasks for the endpoint have read.
SetModels(c, e, list) ==
    /\ Call(c)
    /\ models' = [models EXCEPT ![e] = IF endpoint[e] = "live" THEN list ELSE @]
    /\ task' = [d \in Calls |-> [task[d] EXCEPT !.current = @ /\ task[d].id # e]]
    /\ UNCHANGED <<dbVars, granted, partial>>

Bug_CheckForgotten(c) ==
    /\ task[c].at = "check"
    /\ task' = [task EXCEPT ![c].at = "save", ![c].current = TRUE]
    /\ UNCHANGED <<dbVars, models, calls, granted, partial>>

\* After a key was added: an endpoint with an empty list gets a background
\* task.  A list that cannot be read counts as empty, unwrap_or_default().
CheckModels(c) ==
    /\ task[c].at = "check"
    /\ \/ task' = [task EXCEPT ![c].at = "save"]
       \/ /\ models[task[c].id] = "empty"
          /\ task' = [task EXCEPT ![c].at = "save", ![c].current = TRUE]
       \/ /\ models[task[c].id] # "empty"
          /\ Done(c)
    /\ UNCHANGED <<dbVars, models, calls, granted, partial>>

\* The upstream named some models and the task writes them, whatever the list
\* is by now.
SaveModels(c) ==
    /\ task[c].at = "save" /\ WriterFree
    /\ models' = [models EXCEPT ![task[c].id] = IF endpoint[task[c].id] = "live" THEN "fetched" ELSE @]
    /\ Done(c)
    /\ UNCHANGED <<dbVars, calls, granted, partial>>

\* sync_endpoint_models: asked for by hand, with the first key of the endpoint.
SyncModels(c, e) ==
    /\ Serving /\ task[c].at = "idle" /\ calls < CallBound
    /\ endpoint[e] = "live" /\ KeysOf(e) # {}
    /\ calls' = calls + 1
    /\ SetTask(c, "sync", e, {})
    /\ UNCHANGED <<dbVars, models, granted, partial>>

\* It saves what the upstream answered, be it no model at all.
SaveSynced(c) ==
    /\ task[c].at = "sync" /\ WriterFree
    /\ \E list \in {"fetched", "empty"} :
          models' = [models EXCEPT ![task[c].id] = IF endpoint[task[c].id] = "live" THEN list ELSE @]
    /\ Done(c)
    /\ UNCHANGED <<dbVars, calls, granted, partial>>

\* The endpoint is gone or not active, the upstream fails, or it names nothing.
FetchFails(c) ==
    /\ task[c].at \in {"save", "sync"}
    /\ Done(c)
    /\ UNCHANGED <<dbVars, models, calls, granted, partial>>

-----------------------------------------------------------------------------
(* Failures, and the process *)

\* The next statement of a method fails: what went before stays, but for the
\* transaction, which is rolled back.  (After a COMMIT that fails the code
\* leaves the transaction open: not modelled.)  History: a token half bound.
StatementFails(c) ==
    /\ task[c].at \in InMethod
    /\ Done(c)
    /\ partial' = partial \cup IF task[c].at = "bind" THEN {task[c].id} ELSE {}
    /\ UNCHANGED <<dbVars, models, calls, granted>>

\* A token made of an old setting is to have the endpoints there are.
Boots(error) ==
    LET made == {t \in Tokens : token[t] # token'[t]}
    IN  /\ StartUp(error)
        /\ granted' = [t \in Tokens |-> IF t \in made THEN Live(endpoint) ELSE granted[t]]
        /\ partial' = partial \cup IF left' = Live(endpoint) THEN {} ELSE made
        /\ UNCHANGED <<models, task, calls>>

Stops ==
    /\ Stop
    /\ task' = [c \in Calls |-> Idle]
    /\ partial' = partial \cup {task[c].id : c \in {d \in Calls : task[d].at = "bind"}}
                          \cup IF boot = "bind_token" THEN {fresh} ELSE {}
    /\ UNCHANGED <<models, calls, granted>>

Init ==
    /\ DbInit
    /\ models = [e \in Endpoints |-> "empty"]
    /\ task = [c \in Calls |-> Idle]
    /\ calls = 0
    /\ granted = [t \in Tokens |-> {}]
    /\ partial = {}

\* The endpoints a client has seen, and may still name after they are gone.
Known == {e \in Endpoints : endpoint[e] # "unused"}

CallTokens(c) ==
    \E t \in Tokens :
        \/ \E channels \in SUBSET Known : AddAccessToken(c, t, channels) \/ ReplaceChannels(c, t, channels)
        \/ DeleteAccessToken(c, t)

CallEndpoints(c) ==
    \E e \in Endpoints :
        \/ AddEndpoint(c, e) \/ DeleteEndpoint(c, e) \/ SyncModels(c, e)
        \/ \E list \in {"hand", "empty"} : SetModels(c, e, list)
        \/ \E k \in Keys : AddKey(c, e, k)
        \/ \E ks \in SUBSET Keys : BatchAddKeys(c, e, ks)
        \/ \E ks \in SUBSET KeysOf(e) : ks # {} /\ DeleteKeys(c, ks)

CallRest(c) ==
    \/ \E k \in Keys : HasRow(k) /\ DeleteKeys(c, {k})
    \/ \E name \in Settings, value \in {"blank", "set"} : SetSetting(c, name, value)
    \/ \E t \in Live(token) : SetSetting(c, "auth_token", t)

Continue(c) ==
    \/ Bind(c) \/ DropTokenRow(c) \/ DropEndpointRow(c) \/ Commit(c)
    \/ CheckModels(c) \/ SaveModels(c) \/ SaveSynced(c) \/ FetchFails(c) \/ StatementFails(c)

Next ==
    \/ \E error \in Errors : Boots(error)
    \/ Stops
    \/ \E c \in Calls :
          CallTokens(c) \/ CallEndpoints(c) \/ CallRest(c) \/ Continue(c)

Spec == Init /\ [][Next]_vars

\* The supervisor starts the process again, and a start-up that is not stopped
\* runs to its end: its reads may fail, and need not.
FairSpec == Spec /\ WF_vars(Boots("none"))

-----------------------------------------------------------------------------
(* Properties *)

TypeOK ==
    /\ DbTypeOK
    /\ models \in [Endpoints -> {"empty", "hand", "fetched"}]
    /\ task \in [Calls -> Task]
    /\ calls \in 0 .. CallBound
    /\ granted \in [Tokens -> SUBSET Endpoints]
    /\ partial \subseteq Tokens

\* However often a start-up dies between making a row and dropping the setting
\* it was made of, the setting is turned into one endpoint, and one token: a
\* second row is only made by a start-up that cannot count those there are.
MovedOnce ==
    LET rows == moved \ blind
    IN  /\ \A d, e \in rows \cap Endpoints : endpoint[d] = "live" /\ endpoint[e] = "live" => d = e
        /\ \A t, u \in rows \cap Tokens : token[t] = "live" /\ token[u] = "live" => t = u

\* A proxy that serves with the endpoint of an old release has bound the old
\* keys to it, unless the start-up died between the two statements.
OldKeysBound ==
    Serving /\ moved \cap Endpoints # {} /\ cut = {}
        => \A k \in Keys : owner[k] # NoEndpoint

Channels(t) == {e \in Endpoints : <<t, e>> \in bindings}

Changing(t) == t = fresh \/ \E c \in Calls : task[c].at = "bind" /\ task[c].id = t

\* Whatever changes of tokens are mixed with each other, with failures and with
\* restarts, a token has only channels the last change gave it, and all of
\* them unless that change is still running, was cut short, or was a migration
\* that could not read an endpoint.
GrantsExact ==
    \A t \in Tokens :
        /\ Channels(t) \subseteq granted[t]
        /\ Changing(t) \/ t \in partial \/ Channels(t) = granted[t]

\* No call slips a key in between the two statements of delete_endpoint: when
\* the row goes, no key of the endpoint is left.
EndpointLeavesNoKeys ==
    [][\A e \in Endpoints : endpoint[e] = "live" /\ endpoint'[e] = "deleted" =>
           \A k \in Keys : owner'[k] # e]_vars

\* A background fetch writes over a list set by hand only if the list was set
\* after the task had looked, or could not be read then.
HandListsStand ==
    [][\A e \in Endpoints : models[e] = "hand" /\ models'[e] = "fetched" =>
           \E c \in Calls : task[c].id = e /\ ~task[c].current /\ task'[c] = Idle]_vars

\* Whatever a stopped start-up left behind, the next one comes through.
StartsAgain == boot = "down" ~> Serving
=============================================================================
