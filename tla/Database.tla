------------------------------ MODULE Database ------------------------------
(***************************************************************************)
(* The tables of src/src/database.rs that are written in more than one     *)
(* statement, and the start-up of Database::new that brings a file left by *)
(* any earlier release, or by a start-up that died, to the current schema. *)
(*                                                                         *)
(* Every statement commits by itself, so a start-up is as many steps, and  *)
(* the process may stop between any two of them.  A writing statement that *)
(* fails stops it too, but for the two that drop a setting; a read that    *)
(* fails does not: a setting counts as missing, a table as empty, a row is *)
(* left out.  The file survives, the locals do not.  Nothing else runs     *)
(* until the start-up is over.                                             *)
(***************************************************************************)
EXTENDS Naturals, Sequences, Functions

CONSTANTS
    Endpoints, Keys, Tokens,    \* ids, each a UUID that is given once
    NoEndpoint,                 \* the endpoint_id '' of a key of an old release
    NoId,
    OldFiles,                   \* the files a first start may find
    CrashBound                  \* bound on the stops of the process

\* A row's id is unused, then live, then deleted; it never comes back.
Life == {"unused", "live", "deleted"}

Settings == {"upstream_base_url", "auth_token"}

\* The value of a setting, if its row has one: the one a token of
\* access_tokens has, or one that no token has.
Values == {"set"} \cup Tokens

\* The read of the start-up that fails: of a setting, of the COUNT of a table,
\* or of a row of upstream_endpoints.
Errors == {"none", "setting", "count", "row"}

ASSUME DatabaseAssumption ==
    /\ NoEndpoint \notin Endpoints \cup {"unused", "deleted"}
    /\ Endpoints \cap {"unused", "deleted"} = {}
    /\ NoId \notin Endpoints \cup Tokens
    /\ Endpoints \cap Tokens = {}
    /\ Tokens \cap {"missing", "blank", "set"} = {}
    /\ CrashBound \in Nat

VARIABLES
    schema,     \* the tables, and the columns added since, that exist
    setting,    \* proxy_settings: a name's row is missing, blank or has a value
                \* of Values
    endpoint,   \* upstream_endpoints: the life of each id
    owner,      \* api_keys.endpoint_id, or the life of an id without a row
    token,      \* access_tokens: the life of each id
    bindings,   \* the rows of access_token_channels
    boot,       \* where Database::new is
    fresh,      \* ep_id or at_id, the row it has just inserted
    left,       \* ep_ids: the endpoints still to be bound to the token
    crashes,    \* history: the stops so far
    moved,      \* history: rows made from settings of an old release
    cut,        \* history: the endpoints among them that got no keys bound to them
    blind       \* history: those made beside rows that could not be counted

tables == <<schema, setting, endpoint, owner, token, bindings>>
start  == <<boot, fresh, left>>
past   == <<crashes, moved, cut, blind>>
dbVars == <<tables, start, past>>

\* A new UUID: whichever of the unused ids it is makes no difference.
New(life, x) == life[x] = "unused" /\ x = CHOOSE y \in DOMAIN life : life[y] = "unused"

Live(life) == {x \in DOMAIN life : life[x] = "live"}

HasRow(k) == owner[k] \in Endpoints \cup {NoEndpoint}

-----------------------------------------------------------------------------
(* Schema *)

\* The order in which Database::new looks at tables and columns, up to the
\* first data migration ...
MainSchema ==
    <<"proxy_request_logs", "model_pricing", "upstream_endpoints", "models", "website_url",
      "logo_url", "proxy_url", "model_mapping", "max_failures", "max_retries", "strip_tools",
      "api_keys", "endpoint_id", "channel_id", "key_id">>

\* ... and between the two.
AccessSchema == <<"proxy_settings", "access_tokens", "access_token_channels">>

FullSchema == Range(MainSchema) \cup Range(AccessSchema)

\* A new api_keys table is created with endpoint_id in it.
Brings(name) == IF name = "api_keys" THEN {"api_keys", "endpoint_id"} ELSE {name}

\* The first of the steps that is not done yet: CREATE TABLE IF NOT EXISTS and
\* the look at PRAGMA table_info before each ALTER pass over what is there.
Missing(steps) == {i \in DOMAIN steps : steps[i] \notin schema}

Complete(steps) == Missing(steps) = {}

Extend(steps) ==
    \E i \in Missing(steps) :
        /\ \A j \in Missing(steps) : i <= j
        /\ schema' = schema \cup Brings(steps[i])

-----------------------------------------------------------------------------
(* Start-up *)

Goto(label) == boot' = label

\* The process is started again.
Start ==
    /\ boot = "down"
    /\ Goto("main")
    /\ UNCHANGED <<tables, fresh, left, past>>

MainStep ==
    /\ boot = "main"
    /\ Extend(MainSchema)
    /\ UNCHANGED <<setting, endpoint, owner, token, bindings, start, past>>

\* The setting of an old release; a file without the table has none.
Value(name) == IF "proxy_settings" \in schema THEN setting[name] ELSE "missing"

\* A setting that is read, .ok(), and not blank.
Holds(name, error) == error # "setting" /\ Value(name) \in Values

\* A table that is empty, or cannot be counted: unwrap_or(0).
CountsNone(life, error) == error = "count" \/ Live(life) = {}

Bug_UrlWithoutCount(error) == Holds("upstream_base_url", error)

MovesUrl(error) == Holds("upstream_base_url", error) /\ CountsNone(endpoint, error)

\* History: a row of a table that was made of a setting.
Moved(life, x, error) ==
    /\ moved' = moved \cup {x}
    /\ blind' = blind \cup IF error = "count" /\ Live(life) # {} THEN {x} ELSE {}

\* Nothing to migrate: the url was never set, or there are endpoints already.
SkipUrl(error) ==
    /\ boot = "main" /\ Complete(MainSchema)
    /\ ~MovesUrl(error)
    /\ Goto("access")
    /\ UNCHANGED <<tables, fresh, left, past>>

\* The default endpoint is made of the url ...
MoveUrl(error) ==
    /\ boot = "main" /\ Complete(MainSchema)
    /\ MovesUrl(error)
    /\ \E e \in Endpoints :
          /\ New(endpoint, e)
          /\ endpoint' = [endpoint EXCEPT ![e] = "live"]
          /\ fresh' = e
          /\ Moved(endpoint, e, error)
    /\ Goto("bind_keys")
    /\ UNCHANGED <<schema, setting, owner, token, bindings, left, crashes, cut>>

Bug_BindOneKey ==
    /\ boot = "bind_keys"
    /\ \E k \in Keys : owner' = [owner EXCEPT ![k] = IF @ = NoEndpoint THEN fresh ELSE @]
    /\ Goto("drop_url")
    /\ UNCHANGED <<schema, setting, endpoint, token, bindings, fresh, left, past>>

\* ... every key without an endpoint is bound to it ...
BindKeys ==
    /\ boot = "bind_keys"
    /\ owner' = [k \in Keys |-> IF owner[k] = NoEndpoint THEN fresh ELSE owner[k]]
    /\ Goto("drop_url")
    /\ UNCHANGED <<schema, setting, endpoint, token, bindings, fresh, left, past>>

\* ... and the setting goes, or stays if that fails: .ok().
Drop(name) == setting' \in {setting, [setting EXCEPT ![name] = "missing"]}

DropUrl ==
    /\ boot = "drop_url"
    /\ Drop("upstream_base_url")
    /\ fresh' = NoId
    /\ Goto("access")
    /\ UNCHANGED <<schema, endpoint, owner, token, bindings, left, past>>

AccessStep ==
    /\ boot = "access"
    /\ Extend(AccessSchema)
    /\ UNCHANGED <<setting, endpoint, owner, token, bindings, start, past>>

Bug_TokenWithoutCount(error) == Holds("auth_token", error)

MovesToken(error) == CountsNone(token, error) /\ Holds("auth_token", error)

SkipToken(error) ==
    /\ boot = "access" /\ Complete(AccessSchema)
    /\ ~MovesToken(error)
    /\ Goto("serving")
    /\ UNCHANGED <<tables, fresh, left, past>>

\* INSERT INTO access_tokens: the column token is UNIQUE, so the value is not
\* inserted while a token has it, and a start-up that tries ends there.
InsertToken(t) ==
    /\ New(token, t)
    /\ setting["auth_token"] \notin Live(token)
    /\ token' = [token EXCEPT ![t] = "live"]
    /\ setting' = [setting EXCEPT !["auth_token"] = t]
    /\ fresh' = t

\* The old token becomes an access token, for the endpoints that can be read:
\* filter_map(|r| r.ok()) ...
MoveToken(error) ==
    /\ boot = "access" /\ Complete(AccessSchema)
    /\ MovesToken(error)
    /\ \E t \in Tokens :
          /\ InsertToken(t)
          /\ Moved(token, t, error)
    /\ left' \in IF error = "row" THEN SUBSET Live(endpoint) ELSE {Live(endpoint)}
    /\ Goto(IF left' = {} THEN "drop_token" ELSE "bind_token")
    /\ UNCHANGED <<schema, endpoint, owner, bindings, crashes, cut>>

Bug_BindFirstOnly ==
    /\ boot = "bind_token"
    /\ \E e \in left :
          /\ bindings' = bindings \cup {<<fresh, e>>}
          /\ left' = left \ {e}
          /\ Goto("drop_token")
    /\ UNCHANGED <<schema, setting, endpoint, owner, token, fresh, past>>

\* ... is bound to the endpoints one by one ...
BindToken ==
    /\ boot = "bind_token"
    /\ \E e \in left :
          /\ bindings' = bindings \cup {<<fresh, e>>}
          /\ left' = left \ {e}
          /\ Goto(IF left = {e} THEN "drop_token" ELSE "bind_token")
    /\ UNCHANGED <<schema, setting, endpoint, owner, token, fresh, past>>

\* ... and its setting goes, or stays.
DropToken ==
    /\ boot = "drop_token"
    /\ Drop("auth_token")
    /\ fresh' = NoId
    /\ Goto("serving")
    /\ UNCHANGED <<schema, endpoint, owner, token, bindings, left, past>>

StartUp(error) ==
    \/ Start \/ MainStep \/ SkipUrl(error) \/ MoveUrl(error) \/ BindKeys \/ DropUrl
    \/ AccessStep \/ SkipToken(error) \/ MoveToken(error) \/ BindToken \/ DropToken

\* The process stops: killed, or a statement of the start-up failed.  History:
\* an endpoint is left without the keys it was about to get.
Stop ==
    /\ boot # "down" /\ crashes < CrashBound
    /\ crashes' = crashes + 1
    /\ cut' = cut \cup IF boot = "bind_keys" THEN {fresh} ELSE {}
    /\ fresh' = NoId
    /\ left' = {}
    /\ Goto("down")
    /\ UNCHANGED <<tables, moved, blind>>

-----------------------------------------------------------------------------
\* A file as an earlier release leaves it; a new one is empty.
OldFile == [schema : SUBSET FullSchema, setting : [Settings -> {"missing", "blank", "set"}],
            endpoints : SUBSET Endpoints, owner : [Keys -> Endpoints \cup {NoEndpoint, "unused"}]]

DbInit ==
    /\ \E f \in OldFiles \cap OldFile :
          /\ schema = f.schema
          /\ setting = f.setting
          /\ endpoint = [e \in Endpoints |-> IF e \in f.endpoints THEN "live" ELSE "unused"]
          /\ owner = f.owner
    /\ token = [t \in Tokens |-> "unused"]
    /\ bindings = {}
    /\ boot = "down"
    /\ fresh = NoId
    /\ left = {}
    /\ crashes = 0
    /\ moved = {}
    /\ cut = {}
    /\ blind = {}

DbTypeOK ==
    /\ schema \subseteq FullSchema
    /\ setting \in [Settings -> {"missing", "blank"} \cup Values]
    /\ endpoint \in [Endpoints -> Life]
    /\ owner \in [Keys -> Endpoints \cup {NoEndpoint, "unused", "deleted"}]
    /\ token \in [Tokens -> Life]
    /\ bindings \subseteq Tokens \X Endpoints
    /\ boot \in {"down", "main", "bind_keys", "drop_url", "access", "bind_token", "drop_token", "serving"}
    /\ fresh \in Endpoints \cup Tokens \cup {NoId}
    /\ left \subseteq Endpoints
    /\ boot # "bind_token" => left = {}
    /\ boot \in {"down", "main", "access", "serving"} => fresh = NoId
    /\ crashes \in 0 .. CrashBound
    /\ moved \subseteq Endpoints \cup Tokens
    /\ cut \subseteq moved \cap Endpoints
    /\ blind \subseteq moved
=============================================================================
