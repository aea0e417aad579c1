-------------------------- MODULE MCDatabaseAdmin --------------------------
(* Small instances of DatabaseAdmin: the files a first start may find. *)
EXTENDS DatabaseAdmin, TLC

CONSTANTS e1, e2, k1, k2

\* The first releases: one upstream url, keys that belong to it.
FirstSchema == {"proxy_request_logs", "model_pricing", "api_keys", "proxy_settings"}

\* Before access tokens: endpoints with keys, one auth_token for all clients.
EndpointSchema == Range(MainSchema) \cup {"proxy_settings"}

Set(url, auth) == "upstream_base_url" :> url @@ "auth_token" :> auth

File(names, url, auth, rows, owners) ==
    [schema |-> names, setting |-> Set(url, auth), endpoints |-> rows, owner |-> owners]

Owners(ks, e) == [k \in Keys |-> IF k \in ks THEN e ELSE "unused"]

NewFile == File({}, "missing", "missing", {}, Owners({}, NoEndpoint))

Files ==
    {NewFile,
     File(FirstSchema, "set", "set", {}, Owners({k1, k2}, NoEndpoint)),
     File(EndpointSchema, "blank", "set", {e1, e2}, Owners({k1}, e1))}
=============================================================================
