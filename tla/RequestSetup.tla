---------------------------- MODULE RequestSetup ----------------------------
(***************************************************************************)
(* What handle_messages of src/src/handler.rs does with a request before   *)
(* and between the attempts of its retry loop: the check of its access     *)
(* token (src/src/auth.rs), the thinking optimizer (src/src/thinking.rs),  *)
(* the prompt cache, the request parameters (src/src/transform.rs), and    *)
(* what a selected key and an overflowing context change in them.          *)
(*                                                                         *)
(* The access tokens are changed by the administrator at any time, so the  *)
(* two reads of the token check are two steps.  MessagesRetry counts the   *)
(* attempts; here they are not bounded.                                    *)
(***************************************************************************)
EXTENDS PromptCache

CONSTANTS
    Values,         \* token values a client may send
    NoToken,
    Absent,         \* a number the client left out
    Bodies,         \* the request parameters considered
    Targets,        \* models an endpoint may map to
    Overflows,      \* <<input tokens, context>> an upstream may complain of
    Configs         \* configurations the process may run with

Models == {"haiku", "opus-4-6", "claude", "gpt-5", "o3"}

\* The parameters of an Anthropic request that the code looks at.
Body == [model : Models, max_tokens : Nat \cup {Absent},
         thinking : {"none", "disabled", "enabled", "adaptive"}, budget : Nat \cup {Absent},
         effort : {"none", "low", "medium", "high", "max", "other"}]

\* auth_token, the key of upstream, and features.thinking_optimizer.
Config == [auth_token : Values \cup {NoToken}, fallback : BOOLEAN, thinking_optimizer : BOOLEAN]

ASSUME SetupAssumption ==
    /\ Bodies \subseteq Body /\ Bodies # {}
    /\ Targets \subseteq Models
    /\ Overflows \subseteq Nat \X Nat
    /\ Configs \subseteq Config
    /\ NoToken \notin Values
    /\ Absent \notin Nat

VARIABLES
    config,     \* ProxyConfig, never changed
    tokens,     \* access_tokens: the row of each value, see Status
    req         \* where each request is, and its locals

vars == <<cacheVars, config, tokens, req>>

\* A value is random and new until its row is made, and has no second row; one
\* that the operator chose, or whose row was deleted, is absent.
Status == {"new", "absent", "active", "disabled"}

Idle == [at |-> "idle", token |-> NoToken, asked |-> CHOOSE b \in Bodies : TRUE,
         out |-> [model |-> "none", effort |-> "none", max_tokens |-> Absent,
                  max_completion_tokens |-> Absent],
         shrunk |-> Absent, misled |-> FALSE, views |-> {}, blind |-> FALSE]

Proceed(t, label) == req' = [req EXCEPT ![t].at = label]

-----------------------------------------------------------------------------
(* validate_auth *)

\* extract_token: the x-api-key header before a bearer token.
ExtractToken(key, bearer) == IF key # NoToken THEN key ELSE bearer

Empty(table) == \A v \in Values : table[v] \in {"new", "absent"}

\* What the check is about, were it one read of the table: an active token, or
\* the configured one, or no token known at all.
Admits(table, token) ==
    \/ token # NoToken /\ table[token] = "active"
    \/ token # NoToken /\ table[token] = "absent" /\ token = config.auth_token
    \/ Empty(table) /\ config.auth_token = NoToken

\* A request comes in.
Arrive(t) ==
    /\ req[t].at = "idle"
    /\ \E key, bearer \in {v \in Values : tokens[v] # "new"} \cup {NoToken}, b \in Bodies :
          LET token == ExtractToken(key, bearer)
          IN  req' = [req EXCEPT ![t] = [Idle EXCEPT !.at = IF token = NoToken THEN "count" ELSE "token",
                                                     !.token = token, !.asked = b,
                                                     !.views = {Admits(tokens, token)}]]
    /\ UNCHANGED <<cacheVars, config, tokens>>

Refuse(t) == req' = [req EXCEPT ![t] = Idle]

Bug_DisabledFallsThrough(t) ==
    /\ req[t].at = "token"
    /\ Proceed(t, IF tokens[req[t].token] = "active" THEN "prepare" ELSE "count")
    /\ UNCHANGED <<cacheVars, config, tokens>>

\* get_access_token_by_value.
LookupToken(t) ==
    /\ req[t].at = "token"
    /\ IF tokens[req[t].token] = "disabled" THEN Refuse(t)
       ELSE Proceed(t, IF tokens[req[t].token] = "active" THEN "prepare" ELSE "count")
    /\ UNCHANGED <<cacheVars, config, tokens>>

\* If that fails, the check goes on as if the token were not in the table.
LookupFails(t) ==
    /\ req[t].at = "token"
    /\ req' = [req EXCEPT ![t].at = "count", ![t].blind = TRUE]
    /\ UNCHANGED <<cacheVars, config, tokens>>

\* count_access_tokens; if it fails the table counts as empty.
CountTokens(t) ==
    /\ req[t].at = "count"
    /\ \E fails \in BOOLEAN :
          LET none    == fails \/ Empty(tokens)
              open    == none /\ config.auth_token = NoToken
              matches == req[t].token # NoToken /\ req[t].token = config.auth_token
          IN  IF open \/ matches
              THEN req' = [req EXCEPT ![t].at = "prepare", ![t].blind = @ \/ fails,
                                      ![t].token = IF open THEN NoToken ELSE @]
              ELSE Refuse(t)
    /\ UNCHANGED <<cacheVars, config, tokens>>

\* The administrator adds, disables, enables or deletes a token.
ChangeToken(v, status) ==
    /\ \/ tokens[v] = "new" /\ status = "active"
       \/ tokens[v] = "active" /\ status \in {"disabled", "absent"}
       \/ tokens[v] = "disabled" /\ status \in {"active", "absent"}
    /\ tokens' = [tokens EXCEPT ![v] = status]
    /\ req' = [t \in Threads |->
                  IF req[t].at \notin {"token", "count"} THEN req[t]
                  ELSE [req[t] EXCEPT !.views = @ \cup {Admits(tokens', req[t].token)}]]
    /\ UNCHANGED <<cacheVars, config>>

-----------------------------------------------------------------------------
(* thinking::optimize *)

Target(b) == IF b.max_tokens = Absent THEN 16383 ELSE IF b.max_tokens = 0 THEN 0 ELSE b.max_tokens - 1

Current(b) == IF b.budget = Absent THEN 0 ELSE b.budget

Bug_BudgetReplaced(b) ==
    IF b.model = "haiku" THEN b
    ELSE IF b.model = "opus-4-6" THEN [b EXCEPT !.thinking = "adaptive", !.budget = Absent, !.effort = "max"]
    ELSE IF b.thinking = "adaptive" THEN b
    ELSE [b EXCEPT !.thinking = "enabled", !.budget = Target(b)]

\* Haiku is skipped, the newest models think adaptively, and the others get the
\* largest budget; a larger one, and adaptive thinking, are left alone.
Optimized(b) ==
    CASE b.model = "haiku"    -> b
      [] b.model = "opus-4-6" -> [b EXCEPT !.thinking = "adaptive", !.budget = Absent, !.effort = "max"]
      [] OTHER ->
           IF b.thinking = "adaptive" \/ (b.thinking = "enabled" /\ Current(b) >= Target(b)) THEN b
           ELSE [b EXCEPT !.thinking = "enabled", !.budget = Target(b)]

-----------------------------------------------------------------------------
(* The parameters of the OpenAI request *)

OSeries(model) == model = "o3"

SupportsEffort(model) == OSeries(model) \/ model = "gpt-5"

ThinkingEffort(b) ==
    CASE b.thinking = "adaptive" -> "high"
      [] b.thinking = "enabled"  -> IF b.budget = Absent THEN "high"
                                    ELSE IF b.budget < 4000 THEN "low"
                                    ELSE IF b.budget < 16000 THEN "medium" ELSE "high"
      [] OTHER -> "none"

\* resolve_reasoning_effort: an effort the client names comes before its
\* thinking, also one that is not known.
ResolveEffort(b) ==
    CASE b.effort = "none"  -> ThinkingEffort(b)
      [] b.effort = "max"   -> "xhigh"
      [] b.effort = "other" -> "none"
      [] OTHER              -> b.effort

Converted(b) ==
    [model      |-> b.model,
     effort     |-> IF SupportsEffort(b.model) THEN ResolveEffort(b) ELSE "none",
     max_tokens |-> IF OSeries(b.model) THEN Absent ELSE b.max_tokens,
     max_completion_tokens |-> IF OSeries(b.model) THEN b.max_tokens ELSE Absent]

Sent(b) == Converted(IF config.thinking_optimizer THEN Optimized(b) ELSE b)

\* The request, its parameters optimized, asks for its prefix ...
Enter(t) ==
    /\ req[t].at = "prepare"
    /\ Begin(t)
    /\ req' = [req EXCEPT ![t].at = "cache", ![t].views = {}, ![t].blind = FALSE]
    /\ UNCHANGED <<config, tokens>>

\* ... and is converted when it has it.
Convert(t) ==
    /\ req[t].at = "cache" /\ pc[t] = "idle"
    /\ req' = [req EXCEPT ![t].at = "select", ![t].out = Sent(req[t].asked)]
    /\ UNCHANGED <<cacheVars, config, tokens>>

-----------------------------------------------------------------------------
(* An attempt *)

\* A key of the pool, if the token is active and has one; the endpoint may map
\* the model.  It is the name alone that changes.
SelectKey(t) ==
    /\ req[t].at = "select"
    /\ req[t].token # NoToken /\ tokens[req[t].token] = "active"
    /\ \E target \in Targets \cup {req[t].out.model} :
          req' = [req EXCEPT ![t].at = "sent", ![t].out.model = target]
    /\ UNCHANGED <<cacheVars, config, tokens>>

\* Without keys for the token, the configured key, if there is one; and an error
\* without that, when no key serves the model, or when the keys cannot be read.
SelectFallback(t) ==
    /\ req[t].at = "select"
    /\ (config.fallback /\ Proceed(t, "sent")) \/ Refuse(t)
    /\ UNCHANGED <<cacheVars, config, tokens>>

Limit(out) == IF out.max_completion_tokens = Absent THEN out.max_tokens ELSE out.max_completion_tokens

Minus(a, b) == IF a > b THEN a - b ELSE 0

Bug_OverflowSetsMaxTokens(out, max) == [out EXCEPT !.max_tokens = max]

WithLimit(out, max) ==
    IF out.max_completion_tokens # Absent THEN [out EXCEPT !.max_completion_tokens = max]
    ELSE [out EXCEPT !.max_tokens = max]

\* A 400 is right that the context is too small for what the request asks.
Rightly(out, overflow) ==
    Limit(out) # Absent => overflow[1] + Limit(out) > overflow[2]

\* The one retry with a limit that leaves 1000 tokens of the context unused.
\* The code takes the numbers of the complaint as they are.  History: they were
\* not true of the request.
ShrinkAndRetry(t) ==
    /\ req[t].at = "sent" /\ req[t].shrunk = Absent
    /\ \E overflow \in Overflows :
          LET room == Minus(overflow[2], overflow[1])
              max  == Minus(room, 1000)
          IN  /\ max >= 1000
              /\ req' = [req EXCEPT ![t].at = "select", ![t].shrunk = room, ![t].out = WithLimit(@, max),
                                    ![t].misled = @ \/ ~Rightly(req[t].out, overflow)]
    /\ UNCHANGED <<cacheVars, config, tokens>>

\* Another error that is retried, and any other answer.
Retry(t) ==
    /\ req[t].at = "sent"
    /\ Proceed(t, "select")
    /\ UNCHANGED <<cacheVars, config, tokens>>

End(t) ==
    /\ req[t].at = "sent"
    /\ req' = [req EXCEPT ![t] = Idle]
    /\ UNCHANGED <<cacheVars, config, tokens>>

-----------------------------------------------------------------------------
Init ==
    /\ CacheInit
    /\ config \in Configs
    /\ tokens \in [Values -> {"new", "absent", "active"}]
    /\ config.auth_token # NoToken => tokens[config.auth_token] # "new"
    /\ req = [t \in Threads |-> Idle]

RequestStep(t) ==
    \/ Arrive(t) \/ LookupToken(t) \/ LookupFails(t) \/ CountTokens(t) \/ Enter(t) \/ Convert(t)
    \/ SelectKey(t) \/ SelectFallback(t) \/ ShrinkAndRetry(t) \/ Retry(t) \/ End(t)

UsesCache == (Expire \/ \E t \in Threads : CacheStep(t)) /\ UNCHANGED <<config, tokens, req>>

Next ==
    \/ \E t \in Threads : RequestStep(t)
    \/ UsesCache
    \/ \E v \in Values, status \in Status : ChangeToken(v, status)

Spec == Init /\ [][Next]_vars

-----------------------------------------------------------------------------
(* Properties *)

OpenAI == [model : Models \cup {"none"}, effort : {"none", "low", "medium", "high", "xhigh"},
           max_tokens : Nat \cup {Absent}, max_completion_tokens : Nat \cup {Absent}]

Request == [at : {"idle", "token", "count", "prepare", "cache", "select", "sent"},
            token : Values \cup {NoToken}, asked : Body, out : OpenAI, shrunk : Nat \cup {Absent},
            misled : BOOLEAN, views : SUBSET BOOLEAN, blind : BOOLEAN]

TypeOK ==
    /\ CacheTypeOK
    /\ Cardinality(Threads) = 1 => CacheBounded
    /\ config \in Configs
    /\ tokens \in [Values -> Status]
    /\ req \in [Threads -> Request]
    /\ \A t \in Threads : pc[t] # "idle" => req[t].at = "cache"

\* The two reads of the token check, with the administrator at work between
\* them, decide as one read at some moment of the check would have, unless one
\* of them failed (validate_auth).
AuthJustified ==
    [][\A t \in Threads :
          req[t].at \in {"token", "count"} /\ req'[t].at \notin {"token", "count"} =>
              \/ req[t].blind \/ req'[t].blind
              \/ (req'[t].at = "prepare") \in req[t].views]_vars

Strength(effort) ==
    CASE effort = "none" -> 0 [] effort = "low" -> 1 [] effort = "medium" -> 2
      [] effort = "high" -> 3 [] effort = "xhigh" -> 4

\* The optimizer is there to make models think more: with it no request asks
\* the upstream for less effort than without, whatever mixture of effort,
\* thinking and budget the client sent.  The exception is thinking without a
\* budget, which alone means high and gets a budget by max_tokens.
EffortKept ==
    \A t \in Threads :
        LET b == req[t].asked
        IN  req[t].at \in {"select", "sent"} /\ ~(b.thinking = "enabled" /\ b.budget = Absent) =>
                Strength(req[t].out.effort) >= Strength(Converted(b).effort)

\* However mapping, overflow and further retries follow each other, what is
\* sent has one token limit, no higher than the client's and, once an upstream
\* has complained, one that fits that upstream's context.  Only an upstream that
\* complains without cause can raise it above the client's.
OneLimit ==
    \A t \in Threads :
        LET out == req[t].out
        IN  req[t].at \in {"select", "sent"} =>
                /\ out.max_tokens = Absent \/ out.max_completion_tokens = Absent
                /\ req[t].asked.max_tokens # Absent =>
                       Limit(out) # Absent /\ (req[t].misled \/ Limit(out) <= req[t].asked.max_tokens)
                /\ req[t].shrunk # Absent => Limit(out) # Absent /\ Limit(out) + 1000 <= req[t].shrunk
=============================================================================
