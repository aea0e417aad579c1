# Verification of CompletionsToMessages

The program is a proxy in Rust. It takes requests in Anthropic's Messages format, picks one of the
API keys it keeps in SQLite, sends an OpenAI chat-completion request to that key's endpoint, retries
when it must, and turns the answer, streamed or not, back into Anthropic's format. This directory
holds TLA+ models of its core, TLC configurations that check them on small instances, and TLAPS
proofs for every instance. Paths below are relative to the repository (`src/key_pool.rs` and so on);
`PROJECT.json` maps each definition to the lines it models.

## 1. Inventory

| Component | State | Operations | Interacts with | Hard behaviour |
|---|---|---|---|---|
| Circuit breaker `circuit_breaker.rs` | per key: state, time of opening, two `u32` counters | `is_available`, `record_success`, `record_failure` | called by key selection and by report tasks | late reports, expiries and half-open probes in any order; counter wrap |
| Key pool `key_pool.rs` | round-robin counter, the breaker, rows of `api_keys` | `next_key`, `report_result`, `report_access_token` | database, both retry loops, administrator | selection works on a snapshot while the breaker moves; reports are detached tasks of several database calls; process may stop between them |
| Messages handler `handler.rs` | attempt, max_attempts, retry hint, the shared `openai_body` | `handle_messages`, `handle_stream_with_keepalive`, `handle_non_streaming_response`, `handle_models` | key pool, converter, request log | retries, one uncounted context-overflow retry, clients that leave, body changed in place |
| Stream converter `streaming.rs` and forwarding task in `handler.rs` | current block, tool blocks, open indices, usage collector, channel of 64 | `create_anthropic_sse_stream`, `data_tx.send`, `record_request` | upstream bytes, client | tool fragments in any order, usage in two places, deadline and idle timeout, back-pressure, disconnects |
| Format conversion `transform.rs` | none (pure) | `anthropic_to_openai_with_cached_prefix`, `openai_to_anthropic` | prompt cache, handler | the two directions must agree over a whole conversation |
| Prompt cache `prompt_cache.rs` | map from prefix hash to converted prefix | `get_or_convert`, `evict_oldest` | all requests share it | size check, scan, removal and insertion are separate map accesses |
| Database `database.rs` | endpoints, keys, tokens, bindings, settings, logs | migrations, CRUD, statistics | everything | one writer lock, four reader connections, multi-statement updates outside a transaction |
| Administration API `stats_api.rs` | none of its own | CRUD on the above, `test_key`, model sync | database, upstream | a list read, an upstream call, and the list written back |
| SSE framing `sse.rs`, `streaming.rs` | byte buffer | split at blank lines, strip `data:` | converter | characters split between network chunks |
| Authentication `auth.rs` | none; reads `access_tokens` | `validate_auth`, `extract_token` | first step of every request | two reads of a table the administrator changes; a failed read is taken for an answer |
| Thinking `thinking.rs`, parameters in `transform.rs` | none (pure) | `optimize`, `resolve_reasoning_effort`, token limits | handler, before the conversion and after an overflow | effort, thinking type, budget and limit decide together, and three places rewrite them |
| Start-up `database.rs` `Database::new`, `server.rs` | the database file | schema, two data migrations | everything waits for it | each statement commits by itself; the process may stop anywhere |
| Usage, config, errors, Perplexity proxy, console | none or constant | – | – | – |

What makes them correct, component by component:

* *Breaker*: a key opens exactly at the threshold of failures in a row, closes exactly at the
  threshold of successes since its probe began, and an open key is always probed again.
* *Key pool*: a request only goes out with a key that serves its model; no failure is lost or counted
  twice; a key that answered 401 or exceeded `max_failures` leaves service.
* *Retry loops*: attempts are bounded, every answer is reported once, only the last error reaches the
  client, a request is logged once, and it ends.
* *Stream*: events obey Anthropic's grammar, nothing the upstream said is lost or reordered, and the
  request is recorded and ends.
* *Conversion*: the upstream accepts every request (calls and results paired) and meets its own
  answers unchanged.
* *Prompt cache*: bounded, and the oldest entry is the one to go.
* *Request set-up*: the token check is right for some moment of it; the optimizer asks for no less
  effort than the client; whatever attempts do, one token limit is sent, and it fits.
* *Start-up*: a setting of an old release becomes one row, once, with its keys and channels, and a
  start-up that died never keeps the next one from coming through.
* *Administration*: a token has the channels it was last given, an endpoint takes its keys with it, a
  model list set by hand survives background tasks that looked before.

`PROJECT.json` lists the hazards at their lines with the properties that would notice them.

## 2. Modules

| Module | Models | State and actions |
|---|---|---|
| `CircuitBreaker` | `circuit_breaker.rs` | `health[k]` is the map entry; one action per public method, as each runs under one shard lock; `Tick` is the clock. `elapsed` counts ticks only up to `Timeout`, all the code compares it with. `Increment` wraps at `U32`. |
| `BreakerPromise` | the header comment of `circuit_breaker.rs` | a fuse with one unbounded run length and no wrapping |
| `KeyPool` | `next_key`, `report_result`, the rows they use, the administrator's status changes of keys and endpoints, restart | The rows are sets of keys, and `CreatedAt` gives the order in which a query lists them (`Nth`). A request snapshots them, asks the breaker about one key at a time (`CheckKey`), then refuses or selects. An answer spawns a report task whose steps are its database calls, each of which may fail (`SnapshotFails`, `CountFails`, `ReadFails`, and a disjunct of `Disable`). `seen`, `lost`, `unauthorized`, `spared` and `excused` are history: failed answers, those whose `UPDATE` failed or died, keys that answered 401, those whose disabling failed, and keys enabled by hand or not looked at since their last failure. Uses the operators of `CircuitBreaker` on its own map. |
| `MessagesRetry` | both retry loops of `handler.rs` | one request; steps are the code between two awaits. The two loops differ in `stream`: a plain handler is dropped at any await when the client leaves, a stream task notices only while it sleeps or sends. A client of a stream may also stay and not read (`Stall`, `Resume`). An endpoint's unusable proxy panics (`Panics`). Which endpoint is selected and what it answers is open. |
| `AnthropicMessage` | the event grammar a client relies on | abstract specification, one step per event |
| `StreamConverter` | `create_anthropic_sse_stream`, the forwarding task, the client, an OpenAI upstream | the loop body handles one SSE event of the upstream in steps: the text of a chunk (`ReceiveChunk`), each entry of its `tool_calls` (`HandleCall`), and at `finish_reason` the current block, each late tool, each open tool and the stop reason. What a step yields queues in `s.out` and leaves one event at a time through the channel; the next step waits until the queue is empty, as the generator does at a `yield`. Fragments are numbered by chunk, so loss, doubling and reordering show. |
| `Conversation` | `transform.rs` both ways, `convert_system_to_openai`, a client that runs tools and an upstream that calls them | `history` is what the client sends each turn, `request` its conversion, `said` what the upstream answered |
| `PromptCache` | `get_or_convert`, `evict_oldest` | each access to the map is a step; the map is the sequence of its prefixes, oldest first. `CacheSpec` runs it alone, `RequestSetup` from requests. |
| `RequestSetup` | `validate_auth`, `thinking::optimize`, the parameters of `anthropic_to_openai_with_cached_prefix`, and what selection, mapping and an overflow change in them | `req[t]` is where a request is and its locals; the two reads of the token check are two steps between which tokens come and go (`ChangeToken`). `views`, `blind`, `shrunk` and `misled` are history: what one read would have decided, whether a read failed, the context last complained of, whether an upstream complained without cause. Extends `PromptCache`, whose steps are the request's while it is in the cache. |
| `Database` | the tables written in more than one statement, `Database::new` | one step per statement, as each commits by itself; `schema` holds the tables and later columns, `boot` the place in the start-up, `fresh` and `left` its locals, which a `Stop` loses. A read that fails (`Errors`) does not stop it: a setting counts as missing, a table as empty, an unread endpoint is left out. `moved`, `cut` and `blind` are history: rows made of old settings, endpoints among them whose start-up died before binding the keys, and rows made by a start-up that could not count. |
| `DatabaseAdmin` | the administration API of `stats_api.rs` on those tables, and the background model sync | `task[c]` is where a call is. A writing method takes the writer's mutex with its first statement (`WriterFree`) and keeps it to its last; a failing statement or a stop ends it where it is. `granted` and `partial` are history: the channels last asked for, the tokens whose change was cut short. |
| `MC…` | – | instances: model values, small functions, answer sets |
| `CircuitBreakerProofs`, `MessagesRetryProofs`, `DatabaseProofs`, `KeyPoolProofs`, `RequestSetupProofs`, `StreamConverterProofs`, `ConversationProofs` | – | theorems about the module each is named for (`RequestSetupProofs`: and about `PromptCache`) |
| `NumberInduction` | – | induction over numbers, stated for a set of them so that proofs can cite it |

`KeyPool` and `CircuitBreaker` are connected by `UsesBreaker`: the pool changes the map only by the
breaker's own steps, or a restart that begins a new one. `StreamConverter` covers what
`MessagesRetry` abstracts as `ForwardStream`; `KeyPool` covers what it leaves open in `Send`.
`RequestSetup` is the way of a request to its first attempt and what later attempts do to its
parameters; `MessagesRetry` counts those attempts. `DatabaseAdmin` makes and deletes the rows whose
status `KeyPool` and `RequestSetup` read.
Operators named `Bug_…` are plausible mistakes, each placed before the definition it would replace;
every property of every passing run is violated by at least one of them.

## 3. Runs

| Run | Instance | Shows |
|---|---|---|
| `breaker` | 2 keys, thresholds 3 and 2 as in `KeyPool::new`, window 2 ticks, counters wrap at 5 | `TypeOK`, `ThresholdsDecide`, refinement `ImplementsPromise`, liveness `OpenIsProbed` |
| `key_reports` | 1 key with a limit of 2 failures, 1 request, 2 report tasks, 3 failed answers; successes, 401s and other client errors | `FailuresCounted`, `BadKeysRetired`, `UsesBreaker`, liveness `UnauthorizedLeaves` |
| `key_selection` | 2 keys of two endpoints offering different models, 2 requests (one for any model), 1 report task, 1 failed answer a key, threshold 1 | `SentKeyServesModel` |
| `retry` | 4 endpoints: one with 2 attempts, a mapping and stripped tools, one with the default 5, one that maps the model to its own name, one with an unusable proxy | the counts, reports, log entries and hints of both loops; termination |
| `stream` | text, thinking, empty fields, and tool calls whose id, name and arguments come in any order; 4 chunks, channel of 1 | grammar (`ImplementsMessage`), fragments, order of blocks, usage, recording, termination |
| `conversation` | 6 kinds of answers, 4 kinds of notes (nothing, a text, a marked text, a text and a marked image) before and after tool results, 3 system prompts, 2 answers per conversation | `UpstreamAccepts`, `RepliesComeBack`, `CacheMarksKept` |
| `setup` | one request after the other, 2 token values, 3 prefixes with a maximum of 2, 12 bodies, 4 complaints of an overflow, 3 configurations | `AuthJustified`, `EffortKept`, `OneLimit`, `OldestGoesFirst`, and in `TypeOK` the cache's maximum |
| `database` | a new file and those of two older releases, 3 endpoints, 2 tokens, 2 keys, 1 stop, 2 calls at once | `MovedOnce`, `OldKeysBound`, `GrantsExact`, `EndpointLeavesNoKeys`, `HandListsStand`, liveness `StartsAgain` |
| `all_fused` | 1 key, 2 requests | violated: section 5 |
| `retry_mapping` | as `retry` | violated: section 5 |
| `stream_deadline` | as `stream`, 2 chunks, a client that need not read | violated: section 5 |
| `cache_shared` | 2 requests at once, 5 prefixes | violated: section 5 |

Why the bounds are enough:

* The breaker treats its keys independently, so two show that one call does not disturb the other
  key. The real thresholds are used. A counter range of 5 lets successes of a closed key wrap, as 2³²
  of them would. The proofs cover all values.
* Two report tasks interleave in every way two reports of one key can; with a limit of 2 and 3
  failures the count passes below, at and above the limit. A 401 is a failure for the breaker, any other
  client error is one for the limit and a success for the breaker. Two requests and two keys suffice for a
  key to leave or re-enter the list of one request while another is being served; with distinct
  models every branch of `next_key`'s choice is reached except the ones `SentKeyServesModel` shows to
  be dead.
* In `retry` attempts are bounded by the code, so nothing is cut off. Endpoints differ in every way
  the loop looks at.
* What a step of the converter does depends only on which block is current and on what is known of each tool. Three
  chunks before the finish reach every pair of those, and two tools every order of indices. A channel
  of 1 blocks as one of 64 does, only sooner.
* In `setup` the optimizer, the conversion and the overflow look at a handful of thresholds; the bodies
  lie on both sides of each (budgets below 4000, below 16000 and above, the last limit above and below
  a budget, no limit), for each class of model, and the overflows leave much, just enough and too
  little, or name a context that no request exceeds. Two values show the configured token against one
  from the table. A cache of 2 with 3 prefixes evicts with either order of use.
* In `database` the old releases differ in which migration finds what: keys and url without
  endpoints, an `auth_token` with endpoints, nothing. One stop reaches a second start-up after every
  statement of the first, with calls before and after. An id is given once, and which of the unused ids
  it is makes no difference (`New`). Two calls are enough for a change of a token and another that runs
  into it, and for a key, its background task and a list set by hand; histories of any length are the
  matter of the proofs. With two tokens and three endpoints the second start-up has an id left for a row
  it makes, whatever two calls did.
* A conversation needs two answers for one to be followed by another in a request, and two calls in
  one answer for the order of results to matter.

The bounds named in the modules are `FailureBound`, `Reports` and `CounterMod` (`KeyPool`; the counter
is only used modulo list lengths, so any multiple of them is exact), `MaxChunks` (`StreamConverter`),
`MaxAnswers` (`Conversation`), `MaxBound` (`PromptCache`), `CrashBound` (`Database`) and `CallBound`
(`DatabaseAdmin`). Stream configurations turn deadlock checking off since a recorded stream is over,
the one of `database` since it stops after its calls. Symmetry is used only in `cache_shared`, which has no
temporal property.

## 4. Fairness

* `CircuitBreaker!FairSpec`: time passes, and `is_available` is called for every key now and then.
  Key selection calls it for every active key of a token, so this says requests keep coming. Reports
  are not assumed.
* `KeyPool!FairSpec`: a spawned report task is run to its end, its database calls answer or fail;
  nothing about requests, the administrator or the clock. Fair is the step as a whole, with its
  failing disjuncts: no statement is assumed to succeed in the end.
* `MessagesRetry!FairSpec`: the handler is polled. Sleeps are finite and each await on the upstream
  is bounded by the HTTP client's timeout, so whichever step is next does come; which one is open. The
  exception is `data_tx.send().await` (`handler.rs:499`, `565`, `652`, `864`), which has no timeout and
  waits while the client stays and does not read. So nothing is due while the client is stalled, and the
  fairness is strong, since a client may stall again before the next step; each time it reads, a send
  that waits goes on. `Terminates` accordingly claims an end unless the client stalls for ever.
* `StreamConverter!ProxyFairSpec`: the task runs, buffered events and begun chunks are handled, the deadline passes,
  and a silent upstream is given up (the idle timeout of 90 s). `FairSpec` adds that a client that
  stays reads; `stream_deadline` shows what is lost without it.
* `DatabaseAdmin!FairSpec`: whoever supervises the process starts it again, and a start-up runs on
  unless it is stopped; nothing about calls. Fair is the step whose read does not fail (`Boots("none")`):
  a start-up that could not count the tokens and tries to insert the value of one ends there (UNIQUE), and
  the next one is not bound to fail in the same way. A statement that keeps failing would be a start-up that stops again and
  again, which the bound on stops excludes.

## 5. Where code and comments disagree

* `all_fused`: `key_pool.rs:146` says a pool with all keys fused still serves by round robin. For a
  request that names a model this never happens: `all_have_models` (line 121) is an `all()` over an
  empty list, hence true, and the request is refused as if no channel offered the model.
* `retry_mapping`: the model name an endpoint maps to is written into the one `openai_body` all
  attempts share (`handler.rs:216` and `603`), so a later attempt at an endpoint without a mapping
  sends a name meant for another one. Tools stripped for one endpoint stay stripped in the same way.
* `stream_deadline`: `config.rs:61` promises that a stream beyond the maximum duration is interrupted.
  The deadline is looked at between two reads; a task waiting for a client that does not read is not
  interrupted.
* `cache_shared`: two requests that find the cache full can evict the same entry and insert two. Each
  later miss evicts one and inserts one, so the excess stays and accumulates, against
  `prompt_cache.rs:39`.

More are visible in the models but not stated as properties:

* a half-open key is given to every request that asks, where `circuit_breaker.rs:4` speaks of a single
  probe;
* after `message_stop` the converter keeps reading, so a quiet connection adds an `error` event behind
  it;
* the parameters are chosen by the model the client names, before an endpoint maps it: one mapped to
  the o-series gets `max_tokens`, where `transform.rs:10` says `max_completion_tokens` is required, and
  an o-series request without a limit gets `max_tokens` from an overflow (`handler.rs:380`);
* a count of the tokens that fails is taken for an empty table, hence for development mode, which
  `auth.rs:11` grants to an empty table only (`AuthJustified` excuses failed reads);
* thinking that is enabled without a budget means high effort, and the optimizer gives it a budget by
  `max_tokens`, which may mean low (`EffortKept` excuses it);
* a start-up that dies after making the default endpoint leaves the old keys unbound for good, and one
  that dies while binding the old token leaves the remaining channels unbound: the next start-up finds
  the row and skips the migration (`OldKeysBound` excuses it by `cut`, `GrantsExact` by `partial`);
* a `COUNT` that fails during the start-up is taken for an empty table (`database.rs:563`, `630`), so a
  migration may make a row beside those there are (`MovedOnce` excuses it by `blind`);
* a report whose `UPDATE` or read fails is only logged (`key_pool.rs:203`, `211`, `242`, `247`, `256`): a
  key that answered 401 then stays in service, and is tried again, until it answers 401 once more
  (`UnauthorizedLeaves` and `BadKeysRetired` excuse it by `spared`), and one past `max_failures` until its
  next failure (`excused`);
* an endpoint whose `proxy_url` cannot be parsed panics in the middle of the retry loop
  (`handler.rs:241`, `626`): the client's connection ends without an answer or an error event;
* the numbers of a context-overflow complaint are taken from any 400 body and not compared with what was
  sent (`handler.rs:39`, `376`), so a complaint without cause may raise the limit above the client's
  (`OneLimit` excuses it by `misled`);
* a model list that cannot be read counts as empty, so a background sync may write over one set by hand
  (`HandListsStand` allows it).

## 6. What is proved

`CircuitBreakerProofs` (for all keys, thresholds, windows and counter widths with thresholds below the
width, `BreakerAssumption`): `TypeOK` is inductive: besides the
ranges it says that an entry never counts outcomes of both kinds (`KeyHealth`), which every outcome has
to keep up, and that the window is zero unless the key is open. Without that a step from a closed key
could not be mapped to one of the promise, whose closed keys have no window. With `ThresholdsDecide` it
is the invariant of the other two. From it: `TypeCorrect`,
`ThresholdsDecideHolds`, and `BreakerImplementsPromise`, that every step of the wrapping counters is a
step of the fuse or a stutter.

`MessagesRetryProofs` (for all endpoints, retry limits and mappings, `RetryAssumption`): the invariant
`IInv` ties the number of calls to `attempt` (`Counting`, off by the overflow retry), says the loop
head always has an attempt left (`Within`), relates reports to calls (`Reporting`), log entries and the
client's answer to the control state (`Ending`), and the hint to the last answer (`LastAnswer`). From
it: `TypeCorrect` (the loop's own "all retries exhausted" exit is dead), `AttemptsAreBounded`,
`AnswersAreReported`, `ErrorsAreLast`, `RequestsAreLoggedOnce`, `HintsAreFresh`.

`DatabaseProofs` (for any number of ids, calls and stops and every old file, `DatabaseAssumption` and
`AdminAssumption`: no id is given to two kinds of rows or is a word for the life of one): `Typed` says
what the locals of the start-up and of the calls are, that start-ups and calls exclude each other, and
that at most one call has the writer's mutex (`OneAtATime`). On top of it each property has its own
inductive strengthening:

* `MovedOnceHolds`: a row that a migration made is never unused (`Used`), so no call revives it, and a
  migration that can count first looks for live rows. A row made by one that cannot is in `blind` from
  then on, and the rows outside `blind` are still at most one.
* `OldKeysBoundHolds`: after the default endpoint is made, keys without endpoint exist only until the
  next statement, or if the start-up died there (`Bound`).
* `EndpointsLeaveNoKeys`: between the two statements of a deletion the endpoint has no key (`Emptied`),
  since any other writer would need the mutex.
* `HandListsStandHolds`: a task that saw an empty list and still counts as current names a list that is
  not set by hand (`Looked`).
* `GrantsAreExact`: while a token is being bound, the channels it has and those still to come make up
  what it was granted, and no other task binds it (`Granting`).

`GrantsExact`, `OldKeysBound` and `MovedOnce` excuse what was cut short, or done without a count, by the history
variables `partial`, `cut` and `blind`; each grows only in the step that fails or stops.

`KeyPoolProofs` (for any keys, endpoints, requests, report tasks, models and limits; `PoolAssumption`: no two
keys are created at the same time, so the order of a list is total). The invariant `IInv` has a part for each
kind of state:

* A request's lists: what it has looked at so far are active keys of its snapshot that the breaker admitted, and
  its two lists of candidates hold only keys that serve its model. That round robin over a list names a member
  of it (`NthElement`) is an induction over the length. From it `SentKeyServesModelHolds`.
* A report: the failures counted in a key, the reports still to increment it and the failures lost to a failed
  `UPDATE` or a stopped process add up to the failed answers seen (`FailuresCountedHolds`). An active key that
  answered 401, or whose count has reached its limit, has a report that is about to see to it, or the statement
  that was to see to it failed, or an administrator put it back (`Retiring`, for `BadKeysRetiredHolds`). `lost`
  and `spared` grow only in the failing step, for its own key, and when the process stops; `excused` also when an
  administrator puts a key back or a 401 finds it put back already. A count that fails excuses nothing, since the
  limit is looked at all the same.
* The breaker's entries: `KeyPoolProofs` uses the lemmas of `CircuitBreakerProofs` about one entry on the pool's
  own map, which gives `UsesBreakerHolds` and, for entries used by concurrent requests and reports and thrown
  away by restarts, `PoolKeepsThresholds`.

`RequestSetupProofs` (any tokens, bodies, mappings and overflows, any number of requests and prefixes, any
`max_entries`) begins with the cache alone: `CacheInv` says that a prefix has one entry, and `AloneInv` what a
request that is alone with the cache may rely on between its accesses: the cache was full, the victim is the
oldest, there is room. `AloneInv` is only claimed for one request; `cache_shared` shows that two break it. Both are
carried along with the request that is in the cache, whence `OldestGoesFirstHolds` for one request at a time and the
cache's maximum in `TypeCorrect`, where the hypothesis is part of what is stated. The others hold for any number of
requests:

* `AuthJustifiedHolds`: what the table says now is always among the views of a check, and a token that was looked
  up and not found stays absent until the count (`Checking`).
* `EffortKeptHolds`: what an attempt sends has the effort the conversion gave it (`EffortSettled`), and more
  thinking never resolves to less effort (`ThinkingGrows`).
* `OneLimitHolds`: an attempt has one limit, at least 1000 below what was left of the context once an upstream has
  complained, and no higher than the client's unless a complaint was not true of the request (`LimitSettled`).

`StreamConverterProofs` (any tools, any contents of chunks, any number of them and any capacity of the channel;
`ConverterAssumption`). No relation between the converter and the client as they are is inductive, since up to a
channel of events and a queue of yields lie between them. The invariant therefore speaks of a run of the client
over what is in the channel and in `s.out` (`View`): each event is legal in Anthropic's grammar where it will be
read, every point of the run is `Good` (what the properties say of a client), and at its end the client `Agrees`
with the converter's locals: the same blocks are open, and what was read of a tool, what waits in its pending
arguments and what the rest of the chunk still brings make up what the upstream sent. A step of the converter
makes the run longer at its end (`Tells`), `Deliver` shortens it at its front. After a disconnect the run is one
of a client that had stayed. `Shape` says what the locals mean (indices belong to one block each; a started tool
has no pending arguments), `Place` where in its chunk the converter is, `Counts` that two indices a chunk and one
a tool suffice. From it: `TypeCorrect`, `FragmentsKeptHolds`, `StartsInOrderHolds`, `UsageRecordedHolds` and
`MessageImplemented`, the refinement of `AnthropicMessage`. What the entries of a chunk bring to a tool is a
recursive function (`ArgsAfter`); that it exists and satisfies its equation is proved with `NumberInduction`.

`ConversationProofs` (any notes, prompts and answers, any bound on them and any `NoId`; `ConversationAssumption`).
The converters go over blocks and messages one by one and put the pieces together (`FlattenSeq`). What that yields for
sequences of any length is described first (`Joins`, `Associates`, `Each…`), by `SequenceInduction`: a set with the
empty sequence that is closed under `Append` has every sequence. It takes a set where the library's theorem takes a
predicate, and rests on `NumberInduction`. Then come what a block, a message and a history become, then the turns:

* `TypeCorrect`, with `Translated`: while the upstream is asked, the request is the translation of the history, and
  a user's message is last. The other three need this, since the history is only ever extended and translated anew.
* `CacheMarksKeptHolds` follows from it and from what one message becomes, without hypotheses on the answers.
* `UpstreamAcceptsHolds`: the translation of the history so far is either completely answered (`Answered`) or
  ends in one message whose calls are those the client is asked to run (`Open`, in `PairInv`). The next user message
  brings their results, and the converter puts them first, so the request is answered. While a request is under way
  the invariant speaks of the history without its last message (`Base`), which is what an unusable answer leaves.
  The hypothesis `Agreeing` is what OpenAI promises of `finish_reason`: without it, calls that come with "stop" get
  the stop_reason "end_turn", and the client never answers them.
* `RepliesComeBackHolds`: what the upstream recognizes as its own in the translation of `Base` is what it said
  (`RepliesInv`). The hypothesis `AsText` is that the arguments of `tool_calls` are text: `transform.rs:483` takes any
  other JSON value for missing and puts `{}` in its place, where it keeps that of a `function_call` (line 510).

`MCConversation` assumes both hypotheses of its answers, and TLC evaluates them. The hypotheses are only used for
the theorem they stand in.

Only model-checked: liveness (`OpenIsProbed`, `UnauthorizedLeaves`, `Terminates`, `StreamRecorded`, `AnswerEnds`,
`StartsAgain`), since the prover does neither fairness nor `ENABLED`. Every other property of the passing runs is
stated by a theorem. The violations of section 5 are counterexamples of single instances.

## 7. Not modelled

* Byte-level SSE framing: the model starts at complete events.
* Of the administration API: `update_endpoint` (labels, mapping and limits in three calls), exports,
  request logs and statistics, the proxy test. `KeyPool` has the key test and the status changes of keys
  (one, or all inactive ones of an endpoint) and endpoints, `DatabaseAdmin` what makes and deletes rows;
  the two are not composed.
* Several processes on one database file, and power loss: a `Stop` keeps every committed statement, as
  SQLite does for a process that dies.
* A `COMMIT` that fails: `add_api_keys_batch` returns without `ROLLBACK` (`database.rs:1396`), and later
  methods' statements join the open transaction. The model rolls the batch back, as for an `INSERT` that fails.
* An `endpoint_id` that no endpoint ever had: `add_api_key` stores any string, the model offers ids of
  endpoints that are or were there.
* The scan of `evict_oldest` shard by shard: it is taken at one instant, and after the creation of every entry
  (the code passes over one that is not strictly older than the scan).
* A key selection that fails for reasons of `KeyPool` is a choice in `MessagesRetry` and `RequestSetup`, which do
  not count why. An attempt with the configured key and without an access token counts as reported in
  `MessagesRetry`, although nothing is spawned for it.
* Streams beyond what `AnthropicMessage` demands: it lets blocks of tools be open at the same time, since the
  converter closes them at the finish; Anthropic's own streams have one block open.
* Durations: the length of a backoff, which value a retry-after has.
* Prices, usage records beyond their number, sampling parameters that are copied, tool schemas.
* Parsing of the configuration, error formatting, wiring of the routes and the admin secret, the filter
  of `handle_models`, the Perplexity proxy (one call, passed on) and the web console: stateless, or user
  interface. `report_access_token` only counts.
* Assumed of the environment: an upstream ends its one choice with `finish_reason`, sends usage with it
  or after it, and gives a `finish_reason` that agrees with its calls (a call cut
  off by "length" is outside); clients answer exactly the tool
  calls they are asked to run; no two ids of the database are equal.

## 8. Plan

Written so far: sections 2, 3 and 6. In order of importance:

1. Composition of `MessagesRetry` and `KeyPool`: a retry's next key, the reports of one request against the
   selection of its next attempt.
2. `SseFraming`: lossy decoding per chunk and the search for blank lines.
3. `update_endpoint`, whose three locked calls other writers may come between.
