--------------------------- MODULE MessagesRetry ---------------------------
(***************************************************************************)
(* One POST /v1/messages request through src/src/handler.rs: the retry     *)
(* loop of handle_messages (plain) and of handle_stream_with_keepalive     *)
(* (stream), which differ in who runs them and how they end.               *)
(*                                                                         *)
(* Steps are the stretches of code between two awaits.  The plain handler  *)
(* is dropped at any await when its client disconnects; the stream task is *)
(* detached, notices only when a keepalive or an item cannot be sent, and  *)
(* waits in data_tx.send for a client that stays but does not read.        *)
(* What a key selection returns and what the upstream answers is left to   *)
(* the environment (KeyPool models the pool).                              *)
(***************************************************************************)
EXTENDS Naturals

CONSTANTS
    Endpoints,          \* upstream endpoints the selected keys belong to
    Fallback,           \* the configured key: no endpoint, no report_result
    MaxRetries,         \* MaxRetries[e]: max_retries of the endpoint, 0 = default
    MapsTo,             \* MapsTo[e]: model name e maps the request's model to (which may
                        \* be the same name), or NoMapping
    NoMapping,
    Requested,          \* the model name of the request
    Strips,             \* endpoints with strip_tools
    BadProxy,           \* endpoints whose proxy_url is none reqwest accepts
    DefaultAttempts     \* max_attempts before an endpoint overrides it: 5

ASSUME RetryAssumption ==
    /\ Fallback \notin Endpoints
    /\ MaxRetries \in [Endpoints -> Nat]
    /\ Strips \subseteq Endpoints /\ BadProxy \subseteq Endpoints
    /\ DefaultAttempts \in Nat \ {0}

NoEndpoint == "none"

\* How an attempt ends: the statuses as the handler tells them apart.  `hint`
\* is a retry-after header, `room` a 400 body that reports a context overflow
\* with at least 1000 tokens to spare.
Answers ==
    [kind : {"network", "ok"}, hint : {FALSE}, room : {FALSE}] \union
    [kind : {"retryable"}, hint : BOOLEAN, room : {FALSE}] \union
    [kind : {"client"}, hint : {FALSE}, room : BOOLEAN]

NoAnswer == [kind |-> "none", hint |-> FALSE, room |-> FALSE]

VARIABLES
    stream,         \* the request asked for a stream
    token,          \* matched_token is Some (else development mode: fallback only)
    pc,
    attempt, max_attempts,
    retry_hint,     \* last_retry_after_ms is Some
    overflow_retried,   \* context_overflow_retried
    model,          \* openai_body["model"]
    has_tools,      \* openai_body has its tools
    shrunk,         \* max_tokens was lowered to the room left
    endpoint,       \* endpoint of the selected key
    delay,          \* where the last delay came from: retry-after or backoff
    answer,         \* the last answer
    client,         \* "waiting", "stalled", "gone", or what it was given
    sent,           \* history: attempts sent
    reported,       \* history: attempts whose outcome was handed to the report tasks
    logged          \* history: record_request calls

loop  == <<attempt, max_attempts, retry_hint, overflow_retried>>
body  == <<model, has_tools, shrunk>>
fixed == <<stream, token>>
vars  == <<fixed, pc, loop, body, endpoint, delay, answer, client, sent, reported, logged>>

Running == {"select", "sleep", "sending", "retryBody", "errorBody", "okBody", "forward"}

-----------------------------------------------------------------------------
(* The loop *)

\* The head of the loop for attempt a: leave it, sleep first, or select.
Top(a) == pc' = IF a >= max_attempts THEN "exhausted" ELSE IF a > 0 THEN "sleep" ELSE "select"

\* What a stalled client is given waits for it in the channel.
Reply(what) == client' = IF client = "gone" THEN client ELSE what

Bug_SleepKeepsHint ==
    /\ pc = "sleep"
    /\ delay' = IF retry_hint THEN "retry-after" ELSE "backoff"
    /\ pc' = "select"
    /\ UNCHANGED <<fixed, loop, body, endpoint, answer, client, sent, reported, logged>>

\* The keepalive branch of the wait starts the delay again.
Bug_SleepNeverEnds ==
    /\ pc = "sleep"
    /\ UNCHANGED vars

\* The delay is chosen, taking the hint, and slept.
Sleep ==
    /\ pc = "sleep"
    /\ delay' = IF retry_hint THEN "retry-after" ELSE "backoff"
    /\ retry_hint' = FALSE
    /\ pc' = "select"
    /\ UNCHANGED <<fixed, attempt, max_attempts, overflow_retried, body, endpoint, answer,
                   client, sent, reported, logged>>

\* next_key fails: the request ends at once, whatever attempts are left.
SelectFails ==
    /\ pc = "select"
    /\ Reply("refused")
    /\ pc' = "done"
    /\ UNCHANGED <<fixed, loop, body, endpoint, delay, answer, sent, reported, logged>>

Limit(e)  == IF e = Fallback THEN 0 ELSE MaxRetries[e]
Mapped(e) == IF e = Fallback THEN NoMapping ELSE MapsTo[e]

\* A key of endpoint e is selected, the body adapted, the request sent.  Only
\* the first attempt lets the endpoint set the number of attempts.
Send(e) ==
    /\ pc = "select"
    /\ ~token => e = Fallback
    /\ e \notin BadProxy
    /\ endpoint' = e
    /\ max_attempts' = IF attempt = 0 /\ Limit(e) > 0 THEN Limit(e) ELSE max_attempts
    /\ model' = IF Mapped(e) # NoMapping THEN Mapped(e) ELSE model
    /\ has_tools' = (has_tools /\ e \notin Strips)
    /\ sent' = sent + 1
    /\ pc' = "sending"
    /\ UNCHANGED <<fixed, attempt, retry_hint, overflow_retried, shrunk, delay, answer,
                   client, reported, logged>>

\* The client for the endpoint's proxy cannot be built: the expect panics and
\* the handler or the task is gone, the connection cut, nothing logged.
Panics(e) ==
    /\ pc = "select" /\ token
    /\ e \in BadProxy
    /\ Reply("cut")
    /\ pc' = "done"
    /\ UNCHANGED <<fixed, loop, body, endpoint, delay, answer, sent, reported, logged>>

\* report_result, when the key is one of the database, and report_access_token,
\* when there is a token, are spawned before anything else is awaited.
Report == reported' = reported + 1

Bug_OneTooMany == attempt + 1 <= max_attempts

Bug_OneTooFew == attempt + 2 < max_attempts

HasNext == attempt + 1 < max_attempts

\* No response: retried without a body to read, or the end.
NetworkError ==
    /\ pc = "sending"
    /\ answer' = [kind |-> "network", hint |-> FALSE, room |-> FALSE]
    /\ Report
    /\ IF HasNext
       THEN attempt' = attempt + 1 /\ Top(attempt + 1) /\ UNCHANGED client
       ELSE Reply("error") /\ pc' = "done" /\ UNCHANGED attempt
    /\ UNCHANGED <<fixed, max_attempts, retry_hint, overflow_retried, body, endpoint, delay,
                   sent, logged>>

\* A response whose status is not 2xx.
ErrorStatus(a) ==
    /\ pc = "sending"
    /\ a.kind \in {"retryable", "client"}
    /\ answer' = a
    /\ Report
    /\ IF a.kind = "retryable" /\ HasNext
       THEN retry_hint' = a.hint /\ pc' = "retryBody"
       ELSE pc' = "errorBody" /\ UNCHANGED retry_hint
    /\ UNCHANGED <<fixed, attempt, max_attempts, overflow_retried, body, endpoint, delay,
                   client, sent, logged>>

Bug_RetryIsLogged ==
    /\ pc = "retryBody"
    /\ attempt' = attempt + 1
    /\ Top(attempt + 1)
    /\ logged' = logged + 1
    /\ UNCHANGED <<fixed, max_attempts, retry_hint, overflow_retried, body, endpoint, delay,
                   answer, client, sent, reported>>

\* The body of a retryable error is read, then the next attempt begins.
Retry ==
    /\ pc = "retryBody"
    /\ attempt' = attempt + 1
    /\ Top(attempt + 1)
    /\ UNCHANGED <<fixed, max_attempts, retry_hint, overflow_retried, body, endpoint, delay,
                   answer, client, sent, reported, logged>>

Bug_OverflowForgetsFlag ==
    /\ pc = "errorBody" /\ answer.room /\ ~overflow_retried
    /\ shrunk' = TRUE
    /\ Top(attempt)
    /\ UNCHANGED <<fixed, loop, model, has_tools, endpoint, delay, answer, client, sent,
                   reported, logged>>

\* A context overflow with room left: once, with a smaller max_tokens, and
\* without counting the attempt.
ShrinkAndRetry ==
    /\ pc = "errorBody" /\ answer.room /\ ~overflow_retried
    /\ overflow_retried' = TRUE
    /\ shrunk' = TRUE
    /\ Top(attempt)
    /\ UNCHANGED <<fixed, attempt, max_attempts, retry_hint, model, has_tools, endpoint, delay,
                   answer, client, sent, reported, logged>>

\* The error goes to the client; a retryable status is not logged.  `unread`:
\* the body could not be read, so an overflow is not recognised.
GiveUp(unread) ==
    /\ pc = "errorBody"
    /\ unread \/ ~answer.room \/ overflow_retried
    /\ logged' = IF answer.kind = "client" THEN logged + 1 ELSE logged
    /\ Reply("error")
    /\ pc' = "done"
    /\ UNCHANGED <<fixed, loop, body, endpoint, delay, answer, sent, reported>>

Bug_SuccessNotReported ==
    /\ pc = "sending"
    /\ answer' = [kind |-> "ok", hint |-> FALSE, room |-> FALSE]
    /\ pc' = IF stream THEN "forward" ELSE "okBody"
    /\ UNCHANGED <<fixed, loop, body, endpoint, delay, client, sent, reported, logged>>

\* A 2xx response: reported as a success before its body is looked at.
Success ==
    /\ pc = "sending"
    /\ answer' = [kind |-> "ok", hint |-> FALSE, room |-> FALSE]
    /\ Report
    /\ pc' = IF stream THEN "forward" ELSE "okBody"
    /\ UNCHANGED <<fixed, loop, body, endpoint, delay, client, sent, logged>>

-----------------------------------------------------------------------------
(* The end of a successful attempt *)

\* handle_non_streaming_response: the body is read, converted and, when it
\* carries usage, logged; failing to read or convert it is an error.
PlainResponse(converts, usage) ==
    /\ pc = "okBody"
    /\ logged' = IF converts /\ usage THEN logged + 1 ELSE logged
    /\ Reply(IF converts THEN "response" ELSE "error")
    /\ pc' = "done"
    /\ UNCHANGED <<fixed, loop, body, endpoint, delay, answer, sent, reported>>

\* The stream is forwarded until it ends (cut short when `broken`, which adds
\* an error event) or an item finds the client gone; it is logged either way.
ForwardStream(broken) ==
    /\ pc = "forward"
    /\ logged' = logged + 1
    /\ Reply(IF broken THEN "error" ELSE "response")
    /\ pc' = "done"
    /\ UNCHANGED <<fixed, loop, body, endpoint, delay, answer, sent, reported>>

-----------------------------------------------------------------------------
(* The client *)

ClientMoves(from, to) ==
    /\ client \in from /\ pc \in Running
    /\ client' = to
    /\ UNCHANGED <<fixed, pc, loop, body, endpoint, delay, answer, sent, reported, logged>>

Disconnect == ClientMoves({"waiting", "stalled"}, "gone")

\* A client stays and stops reading the stream, or reads again.
Stall  == stream /\ ClientMoves({"waiting"}, "stalled")
Resume == ClientMoves({"stalled"}, "waiting")

\* A gone client: the plain handler is dropped at the await it is in; the
\* stream task stops at its next keepalive, while it sleeps or sends.
Abandon ==
    /\ client = "gone"
    /\ IF stream THEN pc \in {"sleep", "sending"} ELSE pc \in Running
    /\ pc' = "done"
    /\ UNCHANGED <<fixed, loop, body, endpoint, delay, answer, client, sent, reported, logged>>

-----------------------------------------------------------------------------
Init ==
    /\ stream \in BOOLEAN /\ token \in BOOLEAN
    /\ pc = "select"
    /\ attempt = 0 /\ max_attempts = DefaultAttempts
    /\ retry_hint = FALSE /\ overflow_retried = FALSE
    /\ model = Requested /\ has_tools = TRUE /\ shrunk = FALSE
    /\ endpoint = NoEndpoint /\ delay = "none" /\ answer = NoAnswer
    /\ client = "waiting"
    /\ sent = 0 /\ reported = 0 /\ logged = 0

Handler ==
    \/ Sleep \/ SelectFails
    \/ \E e \in Endpoints \union {Fallback} : Send(e) \/ Panics(e)
    \/ NetworkError \/ Success
    \/ \E a \in Answers : ErrorStatus(a)
    \/ Retry \/ ShrinkAndRetry
    \/ \E unread \in BOOLEAN : GiveUp(unread)
    \/ \E converts, usage \in BOOLEAN : PlainResponse(converts, usage)
    \/ \E broken \in BOOLEAN : ForwardStream(broken)
    \/ Abandon

Finished == pc = "done" /\ UNCHANGED vars

Next == Handler \/ Disconnect \/ Stall \/ Resume \/ Finished

Spec == Init /\ [][Next]_vars

\* The executor runs the handler; sleeps end, and every await on the upstream
\* is bounded by the client's request timeout.  data_tx.send().await has no
\* bound: it ends when the client reads or leaves, so while the client is
\* stalled no step is due, and each time it reads again a waiting send goes on.
FairSpec == Spec /\ SF_vars(Handler /\ client # "stalled")

-----------------------------------------------------------------------------
(* Properties *)

TypeOK ==
    /\ stream \in BOOLEAN /\ token \in BOOLEAN
    /\ pc \in Running \union {"done"}
    /\ attempt \in Nat /\ max_attempts \in Nat \ {0}
    /\ retry_hint \in BOOLEAN /\ overflow_retried \in BOOLEAN
    /\ has_tools \in BOOLEAN /\ shrunk \in BOOLEAN
    /\ endpoint \in Endpoints \union {Fallback, NoEndpoint}
    /\ delay \in {"none", "retry-after", "backoff"}
    /\ answer \in Answers \union {NoAnswer}
    /\ client \in {"waiting", "stalled", "gone", "refused", "cut", "error", "response"}
    /\ sent \in Nat /\ reported \in Nat /\ logged \in Nat

\* The upstream is called at most once per attempt, plus once for the context
\* overflow, however many attempts the endpoints allow and whenever the overflow
\* comes; and the loop never reaches its own "all retries exhausted" exit.
AttemptsBounded ==
    /\ sent <= max_attempts + 1
    /\ ~overflow_retried => sent <= max_attempts
    /\ pc # "done" => attempt < max_attempts

\* Every attempt that got an answer (or a network error) is reported exactly
\* once, even if the client leaves while a body is being read: only an attempt
\* that was still on its way when the client left goes unreported.
EveryAnswerReported ==
    sent - reported \in IF pc = "sending" THEN {1}
                        ELSE IF pc = "done" /\ client = "gone" THEN {0, 1} ELSE {0}

\* A retryable failure reaches a client that is still there only when the
\* attempts are used up (a failing key selection in between says so instead).
ErrorsOnlyWhenExhausted ==
    pc = "done" /\ client = "error" /\ answer.kind \in {"network", "retryable"}
        => attempt + 1 >= max_attempts

\* request_log has request_id as its primary key: a request is logged at most
\* once, and a client that was given a response of the stream always is.
LoggedOnce ==
    /\ logged <= 1
    /\ stream /\ client = "response" => logged = 1

\* A retry-after hint delays the attempt right after the answer that carried it
\* and no later one.
HintIsFresh ==
    [][pc = "sleep" /\ pc' = "select" /\ delay' = "retry-after" => answer.hint]_vars

\* Every request ends, also when the client leaves or stops reading for a while;
\* only a client that stays and never reads again can hold its task for ever.
Terminates == []<>(client # "stalled") => <>(pc = "done")

\* key_pool.rs:70 - the model is replaced only by the mapping of the endpoint the
\* attempt goes to: what is sent is the requested name or that mapping.
MappingOfThisEndpoint ==
    pc = "sending" =>
        model = IF Mapped(endpoint) = NoMapping THEN Requested ELSE Mapped(endpoint)

=============================================================================
