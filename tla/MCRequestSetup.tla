--------------------------- MODULE MCRequestSetup ---------------------------
(* Small instances of RequestSetup: the parameters clients send. *)
EXTENDS RequestSetup

CONSTANTS v1, v2

Plain == [model |-> "claude", max_tokens |-> 8000, thinking |-> "none", budget |-> Absent, effort |-> "none"]

Thinks(model, thinking, budget, max) ==
    [Plain EXCEPT !.model = model, !.thinking = thinking, !.budget = budget, !.max_tokens = max]

Asked ==
    {Plain, Thinks("haiku", "none", Absent, 8000), Thinks("opus-4-6", "enabled", 2000, 8000),
     Thinks("o3", "none", Absent, 3000), Thinks("o3", "disabled", Absent, Absent),
     Thinks("o3", "enabled", 20000, 8000), Thinks("gpt-5", "enabled", Absent, 3000),
     Thinks("gpt-5", "enabled", 2000, 20000), Thinks("gpt-5", "adaptive", Absent, 8000),
     [Plain EXCEPT !.model = "gpt-5", !.effort = "max"], [Plain EXCEPT !.model = "o3", !.effort = "low"],
     [Plain EXCEPT !.model = "gpt-5", !.effort = "other", !.thinking = "adaptive"]}

\* One that is corrected, one at the least that is, one that leaves too little,
\* and one that is true of no request.
Complaints == {<<3000, 9000>>, <<6000, 8000>>, <<7000, 8000>>, <<3000, 90000>>}

Running(token, fallback, optimizer) ==
    [auth_token |-> token, fallback |-> fallback, thinking_optimizer |-> optimizer]

Deployments ==
    {Running(NoToken, FALSE, TRUE), Running(NoToken, TRUE, FALSE), Running(v1, TRUE, TRUE)}
=============================================================================
