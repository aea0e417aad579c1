------------------------- MODULE MCStreamConverter -------------------------
(* Small instances of StreamConverter: which contents an upstream chunk has. *)
EXTENDS StreamConverter

CONSTANTS t0, t1

Bare == [reasoning |-> "none", content |-> "none", has_calls |-> FALSE,
         calls |-> <<>>, finish |-> FALSE, usage |-> FALSE]

Calls(calls) == [Bare EXCEPT !.has_calls = TRUE, !.calls = calls]
Call(t, id, name, args) == [index |-> t, id |-> id, name |-> name, args |-> args]
Named(t, args) == Call(t, "some", "some", args)
Args(t)        == Call(t, "none", "none", "some")

Finish == {[Bare EXCEPT !.finish = TRUE], [Bare EXCEPT !.finish = TRUE, !.usage = TRUE]}

TextDeltas ==
    {[Bare EXCEPT !.content = "empty"],
     [Bare EXCEPT !.content = "some", !.usage = TRUE],
     [Bare EXCEPT !.reasoning = "some"],
     [Bare EXCEPT !.reasoning = "empty", !.content = "some"],
     [Bare EXCEPT !.content = "some", !.has_calls = TRUE],
     [Bare EXCEPT !.content = "some", !.finish = TRUE]}

\* Tools announced as OpenAI does, id and name in the first entry, and entries
\* that repeat them.
NamedCalls == {Calls(<<Named(t0, "some"), Named(t1, "none")>>)}

\* Arguments before id and name, either of them alone, and never either.
LateCalls ==
    {Calls(<<Args(t1), Args(t0), Args(t1)>>),
     Calls(<<Call(t0, "some", "none", "some")>>), Calls(<<Call(t0, "empty", "some", "some")>>),
     Calls(<<Call(t1, "some", "empty", "none"), Named(t0, "none")>>),
     Calls(<<Call(t1, "none", "none", "none")>>)}

PlainDeltas == TextDeltas \cup Finish
MixedDeltas == PlainDeltas \cup NamedCalls \cup LateCalls
=============================================================================
