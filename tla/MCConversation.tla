--------------------------- MODULE MCConversation ---------------------------
(* A small instance of Conversation: answers of every kind, with a           *)
(* finish_reason that agrees with them and tool_calls as OpenAI sends them,  *)
(* with arguments as text.                                                   *)
EXTENDS Conversation

Plain == [texts |-> 1, refusal |-> FALSE, calls |-> <<>>, function_call |-> "none", finish |-> "stop"]

FewAnswers ==
    {[Plain EXCEPT !.texts = 0, !.finish = "length"],
     [Plain EXCEPT !.texts = 2, !.refusal = TRUE],
     [Plain EXCEPT !.calls = <<"object", "broken">>, !.finish = "tool_calls"],
     [Plain EXCEPT !.texts = 0, !.calls = <<"absent">>, !.function_call = "object", !.finish = "none"],
     [Plain EXCEPT !.texts = 0, !.function_call = "broken", !.finish = "function_call"],
     [Plain EXCEPT !.function_call = "value", !.finish = "none"]}

Text    == PlainText
Marked  == [type |-> "text", cached |-> TRUE]
Picture == [type |-> "image", cached |-> TRUE]

FewNotes   == {<<>>, <<Text>>, <<Marked>>, <<Text, Picture>>}
FewPrompts == {<<>>, <<Text>>, <<Text, Marked>>}

ASSUME FewAnswersAssumption == Agreeing /\ AsText
=============================================================================
