---------------------------- MODULE Conversation ----------------------------
(***************************************************************************)
(* A conversation carried on through the proxy, turn by turn: the client   *)
(* sends its whole history in Anthropic's format, src/src/transform.rs     *)
(* turns it into OpenAI messages behind the system messages that           *)
(* src/src/prompt_cache.rs converts, and the upstream's answer is turned   *)
(* back into the assistant message the client adds to its history.         *)
(*                                                                         *)
(* A text, an image and a tool call are named by where they were said, a   *)
(* tool call with no id by NoId (the empty string of the code).  Tool      *)
(* arguments are the text of an object, a JSON value instead of its text,  *)
(* text that does not parse, or missing.                                   *)
(***************************************************************************)
EXTENDS Naturals, Sequences, FiniteSets, SequencesExt

CONSTANTS
    Answers,        \* the upstream answers considered, see Answer
    Notes,          \* what a user may write around tool results: see Note
    Prompts,        \* the system prompts considered, their texts as notes
    MaxAnswers,     \* bound on the answers of one conversation
    NoId            \* the id of a tool call that came without one

\* choices[0] of an upstream answer: the non-empty texts of content (a refusal
\* part is one of them), a message-level refusal, tool_calls, the older
\* function_call, each call as the state of its arguments, and finish_reason.
Arguments == {"object", "value", "broken", "absent"}
Answer == [texts : Nat, refusal : BOOLEAN, calls : Seq(Arguments),
           function_call : {"none"} \cup Arguments,
           finish : {"stop", "length", "tool_calls", "function_call", "none"}]

\* A text or an image, with or without a cache_control mark.
Note == [type : {"text", "image"}, cached : BOOLEAN]
PlainText == [type |-> "text", cached |-> FALSE]

ASSUME ConversationAssumption ==
    /\ Answers \subseteq Answer
    /\ Notes \subseteq Seq(Note)
    /\ Prompts \subseteq Seq([type : {"text"}, cached : BOOLEAN])
    /\ MaxAnswers \in Nat

\* What the API promises of its answers: calls come with a finish_reason for
\* them or none, and the arguments of tool_calls as text.
Agreeing ==
    \A a \in Answers : a.calls # <<>> \/ a.function_call # "none"
                          => a.finish \in {"tool_calls", "function_call", "none"}
AsText == \A a \in Answers : \A i \in DOMAIN a.calls : a.calls[i] # "value"

VARIABLES
    system,     \* the system prompt: a string, or a sequence of marked texts
    history,    \* the messages the client sends: role, shape of content, blocks
    said,       \* the upstream's answers so far
    request,    \* the OpenAI messages of the request under way
    pc,         \* whose turn it is: "user" or "upstream"
    stop        \* stop_reason of the last answer

vars == <<system, history, said, request, pc, stop>>

-----------------------------------------------------------------------------
(* Blocks of Anthropic's format and messages of OpenAI's *)

Role     == {"user", "assistant"}
Shape    == {"string", "blocks"}
Ref      == {NoId} \cup (Nat \X Nat)
              \cup ({"system", "before", "after", "answer", "thought"} \X Nat \X Nat)

Block(type, ref)     == [type |-> type, ref |-> ref, cached |-> FALSE, input |-> "none"]
ToolUse(id, input)   == [Block("tool_use", id) EXCEPT !.input = input]

Message(role, kind, parts, calls) ==
    [role |-> role, kind |-> kind, parts |-> parts, calls |-> calls, answers |-> <<>>]

ToolMessage(id) == [Message("tool", "string", <<>>, <<>>) EXCEPT !.answers = <<id>>]

-----------------------------------------------------------------------------
(* anthropic_to_openai_with_cached_prefix *)

\* convert_system_to_openai: one message per text, each keeping its mark.
SystemMessages(prompt) ==
    [i \in DOMAIN prompt |-> Message("system", "string", <<prompt[i]>>, <<>>)]

Bug_SingleTextIsString(parts) ==
    IF Len(parts) = 1 /\ parts[1].type = "text"
    THEN [kind |-> "string", parts |-> <<[parts[1] EXCEPT !.cached = FALSE]>>]
    ELSE [kind |-> IF parts = <<>> THEN "null" ELSE "array", parts |-> parts]

\* The content of a message: a lone text without a mark becomes a string.
Content(parts) ==
    [kind |-> IF parts = <<>> THEN "null"
              ELSE IF Len(parts) = 1 /\ parts[1].type = "text" /\ ~parts[1].cached
              THEN "string" ELSE "array",
     parts |-> parts]

\* What a block becomes: a part of the content (an image leaves its mark
\* behind), a call, or a message of its own.
PartOf(b) ==
    CASE b.type = "text"  -> <<b>>
      [] b.type = "image" -> <<[b EXCEPT !.cached = FALSE]>>
      [] OTHER            -> <<>>

CallOf(b)   == IF b.type = "tool_use" THEN <<[id |-> b.ref, arguments |-> b.input]>> ELSE <<>>
ResultOf(b) == IF b.type = "tool_result" THEN <<ToolMessage(b.ref)>> ELSE <<>>

Parts(blocks)   == FlattenSeq([i \in DOMAIN blocks |-> PartOf(blocks[i])])
Calls(blocks)   == FlattenSeq([i \in DOMAIN blocks |-> CallOf(blocks[i])])
Results(blocks) == FlattenSeq([i \in DOMAIN blocks |-> ResultOf(blocks[i])])

\* The message with the texts, images and calls, if there are any.
Body(role, blocks) ==
    LET content == Content(Parts(blocks))
    IN  IF Parts(blocks) = <<>> /\ Calls(blocks) = <<>> THEN <<>>
        ELSE <<Message(role, content.kind, content.parts, Calls(blocks))>>

Bug_ResultsLast(m) ==
    IF m.shape = "string" THEN <<Message(m.role, "string", m.blocks, <<>>)>>
    ELSE Body(m.role, m.blocks) \o Results(m.blocks)

\* convert_message_to_openai: the results first, wherever they were among the
\* blocks, then everything else; thinking is dropped.
ConvertMessage(m) ==
    IF m.shape = "string" THEN <<Message(m.role, "string", m.blocks, <<>>)>>
    ELSE Results(m.blocks) \o Body(m.role, m.blocks)

Convert(prompt, messages) ==
    SystemMessages(prompt) \o FlattenSeq([i \in DOMAIN messages |-> ConvertMessage(messages[i])])

-----------------------------------------------------------------------------
(* openai_to_anthropic *)

Bug_InputUnparsed(arguments) == IF arguments = "absent" THEN "empty" ELSE arguments

\* Arguments that do not parse, or are no text, become {}.
Input(arguments) == IF arguments = "object" THEN "object" ELSE "empty"

\* The older function_call has no id; its arguments may also be a value.
FunctionCall(a) ==
    IF a.function_call = "none" THEN <<>>
    ELSE <<ToolUse(NoId, IF a.function_call = "value" THEN "object" ELSE Input(a.function_call))>>

Bug_BothKindsOfCalls(a, n) ==
    [i \in DOMAIN a.calls |-> ToolUse(<<n, i>>, Input(a.calls[i]))] \o FunctionCall(a)

\* Call i of answer n is named <<n, i>>; function_call only counts when there are no tool_calls.
ToolUses(a, n) ==
    IF a.calls # <<>> THEN [i \in DOMAIN a.calls |-> ToolUse(<<n, i>>, Input(a.calls[i]))]
    ELSE FunctionCall(a)

\* Where the texts and the refusal of answer n are said.
Spoken(a, n) == [i \in 1 .. (a.texts + IF a.refusal THEN 1 ELSE 0) |-> Block("text", <<"answer", n, i>>)]

Bug_RefusalReplacesText(a, n) ==
    (IF a.refusal THEN <<Block("text", <<"answer", n, a.texts + 1>>)>> ELSE Spoken(a, n)) \o ToolUses(a, n)

Blocks(a, n) == Spoken(a, n) \o ToolUses(a, n)

Bug_StopIgnoresTools(a) ==
    CASE a.finish \in {"tool_calls", "function_call"} -> "tool_use"
      [] a.finish = "length" -> "max_tokens"
      [] a.finish = "stop" -> "end_turn"
      [] OTHER -> "none"

\* Without a finish_reason, tool calls speak for themselves.
StopReason(a) ==
    CASE a.finish \in {"tool_calls", "function_call"} -> "tool_use"
      [] a.finish = "length" -> "max_tokens"
      [] a.finish = "stop" -> "end_turn"
      [] OTHER -> IF a.calls # <<>> \/ a.function_call # "none" THEN "tool_use" ELSE "none"

-----------------------------------------------------------------------------
(* The client and the upstream *)

\* The tool calls the client has to answer: those of the last message, if its
\* stop_reason asks for it.
Due == IF stop = "tool_use" /\ history # <<>> THEN Calls(Last(history).blocks) ELSE <<>>

\* What the user writes in turn n: texts and images named by their place.
Written(notes, n, place) ==
    [i \in DOMAIN notes |->
        [Block(notes[i].type, <<place, n, i>>) EXCEPT !.cached = notes[i].cached]]

\* The client adds a user message, with the results due in any order and
\* anything before and after them, and sends its history.
Ask(before, after, order, shape) ==
    LET n       == Len(said)
        results == [i \in DOMAIN Due |-> Block("tool_result", Due[order[i]].id)]
        blocks  == Written(before, n, "before") \o results \o Written(after, n, "after")
    IN  /\ pc = "user"
        /\ blocks # <<>> /\ (Due = <<>> => after = <<>>)
        /\ shape = "string" => before = <<PlainText>> /\ Len(blocks) = 1
        /\ history' = Append(history, [role |-> "user", shape |-> shape, blocks |-> blocks])
        /\ request' = Convert(system, history')
        /\ pc' = "upstream"
        /\ UNCHANGED <<system, said, stop>>

\* The answer arrives and joins the history; one that was streamed may bring a
\* thinking block along.
Reply(a, thinking) ==
    LET n == Len(said) + 1
        thoughts == IF thinking THEN <<Block("thinking", <<"thought", n, 0>>)>> ELSE <<>>
    IN  /\ pc = "upstream"
        /\ n <= MaxAnswers
        /\ said' = Append(said, a)
        /\ history' = Append(history, [role |-> "assistant", shape |-> "blocks",
                                       blocks |-> thoughts \o Blocks(a, n)])
        /\ stop' = StopReason(a)
        /\ request' = <<>>
        /\ pc' = "user"
        /\ UNCHANGED system

\* No choices, or a choice without a message: an error, and the client takes
\* its message back.
Unusable ==
    /\ pc = "upstream"
    /\ history' = Front(history)
    /\ request' = <<>>
    /\ pc' = "user"
    /\ UNCHANGED <<system, said, stop>>

\* The user starts over.
NewConversation ==
    /\ pc = "user" /\ history # <<>>
    /\ history' = <<>> /\ said' = <<>> /\ request' = <<>> /\ stop' = "none"
    /\ UNCHANGED <<system, pc>>

-----------------------------------------------------------------------------
Init ==
    /\ system \in {Written(notes, 0, "system") : notes \in Prompts}
    /\ history = <<>> /\ said = <<>> /\ request = <<>>
    /\ pc = "user" /\ stop = "none"

Next ==
    \/ \E before, after \in Notes, order \in Bijection(DOMAIN Due, DOMAIN Due), shape \in Shape :
         Ask(before, after, order, shape)
    \/ \E a \in Answers, thinking \in BOOLEAN : Reply(a, thinking)
    \/ Unusable
    \/ NewConversation

Spec == Init /\ [][Next]_vars

-----------------------------------------------------------------------------
(* Properties *)

AnyBlock ==
    {b \in [type : {"text", "image", "thinking", "tool_use", "tool_result"}, ref : Ref,
            cached : BOOLEAN, input : {"none", "object", "empty"}] :
        b.type = "tool_use" <=> b.input # "none"}

AnyMessage ==
    {m \in [role : Role, shape : Shape, blocks : Seq(AnyBlock)] :
        /\ \A i \in DOMAIN m.blocks : m.blocks[i].type \in
              (IF m.role = "user" THEN {"text", "image", "tool_result"}
                                  ELSE {"text", "thinking", "tool_use"})
        /\ m.shape = "string" =>
              Len(m.blocks) = 1 /\ m.blocks[1].type = "text" /\ ~m.blocks[1].cached}

Call == [id : Ref, arguments : {"object", "empty"}]

AnyRequestMessage ==
    {m \in [role : {"system", "tool"} \cup Role, kind : {"null", "string", "array"},
            parts : Seq(AnyBlock), calls : Seq(Call), answers : Seq(Ref)] :
        /\ m.kind = "null" <=> m.parts = <<>> /\ m.role # "tool"
        /\ m.parts = <<>> => m.calls # <<>> \/ m.role = "tool"
        /\ m.calls # <<>> => m.role = "assistant"
        /\ IF m.role = "tool" THEN m.parts = <<>> /\ Len(m.answers) = 1 ELSE m.answers = <<>>}

TypeOK ==
    /\ system \in Seq(AnyBlock)
    /\ history \in Seq(AnyMessage)
    /\ request \in Seq(AnyRequestMessage)
    /\ said \in Seq(Answers) /\ Len(said) <= MaxAnswers
    /\ pc \in {"user", "upstream"}
    /\ stop \in {"none", "end_turn", "max_tokens", "tool_use"}

\* The run of tool messages right after message i of request r.
AnswersAfter(r, i) ==
    {j \in DOMAIN r : j > i /\ \A k \in (i + 1) .. j : r[k].role = "tool"}

CallIds(m) == {m.calls[i].id : i \in DOMAIN m.calls}

\* What OpenAI requires of a request: every call of an assistant message is
\* answered once, by the tool messages right behind it, and there are no
\* others.
Accepts(r) ==
    /\ \A i \in DOMAIN r : r[i].calls # <<>> =>
         /\ {r[j].answers[1] : j \in AnswersAfter(r, i)} = CallIds(r[i])
         /\ Cardinality(AnswersAfter(r, i)) = Len(r[i].calls)
    /\ \A j \in DOMAIN r : r[j].role = "tool" =>
         \E i \in 1 .. (j - 1) : r[i].calls # <<>> /\ j \in AnswersAfter(r, i)

\* Every request pairs calls and results.  The converter must see to it although
\* Anthropic's clients may mix results with text in one message, and tell by
\* stop_reason alone whether a tool is to be run (convert_message_to_openai,
\* openai_to_anthropic).
UpstreamAccepts == pc = "upstream" => Accepts(request)

Refs(parts) == [i \in DOMAIN parts |-> parts[i].ref]

\* What answer n said, as the upstream would put it today: its texts, then a
\* refusal, and its calls with the arguments that are an object; nothing if it
\* was empty.
Recalled(a, n) ==
    LET Object(arguments) == IF arguments \in {"object", "value"} THEN "object" ELSE "empty"
        texts == [i \in 1 .. (a.texts + IF a.refusal THEN 1 ELSE 0) |-> <<"answer", n, i>>]
        calls == IF a.calls = <<>> /\ a.function_call # "none"
                 THEN <<[id |-> NoId, arguments |-> Object(a.function_call)]>>
                 ELSE [i \in DOMAIN a.calls |-> [id |-> <<n, i>>, arguments |-> Object(a.calls[i])]]
    IN  IF texts = <<>> /\ calls = <<>> THEN <<>> ELSE <<[texts |-> texts, calls |-> calls]>>

\* What the upstream takes for an answer of its own.
Heard(m) == IF m.role = "assistant" THEN <<[texts |-> Refs(m.parts), calls |-> m.calls]>> ELSE <<>>

\* The upstream meets its own answers again in every later request, in order,
\* complete, and without thinking or anything else of ours: the two
\* translations are inverse to each other on what was said.
RepliesComeBack ==
    pc = "upstream" =>
        FlattenSeq([i \in DOMAIN request |-> Heard(request[i])])
        = FlattenSeq([n \in DOMAIN said |-> Recalled(said[n], n)])

\* The parts with a mark, and the texts among them.
MarkOf(p)     == IF p.cached THEN <<p.ref>> ELSE <<>>
TextMarkOf(b) == IF b.type = "text" THEN MarkOf(b) ELSE <<>>

Marks(parts)      == FlattenSeq([i \in DOMAIN parts |-> MarkOf(parts[i])])
TextMarks(blocks) == FlattenSeq([i \in DOMAIN blocks |-> TextMarkOf(blocks[i])])

\* Every cache_control mark on a system or message text is still on that text
\* in the request, in the same order, and no other part has one ("keep array
\* format to preserve it", transform.rs:366).
CacheMarksKept ==
    pc = "upstream" =>
        FlattenSeq([i \in DOMAIN request |-> Marks(request[i].parts)])
        = Marks(system) \o FlattenSeq([i \in DOMAIN history |-> TextMarks(history[i].blocks)])
=============================================================================
