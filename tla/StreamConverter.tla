-------------------------- MODULE StreamConverter --------------------------
(***************************************************************************)
(* The streamed answer after the upstream said 200: the OpenAI to          *)
(* Anthropic converter of src/src/streaming.rs, the task of                *)
(* src/src/handler.rs that forwards its events over a bounded channel and  *)
(* then records the usage, the client that reads the channel, and an       *)
(* upstream that speaks OpenAI's chunk stream and may stall, fail or       *)
(* close at any point.                                                     *)
(*                                                                         *)
(* The loop body handles one SSE event of the upstream in steps: the text  *)
(* of a chunk, each entry of its tool_calls, each block that is late or    *)
(* still open when it finishes.  What a step yields is queued in s.out;    *)
(* the forwarder takes the events one at a time, and the converter does    *)
(* not go on before the queue is empty.                                    *)
(***************************************************************************)
EXTENDS Naturals, Sequences, FiniteSets, SequencesExt

CONSTANTS
    Tools,          \* upstream tool call indices
    Deltas,         \* the choices[0] contents the upstream may send
    MaxChunks,      \* bound on the chunks that carry a choice
    Capacity,       \* capacity of the data channel (64 in handler.rs)
    NoBlock

\* An optional string of a delta: absent, "" or something.
Field == {"none", "empty", "some"}

ToolCall == [index : Tools, id : Field, name : Field, args : Field]

\* choices[0]; has_calls tells an empty tool_calls list from an absent one,
\* usage says whether the chunk carries token counts.
Delta == [reasoning : Field, content : Field, has_calls : BOOLEAN,
          calls : Seq(ToolCall), finish : BOOLEAN, usage : BOOLEAN]

ASSUME ConverterAssumption ==
    /\ IsFiniteSet(Tools)
    /\ Tools \cap {"none", "thinking", "text"} = {}
    /\ \A d \in Deltas : d \in Delta /\ (d.calls # <<>> => d.has_calls)
    /\ MaxChunks \in Nat \ {0}
    /\ Capacity \in Nat \ {0}
    /\ NoBlock \notin Nat

VARIABLES
    s,          \* the locals of create_anthropic_sse_stream, and its pending yields
    chunk,      \* the choice the loop body is at, and how many of its calls it handled
    pc,         \* "read", "chunk": in the loop, "ending": it broke, then "recorded"
    more,       \* the buffer holds a further complete event
    late,       \* the deadline stream_deadline has passed
    collector,  \* usage_collector: no counts, "input" only, or "all" of them
    channel,    \* the mpsc channel between the task and the response body
    connected,  \* the response body still exists
    client,     \* the events read by the client, see AnthropicMessage
    upstream,   \* "streaming", "finished" after finish_reason, "done" after [DONE]
    metered,    \* the upstream has sent its final token counts
    sent,       \* history: fragments the upstream sent, by source
    chunks      \* history: chunks with a choice so far

proxy == <<s, chunk, pc, more, collector>>
input == <<upstream, metered, sent, chunks>>
vars  == <<proxy, late, channel, connected, client, input>>

Sources == {"thinking", "text"} \cup Tools

\* A chunk opens at most one thinking and one text block, a tool one ever.
Index == 0 .. (2 * MaxChunks + Cardinality(Tools))

-----------------------------------------------------------------------------
(* The converter: one operator per part of the loop body *)

Event(type, index, source, text) ==
    [type |-> type, index |-> index, source |-> source, text |-> text]

BlockStart(i, source)  == Event("content_block_start", i, source, <<>>)
BlockDelta(i, source, text) == Event("content_block_delta", i, source, text)
BlockStop(i)           == Event("content_block_stop", i, "none", <<>>)
Message(type)          == Event(type, NoBlock, "none", <<>>)

\* A fragment is named by its chunk and its place in tool_calls, 0 for text.
Fragment == Nat \X Nat

NoChunk == [calls |-> <<>>, finish |-> FALSE, usage |-> FALSE, handled |-> 0]

NoTool == [index |-> NoBlock, id |-> FALSE, name |-> FALSE, started |-> FALSE, pending |-> <<>>]

FreshStream ==
    [started |-> FALSE, next |-> 0, kind |-> "none", block |-> NoBlock,
     tools |-> [t \in Tools |-> NoTool], open |-> {}, out |-> <<>>]

Yield(c, events) == [c EXCEPT !.out = @ \o events]

\* The first chunk with a choice starts the message.
AfterStart(c) ==
    IF c.started THEN c ELSE [Yield(c, <<Message("message_start")>>) EXCEPT !.started = TRUE]

\* current_non_tool_block_index.take(), and the stop of what it held
StopText(c) ==
    IF c.block = NoBlock THEN c
    ELSE [Yield(c, <<BlockStop(c.block)>>) EXCEPT !.block = NoBlock]

Bug_IndexAfterIncrement(c, kind) ==
    IF c.kind = kind THEN c
    ELSE [Yield(StopText(c), <<BlockStart(c.next + 1, kind)>>)
            EXCEPT !.kind = kind, !.block = c.next + 1, !.next = @ + 1]

\* A thinking or text block is current: the other kind is stopped first.
OpenText(c, kind) ==
    IF c.kind = kind THEN c
    ELSE [Yield(StopText(c), <<BlockStart(c.next, kind)>>)
            EXCEPT !.kind = kind, !.block = c.next, !.next = @ + 1]

AfterText(c, kind, text) ==
    LET o == OpenText(c, kind)
    IN  IF o.block = NoBlock THEN o ELSE Yield(o, <<BlockDelta(o.block, kind, text)>>)

\* Even an empty reasoning string opens a block; an empty content does not.
AfterReasoning(c, d, n) ==
    IF d.reasoning = "none" THEN c
    ELSE AfterText(c, "thinking", IF d.reasoning = "some" THEN <<<<n, 0>>>> ELSE <<>>)

AfterContent(c, d, n) ==
    IF d.content # "some" THEN c ELSE AfterText(c, "text", <<<<n, 0>>>>)

Update(old, field) == IF field = "none" THEN old ELSE field = "some"

\* An entry of tool_calls: the first for a tool takes the next index.
NoteCall(c, call) ==
    LET t == c.tools[call.index]
    IN  [c EXCEPT !.next = IF t.index = NoBlock THEN @ + 1 ELSE @,
                  !.tools[call.index] =
                      [index |-> IF t.index = NoBlock THEN c.next ELSE t.index,
                       id |-> Update(t.id, call.id), name |-> Update(t.name, call.name),
                       started |-> t.started, pending |-> t.pending]]

\* The start of a tool's block, and the arguments that came before it.
BeginTool(c, t) ==
    LET tool == c.tools[t]
        args == IF tool.pending = <<>> THEN <<>> ELSE <<BlockDelta(tool.index, t, tool.pending)>>
    IN  [Yield(c, <<BlockStart(tool.index, t)>> \o args)
           EXCEPT !.tools[t] = [@ EXCEPT !.started = TRUE, !.pending = <<>>],
                  !.open = @ \cup {tool.index}]

KeepArgs(c, t, text) == [c EXCEPT !.tools[t].pending = @ \o text]

CloseTool(c, i) == [Yield(c, <<BlockStop(i)>>) EXCEPT !.open = @ \ {i}]

SendArgs(c, t, text) == Yield(c, <<BlockDelta(c.tools[t].index, t, text)>>)

\* The block starts when both id and name are known; until then the arguments
\* wait in pending_args.
AfterToolCall(c, call, fragment) ==
    LET t     == call.index
        noted == NoteCall(c, call)
        ready == ~noted.tools[t].started /\ noted.tools[t].id /\ noted.tools[t].name
        ongoing == IF ready THEN BeginTool(noted, t) ELSE noted
        text  == IF call.args = "some" THEN <<fragment>> ELSE <<>>
    IN  IF ~ongoing.tools[t].started THEN KeepArgs(ongoing, t, text)
        ELSE IF call.args = "none" THEN ongoing ELSE SendArgs(ongoing, t, text)

\* Tool calls, even an empty list of them, end the current block, and so does
\* finish_reason.
WithoutText(c) == [StopText(c) EXCEPT !.kind = "none"]

AfterTexts(c, d, n) ==
    LET spoken == AfterContent(AfterReasoning(AfterStart(c), d, n), d, n)
    IN  IF d.has_calls THEN WithoutText(spoken) ELSE spoken

\* Tools that were announced but never had both id and name.
LateTools(c) ==
    {t \in Tools : LET tool == c.tools[t]
                   IN  /\ tool.index # NoBlock
                       /\ ~tool.started
                       /\ tool.pending # <<>> \/ tool.id \/ tool.name}

-----------------------------------------------------------------------------
(* Steps of the converter *)

\* The top of the loop: what was yielded has been taken by the forwarder.
Reading == pc = "read" /\ s.out = <<>>

\* A complete event is there: already buffered, or read before the deadline.
Readable == Reading /\ (more \/ ~late)

\* The fragments of a tool in chunk n, from the entries of tool_calls after the
\* i-th on.
ArgsAfter(calls, n, tool) ==
    LET args[i \in 0 .. Len(calls)] ==
            IF i = Len(calls) THEN <<>>
            ELSE IF calls[i + 1].index = tool /\ calls[i + 1].args = "some"
                 THEN <<<<n, i + 1>>>> \o args[i + 1]
                 ELSE args[i + 1]
    IN  args

\* The fragments of the chunk d, the n-th, by source.
Fragments(d, n, source) ==
    CASE source = "thinking" -> IF d.reasoning = "some" THEN <<<<n, 0>>>> ELSE <<>>
      [] source = "text"     -> IF d.content = "some" THEN <<<<n, 0>>>> ELSE <<>>
      [] OTHER -> ArgsAfter(d.calls, n, source)[0]

\* After k of its calls a chunk goes on, unless that was all.
Proceed(d, k) ==
    IF k = Len(d.calls) /\ ~d.finish THEN pc' = "read" /\ chunk' = NoChunk
    ELSE /\ pc' = "chunk"
         /\ chunk' = [calls |-> d.calls, finish |-> d.finish, usage |-> d.usage, handled |-> k]

\* A chunk with a choice.  The upstream ends its choice with finish_reason.
ReceiveChunk(d) ==
    /\ Readable
    /\ upstream = "streaming"
    /\ chunks < (IF d.finish THEN MaxChunks ELSE MaxChunks - 1)
    /\ s' = AfterTexts(s, d, chunks + 1)
    /\ Proceed(d, 0)
    /\ collector' = IF d.usage /\ ~s.started THEN "input" ELSE collector
    /\ chunks' = chunks + 1
    /\ sent' = [x \in Sources |-> sent[x] \o Fragments(d, chunks + 1, x)]
    /\ upstream' = IF d.finish THEN "finished" ELSE "streaming"
    /\ metered' = (d.finish /\ d.usage)
    /\ more' \in BOOLEAN
    /\ UNCHANGED <<late, channel, connected, client>>

\* The loop body goes on with the chunk.
Handling == pc = "chunk" /\ s.out = <<>>

\* The next entry of its tool_calls.
HandleCall ==
    /\ Handling /\ chunk.handled < Len(chunk.calls)
    /\ LET k == chunk.handled + 1
       IN  /\ s' = AfterToolCall(s, chunk.calls[k], <<chunks, k>>)
           /\ Proceed(chunk, k)
    /\ UNCHANGED <<more, collector, late, channel, connected, client, input>>

Finishing == Handling /\ chunk.handled = Len(chunk.calls)

\* finish_reason stops the current block ...
StopLastText ==
    /\ Finishing /\ s.kind # "none"
    /\ s' = WithoutText(s)
    /\ UNCHANGED <<chunk, pc, more, collector, late, channel, connected, client, input>>

Bug_LateStartsBare(t) ==
    /\ Finishing /\ s.kind = "none"
    /\ t \in LateTools(s)
    /\ \A u \in LateTools(s) : s.tools[t].index <= s.tools[u].index
    /\ LET i == s.tools[t].index
       IN  s' = [Yield(s, <<BlockStart(i, t)>>)
                   EXCEPT !.tools[t] = [@ EXCEPT !.started = TRUE, !.pending = <<>>],
                          !.open  = @ \cup {i}]
    /\ UNCHANGED <<chunk, pc, more, collector, late, channel, connected, client, input>>

Bug_LateToolsStayOpen(t) ==
    /\ Finishing /\ s.kind = "none"
    /\ t \in LateTools(s)
    /\ \A u \in LateTools(s) : s.tools[t].index <= s.tools[u].index
    /\ LET tool == s.tools[t]
           args == IF tool.pending = <<>> THEN <<>> ELSE <<BlockDelta(tool.index, t, tool.pending)>>
       IN  s' = [Yield(s, <<BlockStart(tool.index, t)>> \o args)
                   EXCEPT !.tools[t] = [@ EXCEPT !.started = TRUE, !.pending = <<>>]]
    /\ UNCHANGED <<chunk, pc, more, collector, late, channel, connected, client, input>>

\* ... starts the late tools in index order, under stand-in names and each with
\* its arguments ...
StartLate(t) ==
    /\ Finishing /\ s.kind = "none"
    /\ t \in LateTools(s)
    /\ \A u \in LateTools(s) : s.tools[t].index <= s.tools[u].index
    /\ s' = BeginTool(s, t)
    /\ UNCHANGED <<chunk, pc, more, collector, late, channel, connected, client, input>>

\* ... stops the open tools in index order ...
StopTool(i) ==
    /\ Finishing /\ s.kind = "none" /\ LateTools(s) = {}
    /\ i \in s.open
    /\ \A j \in s.open : i <= j
    /\ s' = CloseTool(s, i)
    /\ UNCHANGED <<chunk, pc, more, collector, late, channel, connected, client, input>>

\* ... and sends the stop reason, with the final counts if it has them.
SendStopReason ==
    /\ Finishing /\ s.kind = "none" /\ LateTools(s) = {} /\ s.open = {}
    /\ s' = Yield(s, <<Message("message_delta")>>)
    /\ collector' = IF chunk.usage THEN "all" ELSE collector
    /\ pc' = "read"
    /\ chunk' = NoChunk
    /\ UNCHANGED <<more, late, channel, connected, client, input>>

Bug_UsageOnlyIgnored ==
    /\ Readable
    /\ upstream = "finished" /\ ~metered
    /\ metered' = TRUE
    /\ more' \in BOOLEAN
    /\ UNCHANGED <<s, chunk, pc, collector, late, channel, connected, client, upstream, sent, chunks>>

\* The usage-only chunk with no choices, which OpenAI sends last.
ReceiveUsage ==
    /\ Readable
    /\ upstream = "finished" /\ ~metered
    /\ metered' = TRUE
    /\ collector' = "all"
    /\ more' \in BOOLEAN
    /\ UNCHANGED <<s, chunk, pc, late, channel, connected, client, upstream, sent, chunks>>

Bug_DoneIsSilent ==
    /\ Readable
    /\ upstream = "finished"
    /\ upstream' = "done"
    /\ more' = FALSE
    /\ UNCHANGED <<s, chunk, pc, collector, late, channel, connected, client, metered, sent, chunks>>

\* [DONE] becomes message_stop; the loop goes on reading.
ReceiveDone ==
    /\ Readable
    /\ upstream = "finished"
    /\ upstream' = "done"
    /\ s' = Yield(s, <<Message("message_stop")>>)
    /\ more' = FALSE
    /\ UNCHANGED <<chunk, pc, collector, late, channel, connected, client, metered, sent, chunks>>

\* The connection is closed: the loop breaks without a word to the client.
UpstreamCloses ==
    /\ Reading /\ ~more /\ ~late
    /\ pc' = "ending"
    /\ UNCHANGED <<s, chunk, more, collector, late, channel, connected, client, input>>

\* A read error, 90 seconds without data, or the deadline: an error event, and
\* the loop breaks.  Past the deadline this is all the loop top can do.
StreamFails ==
    /\ Reading /\ ~more
    /\ s' = Yield(s, <<Message("error")>>)
    /\ pc' = "ending"
    /\ UNCHANGED <<chunk, more, collector, late, channel, connected, client, input>>

Deadline ==
    /\ ~late
    /\ late' = TRUE
    /\ UNCHANGED <<proxy, channel, connected, client, input>>

-----------------------------------------------------------------------------
(* The forwarding task and the client *)

Bug_ForwardUnbounded ==
    /\ connected
    /\ s.out # <<>>
    /\ channel' = Append(channel, Head(s.out))
    /\ s' = [s EXCEPT !.out = Tail(@)]
    /\ UNCHANGED <<chunk, pc, more, collector, late, connected, client, input>>

\* data_tx.send(item): waits while the channel is full.
Forward ==
    /\ connected
    /\ s.out # <<>>
    /\ Len(channel) < Capacity
    /\ channel' = Append(channel, Head(s.out))
    /\ s' = [s EXCEPT !.out = Tail(@)]
    /\ UNCHANGED <<chunk, pc, more, collector, late, connected, client, input>>

\* data_tx.send fails: the converter is dropped with what it had to say.
NoticeDisconnect ==
    /\ ~connected
    /\ s.out # <<>>
    /\ s' = [s EXCEPT !.out = <<>>]
    /\ chunk' = NoChunk
    /\ pc' = "ending"
    /\ UNCHANGED <<more, collector, late, channel, connected, client, input>>

Bug_NoRecordWithoutClient ==
    /\ pc = "ending" /\ connected
    /\ s.out = <<>>
    /\ pc' = "recorded"
    /\ UNCHANGED <<s, chunk, more, collector, late, channel, connected, client, input>>

\* The stream is over: the usage collected so far goes to the log.
Record ==
    /\ pc = "ending"
    /\ s.out = <<>>
    /\ pc' = "recorded"
    /\ UNCHANGED <<s, chunk, more, collector, late, channel, connected, client, input>>

\* What a client makes of an event, whatever it is.
Read(c, e) ==
    [phase    |-> CASE e.type = "message_start" -> "open"
                    [] e.type = "message_delta" -> "ending"
                    [] e.type = "message_stop"  -> "stopped"
                    [] e.type = "error"         -> "failed"
                    [] OTHER                    -> c.phase,
     block    |-> CASE e.type = "content_block_start" -> [c.block EXCEPT ![e.index] = "open"]
                    [] e.type = "content_block_stop"  -> [c.block EXCEPT ![e.index] = "closed"]
                    [] OTHER                          -> c.block,
     received |-> c.received + 1,
     got      |-> IF e.type # "content_block_delta" THEN c.got
                  ELSE [c.got EXCEPT ![e.source] = @ \o e.text]]

\* The client reads the next event.
Deliver ==
    /\ connected
    /\ channel # <<>>
    /\ client' = Read(client, Head(channel))
    /\ channel' = Tail(channel)
    /\ UNCHANGED <<proxy, late, connected, input>>

\* The client goes away; what is in the channel goes with it.
Disconnect ==
    /\ connected
    /\ connected' = FALSE
    /\ channel' = <<>>
    /\ UNCHANGED <<proxy, late, client, input>>

-----------------------------------------------------------------------------
Init ==
    /\ s = FreshStream
    /\ chunk = NoChunk
    /\ pc = "read"
    /\ more = FALSE
    /\ late = FALSE
    /\ collector = "none"
    /\ channel = <<>>
    /\ connected = TRUE
    /\ client = [phase |-> "waiting", block |-> [i \in Index |-> "unused"], received |-> 0,
                 got |-> [x \in Sources |-> <<>>]]
    /\ upstream = "streaming"
    /\ metered = FALSE
    /\ sent = [x \in Sources |-> <<>>]
    /\ chunks = 0

Task == Forward \/ NoticeDisconnect \/ Record

HandleChunk ==
    \/ HandleCall \/ StopLastText \/ SendStopReason
    \/ \E t \in Tools : StartLate(t)
    \/ \E i \in s.open : StopTool(i)

Receive == (\E d \in Deltas : ReceiveChunk(d)) \/ ReceiveUsage \/ ReceiveDone

Next ==
    \/ Receive \/ HandleChunk \/ UpstreamCloses \/ StreamFails \/ Deadline
    \/ Task \/ Deliver \/ Disconnect

Spec == Init /\ [][Next]_vars

\* The task runs, what is buffered or begun is handled, time passes, and an upstream
\* that says nothing any more is given up.
ProxyFair ==
    /\ WF_vars(Task)
    /\ WF_vars(more /\ Receive)
    /\ WF_vars(HandleChunk)
    /\ WF_vars(Deadline)
    /\ WF_vars(StreamFails)

ProxyFairSpec == Spec /\ ProxyFair

\* Besides, the client reads what is there.
FairSpec == ProxyFairSpec /\ WF_vars(Deliver)

-----------------------------------------------------------------------------
(* Properties *)

Events ==
    [type : {"message_start", "content_block_start", "content_block_delta", "content_block_stop",
             "message_delta", "message_stop", "error"},
     index : Index \cup {NoBlock}, source : Sources \cup {"none"}, text : Seq(Fragment)]

ToolStates ==
    [index : Index \cup {NoBlock}, id : BOOLEAN, name : BOOLEAN,
     started : BOOLEAN, pending : Seq(Fragment)]

Stream ==
    [started : BOOLEAN, next : Index, kind : {"none", "thinking", "text"}, block : Index \cup {NoBlock},
     tools : [Tools -> ToolStates],
     open : SUBSET Index, out : Seq(Events)]

Client ==
    [phase : {"waiting", "open", "ending", "stopped", "failed"},
     block : [Index -> {"unused", "open", "closed"}],
     received : Nat, got : [Sources -> Seq(Fragment)]]

TypeOK ==
    /\ s \in Stream
    /\ chunk \in [calls : Seq(ToolCall), finish : BOOLEAN, usage : BOOLEAN, handled : Nat]
    /\ pc \in {"read", "chunk", "ending", "recorded"}
    /\ more \in BOOLEAN /\ late \in BOOLEAN /\ connected \in BOOLEAN /\ metered \in BOOLEAN
    /\ collector \in {"none", "input", "all"}
    /\ channel \in Seq(Events) /\ Len(channel) <= Capacity
    /\ client \in Client
    /\ upstream \in {"streaming", "finished", "done"}
    /\ sent \in [Sources -> Seq(Fragment)]
    /\ chunks \in 0 .. MaxChunks

Promised == INSTANCE AnthropicMessage
    WITH phase <- client.phase, block <- client.block, received <- client.received

\* The events the client reads follow Anthropic's grammar: deltas only for open
\* blocks, no index used twice, every block stopped before the stop reason, and
\* message_stop last but for an error (streaming.rs create_anthropic_sse_stream).
ImplementsMessage == Promised!Spec

\* No fragment of text, thinking or tool arguments is lost, doubled or moved,
\* whenever id and name of a tool arrive: what was read is a prefix of what the
\* upstream sent, and all of it once the stop reason is there.
FragmentsKept ==
    /\ \A x \in Sources : IsPrefix(client.got[x], sent[x])
    /\ client.phase \in {"ending", "stopped"} =>
         \A x \in Sources : client.got[x] = sent[x]

\* An index is a position in the content: a client that read a block start has
\* read the starts of the blocks before it, but for tools whose id or name is
\* still to come; once the stop reason is there, for those that never said
\* anything (next_content_index in streaming.rs).
StartsInOrder ==
    \A i \in Index : client.block[i] # "unused" =>
        \A j \in 0 .. i - 1 : client.block[j] = "unused" =>
            \E t \in Tools :
                /\ s.tools[t].index = j
                /\ client.phase \in {"ending", "stopped"} => ~s.tools[t].started

\* The log entry of an answer the client read to its end has the final counts,
\* whether they came with the finish chunk or after it (usage_collector in
\* streaming.rs, record_request at the end of the task in handler.rs).
UsageRecorded ==
    pc = "recorded" /\ client.phase = "stopped" /\ metered => collector = "all"

\* However the upstream behaves, the request is logged once the stream is over,
\* if the client reads or leaves (handler.rs, the end of the forwarding loop).
StreamRecorded == <>(pc = "recorded")

\* A client that stays reads the end of an answer whose [DONE] has arrived.
AnswerEnds == upstream = "done" ~> (client.phase \in {"stopped", "failed"} \/ ~connected)

\* [Violated] config.rs:61 says of stream_max_duration_secs that a stream beyond
\* it is interrupted; the deadline is only looked at between two reads.
DeadlineEndsStream == late ~> pc # "read"
=============================================================================
