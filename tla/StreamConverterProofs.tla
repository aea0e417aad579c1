----------------------- MODULE StreamConverterProofs -----------------------
(***************************************************************************)
(* Theorems about StreamConverter, for any tools, any contents of the      *)
(* chunks, any number of them and any capacity of the channel.             *)
(*                                                                         *)
(* What is in the channel and in s.out is what the client will read.  The  *)
(* invariant says that it can be read: there is a run of the client over   *)
(* it that obeys Anthropic's grammar, and at its end the client agrees     *)
(* with the converter.  A step of the converter makes the run longer at    *)
(* its end, a step of the client shortens it at its front.                 *)
(***************************************************************************)
EXTENDS StreamConverter, NumberInduction, SequenceTheorems, FiniteSetTheorems

-----------------------------------------------------------------------------
(* What a client may read.  These definitions are about any client c,      *)
(* event e, converter k and world w, so that they can be used of the state *)
(* before a step and of the one after it.                                  *)

\* AnthropicMessage, for one event.
Legal(c, e) ==
    \/ e.type = "message_start" /\ c.phase = "waiting"
    \/ e.type = "content_block_start" /\ c.phase = "open" /\ e.index \in Index /\ c.block[e.index] = "unused"
    \/ e.type = "content_block_delta" /\ c.phase = "open" /\ e.index \in Index /\ c.block[e.index] = "open"
                                      /\ e.source \in Sources
    \/ e.type = "content_block_stop" /\ c.phase = "open" /\ e.index \in Index /\ c.block[e.index] = "open"
    \/ e.type = "message_delta" /\ c.phase = "open" /\ \A i \in Index : c.block[i] # "open"
    \/ e.type = "message_stop" /\ c.phase = "ending"
    \/ e.type = "error" /\ c.phase # "failed"

Kinds == {"thinking", "text"}

Over(c) == c.phase \in {"ending", "stopped"}

\* The fragments of a are the first of those of b.
Begins(a, b) == \E rest \in Seq(Fragment) : b = a \o rest

\* What the properties say of a client, in a world in which the upstream has
\* sent w.sent and the converter knows w.tools; w.over says that it has sent
\* the stop reason and w.counted that the final counts are collected if there
\* are any.
InOrder(c, w) ==
    \A i \in Index : c.block[i] # "unused" =>
        \A j \in 0 .. i - 1 : c.block[j] = "unused" =>
            \E t \in Tools : w.tools[t].index = j /\ (Over(c) => ~w.tools[t].started)

Good(c, w) ==
    /\ \A x \in Sources : Begins(c.got[x], w.sent[x])
    /\ Over(c) => (w.over /\ w.counted /\ \A x \in Sources : w.sent[x] = c.got[x])
    /\ InOrder(c, w)

\* A run of the client over the events q.
View(run, from, q, to, w) ==
    /\ run \in [0 .. Len(q) -> Client]
    /\ run[0] = from /\ run[Len(q)] = to
    /\ \A i \in 1 .. Len(q) : Legal(run[i - 1], q[i]) /\ run[i] = Read(run[i - 1], q[i])
    /\ \A i \in 0 .. Len(q) : Good(run[i], w)

Foreseen(from, q, to, w) == \E run : View(run, from, q, to, w)

Worlds == [sent : [Sources -> Seq(Fragment)], tools : [Tools -> ToolStates], over : BOOLEAN, counted : BOOLEAN]

\* How the world may change under a client that has not read everything.
Later(w, v) ==
    /\ \A x \in Sources : Begins(w.sent[x], v.sent[x])
    /\ \A t \in Tools : w.tools[t].index # NoBlock => v.tools[t].index = w.tools[t].index
    /\ w.over => (v.over /\ (w.counted => v.counted) /\ v.sent = w.sent /\ v.tools = w.tools)

-----------------------------------------------------------------------------
(* What the converter's locals mean. *)

\* Blocks have indices of their own; a tool that started has sent its arguments.
Shape(k) ==
    /\ (k.kind = "none") <=> (k.block = NoBlock)
    /\ k.block # NoBlock => /\ k.block < k.next /\ k.block \notin k.open
                            /\ \A t \in Tools : k.tools[t].index # k.block
    /\ \A t \in Tools :
          /\ k.tools[t].index = NoBlock => k.tools[t] = NoTool
          /\ k.tools[t].index # NoBlock => k.tools[t].index < k.next
          /\ k.tools[t].started => k.tools[t].pending = <<>>
          /\ \A u \in Tools : k.tools[t].index = k.tools[u].index => (t = u \/ k.tools[t].index = NoBlock)
    /\ \A i \in k.open : \E t \in Tools : k.tools[t].index = i /\ k.tools[t].started

\* A client that has read everything knows the blocks as the converter does.
Blocks(c, k) ==
    \A i \in Index :
        /\ i >= k.next => c.block[i] = "unused"
        /\ (c.block[i] = "open") <=> (i = k.block \/ i \in k.open)
        /\ i < k.next => ((c.block[i] = "unused") <=>
                            (\E t \in Tools : k.tools[t].index = i /\ ~k.tools[t].started))

\* A client that reads channel and what k still has to say ends up as c.
Tells(from, ch, k, c, w) ==
    /\ k \in Stream /\ c \in Client
    /\ Foreseen(from, ch \o k.out, c, w)
    /\ Shape(k) /\ Blocks(c, k)
    /\ \A t \in Tools : k.tools[t].index # NoBlock => w.tools[t].index = k.tools[t].index

\* A fragment that goes on what c has read of a source, and what c has then.
Fits(c, source, text, w) == Begins(c.got[source] \o text, w.sent[source])

Heard(c, source, text) == [c.got EXCEPT ![source] = @ \o text]

\* got is what c has after the text part of the n-th chunk.
HeardTexts(c, delta, n, got) ==
    /\ \A x \in Kinds : got[x] = c.got[x] \o Fragments(delta, n, x)
    /\ \A t \in Tools : got[t] = c.got[t]

AllOpen(k) == \A t \in Tools : k.tools[t].started => k.tools[t].index \in k.open

\* Once the call has been handled, the fragments of its tool are longer by text.
Awaits(c, k, t, text, w) == Begins((c.got[t] \o k.tools[t].pending) \o text, w.sent[t])

HeardCall(c, k, t, text, d, m) ==
    /\ d.got[t] \o m.tools[t].pending = (c.got[t] \o k.tools[t].pending) \o text
    /\ \A x \in Sources : x # t => d.got[x] = c.got[x]

ArgsText(call, fragment) == IF call.args = "some" THEN <<fragment>> ELSE <<>>

\* One step of ArgsAfter.
ArgsOf(calls, n, tool, args, i) ==
    IF i = Len(calls) THEN <<>>
    ELSE IF calls[i + 1].index = tool /\ calls[i + 1].args = "some"
         THEN <<<<n, i + 1>>>> \o args[i + 1]
         ELSE args[i + 1]

Known(k) == {t \in Tools : k.tools[t].index # NoBlock}

Top == 2 * MaxChunks + Cardinality(Tools)

-----------------------------------------------------------------------------
(* The inductive invariant *)

World == [sent |-> sent, tools |-> s.tools, over |-> (upstream # "streaming" /\ pc # "chunk"),
          counted |-> (metered => collector = "all")]

Talking == pc \in {"read", "chunk"}

Rest(t) == ArgsAfter(chunk.calls, chunks, t)[chunk.handled]

\* What the client that has read everything knows, while the converter talks.
Agrees(c) ==
    /\ c.phase = (IF ~s.started THEN "waiting"
                  ELSE IF upstream = "done" THEN "stopped"
                  ELSE IF upstream = "finished" /\ pc = "read" THEN "ending" ELSE "open")
    /\ Blocks(c, s)
    /\ \A x \in Kinds : sent[x] = c.got[x]
    /\ \A t \in Tools : sent[t] = (c.got[t] \o s.tools[t].pending) \o Rest(t)

\* There is such a client: the one that is connected once it has read the
\* channel and s.out, or one that had stayed.
Joined ==
    \E a, ch, c :
        /\ a \in Client /\ ch \in Seq(Events)
        /\ connected => a = client /\ ch = channel
        /\ Foreseen(a, ch \o s.out, c, World)
        /\ Talking => Agrees(c)

\* Where the converter is in its chunk ...
Place ==
    /\ pc # "chunk" => chunk = NoChunk
    /\ pc = "chunk" =>
          /\ s.started /\ upstream # "done"
          /\ chunk.handled <= Len(chunk.calls)
          /\ chunk.finish <=> (upstream = "finished")
          /\ chunk.handled = Len(chunk.calls) => chunk.finish
          /\ metered => chunk.usage
    /\ upstream # "streaming" => s.started
    /\ upstream = "streaming" => ~metered

\* ... what it has not stopped yet, and how many indices it has used.
Counts ==
    /\ (Talking /\ upstream = "streaming") \/ chunk.handled < Len(chunk.calls) => AllOpen(s)
    /\ s.next <= 2 * chunks + Cardinality(Known(s))

Inv == TypeOK /\ Shape(s) /\ Place /\ Counts /\ Good(client, World) /\ Joined

-----------------------------------------------------------------------------
(* The number of indices. *)

\* There is an index for every block the bounds allow.
LEMMA ToolsCounted == Cardinality(Tools) \in Nat /\ Top \in Nat /\ Index = 0 .. Top
<1>1. Cardinality(Tools) \in Nat
  BY FS_CardinalityType, ConverterAssumption
<1> QED
  BY <1>1, ConverterAssumption DEF Index, Top

-----------------------------------------------------------------------------
(* Fragments: what begins what. *)

\* Concatenation is associative, the other way round.
LEMMA Regrouped ==
    ASSUME NEW a \in Seq(Fragment), NEW b \in Seq(Fragment), NEW text \in Seq(Fragment)
    PROVE  a \o (b \o text) = (a \o b) \o text
BY ConcatAssociative

\* A sequence begins with itself.
LEMMA BeginsItself ==
    ASSUME NEW a \in Seq(Fragment)
    PROVE  Begins(a, a)
<1>1. a = a \o <<>> /\ <<>> \in Seq(Fragment)
  OBVIOUS
<1> QED
  BY <1>1 DEF Begins

\* What begins a sequence begins a longer one.
LEMMA BeginsMore ==
    ASSUME NEW a \in Seq(Fragment), NEW b \in Seq(Fragment), NEW more1 \in Seq(Fragment), Begins(a, b)
    PROVE  Begins(a, b \o more1)
<1>1. PICK rest \in Seq(Fragment) : b = a \o rest
  BY DEF Begins
<1>2. b \o more1 = a \o (rest \o more1)
  BY <1>1, ConcatAssociative
<1>3. rest \o more1 \in Seq(Fragment)
  BY ConcatProperties
<1> QED
  BY <1>2, <1>3 DEF Begins

\* What is part of a beginning is a beginning.
LEMMA BeginsPart ==
    ASSUME NEW a \in Seq(Fragment), NEW b \in Seq(Fragment), NEW text \in Seq(Fragment), Begins(a \o text, b)
    PROVE  Begins(a, b)
<1>1. PICK rest \in Seq(Fragment) : b = (a \o text) \o rest
  BY DEF Begins
<1>2. b = a \o (text \o rest)
  BY <1>1, ConcatAssociative
<1>3. text \o rest \in Seq(Fragment)
  BY ConcatProperties
<1> QED
  BY <1>2, <1>3 DEF Begins

\* Begins is IsPrefix of the community modules, which is defined by SubSeq.
LEMMA BeginsIsPrefix ==
    ASSUME NEW a \in Seq(Fragment), NEW b \in Seq(Fragment), Begins(a, b)
    PROVE  IsPrefix(a, b)
<1>1. PICK rest \in Seq(Fragment) : b = a \o rest
  BY DEF Begins
<1>2. /\ Len(b) = Len(a) + Len(rest) /\ Len(a) \in Nat /\ Len(rest) \in Nat
      /\ \A i \in 1 .. Len(a) : b[i] = a[i]
  BY <1>1, ConcatProperties, LenProperties
<1>3. \A i \in 1 .. Len(a) : a[i] \in Fragment
  BY ElementOfSeq
<1>4. /\ SubSeq(b, 1, Len(a)) \in Seq(Fragment)
      /\ Len(SubSeq(b, 1, Len(a))) = Len(a)
      /\ \A i \in 1 .. Len(a) : SubSeq(b, 1, Len(a))[i] = a[i]
  <2>1. \A i \in 1 .. Len(a) : b[i] \in Fragment
    BY <1>2, <1>3
  <2> QED
    BY <1>2, <2>1, SubSeqProperties
<1>5. SubSeq(b, 1, Len(a)) = a
  BY <1>2, <1>4, SeqEqual
<1>6. SubSeq(a, 1, Len(a)) = a
  BY SubSeqFull
<1> QED
  BY <1>2, <1>5, <1>6 DEF IsPrefix

-----------------------------------------------------------------------------
(* One event. *)

\* A legal event leaves a client.
LEMMA ReadType ==
    ASSUME NEW c \in Client, NEW e \in Events, Legal(c, e)
    PROVE  Read(c, e) \in Client
<1>1. Read(c, e).phase \in {"waiting", "open", "ending", "stopped", "failed"}
  BY DEF Read, Client
<1>2. Read(c, e).block \in [Index -> {"unused", "open", "closed"}]
  BY DEF Read, Client
<1>3. Read(c, e).received \in Nat
  BY DEF Read, Client
<1>4. Read(c, e).got \in [Sources -> Seq(Fragment)]
  <2>1. CASE e.type = "content_block_delta"
    <3>1. e.source \in Sources /\ e.text \in Seq(Fragment) /\ c.got \in [Sources -> Seq(Fragment)]
      BY <2>1 DEF Legal, Events, Client
    <3>2. c.got[e.source] \o e.text \in Seq(Fragment)
      BY <3>1, ConcatProperties
    <3>3. Read(c, e).got = [c.got EXCEPT ![e.source] = @ \o e.text]
      BY <2>1 DEF Read
    <3> QED
      BY <3>1, <3>2, <3>3
  <2>2. CASE e.type # "content_block_delta"
    BY <2>2 DEF Read, Client
  <2> QED
    BY <2>1, <2>2
<1>5. Read(c, e) = [phase |-> Read(c, e).phase, block |-> Read(c, e).block,
                    received |-> Read(c, e).received, got |-> Read(c, e).got]
  BY DEF Read
<1> QED
  BY <1>1, <1>2, <1>3, <1>4, <1>5 DEF Client

\* Events that neither start a block nor carry a fragment nor end the message.
LEMMA GoodQuiet ==
    ASSUME NEW c \in Client, NEW w, NEW e \in Events, Legal(c, e), Good(c, w),
           e.type \in {"message_start", "content_block_stop", "message_stop", "error"}
    PROVE  Good(Read(c, e), w)
<1>1. PICK d \in Client : d = Read(c, e)
  BY ReadType
<1>2. d.got = c.got
  BY <1>1 DEF Read
<1>3. Over(d) => Over(c)
  BY <1>1 DEF Read, Over, Legal
<1>4. \A i \in Index : (d.block[i] = "unused") <=> (c.block[i] = "unused")
  BY <1>1 DEF Read, Legal, Client
<1>5. InOrder(d, w)
  <2> SUFFICES ASSUME NEW i \in Index, d.block[i] # "unused", NEW j \in 0 .. i - 1, d.block[j] = "unused"
               PROVE  \E t \in Tools : w.tools[t].index = j /\ (Over(d) => ~w.tools[t].started)
    BY DEF InOrder
  <2>1. j \in Index
    BY ToolsCounted
  <2>2. PICK t \in Tools : w.tools[t].index = j /\ (Over(c) => ~w.tools[t].started)
    BY <1>4, <2>1 DEF Good, InOrder
  <2> QED
    BY <2>2, <1>3
<1>6. Good(d, w)
  BY <1>2, <1>3, <1>5 DEF Good
<1> QED
  BY <1>1, <1>6

\* The start of a block, when the blocks before it are started or tools.
LEMMA GoodStart ==
    ASSUME NEW c \in Client, NEW w, NEW e \in Events, Legal(c, e), Good(c, w),
           e.type = "content_block_start",
           \A j \in 0 .. e.index - 1 : c.block[j] = "unused" => \E t \in Tools : w.tools[t].index = j
    PROVE  Good(Read(c, e), w)
<1>1. PICK d \in Client : d = Read(c, e)
  BY ReadType
<1>2. d.got = c.got
  BY <1>1 DEF Read
<1>3. ~Over(d) /\ e.index \in Index /\ d.block = [c.block EXCEPT ![e.index] = "open"]
  BY <1>1 DEF Read, Over, Legal
<1>5. InOrder(d, w)
  <2> SUFFICES ASSUME NEW i \in Index, d.block[i] # "unused", NEW j \in 0 .. i - 1, d.block[j] = "unused"
               PROVE  \E t \in Tools : w.tools[t].index = j
    BY <1>3 DEF InOrder
  <2>1. j \in Index
    BY ToolsCounted
  <2>2. c.block[j] = "unused"
    BY <1>3, <2>1 DEF Client
  <2>3. CASE i = e.index
    BY <2>2, <2>3
  <2>4. CASE i # e.index
    <3>1. c.block[i] # "unused"
      BY <1>3, <2>4 DEF Client
    <3> QED
      BY <2>2, <3>1 DEF Good, InOrder
  <2> QED
    BY <2>3, <2>4
<1>6. Good(d, w)
  BY <1>2, <1>3, <1>5 DEF Good
<1> QED
  BY <1>1, <1>6

\* A fragment that the upstream has sent next.
LEMMA GoodDelta ==
    ASSUME NEW c \in Client, NEW w, NEW e \in Events, Legal(c, e), Good(c, w),
           e.type = "content_block_delta",
           Begins(c.got[e.source] \o e.text, w.sent[e.source])
    PROVE  Good(Read(c, e), w)
<1>1. PICK d \in Client : d = Read(c, e)
  BY ReadType
<1>2. ~Over(d) /\ e.source \in Sources /\ d.block = c.block
      /\ d.got = [c.got EXCEPT ![e.source] = @ \o e.text]
  BY <1>1 DEF Read, Over, Legal
<1>3. \A x \in Sources : Begins(d.got[x], w.sent[x])
  <2> SUFFICES ASSUME NEW x \in Sources PROVE Begins(d.got[x], w.sent[x])
    OBVIOUS
  <2>1. d.got[x] = IF x = e.source THEN c.got[x] \o e.text ELSE c.got[x]
    BY <1>2 DEF Client
  <2> QED
    BY <2>1 DEF Good
<1>4. ~Over(c)
  BY DEF Legal, Over
<1>5. InOrder(d, w)
  BY <1>2, <1>4 DEF Good, InOrder
<1>6. Good(d, w)
  BY <1>2, <1>3, <1>5 DEF Good
<1> QED
  BY <1>1, <1>6

\* The stop reason: nothing is missing any more.
LEMMA GoodEnd ==
    ASSUME NEW c \in Client, NEW w, NEW e \in Events, Legal(c, e), Good(c, w),
           e.type = "message_delta",
           w.over, w.counted, \A x \in Sources : w.sent[x] = c.got[x],
           \A t \in Tools : w.tools[t].index # NoBlock /\ w.tools[t].started
                               => c.block[w.tools[t].index] # "unused"
    PROVE  Good(Read(c, e), w)
<1>1. PICK d \in Client : d = Read(c, e)
  BY ReadType
<1>2. Over(d) /\ d.got = c.got /\ d.block = c.block
  BY <1>1 DEF Read, Over, Legal
<1>3. InOrder(d, w)
  <2> SUFFICES ASSUME NEW i \in Index, d.block[i] # "unused", NEW j \in 0 .. i - 1, d.block[j] = "unused"
               PROVE  \E t \in Tools : w.tools[t].index = j /\ (Over(d) => ~w.tools[t].started)
    BY DEF InOrder
  <2>1. PICK t \in Tools : w.tools[t].index = j
    BY <1>2 DEF Good, InOrder
  <2>2. j # NoBlock
    BY ConverterAssumption
  <2>3. ~w.tools[t].started
    BY <2>1, <2>2, <1>2
  <2> QED
    BY <2>1, <2>3
<1>4. \A x \in Sources : Begins(d.got[x], w.sent[x])
  BY <1>2 DEF Good
<1>6. Good(d, w)
  BY <1>2, <1>3, <1>4 DEF Good
<1> QED
  BY <1>1, <1>6

\* A client that is good in a world is good in a later one.
LEMMA GoodLater ==
    ASSUME NEW c \in Client, NEW w \in Worlds, NEW v \in Worlds, Good(c, w), Later(w, v)
    PROVE  Good(c, v)
<1>1. \A x \in Sources : Begins(c.got[x], v.sent[x])
  <2> SUFFICES ASSUME NEW x \in Sources PROVE Begins(c.got[x], v.sent[x])
    OBVIOUS
  <2>1. /\ c.got[x] \in Seq(Fragment) /\ w.sent[x] \in Seq(Fragment) /\ v.sent[x] \in Seq(Fragment)
        /\ Begins(c.got[x], w.sent[x]) /\ Begins(w.sent[x], v.sent[x])
    BY DEF Client, Worlds, Good, Later
  <2>2. PICK rest \in Seq(Fragment) : v.sent[x] = w.sent[x] \o rest
    BY <2>1 DEF Begins
  <2> QED
    BY <2>1, <2>2, BeginsMore
<1>2. Over(c) => (v.over /\ v.counted /\ \A x \in Sources : v.sent[x] = c.got[x])
  BY DEF Good, Later
<1>3. InOrder(c, v)
  <2> SUFFICES ASSUME NEW i \in Index, c.block[i] # "unused", NEW j \in 0 .. i - 1, c.block[j] = "unused"
               PROVE  \E t \in Tools : v.tools[t].index = j /\ (Over(c) => ~v.tools[t].started)
    BY DEF InOrder
  <2>1. PICK t \in Tools : w.tools[t].index = j /\ (Over(c) => ~w.tools[t].started)
    BY DEF Good, InOrder
  <2>2. j # NoBlock
    BY ConverterAssumption DEF Index
  <2>3. v.tools[t].index = j
    BY <2>1, <2>2 DEF Later
  <2>4. Over(c) => v.tools = w.tools
    BY DEF Good, Later
  <2> QED
    BY <2>1, <2>3, <2>4
<1> QED
  BY <1>1, <1>2, <1>3 DEF Good

-----------------------------------------------------------------------------
(* Runs of the client. *)

\* A client foresees itself when nothing is on its way.
LEMMA ForeseenNothing ==
    ASSUME NEW c \in Client, NEW w, Good(c, w)
    PROVE  Foreseen(c, <<>>, c, w)
<1>1. PICK run : run = [i \in 0 .. Len(<<>>) |-> c]
  OBVIOUS
<1>2. View(run, c, <<>>, c, w)
  BY <1>1 DEF View
<1> QED
  BY <1>2 DEF Foreseen

\* A run goes on with a legal event at its end.
LEMMA ForeseenAppend ==
    ASSUME NEW from, NEW q \in Seq(Events), NEW c \in Client, NEW e \in Events, NEW w,
           Foreseen(from, q, c, w), Legal(c, e), Good(Read(c, e), w)
    PROVE  /\ Foreseen(from, q \o <<e>>, Read(c, e), w)
           /\ Read(c, e) \in Client
<1>1. PICK run : View(run, from, q, c, w)
  BY DEF Foreseen
<1>2. Read(c, e) \in Client
  BY ReadType
<1>3. PICK d \in Client : d = Read(c, e)
  BY <1>2
<1>4. PICK p : p = q \o <<e>>
  OBVIOUS
<1>5. /\ Len(q) \in Nat /\ Len(p) = Len(q) + 1
      /\ \A i \in 1 .. Len(q) : p[i] = q[i]
      /\ p[Len(q) + 1] = e
  BY <1>4, ConcatProperties, LenProperties
<1>6. PICK more1 : more1 = [i \in 0 .. Len(q) + 1 |-> IF i <= Len(q) THEN run[i] ELSE d]
  OBVIOUS
<1>7. /\ run \in [0 .. Len(q) -> Client] /\ run[0] = from /\ run[Len(q)] = c
      /\ \A i \in 1 .. Len(q) : Legal(run[i - 1], q[i]) /\ run[i] = Read(run[i - 1], q[i])
      /\ \A i \in 0 .. Len(q) : Good(run[i], w)
  BY <1>1 DEF View
<1>8. /\ more1 \in [0 .. Len(p) -> Client] /\ more1[0] = from /\ more1[Len(p)] = d
      /\ \A i \in 0 .. Len(q) : more1[i] = run[i]
  BY <1>5, <1>6, <1>7
<1>9. ASSUME NEW i \in 1 .. Len(p)
      PROVE  Legal(more1[i - 1], p[i]) /\ more1[i] = Read(more1[i - 1], p[i])
  <2>1. CASE i <= Len(q)
    <3>1. i \in 1 .. Len(q) /\ i - 1 \in 0 .. Len(q) /\ i \in 0 .. Len(q)
      BY <2>1, <1>5
    <3>2. p[i] = q[i] /\ more1[i - 1] = run[i - 1] /\ more1[i] = run[i]
      BY <3>1, <1>5, <1>8
    <3> QED
      BY <3>1, <3>2, <1>7, Zenon
  <2>2. CASE ~(i <= Len(q))
    <3>1. i = Len(q) + 1 /\ i - 1 = Len(q) /\ i = Len(p)
      BY <2>2, <1>5
    <3>2. p[i] = e /\ more1[i - 1] = c /\ more1[i] = d
      BY <3>1, <1>5, <1>7, <1>8
    <3> QED
      BY <3>2, <1>3, Zenon
  <2> QED
    BY <2>1, <2>2
<1>10. ASSUME NEW i \in 0 .. Len(p) PROVE Good(more1[i], w)
  <2>1. CASE i <= Len(q)
    <3>1. i \in 0 .. Len(q) /\ more1[i] = run[i]
      BY <2>1, <1>5, <1>8
    <3> QED
      BY <3>1, <1>7, Zenon
  <2>2. CASE ~(i <= Len(q))
    <3>1. more1[i] = d
      BY <2>2, <1>5, <1>8
    <3> QED
      BY <3>1, <1>3, Zenon
  <2> QED
    BY <2>1, <2>2
<1>11. View(more1, from, p, d, w)
  BY <1>8, <1>9, <1>10 DEF View
<1> QED
  BY <1>2, <1>3, <1>4, <1>11 DEF Foreseen

\* A run starts with the event the client reads next.
LEMMA ForeseenRead ==
    ASSUME NEW from \in Client, NEW q \in Seq(Events), NEW c, NEW w, q # <<>>, Foreseen(from, q, c, w)
    PROVE  /\ Legal(from, Head(q))
           /\ Good(Read(from, Head(q)), w)
           /\ Foreseen(Read(from, Head(q)), Tail(q), c, w)
<1>1. PICK run : View(run, from, q, c, w)
  BY DEF Foreseen
<1>2. PICK p \in Seq(Events) : p = Tail(q)
  BY HeadTailProperties
<1>3. /\ Len(q) \in Nat \ {0} /\ Len(p) = Len(q) - 1
      /\ \A i \in 1 .. Len(p) : p[i] = q[i + 1]
      /\ Head(q) = q[1]
  BY <1>2, HeadTailProperties, LenProperties, EmptySeq
<1>4. /\ run \in [0 .. Len(q) -> Client] /\ run[0] = from /\ run[Len(q)] = c
      /\ \A i \in 1 .. Len(q) : Legal(run[i - 1], q[i]) /\ run[i] = Read(run[i - 1], q[i])
      /\ \A i \in 0 .. Len(q) : Good(run[i], w)
  BY <1>1 DEF View
<1>5. PICK less : less = [i \in 0 .. Len(p) |-> run[i + 1]]
  OBVIOUS
<1>6. 1 \in 1 .. Len(q) /\ 1 \in 0 .. Len(q) /\ 1 - 1 = 0
  BY <1>3
<1>7. Legal(from, q[1]) /\ run[1] = Read(from, q[1]) /\ Good(run[1], w)
  BY <1>4, <1>6, Zenon
<1>8. /\ less \in [0 .. Len(p) -> Client] /\ less[0] = run[1] /\ less[Len(p)] = c
      /\ \A i \in 0 .. Len(p) : less[i] = run[i + 1]
  BY <1>3, <1>4, <1>5
<1>9. ASSUME NEW i \in 1 .. Len(p)
      PROVE  Legal(less[i - 1], p[i]) /\ less[i] = Read(less[i - 1], p[i])
  <2>1. PICK n : n = i + 1
    OBVIOUS
  <2>2. n \in 1 .. Len(q) /\ less[i - 1] = run[n - 1] /\ less[i] = run[n] /\ p[i] = q[n]
    BY <2>1, <1>3, <1>8
  <2> QED
    BY <2>2, <1>4, Zenon
<1>10. ASSUME NEW i \in 0 .. Len(p) PROVE Good(less[i], w)
  <2>1. i + 1 \in 0 .. Len(q) /\ less[i] = run[i + 1]
    BY <1>3, <1>8
  <2> QED
    BY <2>1, <1>4, Zenon
<1>11. View(less, run[1], p, c, w)
  BY <1>8, <1>9, <1>10 DEF View
<1>12. Foreseen(run[1], p, c, w)
  BY <1>11 DEF Foreseen
<1> QED
  BY <1>2, <1>3, <1>7, <1>12, Zenon

\* A run in a world is a run in a later one.
LEMMA ForeseenLater ==
    ASSUME NEW from, NEW q, NEW c, NEW w \in Worlds, NEW v \in Worlds,
           Foreseen(from, q, c, w), Later(w, v)
    PROVE  Foreseen(from, q, c, v)
<1>1. PICK run : View(run, from, q, c, w)
  BY DEF Foreseen
<1>2. \A i \in 0 .. Len(q) : run[i] \in Client /\ Good(run[i], w)
  BY <1>1 DEF View
<1>3. \A i \in 0 .. Len(q) : Good(run[i], v)
  BY <1>2, GoodLater
<1>4. View(run, from, q, c, v)
  BY <1>1, <1>3 DEF View
<1> QED
  BY <1>4 DEF Foreseen

-----------------------------------------------------------------------------
(* One step of the converter, seen by a client that reads it all. *)

\* The end of a run is a client, and a good one.
LEMMA ForeseenGood ==
    ASSUME NEW from, NEW q \in Seq(Events), NEW c, NEW w, Foreseen(from, q, c, w)
    PROVE  c \in Client /\ Good(c, w)
<1>1. PICK run : View(run, from, q, c, w)
  BY DEF Foreseen
<1>2. Len(q) \in 0 .. Len(q)
  BY LenProperties
<1> QED
  BY <1>1, <1>2 DEF View

\* The events the converter makes are events.
LEMMA EventTypes ==
    /\ \A type \in {"message_start", "message_delta", "message_stop", "error"} : Message(type) \in Events
    /\ \A i \in Index : BlockStop(i) \in Events
    /\ \A i \in Index, x \in Sources : BlockStart(i, x) \in Events
    /\ \A i \in Index, x \in Sources, text \in Seq(Fragment) : BlockDelta(i, x, text) \in Events
BY DEF Message, BlockStop, BlockStart, BlockDelta, Event, Events, Sources

\* The converter yields a legal event: the run is longer by one.
LEMMA Yielded ==
    ASSUME NEW from, NEW ch \in Seq(Events), NEW out \in Seq(Events), NEW c, NEW w, NEW e \in Events,
           Foreseen(from, ch \o out, c, w), Legal(c, e), Good(Read(c, e), w)
    PROVE  /\ Foreseen(from, ch \o (out \o <<e>>), Read(c, e), w)
           /\ Read(c, e) \in Client
           /\ out \o <<e>> \in Seq(Events)
<1>1. <<e>> \in Seq(Events) /\ ch \o out \in Seq(Events) /\ out \o <<e>> \in Seq(Events)
  BY ConcatProperties
<1>2. (ch \o out) \o <<e>> = ch \o (out \o <<e>>)
  BY <1>1, ConcatAssociative
<1>3. c \in Client
  BY <1>1, ForeseenGood
<1>4. Foreseen(from, (ch \o out) \o <<e>>, Read(c, e), w) /\ Read(c, e) \in Client
  BY <1>1, <1>3, ForeseenAppend
<1> QED
  BY <1>1, <1>2, <1>4

\* Where the indices of a converter lie.
LEMMA Indices ==
    ASSUME NEW k \in Stream, Shape(k)
    PROVE  /\ k.next \in Nat /\ k.next <= Top
           /\ NoBlock \notin Nat /\ NoBlock \notin Index
           /\ \A i \in k.open : i \in Index /\ i < k.next
           /\ k.block # NoBlock => k.block \in Index /\ k.block < k.next
           /\ \A t \in Tools : k.tools[t].index # NoBlock =>
                  k.tools[t].index \in Index /\ k.tools[t].index < k.next
<1>1. NoBlock \notin Nat /\ NoBlock \notin Index
  BY ConverterAssumption, ToolsCounted
<1>2. k.next \in Nat /\ k.next <= Top
  BY ToolsCounted DEF Stream
<1>3. \A t \in Tools : k.tools[t].index # NoBlock => k.tools[t].index \in Index /\ k.tools[t].index < k.next
  BY DEF Stream, ToolStates, Shape
<1>4. \A i \in k.open : i \in Index /\ i < k.next
  <2> SUFFICES ASSUME NEW i \in k.open PROVE i \in Index /\ i < k.next
    OBVIOUS
  <2>1. i \in Index
    BY DEF Stream
  <2>2. PICK t \in Tools : k.tools[t].index = i
    BY DEF Shape
  <2> QED
    BY <2>1, <2>2, <1>1, <1>3
<1>5. k.block # NoBlock => k.block \in Index /\ k.block < k.next
  BY DEF Stream, Shape
<1> QED
  BY <1>1, <1>2, <1>3, <1>4, <1>5

\* message_start, unless it was sent.
LEMMA TellStart ==
    ASSUME NEW from, NEW ch \in Seq(Events), NEW k, NEW c, NEW w, Tells(from, ch, k, c, w),
           c.phase = (IF k.started THEN "open" ELSE "waiting")
    PROVE  /\ \E d : Tells(from, ch, AfterStart(k), d, w) /\ d.phase = "open" /\ d.got = c.got
           /\ AfterStart(k).started /\ AfterStart(k).tools = k.tools /\ AfterStart(k).open = k.open
           /\ AfterStart(k).next = k.next
<1>1. CASE k.started
  BY <1>1 DEF AfterStart
<1>2. CASE ~k.started
  <2>1. PICK e \in Events : e = Message("message_start")
    BY EventTypes
  <2>2. k \in Stream /\ c \in Client /\ Foreseen(from, ch \o k.out, c, w) /\ k.out \in Seq(Events)
    BY DEF Tells, Stream
  <2>3. e.type = "message_start" /\ Legal(c, e)
    BY <1>2, <2>1 DEF Message, Event, Legal
  <2>4. ch \o k.out \in Seq(Events)
    BY <2>2, ConcatProperties
  <2>5. Good(Read(c, e), w)
    BY <2>2, <2>3, <2>4, ForeseenGood, GoodQuiet
  <2>6. PICK d \in Client : d = Read(c, e)
    BY <2>2, <2>3, <2>5, Yielded
  <2>7. d.phase = "open" /\ d.got = c.got /\ d.block = c.block
    BY <2>3, <2>6 DEF Read
  <2>8. PICK o : o = AfterStart(k)
    OBVIOUS
  <2>9. o = [[k EXCEPT !.out = k.out \o <<e>>] EXCEPT !.started = TRUE]
    BY <1>2, <2>1, <2>8 DEF AfterStart, Yield
  <2>10. Foreseen(from, ch \o (k.out \o <<e>>), d, w) /\ k.out \o <<e>> \in Seq(Events)
    BY <2>2, <2>3, <2>5, <2>6, Yielded
  <2>11. /\ o \in Stream /\ o.out = k.out \o <<e>> /\ o.started /\ o.next = k.next /\ o.kind = k.kind
         /\ o.block = k.block /\ o.tools = k.tools /\ o.open = k.open
    BY <2>2, <2>9, <2>10 DEF Stream
  <2>12. Shape(o) /\ Blocks(d, o)
    BY <2>7, <2>11 DEF Tells, Shape, Blocks
  <2>13. Tells(from, ch, o, d, w)
    BY <2>10, <2>11, <2>12 DEF Tells
  <2> QED
    BY <2>7, <2>8, <2>11, <2>13
<1> QED
  BY <1>1, <1>2

\* The stop of the current thinking or text block, if there is one.
LEMMA TellStop ==
    ASSUME NEW from, NEW ch \in Seq(Events), NEW k, NEW c, NEW w, Tells(from, ch, k, c, w),
           c.phase = "open"
    PROVE  /\ \E d : Tells(from, ch, WithoutText(k), d, w) /\ d.phase = "open" /\ d.got = c.got
           /\ WithoutText(k).started = k.started /\ WithoutText(k).tools = k.tools
           /\ WithoutText(k).open = k.open /\ WithoutText(k).next = k.next
           /\ WithoutText(k).kind = "none" /\ WithoutText(k).block = NoBlock
<1>1. k \in Stream /\ c \in Client /\ Foreseen(from, ch \o k.out, c, w) /\ k.out \in Seq(Events)
  BY DEF Tells, Stream
<1>2. ch \o k.out \in Seq(Events) /\ Shape(k) /\ Blocks(c, k)
  BY <1>1, ConcatProperties DEF Tells
<1>3. PICK o : o = WithoutText(k)
  OBVIOUS
<1>4. CASE k.block = NoBlock
  <2>1. /\ o \in Stream /\ o.out = k.out /\ o.started = k.started /\ o.next = k.next /\ o.kind = "none"
        /\ o.block = NoBlock /\ o.tools = k.tools /\ o.open = k.open
    BY <1>1, <1>3, <1>4 DEF WithoutText, StopText, Stream
  <2>2. Shape(o) /\ Blocks(c, o)
    BY <2>1, <1>2, <1>4 DEF Shape, Blocks
  <2>3. Tells(from, ch, o, c, w)
    BY <2>1, <2>2 DEF Tells
  <2> QED
    BY <1>3, <2>1, <2>3
<1>5. CASE k.block # NoBlock
  <2>0. k.block \in Index /\ k.block < k.next /\ k.block \notin k.open /\ NoBlock \notin Index
        /\ \A t \in Tools : k.tools[t].index # k.block
    BY <1>1, <1>2, <1>5, Indices DEF Shape
  <2>1. PICK e \in Events : e = BlockStop(k.block)
    BY <2>0, EventTypes
  <2>3. e.type = "content_block_stop" /\ e.index = k.block /\ Legal(c, e)
    BY <1>2, <2>0, <2>1 DEF BlockStop, Event, Legal, Blocks
  <2>5. Good(Read(c, e), w)
    BY <1>1, <1>2, <2>3, ForeseenGood, GoodQuiet
  <2>6. PICK d \in Client : d = Read(c, e)
    BY <1>1, <2>3, <2>5, Yielded
  <2>7. d.phase = "open" /\ d.got = c.got /\ d.block = [c.block EXCEPT ![k.block] = "closed"]
    BY <2>3, <2>6 DEF Read
  <2>9. o = [[[k EXCEPT !.out = k.out \o <<e>>] EXCEPT !.block = NoBlock] EXCEPT !.kind = "none"]
    BY <1>3, <1>5, <2>1 DEF WithoutText, StopText, Yield
  <2>10. Foreseen(from, ch \o (k.out \o <<e>>), d, w) /\ k.out \o <<e>> \in Seq(Events)
    BY <1>1, <2>3, <2>5, <2>6, Yielded
  <2>11. /\ o \in Stream /\ o.out = k.out \o <<e>> /\ o.started = k.started /\ o.next = k.next
         /\ o.kind = "none" /\ o.block = NoBlock /\ o.tools = k.tools /\ o.open = k.open
    BY <1>1, <2>9, <2>10 DEF Stream
  <2>12. Shape(o)
    BY <1>2, <2>11 DEF Shape
  <2>13. \A i \in Index : d.block[i] = IF i = k.block THEN "closed" ELSE c.block[i]
    BY <1>1, <2>7 DEF Client
  <2>14. Blocks(d, o)
    <3> SUFFICES ASSUME NEW i \in Index
                 PROVE  /\ i >= o.next => d.block[i] = "unused"
                        /\ (d.block[i] = "open") <=> (i = o.block \/ i \in o.open)
                        /\ i < o.next => ((d.block[i] = "unused") <=>
                              (\E t \in Tools : o.tools[t].index = i /\ ~o.tools[t].started))
      BY DEF Blocks
    <3>1. /\ i >= k.next => c.block[i] = "unused"
          /\ (c.block[i] = "open") <=> (i = k.block \/ i \in k.open)
          /\ i < k.next => ((c.block[i] = "unused") <=>
                (\E t \in Tools : k.tools[t].index = i /\ ~k.tools[t].started))
      BY <1>2 DEF Blocks
    <3>2. CASE i = k.block
      <4>1. ~(i >= k.next)
        BY <3>2, <2>0, ToolsCounted, <1>1, <1>2, Indices
      <4> QED
        BY <3>2, <4>1, <2>0, <2>11, <2>13
    <3>3. CASE i # k.block
      BY <3>1, <3>3, <2>0, <2>11, <2>13
    <3> QED
      BY <3>2, <3>3
  <2>15. Tells(from, ch, o, d, w)
    BY <2>10, <2>11, <2>12, <2>14 DEF Tells
  <2> QED
    BY <1>3, <2>7, <2>11, <2>15
<1> QED
  BY <1>4, <1>5

\* A start at the next index: all blocks before it are started, or tools.
LEMMA StartAllowed ==
    ASSUME NEW from, NEW ch, NEW k, NEW c, NEW w, Tells(from, ch, k, c, w),
           NEW i \in Index, i <= k.next
    PROVE  \A j \in 0 .. i - 1 : c.block[j] = "unused" => \E t \in Tools : w.tools[t].index = j
<1> SUFFICES ASSUME NEW j \in 0 .. i - 1, c.block[j] = "unused"
             PROVE  \E t \in Tools : w.tools[t].index = j
  OBVIOUS
<1>1. k \in Stream /\ Shape(k) /\ Blocks(c, k)
  BY DEF Tells
<1>2. j \in Index /\ j < k.next /\ j # NoBlock
  BY <1>1, Indices, ToolsCounted
<1>3. PICK t \in Tools : k.tools[t].index = j
  BY <1>1, <1>2 DEF Blocks
<1> QED
  BY <1>2, <1>3 DEF Tells

\* What opening a text block leaves alone.
LEMMA OpenFields ==
    ASSUME NEW k \in Stream, Shape(k), NEW kind \in Kinds
    PROVE  /\ OpenText(k, kind).started = k.started /\ OpenText(k, kind).tools = k.tools
           /\ OpenText(k, kind).open = k.open /\ OpenText(k, kind).next <= k.next + 1
           /\ OpenText(k, kind).block # NoBlock
<1>1. k.next \in Nat /\ NoBlock \notin Nat
  BY Indices
<1>2. CASE k.kind = kind
  <2>1. OpenText(k, kind) = k
    BY <1>2 DEF OpenText
  <2>2. k.block # NoBlock
    BY <1>2 DEF Shape, Kinds
  <2> QED
    BY <1>1, <2>1, <2>2
<1>3. CASE k.kind # kind
  <2>1. PICK o : o = OpenText(k, kind)
    OBVIOUS
  <2>2. PICK out : out = StopText(k).out \o <<BlockStart(StopText(k).next, kind)>>
    OBVIOUS
  <2>3. o = [[k EXCEPT !.out = out] EXCEPT !.kind = kind, !.block = k.next, !.next = k.next + 1]
    BY <1>3, <2>1, <2>2 DEF OpenText, StopText, Yield, Stream
  <2>4. /\ o.started = k.started /\ o.tools = k.tools /\ o.open = k.open /\ o.next = k.next + 1
        /\ o.block = k.next
    BY <2>3 DEF Stream
  <2> QED
    BY <1>1, <2>1, <2>4
<1> QED
  BY <1>2, <1>3

\* What a text or thinking fragment leaves alone ...
LEMMA TextFields ==
    ASSUME NEW k \in Stream, Shape(k), NEW kind \in Kinds, NEW text
    PROVE  /\ AfterText(k, kind, text).started = k.started /\ AfterText(k, kind, text).tools = k.tools
           /\ AfterText(k, kind, text).open = k.open /\ AfterText(k, kind, text).next <= k.next + 1
<1>1. PICK o : o = OpenText(k, kind)
  OBVIOUS
<1>2. /\ o.started = k.started /\ o.tools = k.tools /\ o.open = k.open /\ o.next <= k.next + 1
      /\ o.block # NoBlock
  BY <1>1, OpenFields
<1>3. PICK m : m = AfterText(k, kind, text)
  OBVIOUS
<1>4. m = [o EXCEPT !.out = o.out \o <<BlockDelta(o.block, kind, text)>>]
  BY <1>1, <1>2, <1>3 DEF AfterText, Yield
<1>5. m.started = o.started /\ m.tools = o.tools /\ m.open = o.open /\ m.next = o.next
  BY <1>4
<1> QED
  BY <1>2, <1>3, <1>5

\* ... and so for the reasoning of a chunk ...
LEMMA ReasoningFields ==
    ASSUME NEW k \in Stream, Shape(k), NEW delta \in Delta, NEW n \in Nat
    PROVE  /\ AfterReasoning(k, delta, n).started = k.started
           /\ AfterReasoning(k, delta, n).tools = k.tools
           /\ AfterReasoning(k, delta, n).open = k.open
           /\ AfterReasoning(k, delta, n).next <= k.next + 1
<1>1. k.next \in Nat /\ "thinking" \in Kinds
  BY Indices DEF Kinds
<1>2. CASE delta.reasoning = "none"
  BY <1>1, <1>2 DEF AfterReasoning
<1>3. CASE delta.reasoning # "none"
  <2>1. PICK text : AfterReasoning(k, delta, n) = AfterText(k, "thinking", text)
    BY <1>3 DEF AfterReasoning
  <2> QED
    BY <1>1, <2>1, TextFields
<1> QED
  BY <1>2, <1>3

\* ... and its content.
LEMMA ContentFields ==
    ASSUME NEW k \in Stream, Shape(k), NEW delta \in Delta, NEW n \in Nat
    PROVE  /\ AfterContent(k, delta, n).started = k.started
           /\ AfterContent(k, delta, n).tools = k.tools
           /\ AfterContent(k, delta, n).open = k.open
           /\ AfterContent(k, delta, n).next <= k.next + 1
<1>1. k.next \in Nat /\ "text" \in Kinds
  BY Indices DEF Kinds
<1>2. CASE delta.content # "some"
  BY <1>1, <1>2 DEF AfterContent
<1>3. CASE delta.content = "some"
  <2>1. PICK text : AfterContent(k, delta, n) = AfterText(k, "text", text)
    BY <1>3 DEF AfterContent
  <2> QED
    BY <1>1, <2>1, TextFields
<1> QED
  BY <1>2, <1>3

\* A thinking or text block is current.
LEMMA TellOpen ==
    ASSUME NEW from, NEW ch \in Seq(Events), NEW k, NEW c, NEW w, Tells(from, ch, k, c, w),
           c.phase = "open", k.next < Top, NEW kind \in Kinds
    PROVE  \E d : Tells(from, ch, OpenText(k, kind), d, w) /\ d.phase = "open" /\ d.got = c.got
<1>1. CASE k.kind = kind
  <2>2. OpenText(k, kind) = k
    BY <1>1 DEF OpenText
  <2> QED
    BY <2>2
<1>2. CASE k.kind # kind
  <2>1. PICK m : m = WithoutText(k)
    OBVIOUS
  <2>2. PICK b : Tells(from, ch, m, b, w) /\ b.phase = "open" /\ b.got = c.got
    BY <2>1, TellStop
  <2>3. /\ m.started = k.started /\ m.tools = k.tools /\ m.open = k.open /\ m.next = k.next
        /\ m.kind = "none" /\ m.block = NoBlock
    BY <2>1, TellStop
  <2>4. /\ m \in Stream /\ b \in Client /\ Foreseen(from, ch \o m.out, b, w) /\ m.out \in Seq(Events)
        /\ Shape(m) /\ Blocks(b, m)
    BY <2>2 DEF Tells, Stream
  <2>5. ch \o m.out \in Seq(Events)
    BY <2>4, ConcatProperties
  <2>6. PICK i \in Index : i = m.next
    BY <2>3, <2>4, Indices, ToolsCounted
  <2>7. /\ i \in Nat /\ NoBlock \notin Nat
        /\ \A j \in m.open : j < i
        /\ \A t \in Tools : m.tools[t].index # NoBlock => m.tools[t].index < i
    BY <2>4, <2>6, Indices
  <2>8. PICK e \in Events : e = BlockStart(i, kind)
    BY EventTypes DEF Sources, Kinds
  <2>9. e.type = "content_block_start" /\ e.index = i /\ b.block[i] = "unused" /\ Legal(b, e)
    BY <2>2, <2>4, <2>6, <2>7, <2>8 DEF BlockStart, Event, Legal, Blocks
  <2>10. Good(Read(b, e), w)
    <3>1. \A j \in 0 .. i - 1 : b.block[j] = "unused" => \E t \in Tools : w.tools[t].index = j
      BY <2>2, <2>6, <2>7, StartAllowed
    <3> QED
      BY <2>4, <2>5, <2>9, <3>1, ForeseenGood, GoodStart
  <2>11. PICK d \in Client : d = Read(b, e)
    BY <2>4, <2>9, <2>10, Yielded
  <2>12. d.phase = "open" /\ d.got = c.got /\ d.block = [b.block EXCEPT ![i] = "open"]
    BY <2>2, <2>9, <2>11 DEF Read
  <2>13. PICK o : o = OpenText(k, kind)
    OBVIOUS
  <2>14. o = [[k EXCEPT !.out = m.out \o <<e>>] EXCEPT !.kind = kind, !.block = i, !.next = i + 1]
    BY <1>2, <2>1, <2>3, <2>4, <2>6, <2>8, <2>13 DEF OpenText, WithoutText, StopText, Yield, Tells, Stream
  <2>15. Foreseen(from, ch \o (m.out \o <<e>>), d, w) /\ m.out \o <<e>> \in Seq(Events)
    BY <2>4, <2>9, <2>10, <2>11, Yielded
  <2>16. i + 1 \in Index /\ k \in Stream
    BY <2>3, <2>6, ToolsCounted DEF Tells
  <2>17. /\ o \in Stream /\ o.out = m.out \o <<e>> /\ o.started = k.started /\ o.next = i + 1
         /\ o.kind = kind /\ o.block = i /\ o.tools = m.tools /\ o.open = m.open
    BY <2>3, <2>14, <2>15, <2>16 DEF Stream, Kinds
  <2>18. Shape(o)
    <3>1. \A t \in Tools : m.tools[t].index # NoBlock => m.tools[t].index < i + 1 /\ m.tools[t].index # i
      BY <2>4, <2>7, Indices, ToolsCounted
    <3>2. i < i + 1 /\ i \notin m.open /\ i # NoBlock
      BY <2>7
    <3> QED
      BY <2>4, <2>17, <3>1, <3>2 DEF Shape, Kinds
  <2>19. \A j \in Index : d.block[j] = IF j = i THEN "open" ELSE b.block[j]
    BY <2>4, <2>12 DEF Client
  <2>20. Blocks(d, o)
    <3> SUFFICES ASSUME NEW j \in Index
                 PROVE  /\ j >= o.next => d.block[j] = "unused"
                        /\ (d.block[j] = "open") <=> (j = o.block \/ j \in o.open)
                        /\ j < o.next => ((d.block[j] = "unused") <=>
                              (\E t \in Tools : o.tools[t].index = j /\ ~o.tools[t].started))
      BY DEF Blocks
    <3>1. /\ j >= m.next => b.block[j] = "unused"
          /\ (b.block[j] = "open") <=> (j = m.block \/ j \in m.open)
          /\ j < m.next => ((b.block[j] = "unused") <=>
                (\E t \in Tools : m.tools[t].index = j /\ ~m.tools[t].started))
      BY <2>4 DEF Blocks
    <3>0. j \in Nat /\ j # NoBlock
      BY ToolsCounted, <2>7
    <3>2. CASE j = i
      <4>1. \A t \in Tools : o.tools[t].index # j
        BY <3>2, <3>0, <2>7, <2>17
      <4> QED
        BY <3>2, <3>0, <4>1, <2>7, <2>17, <2>19
    <3>3. CASE j # i
      BY <3>0, <3>1, <3>3, <2>3, <2>6, <2>7, <2>17, <2>19
    <3> QED
      BY <3>2, <3>3
  <2>21. \A t \in Tools : o.tools[t].index # NoBlock => w.tools[t].index = o.tools[t].index
    BY <2>2, <2>17 DEF Tells
  <2>22. Tells(from, ch, o, d, w)
    BY <2>15, <2>17, <2>18, <2>20, <2>21 DEF Tells
  <2> QED
    BY <2>12, <2>13, <2>22
<1> QED
  BY <1>1, <1>2

\* A fragment for the current block.
LEMMA TellText ==
    ASSUME NEW from, NEW ch \in Seq(Events), NEW k, NEW c, NEW w, Tells(from, ch, k, c, w),
           c.phase = "open", k.next < Top, NEW kind \in Kinds, NEW text \in Seq(Fragment),
           Fits(c, kind, text, w)
    PROVE  \E d : /\ Tells(from, ch, AfterText(k, kind, text), d, w) /\ d.phase = "open"
                  /\ d.got = Heard(c, kind, text)
<1>1. PICK m : m = OpenText(k, kind)
  OBVIOUS
<1>2. PICK b : Tells(from, ch, m, b, w) /\ b.phase = "open" /\ b.got = c.got
  BY <1>1, TellOpen
<1>3. m.block # NoBlock
  <2>1. k \in Stream /\ Shape(k)
    BY DEF Tells
  <2> QED
    BY <1>1, <2>1, OpenFields
<1>4. /\ m \in Stream /\ b \in Client /\ Foreseen(from, ch \o m.out, b, w) /\ m.out \in Seq(Events)
      /\ Shape(m) /\ Blocks(b, m)
  BY <1>2 DEF Tells, Stream
<1>5. ch \o m.out \in Seq(Events)
  BY <1>4, ConcatProperties
<1>6. m.block \in Index /\ kind \in Sources
  BY <1>3, <1>4, Indices DEF Sources, Kinds
<1>7. PICK e \in Events : e = BlockDelta(m.block, kind, text)
  BY <1>6, EventTypes
<1>8. /\ e.type = "content_block_delta" /\ e.index = m.block /\ e.source = kind /\ e.text = text
      /\ Legal(b, e)
  BY <1>2, <1>4, <1>6, <1>7 DEF BlockDelta, Event, Legal, Blocks
<1>9. Good(Read(b, e), w)
  BY <1>2, <1>4, <1>5, <1>8, ForeseenGood, GoodDelta DEF Fits
<1>10. PICK d \in Client : d = Read(b, e)
  BY <1>4, <1>8, <1>9, Yielded
<1>11. d.phase = "open" /\ d.got = Heard(c, kind, text) /\ d.block = b.block
  BY <1>2, <1>8, <1>10 DEF Read, Heard
<1>12. Foreseen(from, ch \o (m.out \o <<e>>), d, w) /\ m.out \o <<e>> \in Seq(Events)
  BY <1>4, <1>8, <1>9, <1>10, Yielded
<1>13. PICK o : o = AfterText(k, kind, text)
  OBVIOUS
<1>14. o = [m EXCEPT !.out = m.out \o <<e>>]
  BY <1>1, <1>3, <1>7, <1>13 DEF AfterText, Yield
<1>15. /\ o \in Stream /\ o.out = m.out \o <<e>> /\ o.started = m.started /\ o.next = m.next
       /\ o.kind = m.kind /\ o.block = m.block /\ o.tools = m.tools /\ o.open = m.open
  BY <1>4, <1>12, <1>14 DEF Stream
<1>16. Shape(o) /\ Blocks(d, o)
  BY <1>4, <1>11, <1>15 DEF Shape, Blocks
<1>17. Tells(from, ch, o, d, w)
  BY <1>2, <1>12, <1>15, <1>16 DEF Tells
<1> QED
  BY <1>11, <1>13, <1>17

\* What a chunk says, by source.
LEMMA FragmentsOf ==
    ASSUME NEW delta \in Delta, NEW n \in Nat
    PROVE  /\ Fragments(delta, n, "thinking") = (IF delta.reasoning = "some" THEN <<<<n, 0>>>> ELSE <<>>)
           /\ Fragments(delta, n, "text") = (IF delta.content = "some" THEN <<<<n, 0>>>> ELSE <<>>)
           /\ \A t \in Tools : Fragments(delta, n, t) = ArgsAfter(delta.calls, n, t)[0]
           /\ <<<<n, 0>>>> \in Seq(Fragment) /\ <<>> \in Seq(Fragment)
<1>1. \A t \in Tools : t # "thinking" /\ t # "text"
  BY ConverterAssumption
<1>2. <<n, 0>> \in Fragment
  BY DEF Fragment
<1> QED
  BY <1>1, <1>2 DEF Fragments

\* The reasoning of a chunk.
LEMMA TellReasoning ==
    ASSUME NEW from, NEW ch \in Seq(Events), NEW k, NEW c, NEW w, Tells(from, ch, k, c, w),
           c.phase = "open", k.next < Top, NEW delta \in Delta, NEW n \in Nat,
           Fits(c, "thinking", Fragments(delta, n, "thinking"), w)
    PROVE  \E d : /\ Tells(from, ch, AfterReasoning(k, delta, n), d, w) /\ d.phase = "open"
                  /\ d.got = Heard(c, "thinking", Fragments(delta, n, "thinking"))
<1>1. k \in Stream /\ c \in Client /\ k.next \in Nat
  BY Indices DEF Tells
<1>2. PICK text \in Seq(Fragment) : text = Fragments(delta, n, "thinking")
  BY FragmentsOf
<1>3. CASE delta.reasoning = "none"
  <2>1. AfterReasoning(k, delta, n) = k /\ text = <<>>
    BY <1>2, <1>3, FragmentsOf DEF AfterReasoning
  <2>2. "thinking" \in Sources /\ c.got \in [Sources -> Seq(Fragment)]
    BY <1>1 DEF Sources, Client
  <2>3. c.got["thinking"] \o <<>> = c.got["thinking"]
    BY <2>2, ConcatEmptySeq
  <2>4. c.got = Heard(c, "thinking", text)
    BY <2>1, <2>2, <2>3 DEF Heard
  <2> QED
    BY <1>2, <2>1, <2>4
<1>4. CASE delta.reasoning # "none"
  <2>0. PICK kind \in Kinds : kind = "thinking"
    BY DEF Kinds
  <2>1. AfterReasoning(k, delta, n) = AfterText(k, kind, text)
    BY <1>2, <1>4, <2>0, FragmentsOf DEF AfterReasoning
  <2>2. Fits(c, kind, text, w)
    BY <1>2, <2>0
  <2>3. \E d : /\ Tells(from, ch, AfterText(k, kind, text), d, w) /\ d.phase = "open"
              /\ d.got = Heard(c, kind, text)
    BY <2>2, TellText
  <2> QED
    BY <1>2, <2>0, <2>1, <2>3
<1> QED
  BY <1>3, <1>4

\* The content of a chunk.
LEMMA TellContent ==
    ASSUME NEW from, NEW ch \in Seq(Events), NEW k, NEW c, NEW w, Tells(from, ch, k, c, w),
           c.phase = "open", k.next < Top, NEW delta \in Delta, NEW n \in Nat,
           Fits(c, "text", Fragments(delta, n, "text"), w)
    PROVE  \E d : /\ Tells(from, ch, AfterContent(k, delta, n), d, w) /\ d.phase = "open"
                  /\ d.got = Heard(c, "text", Fragments(delta, n, "text"))
<1>1. k \in Stream /\ c \in Client /\ k.next \in Nat
  BY Indices DEF Tells
<1>2. PICK text \in Seq(Fragment) : text = Fragments(delta, n, "text")
  BY FragmentsOf
<1>3. CASE delta.content # "some"
  <2>1. AfterContent(k, delta, n) = k /\ text = <<>>
    BY <1>2, <1>3, FragmentsOf DEF AfterContent
  <2>2. "text" \in Sources /\ c.got \in [Sources -> Seq(Fragment)]
    BY <1>1 DEF Sources, Client
  <2>3. c.got["text"] \o <<>> = c.got["text"]
    BY <2>2, ConcatEmptySeq
  <2>4. c.got = Heard(c, "text", text)
    BY <2>1, <2>2, <2>3 DEF Heard
  <2> QED
    BY <1>2, <2>1, <2>4
<1>4. CASE delta.content = "some"
  <2>0. PICK kind \in Kinds : kind = "text"
    BY DEF Kinds
  <2>1. AfterContent(k, delta, n) = AfterText(k, kind, text)
    BY <1>2, <1>4, <2>0, FragmentsOf DEF AfterContent
  <2>2. Fits(c, kind, text, w)
    BY <1>2, <2>0
  <2>3. \E d : /\ Tells(from, ch, AfterText(k, kind, text), d, w) /\ d.phase = "open"
              /\ d.got = Heard(c, kind, text)
    BY <2>2, TellText
  <2> QED
    BY <1>2, <2>0, <2>1, <2>3
<1> QED
  BY <1>3, <1>4

\* The text part of a chunk: at most two more indices.
LEMMA TellTexts ==
    ASSUME NEW from, NEW ch \in Seq(Events), NEW k, NEW c, NEW w, Tells(from, ch, k, c, w),
           c.phase = (IF k.started THEN "open" ELSE "waiting"),
           k.next + 2 <= Top, NEW delta \in Delta, NEW n \in Nat,
           \A x \in Kinds : Fits(c, x, Fragments(delta, n, x), w)
    PROVE  /\ \E d : /\ Tells(from, ch, AfterTexts(k, delta, n), d, w) /\ d.phase = "open"
                     /\ HeardTexts(c, delta, n, d.got)
           /\ AfterTexts(k, delta, n).started
           /\ AfterTexts(k, delta, n).tools = k.tools
           /\ AfterTexts(k, delta, n).open = k.open
           /\ AfterTexts(k, delta, n).next <= k.next + 2
<1>0. k \in Stream /\ c \in Client /\ k.next \in Nat /\ Top \in Nat
  BY Indices, ToolsCounted DEF Tells
<1>1. PICK k1 : k1 = AfterStart(k)
  OBVIOUS
<1>2. PICK c1 : Tells(from, ch, k1, c1, w) /\ c1.phase = "open" /\ c1.got = c.got
  BY <1>1, TellStart
<1>3. k1.started /\ k1.tools = k.tools /\ k1.open = k.open /\ k1.next = k.next
  BY <1>1, TellStart
<1>4. PICK k2 : k2 = AfterReasoning(k1, delta, n)
  OBVIOUS
<1>5. k1.next < Top /\ Fits(c1, "thinking", Fragments(delta, n, "thinking"), w)
  BY <1>0, <1>2, <1>3 DEF Fits, Kinds
<1>6. PICK c2 : /\ Tells(from, ch, k2, c2, w) /\ c2.phase = "open"
                /\ c2.got = Heard(c1, "thinking", Fragments(delta, n, "thinking"))
  BY <1>2, <1>4, <1>5, TellReasoning
<1>7. k2.started /\ k2.tools = k.tools /\ k2.open = k.open /\ k2.next <= k.next + 1
  <2>1. k1 \in Stream /\ Shape(k1)
    BY <1>2 DEF Tells
  <2> QED
    BY <1>3, <1>4, <2>1, ReasoningFields
<1>8. PICK k3 : k3 = AfterContent(k2, delta, n)
  OBVIOUS
<1>9. k2.next \in Nat
  BY <1>6, Indices DEF Tells
<1>10. c.got \in [Sources -> Seq(Fragment)] /\ "text" \in Sources /\ "thinking" \in Sources
  BY <1>0 DEF Client, Sources
<1>11. c2.got["text"] = c.got["text"]
  BY <1>2, <1>6, <1>10 DEF Heard
<1>12. k2.next < Top /\ Fits(c2, "text", Fragments(delta, n, "text"), w)
  BY <1>0, <1>7, <1>9, <1>11 DEF Fits, Kinds
<1>13. PICK c3 : /\ Tells(from, ch, k3, c3, w) /\ c3.phase = "open"
                 /\ c3.got = Heard(c2, "text", Fragments(delta, n, "text"))
  BY <1>6, <1>8, <1>12, TellContent
<1>14. k3.started /\ k3.tools = k.tools /\ k3.open = k.open /\ k3.next <= k2.next + 1
  <2>1. k2 \in Stream /\ Shape(k2)
    BY <1>6 DEF Tells
  <2> QED
    BY <1>7, <1>8, <2>1, ContentFields
<1>15. HeardTexts(c, delta, n, c3.got)
  <2>1. \A x \in Sources : c3.got[x] = IF x \in {"thinking", "text"}
                                       THEN c.got[x] \o Fragments(delta, n, x) ELSE c.got[x]
    <3>1. c2.got = [c.got EXCEPT !["thinking"] = @ \o Fragments(delta, n, "thinking")]
      BY <1>2, <1>6 DEF Heard
    <3>2. c3.got = [c2.got EXCEPT !["text"] = @ \o Fragments(delta, n, "text")]
      BY <1>13 DEF Heard
    <3> QED
      BY <1>10, <3>1, <3>2
  <2>2. \A t \in Tools : t \in Sources /\ t \notin {"thinking", "text"}
    BY ConverterAssumption DEF Sources
  <2> QED
    BY <1>10, <2>1, <2>2 DEF HeardTexts, Kinds
<1>16. k3.next \in Nat
  BY <1>13, Indices DEF Tells
<1>17. k3.next <= k.next + 2
  BY <1>0, <1>7, <1>9, <1>14, <1>16
<1>18. CASE ~delta.has_calls
  <2>1. AfterTexts(k, delta, n) = k3
    BY <1>1, <1>4, <1>8, <1>18 DEF AfterTexts
  <2> QED
    BY <2>1, <1>13, <1>14, <1>15, <1>17
<1>19. CASE delta.has_calls
  <2>1. PICK k4 : k4 = WithoutText(k3)
    OBVIOUS
  <2>2. AfterTexts(k, delta, n) = k4
    BY <1>1, <1>4, <1>8, <1>19, <2>1 DEF AfterTexts
  <2>3. PICK d : Tells(from, ch, k4, d, w) /\ d.phase = "open" /\ d.got = c3.got
    BY <1>13, <2>1, TellStop
  <2>4. k4.started = k3.started /\ k4.tools = k3.tools /\ k4.open = k3.open /\ k4.next = k3.next
    BY <1>13, <2>1, TellStop
  <2> QED
    BY <2>2, <2>3, <2>4, <1>14, <1>15, <1>17
<1> QED
  BY <1>18, <1>19

\* No two tools have one index.
LEMMA ToolsDistinct ==
    ASSUME NEW k \in Stream, Shape(k), NEW t \in Tools, NEW u \in Tools,
           k.tools[t].index = k.tools[u].index, k.tools[t].index # NoBlock
    PROVE  t = u
BY DEF Shape

\* What the start of a tool's block changes.
Begun(k, t, o) ==
    /\ o \in Stream
    /\ o.started = k.started /\ o.next = k.next /\ o.kind = k.kind /\ o.block = k.block
    /\ o.open = k.open \cup {k.tools[t].index}
    /\ o.tools[t] = [k.tools[t] EXCEPT !.started = TRUE, !.pending = <<>>]
    /\ o.tools \in [Tools -> ToolStates]
    /\ \A u \in Tools : u # t => o.tools[u] = k.tools[u]

\* BeginTool is such a start.
LEMMA BeginFields ==
    ASSUME NEW k \in Stream, NEW t \in Tools, k.tools[t].index # NoBlock
    PROVE  Begun(k, t, BeginTool(k, t))
<1>1. PICK o : o = BeginTool(k, t)
  OBVIOUS
<1>2. PICK events : events = <<BlockStart(k.tools[t].index, t)>> \o
                               (IF k.tools[t].pending = <<>> THEN <<>>
                                ELSE <<BlockDelta(k.tools[t].index, t, k.tools[t].pending)>>)
  OBVIOUS
<1>3. k.tools \in [Tools -> ToolStates] /\ <<>> \in Seq(Fragment)
  BY DEF Stream
<1>4. PICK tool : tool = [k.tools[t] EXCEPT !.started = TRUE, !.pending = <<>>]
  OBVIOUS
<1>5. tool \in ToolStates
  BY <1>3, <1>4 DEF ToolStates
<1>6. PICK tools : tools = [k.tools EXCEPT ![t] = tool]
  OBVIOUS
<1>7. tools \in [Tools -> ToolStates] /\ tools[t] = tool /\ \A u \in Tools : u # t => tools[u] = k.tools[u]
  BY <1>3, <1>5, <1>6
<1>8. PICK y : y = Yield(k, events)
  OBVIOUS
<1>9. /\ y \in [started : {k.started}, next : {k.next}, kind : {k.kind}, block : {k.block},
                tools : {k.tools}, open : {k.open}, out : {k.out \o events}]
  BY <1>8 DEF Yield, Stream
<1>10. o = [y EXCEPT !.tools[t] = [@ EXCEPT !.started = TRUE, !.pending = <<>>],
                     !.open = @ \cup {k.tools[t].index}]
  BY <1>1, <1>2, <1>8 DEF BeginTool
<1>11. y.tools = k.tools /\ y.open = k.open
  BY <1>9
<1>12. /\ o.started = y.started /\ o.next = y.next /\ o.kind = y.kind /\ o.block = y.block
  BY <1>9, <1>10
<1>13. o.open = y.open \cup {k.tools[t].index}
  BY <1>9, <1>10
<1>14. o.tools = [y.tools EXCEPT ![t] = [@ EXCEPT !.started = TRUE, !.pending = <<>>]]
  BY <1>9, <1>10
<1>15. o.tools = tools
  BY <1>4, <1>6, <1>11, <1>14
<1>16. /\ o.started = k.started /\ o.next = k.next /\ o.kind = k.kind /\ o.block = k.block
       /\ o.open = k.open \cup {k.tools[t].index}
  BY <1>9, <1>12, <1>13
<1>17. events \in Seq(Events)
  <2>1. k.tools[t].index \in Index /\ k.tools[t].pending \in Seq(Fragment) /\ t \in Sources
    BY DEF Stream, ToolStates, Sources
  <2>2. /\ BlockStart(k.tools[t].index, t) \in Events
        /\ BlockDelta(k.tools[t].index, t, k.tools[t].pending) \in Events
    BY <2>1, EventTypes
  <2> QED
    BY <2>2, <1>2, ConcatProperties
<1>18. o.out \in Seq(Events)
  <2>1. o.out = k.out \o events
    BY <1>9, <1>10
  <2>2. k.out \in Seq(Events)
    BY DEF Stream
  <2> QED
    BY <1>17, <2>1, <2>2, ConcatProperties
<1>19. k.tools[t].index \in Index
  BY DEF Stream, ToolStates
<1>20. o = [started |-> o.started, next |-> o.next, kind |-> o.kind, block |-> o.block,
            tools |-> o.tools, open |-> o.open, out |-> o.out]
  BY <1>9, <1>10
<1>21. o \in Stream
  BY <1>7, <1>15, <1>16, <1>18, <1>19, <1>20 DEF Stream
<1> QED
  BY <1>1, <1>4, <1>7, <1>15, <1>16, <1>21 DEF Begun

\* The block of a tool begins, with the arguments that waited.
LEMMA TellBegin ==
    ASSUME NEW from, NEW ch \in Seq(Events), NEW k, NEW c, NEW w, Tells(from, ch, k, c, w),
           c.phase = "open", NEW t \in Tools, k.tools[t].index # NoBlock, ~k.tools[t].started,
           Fits(c, t, k.tools[t].pending, w)
    PROVE  \E d : /\ Tells(from, ch, BeginTool(k, t), d, w) /\ d.phase = "open"
                  /\ d.got = Heard(c, t, k.tools[t].pending)
<1>1. /\ k \in Stream /\ c \in Client /\ Foreseen(from, ch \o k.out, c, w) /\ k.out \in Seq(Events)
      /\ Shape(k) /\ Blocks(c, k)
  BY DEF Tells, Stream
<1>2. ch \o k.out \in Seq(Events)
  BY <1>1, ConcatProperties
<1>3. PICK i \in Index : i = k.tools[t].index
  BY <1>1, Indices
<1>4. i < k.next /\ i \in Nat /\ k.next \in Nat /\ i # NoBlock
  BY <1>1, <1>3, Indices, ToolsCounted
<1>5. t \in Sources
  BY DEF Sources
<1>6. PICK text \in Seq(Fragment) : text = k.tools[t].pending
  BY <1>1 DEF Stream, ToolStates
<1>7. c.block[i] = "unused"
  BY <1>1, <1>3, <1>4 DEF Blocks
<1>8. PICK e \in Events : e = BlockStart(i, t)
  BY <1>5, EventTypes
<1>9. e.type = "content_block_start" /\ e.index = i /\ Legal(c, e)
  BY <1>7, <1>8 DEF BlockStart, Event, Legal
<1>10. Good(Read(c, e), w)
  <2>1. \A j \in 0 .. i - 1 : c.block[j] = "unused" => \E u \in Tools : w.tools[u].index = j
    BY <1>4, StartAllowed
  <2> QED
    BY <1>1, <1>2, <1>9, <2>1, ForeseenGood, GoodStart
<1>11. PICK b \in Client : b = Read(c, e)
  BY <1>1, <1>9, <1>10, Yielded
<1>12. b.phase = "open" /\ b.got = c.got /\ b.block = [c.block EXCEPT ![i] = "open"]
  BY <1>9, <1>11 DEF Read, Legal
<1>13. Foreseen(from, ch \o (k.out \o <<e>>), b, w) /\ k.out \o <<e>> \in Seq(Events)
  BY <1>1, <1>9, <1>10, <1>11, Yielded
<1>14. c.got \in [Sources -> Seq(Fragment)] /\ c.block \in [Index -> {"unused", "open", "closed"}]
  BY <1>1 DEF Client
<1>15. \E d \in Client : /\ d.phase = "open" /\ d.got = Heard(c, t, text) /\ d.block = b.block
                         /\ Foreseen(from, ch \o BeginTool(k, t).out, d, w) /\ BeginTool(k, t).out \in Seq(Events)
  <2>1. CASE text = <<>>
    <3>1. BeginTool(k, t).out = k.out \o (<<e>> \o <<>>)
      BY <1>1, <1>3, <1>6, <1>8, <2>1 DEF BeginTool, Yield, Stream
    <3>2. <<e>> \o <<>> = <<e>>
      BY ConcatEmptySeq
    <3>3. c.got[t] \o text = c.got[t]
      BY <1>5, <1>14, <2>1, ConcatEmptySeq
    <3>4. b.got = Heard(c, t, text)
      BY <1>5, <1>12, <1>14, <3>3 DEF Heard
    <3> QED
      BY <1>12, <1>13, <3>1, <3>2, <3>4
  <2>2. CASE text # <<>>
    <3>1. PICK f \in Events : f = BlockDelta(i, t, text)
      BY <1>5, EventTypes
    <3>2. b.block[i] = "open"
      BY <1>12, <1>14
    <3>3. f.type = "content_block_delta" /\ f.index = i /\ f.source = t /\ f.text = text /\ Legal(b, f)
      BY <1>5, <1>12, <3>1, <3>2 DEF BlockDelta, Event, Legal
    <3>4. PICK out \in Seq(Events) : out = k.out \o <<e>>
      BY <1>13
    <3>5. ch \o out \in Seq(Events) /\ Good(b, w)
      BY <1>13, <3>4, ConcatProperties, ForeseenGood
    <3>6. Begins(b.got[t] \o text, w.sent[t])
      BY <1>6, <1>12 DEF Fits
    <3>7. Good(Read(b, f), w)
      BY <3>3, <3>5, <3>6, GoodDelta
    <3>13. Foreseen(from, ch \o out, b, w)
      BY <1>13, <3>4
    <3>14. /\ Foreseen(from, ch \o (out \o <<f>>), Read(b, f), w) /\ Read(b, f) \in Client
           /\ out \o <<f>> \in Seq(Events)
      BY <3>3, <3>7, <3>13, Yielded
    <3>8. PICK d \in Client : d = Read(b, f)
      BY <3>14
    <3>9. Foreseen(from, ch \o (out \o <<f>>), d, w) /\ out \o <<f>> \in Seq(Events)
      BY <3>8, <3>14
    <3>10. BeginTool(k, t).out = k.out \o (<<e>> \o <<f>>)
      BY <1>1, <1>3, <1>6, <1>8, <2>2, <3>1 DEF BeginTool, Yield, Stream
    <3>11. out \o <<f>> = k.out \o (<<e>> \o <<f>>)
      <4>1. <<e>> \in Seq(Events) /\ <<f>> \in Seq(Events)
        OBVIOUS
      <4> QED
        BY <1>1, <3>4, <4>1, ConcatAssociative
    <3>12. d.phase = "open" /\ d.got = Heard(c, t, text) /\ d.block = b.block
      BY <1>12, <3>3, <3>8 DEF Read, Heard
    <3> QED
      BY <3>9, <3>10, <3>11, <3>12
  <2> QED
    BY <2>1, <2>2
<1>16. PICK d \in Client : /\ d.phase = "open" /\ d.got = Heard(c, t, text) /\ d.block = b.block
                          /\ Foreseen(from, ch \o BeginTool(k, t).out, d, w) /\ BeginTool(k, t).out \in Seq(Events)
  BY <1>15
<1>17. PICK o : o = BeginTool(k, t)
  OBVIOUS
<1>18. /\ o.started = k.started /\ o.next = k.next /\ o.kind = k.kind /\ o.block = k.block
       /\ o.open = k.open \cup {i}
       /\ o.tools[t] = [k.tools[t] EXCEPT !.started = TRUE, !.pending = <<>>]
       /\ o.tools \in [Tools -> ToolStates]
       /\ \A u \in Tools : u # t => o.tools[u] = k.tools[u]
       /\ o \in Stream
  <2>1. Begun(k, t, BeginTool(k, t))
    BY <1>1, BeginFields
  <2> QED
    BY <2>1, <1>3, <1>17 DEF Begun
<1>19. o.tools[t].index = i /\ o.tools[t].started /\ o.tools[t].pending = <<>>
  BY <1>1, <1>3, <1>18 DEF Stream, ToolStates
<1>20. \A u \in Tools : /\ o.tools[u].index = k.tools[u].index
                        /\ o.tools[u].started <=> (u = t \/ k.tools[u].started)
  <2>1. \A u \in Tools : u # t => o.tools[u] = k.tools[u]
    BY <1>18
  <2>2. o.tools[t].index = k.tools[t].index /\ o.tools[t].started
    BY <1>3, <1>19
  <2> QED
    BY <2>1, <2>2, Zenon
<1>21. o \in Stream
  BY <1>18
<1>22. Shape(o)
  <2>1. \A u \in Tools : o.tools[u].started => o.tools[u].pending = <<>>
    <3>1. \A u \in Tools : k.tools[u].started => k.tools[u].pending = <<>>
      BY <1>1 DEF Shape
    <3>2. \A u \in Tools : u # t => o.tools[u] = k.tools[u]
      BY <1>18
    <3>3. o.tools[t].pending = <<>>
      BY <1>19
    <3> QED
      BY <3>1, <3>2, <3>3, Zenon
  <2>2. \A u \in Tools : o.tools[u].index = NoBlock => o.tools[u] = NoTool
    <3>1. \A u \in Tools : k.tools[u].index = NoBlock => k.tools[u] = NoTool
      BY <1>1 DEF Shape
    <3>2. o.tools[t].index # NoBlock
      BY <1>4, <1>19
    <3>3. \A u \in Tools : u # t => o.tools[u] = k.tools[u]
      BY <1>18
    <3> QED
      BY <3>1, <3>2, <3>3, Zenon
  <2>3. \A j \in o.open : \E u \in Tools : o.tools[u].index = j /\ o.tools[u].started
    BY <1>1, <1>3, <1>18, <1>20 DEF Shape
  <2>4. o.block # NoBlock => /\ o.block < o.next /\ o.block \notin o.open
                             /\ \A u \in Tools : o.tools[u].index # o.block
    BY <1>1, <1>3, <1>18, <1>20 DEF Shape
  <2>5. \A u \in Tools : o.tools[u].index # NoBlock => o.tools[u].index < o.next
    BY <1>1, <1>18, <1>20 DEF Shape
  <2>6. (o.kind = "none") <=> (o.block = NoBlock)
    BY <1>1, <1>18 DEF Shape
  <2>7. \A u \in Tools, v \in Tools :
           o.tools[u].index = o.tools[v].index => (u = v \/ o.tools[u].index = NoBlock)
    BY <1>1, <1>20 DEF Shape
  <2> QED
    BY <2>1, <2>2, <2>3, <2>4, <2>5, <2>6, <2>7 DEF Shape
<1>23. \A j \in Index : d.block[j] = IF j = i THEN "open" ELSE c.block[j]
  BY <1>12, <1>14, <1>16
<1>24. Blocks(d, o)
  <2> SUFFICES ASSUME NEW j \in Index
               PROVE  /\ j >= o.next => d.block[j] = "unused"
                      /\ (d.block[j] = "open") <=> (j = o.block \/ j \in o.open)
                      /\ j < o.next => ((d.block[j] = "unused") <=>
                            (\E u \in Tools : o.tools[u].index = j /\ ~o.tools[u].started))
    BY DEF Blocks
  <2>1. /\ j >= k.next => c.block[j] = "unused"
        /\ (c.block[j] = "open") <=> (j = k.block \/ j \in k.open)
        /\ j < k.next => ((c.block[j] = "unused") <=>
              (\E u \in Tools : k.tools[u].index = j /\ ~k.tools[u].started))
    BY <1>1 DEF Blocks
  <2>2. CASE j = i
    <3>1. \A u \in Tools : o.tools[u].index = j => o.tools[u].started
      BY <2>2, <1>1, <1>3, <1>4, <1>20, ToolsDistinct
    <3> QED
      BY <2>2, <3>1, <1>4, <1>18, <1>23
  <2>3. CASE j # i
    <3>1. \A u \in Tools : (o.tools[u].index = j /\ ~o.tools[u].started) <=>
                            (k.tools[u].index = j /\ ~k.tools[u].started)
      BY <2>3, <1>3, <1>20
    <3> QED
      BY <2>1, <2>3, <3>1, <1>18, <1>23
  <2> QED
    BY <2>2, <2>3
<1>25. \A u \in Tools : o.tools[u].index # NoBlock => w.tools[u].index = o.tools[u].index
  BY <1>20 DEF Tells
<1>26. Tells(from, ch, o, d, w)
  BY <1>16, <1>17, <1>21, <1>22, <1>24, <1>25 DEF Tells
<1> QED
  BY <1>6, <1>16, <1>17, <1>26

\* What an entry of tool_calls changes before any block starts.
LEMMA NoteFields ==
    ASSUME NEW k \in Stream, NEW call \in ToolCall,
           k.tools[call.index].index = NoBlock => k.next < Top
    PROVE  LET t == call.index
               a == NoteCall(k, call)
               old == k.tools[t]
           IN  /\ a \in Stream /\ t \in Tools
               /\ a.out = k.out /\ a.started = k.started /\ a.kind = k.kind /\ a.block = k.block
               /\ a.open = k.open
               /\ a.next = (IF old.index = NoBlock THEN k.next + 1 ELSE k.next)
               /\ a.tools[t] = [index |-> IF old.index = NoBlock THEN k.next ELSE old.index,
                                id |-> Update(old.id, call.id), name |-> Update(old.name, call.name),
                                started |-> old.started, pending |-> old.pending]
               /\ \A u \in Tools : u # t => a.tools[u] = k.tools[u]
<1>1. PICK t \in Tools : t = call.index
  BY DEF ToolCall
<1>2. PICK a : a = NoteCall(k, call)
  OBVIOUS
<1>3. PICK old \in ToolStates : old = k.tools[t]
  BY DEF Stream
<1>4. PICK tool : tool = [index |-> IF old.index = NoBlock THEN k.next ELSE old.index,
                          id |-> Update(old.id, call.id), name |-> Update(old.name, call.name),
                          started |-> old.started, pending |-> old.pending]
  OBVIOUS
<1>5. k.next \in Index
  BY DEF Stream
<1>6. Update(old.id, call.id) \in BOOLEAN /\ Update(old.name, call.name) \in BOOLEAN
  BY DEF Update, ToolStates
<1>7. tool \in ToolStates
  BY <1>4, <1>5, <1>6 DEF ToolStates
<1>8. PICK next : next = IF old.index = NoBlock THEN k.next + 1 ELSE k.next
  OBVIOUS
<1>9. next \in Index
  BY <1>1, <1>3, <1>5, <1>8, ToolsCounted
<1>10. PICK tools \in [Tools -> ToolStates] : tools = [k.tools EXCEPT ![t] = tool]
  BY <1>7 DEF Stream
<1>11. a = [k EXCEPT !.next = next, !.tools = tools]
  BY <1>1, <1>2, <1>3, <1>4, <1>8, <1>10 DEF NoteCall, Stream
<1>12. /\ a \in Stream
       /\ a.out = k.out /\ a.started = k.started /\ a.kind = k.kind /\ a.block = k.block
       /\ a.open = k.open /\ a.next = next /\ a.tools = tools
  BY <1>9, <1>10, <1>11 DEF Stream
<1>13. a.tools[t] = tool /\ \A u \in Tools : u # t => a.tools[u] = k.tools[u]
  BY <1>10, <1>12 DEF Stream
<1> QED
  BY <1>1, <1>2, <1>3, <1>4, <1>8, <1>12, <1>13

\* An entry of tool_calls gives a new tool the next index.
LEMMA TellNote ==
    ASSUME NEW from, NEW ch, NEW k, NEW c, NEW w, Tells(from, ch, k, c, w),
           NEW call \in ToolCall, k.tools[call.index].index = NoBlock => k.next < Top,
           w.tools[call.index].index = NoteCall(k, call).tools[call.index].index
    PROVE  Tells(from, ch, NoteCall(k, call), c, w)
<1>1. k \in Stream /\ Shape(k) /\ Blocks(c, k)
  BY DEF Tells
<1>2. PICK a : a = NoteCall(k, call)
  OBVIOUS
<1>3. PICK t \in Tools : t = call.index
  BY DEF ToolCall
<1>4. PICK old \in ToolStates : old = k.tools[t]
  BY <1>1 DEF Stream
<1>5. /\ a \in Stream
      /\ a.out = k.out /\ a.started = k.started /\ a.kind = k.kind /\ a.block = k.block
      /\ a.open = k.open
      /\ a.next = (IF old.index = NoBlock THEN k.next + 1 ELSE k.next)
      /\ a.tools[t].index = (IF old.index = NoBlock THEN k.next ELSE old.index)
      /\ a.tools[t].started = old.started /\ a.tools[t].pending = old.pending
      /\ \A u \in Tools : u # t => a.tools[u] = k.tools[u]
  <2>1. /\ a \in Stream
        /\ a.out = k.out /\ a.started = k.started /\ a.kind = k.kind /\ a.block = k.block
        /\ a.open = k.open
        /\ a.next = (IF old.index = NoBlock THEN k.next + 1 ELSE k.next)
    BY <1>1, <1>2, <1>3, <1>4, NoteFields
  <2>2. \A u \in Tools : u # t => a.tools[u] = k.tools[u]
    BY <1>1, <1>2, <1>3, <1>4, NoteFields
  <2>3. a.tools[t] = [index |-> IF old.index = NoBlock THEN k.next ELSE old.index,
                      id |-> Update(old.id, call.id), name |-> Update(old.name, call.name),
                      started |-> old.started, pending |-> old.pending]
    BY <1>1, <1>2, <1>3, <1>4, NoteFields
  <2> QED
    BY <2>1, <2>2, <2>3
<1>6. /\ k.next \in Nat /\ k.next \in Index /\ NoBlock \notin Nat
      /\ \A i \in k.open : i < k.next /\ i \in Nat
      /\ k.block # NoBlock => k.block < k.next /\ k.block \in Nat
      /\ \A u \in Tools : k.tools[u].index # NoBlock => k.tools[u].index < k.next /\ k.tools[u].index \in Nat
  BY <1>1, Indices, ToolsCounted DEF Stream
<1>7. /\ \A u \in Tools : k.tools[u].index = NoBlock => k.tools[u] = NoTool
      /\ \A u \in Tools : k.tools[u].started => k.tools[u].pending = <<>>
  BY <1>1 DEF Shape
<1>8. old.index = NoBlock => ~old.started /\ old.pending = <<>>
  BY <1>4, <1>7 DEF NoTool
<1>9. \A u \in Tools : /\ k.tools[u].index # NoBlock => a.tools[u].index = k.tools[u].index
                       /\ a.tools[u].started = k.tools[u].started /\ a.tools[u].pending = k.tools[u].pending
  BY <1>4, <1>5
<1>10. Shape(a)
  <2>1. \A u \in Tools : a.tools[u].started => a.tools[u].pending = <<>>
    BY <1>7, <1>9
  <2>2. \A u \in Tools : a.tools[u].index = NoBlock => a.tools[u] = NoTool
    BY <1>4, <1>5, <1>6, <1>7
  <2>3. \A i \in a.open : \E u \in Tools : a.tools[u].index = i /\ a.tools[u].started
    <3> SUFFICES ASSUME NEW i \in a.open PROVE \E u \in Tools : a.tools[u].index = i /\ a.tools[u].started
      OBVIOUS
    <3>1. PICK u \in Tools : k.tools[u].index = i /\ k.tools[u].started
      BY <1>1, <1>5 DEF Shape
    <3>2. i # NoBlock
      BY <1>5, <1>6
    <3> QED
      BY <3>1, <3>2, <1>9
  <2>4. a.block # NoBlock => /\ a.block < a.next /\ a.block \notin a.open
                             /\ \A u \in Tools : a.tools[u].index # a.block
    <3> SUFFICES ASSUME k.block # NoBlock
                 PROVE  /\ k.block < a.next /\ k.block \notin k.open
                        /\ \A u \in Tools : a.tools[u].index # k.block
      BY <1>5
    <3>1. k.block < a.next /\ k.block \notin k.open /\ \A u \in Tools : k.tools[u].index # k.block
      BY <1>1, <1>5, <1>6 DEF Shape
    <3>2. k.block # k.next
      BY <1>6
    <3> QED
      BY <3>1, <3>2, <1>4, <1>5
  <2>5. \A u \in Tools : a.tools[u].index # NoBlock => a.tools[u].index < a.next
    BY <1>4, <1>5, <1>6
  <2>6. (a.kind = "none") <=> (a.block = NoBlock)
    BY <1>1, <1>5 DEF Shape
  <2>7. \A u \in Tools, v \in Tools :
           a.tools[u].index = a.tools[v].index => (u = v \/ a.tools[u].index = NoBlock)
    <3> SUFFICES ASSUME NEW u \in Tools, NEW v \in Tools, a.tools[u].index = a.tools[v].index,
                        a.tools[u].index # NoBlock, u # v
                 PROVE  FALSE
      OBVIOUS
    <3>0. \A x \in Tools : k.tools[x].index # k.next
      BY <1>6
    <3>1. CASE old.index # NoBlock
      <4>1. k.tools[u].index = k.tools[v].index /\ k.tools[u].index # NoBlock
        BY <3>1, <1>4, <1>5
      <4> QED
        BY <4>1, <1>1, ToolsDistinct
    <3>2. CASE old.index = NoBlock /\ u = t
      BY <3>0, <3>2, <1>5
    <3>3. CASE old.index = NoBlock /\ v = t
      BY <3>0, <3>3, <1>5
    <3>4. CASE u # t /\ v # t
      <4>1. k.tools[u].index = k.tools[v].index /\ k.tools[u].index # NoBlock
        BY <3>4, <1>5
      <4> QED
        BY <4>1, <1>1, ToolsDistinct
    <3> QED
      BY <3>1, <3>2, <3>3, <3>4
  <2> QED
    BY <2>1, <2>2, <2>3, <2>4, <2>5, <2>6, <2>7 DEF Shape
<1>11. Blocks(c, a)
  <2> SUFFICES ASSUME NEW j \in Index
               PROVE  /\ j >= a.next => c.block[j] = "unused"
                      /\ (c.block[j] = "open") <=> (j = a.block \/ j \in a.open)
                      /\ j < a.next => ((c.block[j] = "unused") <=>
                            (\E u \in Tools : a.tools[u].index = j /\ ~a.tools[u].started))
    BY DEF Blocks
  <2>1. /\ j >= k.next => c.block[j] = "unused"
        /\ (c.block[j] = "open") <=> (j = k.block \/ j \in k.open)
        /\ j < k.next => ((c.block[j] = "unused") <=>
              (\E u \in Tools : k.tools[u].index = j /\ ~k.tools[u].started))
    BY <1>1 DEF Blocks
  <2>2. j \in Nat /\ j # NoBlock
    BY <1>6, ToolsCounted
  <2>3. CASE j = k.next /\ old.index = NoBlock
    <3>1. a.tools[t].index = j /\ ~a.tools[t].started /\ c.block[j] = "unused"
      BY <2>1, <2>2, <2>3, <1>5, <1>8
    <3> QED
      BY <3>1, <2>1, <2>3, <1>5
  <2>4. CASE ~(j = k.next /\ old.index = NoBlock)
    <3>1. \A u \in Tools : (a.tools[u].index = j) <=> (k.tools[u].index = j)
      BY <2>2, <2>4, <1>4, <1>5
    <3>2. (j < a.next) <=> (j < k.next)
      BY <2>2, <2>4, <1>5, <1>6, <3>1
    <3>3. (j >= a.next) => (j >= k.next)
      BY <2>2, <1>5, <1>6
    <3> QED
      BY <2>1, <3>1, <3>2, <3>3, <1>5, <1>9
  <2> QED
    BY <2>3, <2>4
<1>12. \A u \in Tools : a.tools[u].index # NoBlock => w.tools[u].index = a.tools[u].index
  <2>1. \A u \in Tools : u # t => (a.tools[u].index # NoBlock => w.tools[u].index = a.tools[u].index)
    BY <1>5 DEF Tells
  <2> QED
    BY <2>1, <1>2, <1>3
<1> QED
  BY <1>2, <1>5, <1>10, <1>11, <1>12 DEF Tells

\* Arguments that wait change nothing else ...
LEMMA KeepFields ==
    ASSUME NEW k \in Stream, NEW t \in Tools, NEW text \in Seq(Fragment)
    PROVE  LET o == KeepArgs(k, t, text)
           IN  /\ o \in Stream
               /\ o.out = k.out /\ o.started = k.started /\ o.kind = k.kind /\ o.block = k.block
               /\ o.open = k.open /\ o.next = k.next
               /\ o.tools[t].index = k.tools[t].index /\ o.tools[t].started = k.tools[t].started
               /\ \A u \in Tools : u # t => o.tools[u] = k.tools[u]
<1>1. PICK o : o = KeepArgs(k, t, text)
  OBVIOUS
<1>2. k.tools \in [Tools -> ToolStates] /\ k.tools[t].pending \in Seq(Fragment)
  BY DEF Stream, ToolStates
<1>3. PICK pending \in Seq(Fragment) : pending = k.tools[t].pending \o text
  BY <1>2, ConcatProperties
<1>4. PICK tool : tool = [k.tools[t] EXCEPT !.pending = pending]
  OBVIOUS
<1>5. tool \in ToolStates
  BY <1>2, <1>4 DEF ToolStates
<1>6. PICK tools \in [Tools -> ToolStates] : tools = [k.tools EXCEPT ![t] = tool]
  BY <1>2, <1>5
<1>7. o = [k EXCEPT !.tools = tools]
  BY <1>1, <1>3, <1>4, <1>6 DEF KeepArgs, Stream
<1>8. /\ o \in Stream
      /\ o.out = k.out /\ o.started = k.started /\ o.kind = k.kind /\ o.block = k.block
      /\ o.open = k.open /\ o.next = k.next /\ o.tools = tools
  BY <1>6, <1>7 DEF Stream
<1>9. tools[t] = tool /\ \A u \in Tools : u # t => tools[u] = k.tools[u]
  BY <1>2, <1>6
<1>10. tool.index = k.tools[t].index /\ tool.started = k.tools[t].started
  BY <1>2, <1>4 DEF ToolStates
<1> QED
  BY <1>1, <1>8, <1>9, <1>10

\* ... than pending_args.
LEMMA KeepPending ==
    ASSUME NEW k \in Stream, NEW t \in Tools, NEW text
    PROVE  KeepArgs(k, t, text).tools[t].pending = k.tools[t].pending \o text
BY DEF KeepArgs, Stream, ToolStates

\* Arguments that wait are not said yet.
LEMMA TellKeep ==
    ASSUME NEW from, NEW ch, NEW k, NEW c, NEW w, Tells(from, ch, k, c, w),
           NEW t \in Tools, k.tools[t].index # NoBlock, ~k.tools[t].started, NEW text \in Seq(Fragment)
    PROVE  Tells(from, ch, KeepArgs(k, t, text), c, w)
<1>1. k \in Stream /\ Shape(k) /\ Blocks(c, k)
  BY DEF Tells
<1>2. PICK o : o = KeepArgs(k, t, text)
  OBVIOUS
<1>3. /\ o \in Stream
      /\ o.out = k.out /\ o.started = k.started /\ o.kind = k.kind /\ o.block = k.block
      /\ o.open = k.open /\ o.next = k.next
      /\ \A u \in Tools : u # t => o.tools[u] = k.tools[u]
  <2>1. /\ o \in Stream
        /\ o.out = k.out /\ o.started = k.started /\ o.kind = k.kind /\ o.block = k.block
        /\ o.open = k.open /\ o.next = k.next
    BY <1>1, <1>2, KeepFields
  <2>2. \A u \in Tools : u # t => o.tools[u] = k.tools[u]
    BY <1>1, <1>2, KeepFields
  <2> QED
    BY <2>1, <2>2
<1>5. o.tools[t].index = k.tools[t].index /\ o.tools[t].started = k.tools[t].started
  BY <1>1, <1>2, KeepFields
<1>6. \A u \in Tools : o.tools[u].index = k.tools[u].index /\ o.tools[u].started = k.tools[u].started
  BY <1>3, <1>5
<1>7. Shape(o)
  <2>1. \A u \in Tools : o.tools[u].started => o.tools[u].pending = <<>>
    BY <1>1, <1>3, <1>5 DEF Shape
  <2>2. \A u \in Tools : o.tools[u].index = NoBlock => o.tools[u] = NoTool
    BY <1>1, <1>3, <1>5 DEF Shape
  <2>3. /\ (o.kind = "none") <=> (o.block = NoBlock)
        /\ o.block # NoBlock => /\ o.block < o.next /\ o.block \notin o.open
                                /\ \A u \in Tools : o.tools[u].index # o.block
    BY <1>1, <1>3, <1>6 DEF Shape
  <2>4. \A u \in Tools : o.tools[u].index # NoBlock => o.tools[u].index < o.next
    BY <1>1, <1>3, <1>6 DEF Shape
  <2>5. \A u \in Tools, v \in Tools :
           o.tools[u].index = o.tools[v].index => (u = v \/ o.tools[u].index = NoBlock)
    BY <1>1, <1>6 DEF Shape
  <2>6. \A i \in o.open : \E u \in Tools : o.tools[u].index = i /\ o.tools[u].started
    BY <1>1, <1>3, <1>6 DEF Shape
  <2> QED
    BY <2>1, <2>2, <2>3, <2>4, <2>5, <2>6 DEF Shape
<1>8. Blocks(c, o)
  BY <1>1, <1>3, <1>6 DEF Blocks
<1> QED
  BY <1>2, <1>3, <1>6, <1>7, <1>8 DEF Tells

\* A delta for an open block of a tool.
LEMMA TellSay ==
    ASSUME NEW from, NEW ch \in Seq(Events), NEW k, NEW c, NEW w, Tells(from, ch, k, c, w),
           c.phase = "open", NEW t \in Tools, k.tools[t].index \in k.open, NEW text \in Seq(Fragment),
           Fits(c, t, text, w)
    PROVE  \E d : /\ Tells(from, ch, SendArgs(k, t, text), d, w) /\ d.phase = "open"
                  /\ d.got = Heard(c, t, text)
<1>1. /\ k \in Stream /\ c \in Client /\ Foreseen(from, ch \o k.out, c, w) /\ k.out \in Seq(Events)
      /\ Shape(k) /\ Blocks(c, k)
  BY DEF Tells, Stream
<1>2. ch \o k.out \in Seq(Events)
  BY <1>1, ConcatProperties
<1>3. PICK i \in Index : i = k.tools[t].index
  BY <1>1, Indices
<1>4. c.block[i] = "open" /\ t \in Sources
  BY <1>1, <1>3 DEF Blocks, Sources
<1>5. PICK e \in Events : e = BlockDelta(i, t, text)
  BY <1>4, EventTypes
<1>6. e.type = "content_block_delta" /\ e.index = i /\ e.source = t /\ e.text = text /\ Legal(c, e)
  BY <1>4, <1>5 DEF BlockDelta, Event, Legal
<1>7. Good(Read(c, e), w)
  BY <1>1, <1>2, <1>6, ForeseenGood, GoodDelta DEF Fits
<1>8. /\ Foreseen(from, ch \o (k.out \o <<e>>), Read(c, e), w) /\ Read(c, e) \in Client
      /\ k.out \o <<e>> \in Seq(Events)
  BY <1>1, <1>6, <1>7, Yielded
<1>9. PICK d \in Client : d = Read(c, e)
  BY <1>8
<1>10. d.phase = "open" /\ d.got = Heard(c, t, text) /\ d.block = c.block
  BY <1>6, <1>9 DEF Read, Heard
<1>11. PICK o : o = SendArgs(k, t, text)
  OBVIOUS
<1>12. o = [k EXCEPT !.out = k.out \o <<e>>]
  BY <1>3, <1>5, <1>11 DEF SendArgs, Yield
<1>13. /\ o \in Stream /\ o.out = k.out \o <<e>> /\ o.started = k.started /\ o.next = k.next
       /\ o.kind = k.kind /\ o.block = k.block /\ o.tools = k.tools /\ o.open = k.open
  BY <1>1, <1>8, <1>12 DEF Stream
<1>14. Shape(o) /\ Blocks(d, o)
  BY <1>1, <1>10, <1>13 DEF Shape, Blocks
<1>15. Tells(from, ch, o, d, w)
  BY <1>8, <1>9, <1>13, <1>14 DEF Tells
<1> QED
  BY <1>10, <1>11, <1>15

\* What an entry of tool_calls leaves alone, and the index of its tool.
LEMMA CallFields ==
    ASSUME NEW k \in Stream, Shape(k), AllOpen(k), NEW call \in ToolCall, NEW fragment \in Fragment,
           k.tools[call.index].index = NoBlock => k.next < Top
    PROVE  LET t == call.index
               o == AfterToolCall(k, call, fragment)
               fresh == k.tools[t].index = NoBlock
           IN  /\ t \in Tools /\ k.tools[t] \in ToolStates /\ o \in Stream
               /\ o.started = k.started /\ o.kind = k.kind /\ o.block = k.block
               /\ o.next = (IF fresh THEN k.next + 1 ELSE k.next)
               /\ o.tools[t].index = (IF fresh THEN k.next ELSE k.tools[t].index)
               /\ \A u \in Tools : u # t => o.tools[u] = k.tools[u]
               /\ AllOpen(o)
<1>1. PICK t \in Tools : t = call.index
  BY DEF ToolCall
<1>2. PICK old \in ToolStates : old = k.tools[t]
  BY DEF Stream
<1>3. PICK n : n = NoteCall(k, call)
  OBVIOUS
<1>4. /\ n \in Stream /\ n.started = k.started /\ n.kind = k.kind /\ n.block = k.block
      /\ n.open = k.open /\ n.next = (IF old.index = NoBlock THEN k.next + 1 ELSE k.next)
  BY <1>1, <1>2, <1>3, NoteFields
<1>5. \A u \in Tools : u # t => n.tools[u] = k.tools[u]
  BY <1>1, <1>3, NoteFields
<1>6. n.tools[t].index = (IF old.index = NoBlock THEN k.next ELSE old.index) /\ n.tools[t].started = old.started
  <2>1. n.tools[t] = [index |-> IF old.index = NoBlock THEN k.next ELSE old.index,
                      id |-> Update(old.id, call.id), name |-> Update(old.name, call.name),
                      started |-> old.started, pending |-> old.pending]
    BY <1>1, <1>2, <1>3, NoteFields
  <2> QED
    BY <2>1
<1>7. AllOpen(n)
  <2>1. old.started => old.index \in k.open
    BY <1>2 DEF AllOpen
  <2>2. old.index = NoBlock => ~old.started
    BY <1>2 DEF Shape, NoTool
  <2> QED
    BY <1>4, <1>5, <1>6, <2>1, <2>2 DEF AllOpen
<1>20. n.tools[t].index # NoBlock
  BY <1>2, <1>6, ConverterAssumption, ToolsCounted DEF Stream
<1>8. PICK g : g = IF ~n.tools[t].started /\ n.tools[t].id /\ n.tools[t].name THEN BeginTool(n, t) ELSE n
  OBVIOUS
<1>9. /\ g.started = n.started /\ g.kind = n.kind /\ g.block = n.block /\ g.next = n.next
      /\ g.tools[t].index = n.tools[t].index
      /\ \A u \in Tools : u # t => g.tools[u] = n.tools[u]
      /\ AllOpen(g) /\ g \in Stream
  <2>1. CASE g = n
    BY <2>1, <1>4, <1>7
  <2>2. CASE g = BeginTool(n, t)
    <3>0. Begun(n, t, g)
      BY <2>2, <1>4, <1>20, BeginFields
    <3>1. /\ g.started = n.started /\ g.kind = n.kind /\ g.block = n.block /\ g.next = n.next
          /\ g.open = n.open \cup {n.tools[t].index}
          /\ g.tools[t] = [n.tools[t] EXCEPT !.started = TRUE, !.pending = <<>>]
          /\ g \in Stream
      BY <3>0 DEF Begun
    <3>2. \A u \in Tools : u # t => g.tools[u] = n.tools[u]
      BY <3>0 DEF Begun
    <3>3. g.tools[t].index = n.tools[t].index
      BY <3>1, <1>4 DEF Stream, ToolStates
    <3>4. AllOpen(g)
      BY <3>1, <3>2, <3>3, <1>7 DEF AllOpen
    <3> QED
      BY <3>1, <3>2, <3>3, <3>4
  <2> QED
    BY <2>1, <2>2, <1>8
<1>10. PICK text \in Seq(Fragment) : text = IF call.args = "some" THEN <<fragment>> ELSE <<>>
  <2>1. <<fragment>> \in Seq(Fragment) /\ <<>> \in Seq(Fragment)
    OBVIOUS
  <2> QED
    BY <2>1
<1>11. PICK o : o = AfterToolCall(k, call, fragment)
  OBVIOUS
<1>12. o = IF ~g.tools[t].started THEN KeepArgs(g, t, text)
           ELSE IF call.args = "none" THEN g ELSE SendArgs(g, t, text)
  BY <1>1, <1>3, <1>8, <1>10, <1>11 DEF AfterToolCall
<1>14. /\ o \in Stream
       /\ o.started = g.started /\ o.kind = g.kind /\ o.block = g.block /\ o.next = g.next
       /\ o.tools[t].index = g.tools[t].index
       /\ \A u \in Tools : u # t => o.tools[u] = g.tools[u]
       /\ AllOpen(o)
  <2>1. CASE o = g
    BY <2>1, <1>9
  <2>2. CASE ~g.tools[t].started /\ o = KeepArgs(g, t, text)
    <3>1. /\ o.started = g.started /\ o.kind = g.kind /\ o.block = g.block /\ o.next = g.next
          /\ o.open = g.open /\ o \in Stream
          /\ o.tools[t].index = g.tools[t].index /\ o.tools[t].started = g.tools[t].started
      BY <2>2, <1>9, KeepFields
    <3>2. \A u \in Tools : u # t => o.tools[u] = g.tools[u]
      BY <2>2, <1>9, KeepFields
    <3>3. AllOpen(o)
      BY <3>1, <3>2, <1>9 DEF AllOpen
    <3> QED
      BY <3>1, <3>2, <3>3
  <2>3. CASE o = SendArgs(g, t, text)
    <3>1. /\ o.started = g.started /\ o.kind = g.kind /\ o.block = g.block /\ o.next = g.next
          /\ o.open = g.open /\ o.tools = g.tools
      BY <2>3, <1>9 DEF SendArgs, Yield, Stream
    <3>2. BlockDelta(g.tools[t].index, t, text) \in Events
      BY <1>9 DEF BlockDelta, Event, Events, Stream, ToolStates, Sources
    <3>3. g.out \o <<BlockDelta(g.tools[t].index, t, text)>> \in Seq(Events)
      <4>1. g.out \in Seq(Events) /\ <<BlockDelta(g.tools[t].index, t, text)>> \in Seq(Events)
        BY <3>2, <1>9 DEF Stream
      <4> QED
        BY <4>1, ConcatProperties
    <3>4. o \in Stream
      BY <2>3, <3>3, <1>9 DEF SendArgs, Yield, Stream
    <3> QED
      BY <3>1, <3>4, <1>9 DEF AllOpen
  <2> QED
    BY <2>1, <2>2, <2>3, <1>12
<1> QED
  BY <1>1, <1>2, <1>4, <1>5, <1>6, <1>9, <1>11, <1>14

\* An entry of tool_calls, seen by a client that reads it all.
LEMMA TellCall ==
    ASSUME NEW from, NEW ch \in Seq(Events), NEW k, NEW c, NEW w \in Worlds, Tells(from, ch, k, c, w),
           c.phase = "open", AllOpen(k), NEW call \in ToolCall, NEW fragment \in Fragment,
           k.tools[call.index].index = NoBlock => k.next < Top,
           w.tools[call.index].index = AfterToolCall(k, call, fragment).tools[call.index].index,
           Awaits(c, k, call.index, ArgsText(call, fragment), w)
    PROVE  \E d : /\ Tells(from, ch, AfterToolCall(k, call, fragment), d, w) /\ d.phase = "open"
                  /\ HeardCall(c, k, call.index, ArgsText(call, fragment), d, AfterToolCall(k, call, fragment))
<1>1. PICK t \in Tools : t = call.index
  BY DEF ToolCall
<1>2. k \in Stream /\ c \in Client /\ Shape(k)
  BY DEF Tells
<1>3. PICK old \in ToolStates : old = k.tools[t]
  BY <1>2 DEF Stream
<1>4. PICK text \in Seq(Fragment) : text = ArgsText(call, fragment)
  <2>1. <<fragment>> \in Seq(Fragment) /\ <<>> \in Seq(Fragment)
    OBVIOUS
  <2> QED
    BY <2>1 DEF ArgsText
<1>5. PICK o : o = AfterToolCall(k, call, fragment)
  OBVIOUS
<1>6. PICK n : n = NoteCall(k, call)
  OBVIOUS
<1>7. /\ n.open = k.open /\ n \in Stream
      /\ n.tools[t] = [index |-> IF old.index = NoBlock THEN k.next ELSE old.index,
                       id |-> Update(old.id, call.id), name |-> Update(old.name, call.name),
                       started |-> old.started, pending |-> old.pending]
  BY <1>1, <1>2, <1>3, <1>6, NoteFields
<1>8. /\ n.tools[t].index = (IF old.index = NoBlock THEN k.next ELSE old.index)
      /\ n.tools[t].started = old.started /\ n.tools[t].pending = old.pending
  BY <1>7
<1>9. n.tools[t].index # NoBlock
  BY <1>2, <1>3, <1>8, Indices
<1>10. w.tools[t].index = n.tools[t].index
  <2>1. o.tools[t].index = (IF old.index = NoBlock THEN k.next ELSE old.index)
    BY <1>1, <1>2, <1>3, <1>5, CallFields
  <2> QED
    BY <2>1, <1>1, <1>5, <1>8
<1>11. Tells(from, ch, n, c, w)
  BY <1>1, <1>6, <1>10, TellNote
<1>12. /\ old.pending \in Seq(Fragment) /\ c.got \in [Sources -> Seq(Fragment)] /\ t \in Sources
       /\ c.got[t] \in Seq(Fragment) /\ w.sent[t] \in Seq(Fragment)
  BY <1>2 DEF ToolStates, Client, Sources, Worlds
<1>13. PICK all \in Seq(Fragment) : all = c.got[t] \o old.pending
  BY <1>12, ConcatProperties
<1>14. Begins(all \o text, w.sent[t])
  BY <1>1, <1>3, <1>4, <1>13 DEF Awaits
<1>15. Begins(all, w.sent[t])
  BY <1>12, <1>14, BeginsPart
<1>16. PICK g : g = IF ~n.tools[t].started /\ n.tools[t].id /\ n.tools[t].name THEN BeginTool(n, t) ELSE n
  OBVIOUS
<1>17. o = IF ~g.tools[t].started THEN KeepArgs(g, t, text)
           ELSE IF call.args = "none" THEN g ELSE SendArgs(g, t, text)
  BY <1>1, <1>4, <1>5, <1>6, <1>16 DEF AfterToolCall, ArgsText
<1>18. call.args = "none" => text = <<>>
  BY <1>4 DEF ArgsText
\* The arguments wait.
<1>19. CASE ~g.tools[t].started
  <2>1. g = n
    <3>1. BeginTool(n, t).tools[t] = [n.tools[t] EXCEPT !.started = TRUE, !.pending = <<>>]
      <4>1. Begun(n, t, BeginTool(n, t))
        BY <1>7, <1>9, BeginFields
      <4> QED
        BY <4>1 DEF Begun
    <3>2. BeginTool(n, t).tools[t].started
      BY <3>1, <1>7 DEF Stream, ToolStates
    <3> QED
      BY <3>2, <1>16, <1>19
  <2>2. o = KeepArgs(n, t, text) /\ ~n.tools[t].started
    BY <2>1, <1>17, <1>19
  <2>3. Tells(from, ch, o, c, w)
    BY <2>2, <1>9, <1>11, TellKeep
  <2>4. o.tools[t].pending = old.pending \o text
    BY <2>2, <1>7, <1>8, KeepPending
  <2>5. c.got[t] \o (old.pending \o text) = all \o text
    <3>1. PICK got \in Seq(Fragment), pending \in Seq(Fragment) : got = c.got[t] /\ pending = old.pending
      BY <1>12
    <3>2. got \o (pending \o text) = (got \o pending) \o text
      BY Regrouped
    <3> QED
      BY <3>1, <3>2, <1>13
  <2>6. HeardCall(c, k, t, text, c, o)
    BY <2>4, <2>5, <1>3, <1>13 DEF HeardCall
  <2> QED
    BY <1>1, <1>4, <1>5, <2>3, <2>6
\* They go out, after what waited.
<1>20. CASE g.tools[t].started
  <2>1. \E b : /\ Tells(from, ch, g, b, w) /\ b.phase = "open" /\ b.got[t] = all
               /\ \A x \in Sources : x # t => b.got[x] = c.got[x]
    <3>1. CASE ~n.tools[t].started
      <4>1. g = BeginTool(n, t)
        BY <3>1, <1>16, <1>20
      <4>2. Fits(c, t, n.tools[t].pending, w)
        BY <1>8, <1>13, <1>15 DEF Fits
      <4>3. PICK b : /\ Tells(from, ch, g, b, w) /\ b.phase = "open"
                     /\ b.got = Heard(c, t, n.tools[t].pending)
        BY <3>1, <4>1, <4>2, <1>9, <1>11, TellBegin
      <4>4. b.got[t] = all /\ \A x \in Sources : x # t => b.got[x] = c.got[x]
        BY <4>3, <1>8, <1>12, <1>13 DEF Heard
      <4> QED
        BY <4>3, <4>4
    <3>2. CASE n.tools[t].started
      <4>1. g = n
        BY <3>2, <1>16
      <4>2. old.pending = <<>>
        BY <3>2, <1>2, <1>3, <1>8 DEF Shape
      <4>3. c.got[t] = all
        BY <4>2, <1>12, <1>13, ConcatEmptySeq
      <4> QED
        BY <4>1, <4>3, <1>11
    <3> QED
      BY <3>1, <3>2
  <2>2. PICK b : /\ Tells(from, ch, g, b, w) /\ b.phase = "open" /\ b.got[t] = all
                 /\ \A x \in Sources : x # t => b.got[x] = c.got[x]
    BY <2>1
  <2>3. g \in Stream /\ Shape(g) /\ b \in Client
    BY <2>2 DEF Tells
  <2>4. g.tools[t].pending = <<>>
    BY <1>20, <2>3 DEF Shape
  <2>5. g.tools[t].index \in g.open
    <3>1. CASE g = n
      <4>1. old.started /\ old.index \in k.open
        BY <3>1, <1>3, <1>8, <1>20 DEF AllOpen
      <4>2. old.index # NoBlock
        BY <4>1, <1>2, Indices
      <4> QED
        BY <3>1, <4>1, <4>2, <1>7, <1>8
    <3>2. CASE g = BeginTool(n, t)
      <4>1. g.open = n.open \cup {n.tools[t].index}
            /\ g.tools[t] = [n.tools[t] EXCEPT !.started = TRUE, !.pending = <<>>]
        <5>1. Begun(n, t, g)
          BY <3>2, <1>7, <1>9, BeginFields
        <5> QED
          BY <5>1 DEF Begun
      <4>2. g.tools[t].index = n.tools[t].index
        BY <4>1, <1>7 DEF Stream, ToolStates
      <4> QED
        BY <4>1, <4>2
    <3> QED
      BY <3>1, <3>2, <1>16
  <2>6. CASE call.args = "none"
    <3>1. o = g
      BY <2>6, <1>17, <1>20
    <3>2. all \o <<>> = all
      BY ConcatEmptySeq
    <3>3. b.got[t] \o o.tools[t].pending = all \o text
      BY <2>2, <2>4, <2>6, <3>1, <1>18
    <3>4. HeardCall(c, k, t, text, b, o)
      BY <2>2, <3>3, <1>3, <1>13 DEF HeardCall
    <3> QED
      BY <1>1, <1>4, <1>5, <2>2, <3>1, <3>4
  <2>7. CASE call.args # "none"
    <3>1. o = SendArgs(g, t, text)
      BY <2>7, <1>17, <1>20
    <3>2. Fits(b, t, text, w)
      BY <2>2, <1>14 DEF Fits
    <3>3. PICK d : Tells(from, ch, o, d, w) /\ d.phase = "open" /\ d.got = Heard(b, t, text)
      BY <2>2, <2>5, <3>1, <3>2, TellSay
    <3>4. d.got[t] = all \o text /\ \A x \in Sources : x # t => d.got[x] = c.got[x]
      BY <2>2, <2>3, <3>3, <1>12 DEF Heard, Client
    <3>5. o.tools = g.tools
      BY <2>3, <3>1 DEF SendArgs, Yield, Stream
    <3>6. all \o text \in Seq(Fragment)
      BY ConcatProperties
    <3>7. d.got[t] \o o.tools[t].pending = all \o text
      BY <2>4, <3>4, <3>5, <3>6, ConcatEmptySeq
    <3>8. HeardCall(c, k, t, text, d, o)
      BY <3>4, <3>7, <1>3, <1>13 DEF HeardCall
    <3> QED
      BY <1>1, <1>4, <1>5, <3>3, <3>8
  <2> QED
    BY <2>6, <2>7
<1> QED
  BY <1>19, <1>20

-----------------------------------------------------------------------------
(* The fragments of the calls still to be handled. *)

\* There is a function with the recursion of ArgsAfter, which defines it by
\* CHOOSE: by induction over the number of calls from the last one on.
LEMMA ArgsExist ==
    ASSUME NEW calls \in Seq(ToolCall), NEW n \in Nat, NEW tool
    PROVE  \E args \in [0 .. Len(calls) -> Seq(Fragment)] :
              \A i \in 0 .. Len(calls) : args[i] = ArgsOf(calls, n, tool, args, i)
<1>1. PICK len \in Nat : len = Len(calls)
  BY LenProperties
<1>2. PICK S : S = {m \in Nat : m <= len =>
                      \E args \in [len - m .. len -> Seq(Fragment)] :
                         \A i \in len - m .. len : args[i] = ArgsOf(calls, n, tool, args, i)}
  OBVIOUS
<1>8. \A m : m \in S <=> (m \in Nat /\ (m <= len =>
                      \E args \in [len - m .. len -> Seq(Fragment)] :
                         \A i \in len - m .. len : args[i] = ArgsOf(calls, n, tool, args, i)))
  BY <1>2, Zenon
<1>3. S \in SUBSET Nat
  BY <1>2
<1>4. 0 \in S
  <2>1. PICK args : args = [i \in len - 0 .. len |-> <<>>]
    OBVIOUS
  <2>2. args \in [len - 0 .. len -> Seq(Fragment)]
    BY <2>1
  <2>3. \A i \in len - 0 .. len : args[i] = ArgsOf(calls, n, tool, args, i)
    BY <2>1, <1>1 DEF ArgsOf
  <2> QED
    BY <2>2, <2>3, <1>2
<1>5. ASSUME NEW m \in S PROVE m + 1 \in S
  <2>1. m \in Nat
    BY <1>3
  <2> SUFFICES ASSUME m + 1 <= len
               PROVE  \E args \in [len - (m + 1) .. len -> Seq(Fragment)] :
                         \A i \in len - (m + 1) .. len : args[i] = ArgsOf(calls, n, tool, args, i)
    <3>1. PICK j \in Nat : j = m + 1
      BY <2>1
    <3> QED
      BY <1>8, <3>1, Zenon
  <2>2. PICK old \in [len - m .. len -> Seq(Fragment)] :
           \A i \in len - m .. len : old[i] = ArgsOf(calls, n, tool, old, i)
    BY <1>2, <2>1
  <2>3. PICK first \in Nat : first = len - (m + 1) /\ first + 1 = len - m /\ first < len
    BY <2>1
  <2>4. first + 1 \in len - m .. len
    BY <2>1, <2>3
  <2>5. PICK text \in Seq(Fragment) : text = ArgsOf(calls, n, tool, old, first)
    <3>1. old[first + 1] \in Seq(Fragment)
      BY <2>4
    <3>2. <<n, first + 1>> \in Fragment
      BY <2>3 DEF Fragment
    <3>3. <<<<n, first + 1>>>> \o old[first + 1] \in Seq(Fragment)
      <4>1. <<<<n, first + 1>>>> \in Seq(Fragment)
        BY <3>2
      <4> QED
        BY <3>1, <4>1, ConcatProperties
    <3>4. ArgsOf(calls, n, tool, old, first) =
            IF calls[first + 1].index = tool /\ calls[first + 1].args = "some"
            THEN <<<<n, first + 1>>>> \o old[first + 1] ELSE old[first + 1]
      BY <2>3, <1>1 DEF ArgsOf
    <3> QED
      BY <3>1, <3>3, <3>4
  <2>6. PICK args : args = [i \in first .. len |-> IF i = first THEN text ELSE old[i]]
    OBVIOUS
  <2>7. /\ args \in [first .. len -> Seq(Fragment)]
        /\ \A i \in len - m .. len : args[i] = old[i]
    BY <2>1, <2>2, <2>3, <2>6
  <2>8. ASSUME NEW i \in first .. len PROVE args[i] = ArgsOf(calls, n, tool, args, i)
    <3>1. CASE i = first
      <4>1. args[i] = text /\ args[i + 1] = old[i + 1]
        BY <2>3, <2>4, <2>6, <2>7, <3>1
      <4> QED
        BY <4>1, <2>5, <3>1 DEF ArgsOf
    <3>2. CASE i # first /\ i # len
      <4>1. i \in len - m .. len /\ i + 1 \in len - m .. len
        BY <2>1, <2>3, <3>2
      <4>2. args[i] = old[i] /\ args[i + 1] = old[i + 1]
        BY <4>1, <2>7
      <4> QED
        BY <4>1, <4>2, <2>2 DEF ArgsOf
    <3>3. CASE i # first /\ i = len
      <4>1. i \in len - m .. len
        BY <2>1, <2>3, <3>3
      <4> QED
        BY <4>1, <3>3, <2>2, <2>7, <1>1 DEF ArgsOf
    <3> QED
      BY <3>1, <3>2, <3>3
  <2> QED
    BY <2>3, <2>7, <2>8
<1>6. S = Nat
  BY <1>3, <1>4, <1>5, Induction
<1>7. len \in S /\ len - len = 0 /\ len <= len
  BY <1>6
<1> QED
  BY <1>1, <1>2, <1>7

\* So ArgsAfter has the recursion.
LEMMA ArgsUnroll ==
    ASSUME NEW calls \in Seq(ToolCall), NEW n \in Nat, NEW tool
    PROVE  /\ ArgsAfter(calls, n, tool) \in [0 .. Len(calls) -> Seq(Fragment)]
           /\ \A i \in 0 .. Len(calls) :
                 ArgsAfter(calls, n, tool)[i] = ArgsOf(calls, n, tool, ArgsAfter(calls, n, tool), i)
<1>1. PICK all \in [0 .. Len(calls) -> Seq(Fragment)] :
         \A i \in 0 .. Len(calls) : all[i] = ArgsOf(calls, n, tool, all, i)
  BY ArgsExist
<1>2. all = [i \in 0 .. Len(calls) |->
               IF i = Len(calls) THEN <<>>
               ELSE IF calls[i + 1].index = tool /\ calls[i + 1].args = "some"
                    THEN <<<<n, i + 1>>>> \o all[i + 1]
                    ELSE all[i + 1]]
  BY <1>1 DEF ArgsOf
<1>3. PICK args : args = ArgsAfter(calls, n, tool)
  OBVIOUS
<1>4. args = [i \in 0 .. Len(calls) |->
                IF i = Len(calls) THEN <<>>
                ELSE IF calls[i + 1].index = tool /\ calls[i + 1].args = "some"
                     THEN <<<<n, i + 1>>>> \o args[i + 1]
                     ELSE args[i + 1]]
  BY <1>2, <1>3 DEF ArgsAfter
<1>5. PICK len \in Nat : len = Len(calls)
  BY LenProperties
<1>6. \A i \in 0 .. len : args[i] = ArgsOf(calls, n, tool, args, i)
  BY <1>4, <1>5 DEF ArgsOf
<1>7. PICK S : S = {m \in Nat : m <= len => args[len - m] \in Seq(Fragment)}
  OBVIOUS
<1>8. 0 \in S
  <2>1. len \in 0 .. len
    OBVIOUS
  <2>2. args[len] = ArgsOf(calls, n, tool, args, len)
    BY <1>6, <2>1
  <2>3. ArgsOf(calls, n, tool, args, len) = <<>>
    BY <1>5 DEF ArgsOf
  <2>4. args[len] \in Seq(Fragment) /\ len - 0 = len
    BY <2>2, <2>3
  <2> QED
    BY <2>4, <1>7
<1>9. ASSUME NEW m \in S PROVE m + 1 \in S
  <2>1. m \in Nat
    BY <1>7
  <2> SUFFICES ASSUME m + 1 <= len PROVE args[len - (m + 1)] \in Seq(Fragment)
    BY <1>7, <2>1
  <2>2. PICK i \in Nat : i = len - (m + 1) /\ i + 1 = len - m /\ i < len
    BY <2>1
  <2>3. args[i + 1] \in Seq(Fragment)
    BY <1>7, <2>1, <2>2
  <2>4. <<<<n, i + 1>>>> \o args[i + 1] \in Seq(Fragment)
    <3>1. <<n, i + 1>> \in Fragment
      BY <2>2 DEF Fragment
    <3>2. <<<<n, i + 1>>>> \in Seq(Fragment)
      BY <3>1
    <3> QED
      BY <2>3, <3>2, ConcatProperties
  <2>5. args[i] = ArgsOf(calls, n, tool, args, i)
    BY <1>6, <2>2
  <2>6. ArgsOf(calls, n, tool, args, i) =
          IF calls[i + 1].index = tool /\ calls[i + 1].args = "some"
          THEN <<<<n, i + 1>>>> \o args[i + 1] ELSE args[i + 1]
    BY <1>5, <2>2 DEF ArgsOf
  <2> QED
    BY <2>2, <2>3, <2>4, <2>5, <2>6
<1>10. S = Nat
  <2>1. S \in SUBSET Nat
    BY <1>7
  <2> QED
    BY <2>1, <1>8, <1>9, Induction
<1>11. ASSUME NEW i \in 0 .. len PROVE args[i] \in Seq(Fragment)
  <2>1. len - i \in S /\ len - i <= len /\ len - (len - i) = i
    BY <1>10
  <2> QED
    BY <2>1, <1>7
<1>12. args \in [0 .. len -> Seq(Fragment)]
  BY <1>4, <1>5, <1>11
<1> QED
  BY <1>3, <1>5, <1>6, <1>12

\* all is what text and rest are together.
Joins(all, text, rest) == all = text \o rest

\* What the call after the i-th has for a tool.
CallText(calls, n, tool, i) ==
    IF calls[i + 1].index = tool THEN ArgsText(calls[i + 1], <<n, i + 1>>) ELSE <<>>

\* From one call to the next.
LEMMA ArgsNext ==
    ASSUME NEW calls \in Seq(ToolCall), NEW n \in Nat, NEW tool, NEW i \in Nat, i < Len(calls)
    PROVE  /\ ArgsAfter(calls, n, tool)[i + 1] \in Seq(Fragment)
           /\ Joins(ArgsAfter(calls, n, tool)[i], CallText(calls, n, tool, i), ArgsAfter(calls, n, tool)[i + 1])
<1>1. PICK args : args = ArgsAfter(calls, n, tool)
  OBVIOUS
<1>2. Len(calls) \in Nat
  BY LenProperties
<1>3. i \in 0 .. Len(calls) /\ i + 1 \in 0 .. Len(calls) /\ i # Len(calls)
  BY <1>2
<1>4. args[i + 1] \in Seq(Fragment) /\ args[i] = ArgsOf(calls, n, tool, args, i)
  BY <1>1, <1>3, ArgsUnroll
<1>5. <<>> \o args[i + 1] = args[i + 1]
  BY <1>4, ConcatEmptySeq
<1>6. args[i] = CallText(calls, n, tool, i) \o args[i + 1]
  BY <1>3, <1>4, <1>5 DEF ArgsOf, ArgsText, CallText
<1> QED
  BY <1>1, <1>4, <1>6 DEF Joins

\* After the last call there is nothing.
LEMMA ArgsDone ==
    ASSUME NEW calls \in Seq(ToolCall), NEW n \in Nat, NEW tool
    PROVE  ArgsAfter(calls, n, tool)[Len(calls)] = <<>>
<1>1. Len(calls) \in 0 .. Len(calls)
  BY LenProperties
<1> QED
  BY <1>1, ArgsUnroll DEF ArgsOf

-----------------------------------------------------------------------------
(* The end of a message. *)

\* An event about the whole message, after what the converter k has said.
LEMMA TellMessage ==
    ASSUME NEW from, NEW ch \in Seq(Events), NEW k, NEW c, NEW w, Tells(from, ch, k, c, w),
           NEW e \in Events, Legal(c, e), Good(Read(c, e), w),
           e.type \in {"message_delta", "message_stop", "error"}
    PROVE  /\ Tells(from, ch, Yield(k, <<e>>), Read(c, e), w)
           /\ Read(c, e).got = c.got
<1>1. k \in Stream /\ c \in Client /\ Foreseen(from, ch \o k.out, c, w) /\ k.out \in Seq(Events)
      /\ Shape(k) /\ Blocks(c, k)
  BY DEF Tells, Stream
<1>2. PICK d \in Client : d = Read(c, e)
  BY ReadType, <1>1
<1>3. Foreseen(from, ch \o (k.out \o <<e>>), d, w) /\ k.out \o <<e>> \in Seq(Events)
  BY <1>1, <1>2, Yielded
<1>4. d.got = c.got /\ d.block = c.block
  BY <1>2 DEF Read
<1>5. PICK o : o = Yield(k, <<e>>)
  OBVIOUS
<1>6. /\ o \in Stream /\ o.out = k.out \o <<e>> /\ o.started = k.started /\ o.next = k.next
      /\ o.kind = k.kind /\ o.block = k.block /\ o.tools = k.tools /\ o.open = k.open
  BY <1>1, <1>3, <1>5 DEF Yield, Stream
<1>7. Shape(o) /\ Blocks(d, o)
  BY <1>1, <1>4, <1>6 DEF Shape, Blocks
<1>8. Tells(from, ch, o, d, w)
  BY <1>3, <1>6, <1>7 DEF Tells
<1> QED
  BY <1>2, <1>4, <1>5, <1>8

\* The stop of a tool's block.
LEMMA TellStopTool ==
    ASSUME NEW from, NEW ch \in Seq(Events), NEW k, NEW c, NEW w, Tells(from, ch, k, c, w),
           c.phase = "open", NEW i \in k.open
    PROVE  \E d : /\ Tells(from, ch, CloseTool(k, i), d, w)
                  /\ d.phase = "open" /\ d.got = c.got
<1>1. k \in Stream /\ c \in Client /\ Foreseen(from, ch \o k.out, c, w) /\ k.out \in Seq(Events)
      /\ Shape(k) /\ Blocks(c, k)
  BY DEF Tells, Stream
<1>2. ch \o k.out \in Seq(Events)
  BY <1>1, ConcatProperties
<1>3. i \in Index /\ i \in Nat /\ i < k.next /\ k.next \in Nat
  BY <1>1, Indices, ToolsCounted
<1>4. PICK e \in Events : e = BlockStop(i)
  BY <1>3, EventTypes
<1>5. e.type = "content_block_stop" /\ e.index = i /\ Legal(c, e)
  BY <1>1, <1>3, <1>4 DEF BlockStop, Event, Legal, Blocks
<1>6. Good(Read(c, e), w)
  BY <1>1, <1>2, <1>5, ForeseenGood, GoodQuiet
<1>7. /\ Foreseen(from, ch \o (k.out \o <<e>>), Read(c, e), w) /\ Read(c, e) \in Client
      /\ k.out \o <<e>> \in Seq(Events)
  BY <1>1, <1>5, <1>6, Yielded
<1>8. PICK d \in Client : d = Read(c, e)
  BY <1>7
<1>9. d.phase = "open" /\ d.got = c.got /\ d.block = [c.block EXCEPT ![i] = "closed"]
  BY <1>5, <1>8 DEF Read
<1>10. PICK o : o = CloseTool(k, i)
  OBVIOUS
<1>11. /\ o \in Stream /\ o.out = k.out \o <<e>> /\ o.started = k.started /\ o.next = k.next
       /\ o.kind = k.kind /\ o.block = k.block /\ o.tools = k.tools /\ o.open = k.open \ {i}
  BY <1>1, <1>4, <1>7, <1>10 DEF CloseTool, Yield, Stream
<1>12. Shape(o)
  BY <1>1, <1>11 DEF Shape
<1>13. \A j \in Index : d.block[j] = IF j = i THEN "closed" ELSE c.block[j]
  BY <1>1, <1>9 DEF Client
<1>14. i # k.block
  <2>1. i # NoBlock
    BY <1>3, ConverterAssumption
  <2> QED
    BY <2>1, <1>1 DEF Shape
<1>15. Blocks(d, o)
  <2> SUFFICES ASSUME NEW j \in Index
               PROVE  /\ j >= o.next => d.block[j] = "unused"
                      /\ (d.block[j] = "open") <=> (j = o.block \/ j \in o.open)
                      /\ j < o.next => ((d.block[j] = "unused") <=>
                            (\E t \in Tools : o.tools[t].index = j /\ ~o.tools[t].started))
    BY DEF Blocks
  <2>1. /\ j >= k.next => c.block[j] = "unused"
        /\ (c.block[j] = "open") <=> (j = k.block \/ j \in k.open)
        /\ j < k.next => ((c.block[j] = "unused") <=>
              (\E t \in Tools : k.tools[t].index = j /\ ~k.tools[t].started))
    BY <1>1 DEF Blocks
  <2>2. CASE j = i
    BY <2>1, <2>2, <1>3, <1>11, <1>13, <1>14
  <2>3. CASE j # i
    BY <2>1, <2>3, <1>11, <1>13
  <2> QED
    BY <2>2, <2>3
<1>16. Tells(from, ch, o, d, w)
  BY <1>7, <1>8, <1>11, <1>12, <1>15 DEF Tells
<1> QED
  BY <1>9, <1>10, <1>16

-----------------------------------------------------------------------------
(* Every step keeps the invariant. *)

\* The world of a state is a world.
LEMMA WorldType ==
    ASSUME TypeOK
    PROVE  World \in Worlds
BY DEF TypeOK, World, Worlds, Stream

\* The same of the state after a step.
LEMMA WorldType2 ==
    ASSUME TypeOK'
    PROVE  World' \in Worlds
BY DEF TypeOK, World, Worlds, Stream

\* The client that has read everything, in a world that has gone on.
LEMMA JoinedTells ==
    ASSUME NEW a, NEW ch, NEW c, NEW v \in Worlds, TypeOK, Shape(s), Blocks(c, s), c \in Client,
           Foreseen(a, ch \o s.out, c, World), Later(World, v),
           \A t \in Tools : s.tools[t].index # NoBlock => v.tools[t].index = s.tools[t].index
    PROVE  Tells(a, ch, s, c, v)
<1>1. World \in Worlds
  BY WorldType
<1>2. Foreseen(a, ch \o s.out, c, v)
  BY <1>1, ForeseenLater
<1> QED
  BY <1>2 DEF Tells, TypeOK

\* The converter has said nothing, and the client has read nothing.
LEMMA InitInv == Init => Inv
<1> SUFFICES ASSUME Init PROVE Inv
  OBVIOUS
<1>1. TypeOK
  <2>1. s \in Stream
    BY ToolsCounted DEF Init, FreshStream, Stream, NoTool, ToolStates
  <2>2. client \in Client /\ sent \in [Sources -> Seq(Fragment)]
    BY DEF Init, Client
  <2>3. chunk \in [calls : Seq(ToolCall), finish : BOOLEAN, usage : BOOLEAN, handled : Nat]
    BY DEF Init, NoChunk
  <2>4. channel \in Seq(Events) /\ Len(channel) <= Capacity /\ chunks \in 0 .. MaxChunks
    BY ConverterAssumption DEF Init
  <2> QED
    BY <2>1, <2>2, <2>3, <2>4 DEF Init, TypeOK
<1>2. Shape(s)
  BY DEF Init, FreshStream, Shape, NoTool
<1>3. Place
  BY DEF Init, Place
<1>4. Counts
  <2>1. Known(s) = {}
    BY DEF Init, FreshStream, Known, NoTool
  <2>2. AllOpen(s)
    BY DEF Init, FreshStream, AllOpen, NoTool
  <2>3. Cardinality(Known(s)) = 0
    BY <2>1, FS_EmptySet
  <2> QED
    BY <2>2, <2>3 DEF Init, FreshStream, Counts
<1>5. Good(client, World)
  <2>1. <<>> = <<>> \o <<>> /\ <<>> \in Seq(Fragment)
    OBVIOUS
  <2>2. \A x \in Sources : Begins(client.got[x], World.sent[x])
    BY <2>1 DEF Init, World, Begins
  <2>3. ~Over(client) /\ InOrder(client, World)
    BY DEF Init, Over, InOrder
  <2> QED
    BY <2>2, <2>3 DEF Good
<1>6. Joined
  <2>1. channel \o s.out = <<>> /\ channel \in Seq(Events) /\ client \in Client
    BY <1>1 DEF Init, FreshStream, TypeOK
  <2>2. Foreseen(client, channel \o s.out, client, World)
    BY <1>5, <2>1, ForeseenNothing
  <2>3. Agrees(client)
    <3>1. client.phase = "waiting" /\ ~s.started
      BY DEF Init, FreshStream
    <3>2. Blocks(client, s)
      BY ToolsCounted, ConverterAssumption DEF Init, FreshStream, Blocks
    <3>3. \A x \in Kinds : sent[x] = client.got[x]
      BY DEF Init, Kinds, Sources
    <3>4. \A t \in Tools : sent[t] = (client.got[t] \o s.tools[t].pending) \o Rest(t)
      <4> SUFFICES ASSUME NEW t \in Tools PROVE sent[t] = (client.got[t] \o s.tools[t].pending) \o Rest(t)
        OBVIOUS
      <4>1. sent[t] = <<>> /\ client.got[t] = <<>> /\ s.tools[t].pending = <<>>
        BY DEF Init, Sources, FreshStream, NoTool
      <4>2. Rest(t) = <<>>
        <5>1. <<>> \in Seq(ToolCall) /\ Len(<<>>) = 0 /\ 0 \in Nat
          OBVIOUS
        <5>2. ArgsAfter(<<>>, 0, t)[0] = <<>>
          BY <5>1, ArgsDone
        <5> QED
          BY <5>2 DEF Init, NoChunk, Rest
      <4> QED
        BY <4>1, <4>2
    <3> QED
      BY <3>1, <3>2, <3>3, <3>4 DEF Agrees
  <2> QED
    BY <2>1, <2>2, <2>3 DEF Joined
<1> QED
  BY <1>1, <1>2, <1>3, <1>4, <1>5, <1>6 DEF Inv

\* A step that says nothing and leaves the chunk where it was.
LEMMA QuietStep ==
    ASSUME Inv, TypeOK', Place', Counts', Later(World, World'),
           UNCHANGED <<s, sent, client, channel, connected>>,
           Talking' => (Talking /\ UNCHANGED <<chunk, chunks, upstream, pc>>)
    PROVE  Inv'
<1>1. World \in Worlds /\ client \in Client
  BY WorldType DEF Inv, TypeOK
<1>2. PICK v \in Worlds : v = World'
  BY WorldType2
<1>3. Good(client, v)
  BY <1>1, <1>2, GoodLater DEF Inv
<1>4. Good(client, World)'
  BY <1>2, <1>3
<1>5. PICK a, ch, c :
        /\ a \in Client /\ ch \in Seq(Events)
        /\ connected => a = client /\ ch = channel
        /\ Foreseen(a, ch \o s.out, c, World)
        /\ Talking => Agrees(c)
  BY DEF Inv, Joined
<1>6. Foreseen(a, ch \o s.out, c, v)
  BY <1>1, <1>2, <1>5, ForeseenLater
<1>7. Talking' => Agrees(c)'
  <2> SUFFICES ASSUME Talking' PROVE Agrees(c)'
    OBVIOUS
  <2>1. Agrees(c) /\ UNCHANGED <<chunk, chunks, upstream, pc>>
    BY <1>5
  <2>2. \A t \in Tools : Rest(t)' = Rest(t)
    BY <2>1 DEF Rest
  <2> QED
    BY <2>1, <2>2 DEF Agrees
<1>8. Joined'
  <2>1. (connected => a = client /\ ch = channel)'
    BY <1>5
  <2>2. Foreseen(a, ch \o s'.out, c, World')
    BY <1>2, <1>6
  <2> QED
    BY <1>5, <1>7, <2>1, <2>2 DEF Joined
<1>9. Shape(s)'
  BY DEF Inv
<1> QED
  BY <1>4, <1>8, <1>9 DEF Inv

\* A step of the converter, after which a client that has read everything is d.
LEMMA ConverterStep ==
    ASSUME Inv, TypeOK', Place', Counts', Later(World, World'),
           UNCHANGED <<client, channel, connected>>,
           NEW a \in Client, NEW ch \in Seq(Events), connected => a = client /\ ch = channel,
           NEW d, Tells(a, ch, s', d, World'),
           Talking' => Agrees(d)'
    PROVE  Inv'
<1>1. World \in Worlds /\ client \in Client
  BY WorldType DEF Inv, TypeOK
<1>2. PICK v \in Worlds : v = World'
  BY WorldType2
<1>3. Good(client, v)
  BY <1>1, <1>2, GoodLater DEF Inv
<1>4. Good(client, World)'
  BY <1>2, <1>3
<1>5. Shape(s') /\ Foreseen(a, ch \o s'.out, d, World')
  BY DEF Tells
<1>6. Joined'
  <2>1. (connected => a = client /\ ch = channel)'
    OBVIOUS
  <2> QED
    BY <1>5, <2>1 DEF Joined
<1>7. Shape(s)'
  BY <1>5
<1> QED
  BY <1>4, <1>6, <1>7 DEF Inv

\* The loop breaks without a word.
LEMMA UpstreamClosesInv == Inv /\ UpstreamCloses => Inv'
<1> SUFFICES ASSUME Inv, UpstreamCloses PROVE Inv'
  OBVIOUS
<1>1. TypeOK'
  BY DEF Inv, TypeOK, UpstreamCloses, input
<1>2. Place'
  BY DEF Inv, Place, UpstreamCloses, Reading, input
<1>3. Counts'
  <2>1. Known(s)' = Known(s) /\ AllOpen(s)' = AllOpen(s)
    BY DEF UpstreamCloses, Known, AllOpen
  <2>2. chunk.handled = 0 /\ chunk.calls = <<>>
    BY DEF Inv, Place, UpstreamCloses, Reading, NoChunk
  <2> QED
    BY <2>1, <2>2 DEF Inv, Counts, UpstreamCloses, input, Talking
<1>4. Later(World, World')
  BY BeginsItself DEF Inv, TypeOK, UpstreamCloses, Reading, input, Later, World
<1>5. UNCHANGED <<s, sent, client, channel, connected>> /\ ~Talking'
  BY DEF UpstreamCloses, input, Talking
<1> QED
  BY <1>1, <1>2, <1>3, <1>4, <1>5, QuietStep

\* The deadline passes.
LEMMA DeadlineInv == Inv /\ Deadline => Inv'
<1> SUFFICES ASSUME Inv, Deadline PROVE Inv'
  OBVIOUS
<1>1. TypeOK'
  BY DEF Inv, TypeOK, Deadline, proxy, input
<1>2. Place'
  BY DEF Inv, Place, Deadline, proxy, input
<1>3. Counts'
  <2>1. Known(s)' = Known(s) /\ AllOpen(s)' = AllOpen(s)
    BY DEF Deadline, proxy, Known, AllOpen
  <2> QED
    BY <2>1 DEF Inv, Counts, Deadline, proxy, input, Talking
<1>4. Later(World, World')
  BY BeginsItself DEF Inv, TypeOK, Deadline, proxy, input, Later, World
<1>5. /\ UNCHANGED <<s, sent, client, channel, connected>>
      /\ Talking' => (Talking /\ UNCHANGED <<chunk, chunks, upstream, pc>>)
  BY DEF Deadline, proxy, input, Talking
<1> QED
  BY <1>1, <1>2, <1>3, <1>4, <1>5, QuietStep

\* The usage is logged.
LEMMA RecordInv == Inv /\ Record => Inv'
<1> SUFFICES ASSUME Inv, Record PROVE Inv'
  OBVIOUS
<1>1. TypeOK'
  BY DEF Inv, TypeOK, Record, input
<1>2. Place'
  BY DEF Inv, Place, Record, input
<1>3. Counts'
  <2>1. Known(s)' = Known(s) /\ AllOpen(s)' = AllOpen(s)
    BY DEF Record, Known, AllOpen
  <2>2. chunk' = chunk /\ ~Talking'
    BY DEF Record, Talking
  <2> QED
    BY <2>1, <2>2 DEF Inv, Counts, Record, input, Talking
<1>4. Later(World, World')
  BY BeginsItself DEF Inv, TypeOK, Record, input, Later, World
<1>5. UNCHANGED <<s, sent, client, channel, connected>> /\ ~Talking'
  BY DEF Record, input, Talking
<1> QED
  BY <1>1, <1>2, <1>3, <1>4, <1>5, QuietStep

\* The usage-only chunk completes the counts.
LEMMA ReceiveUsageInv == Inv /\ ReceiveUsage => Inv'
<1> SUFFICES ASSUME Inv, ReceiveUsage PROVE Inv'
  OBVIOUS
<1>1. TypeOK'
  BY DEF Inv, TypeOK, ReceiveUsage
<1>2. Place'
  BY DEF Inv, Place, ReceiveUsage, Readable, Reading
<1>3. Counts'
  <2>1. Known(s)' = Known(s) /\ AllOpen(s)' = AllOpen(s)
    BY DEF ReceiveUsage, Known, AllOpen
  <2> QED
    BY <2>1 DEF Inv, Counts, ReceiveUsage, Talking
<1>4. Later(World, World')
  BY BeginsItself DEF Inv, TypeOK, ReceiveUsage, Later, World
<1>5. /\ UNCHANGED <<s, sent, client, channel, connected>>
      /\ Talking' => (Talking /\ UNCHANGED <<chunk, chunks, upstream, pc>>)
  BY DEF ReceiveUsage, Talking
<1> QED
  BY <1>1, <1>2, <1>3, <1>4, <1>5, QuietStep

\* Nothing happens.
LEMMA StutterInv == Inv /\ UNCHANGED vars => Inv'
<1> SUFFICES ASSUME Inv, UNCHANGED vars PROVE Inv'
  OBVIOUS
<1>1. TypeOK'
  BY DEF Inv, TypeOK, vars, proxy, input
<1>2. Place'
  BY DEF Inv, Place, vars, proxy, input
<1>3. Counts'
  <2>1. Known(s)' = Known(s) /\ AllOpen(s)' = AllOpen(s)
    BY DEF vars, proxy, Known, AllOpen
  <2> QED
    BY <2>1 DEF Inv, Counts, vars, proxy, input, Talking
<1>4. Later(World, World')
  BY BeginsItself DEF Inv, TypeOK, vars, proxy, input, Later, World
<1>5. /\ UNCHANGED <<s, sent, client, channel, connected>>
      /\ Talking' => (Talking /\ UNCHANGED <<chunk, chunks, upstream, pc>>)
  BY DEF vars, proxy, input, Talking
<1> QED
  BY <1>1, <1>2, <1>3, <1>4, <1>5, QuietStep

\* The client that has read everything knows the blocks.
LEMMA JoinedWhileTalking ==
    ASSUME Inv, Talking
    PROVE  \E a, ch, c :
              /\ a \in Client /\ ch \in Seq(Events)
              /\ connected => a = client /\ ch = channel
              /\ c \in Client /\ Good(c, World) /\ Agrees(c)
              /\ Foreseen(a, ch \o s.out, c, World)
              /\ Tells(a, ch, s, c, World)
<1>1. PICK a, ch, c :
        /\ a \in Client /\ ch \in Seq(Events)
        /\ connected => a = client /\ ch = channel
        /\ Foreseen(a, ch \o s.out, c, World)
        /\ Talking => Agrees(c)
  BY DEF Inv, Joined
<1>2. s.out \in Seq(Events)
  BY DEF Inv, TypeOK, Stream
<1>3. ch \o s.out \in Seq(Events)
  BY <1>1, <1>2, ConcatProperties
<1>4. c \in Client /\ Good(c, World)
  BY <1>1, <1>3, ForeseenGood
<1>5. TypeOK /\ Shape(s)
  BY DEF Inv
<1>6. Blocks(c, s)
  BY <1>1 DEF Agrees
<1>7. \A t \in Tools : s.tools[t].index # NoBlock => World.tools[t].index = s.tools[t].index
  BY DEF World
<1>8. Tells(a, ch, s, c, World)
  BY <1>1, <1>4, <1>5, <1>6, <1>7 DEF Tells, TypeOK
<1> QED
  BY <1>1, <1>4, <1>8

\* [DONE] ends a message whose stop reason was sent.
LEMMA ReceiveDoneInv == Inv /\ ReceiveDone => Inv'
<1> SUFFICES ASSUME Inv, ReceiveDone PROVE Inv'
  OBVIOUS
<1>0. Talking
  BY DEF ReceiveDone, Readable, Reading, Talking
<1>1. PICK a, ch, c :
        /\ a \in Client /\ ch \in Seq(Events)
        /\ connected => a = client /\ ch = channel
        /\ c \in Client /\ Good(c, World) /\ Agrees(c)
        /\ Foreseen(a, ch \o s.out, c, World)
        /\ Tells(a, ch, s, c, World)
  BY <1>0, JoinedWhileTalking
<1>2. PICK e \in Events : e = Message("message_stop")
  BY EventTypes
<1>3. e.type = "message_stop"
  BY <1>2 DEF Message, Event
<1>4. s.started /\ c.phase = "ending"
  BY <1>1 DEF Inv, Place, Agrees, ReceiveDone, Readable, Reading
<1>5. Legal(c, e) /\ Good(Read(c, e), World)
  <2>1. Legal(c, e)
    BY <1>3, <1>4 DEF Legal
  <2> QED
    BY <1>1, <1>3, <2>1, GoodQuiet
<1>6. PICK d : d = Read(c, e)
  OBVIOUS
<1>7. Tells(a, ch, Yield(s, <<e>>), d, World) /\ d.got = c.got
  <2>1. Tells(a, ch, Yield(s, <<e>>), d, World)
    BY <1>1, <1>3, <1>5, <1>6, TellMessage
  <2>2. d.got = c.got
    BY <1>3, <1>6 DEF Read
  <2> QED
    BY <2>1, <2>2
<1>8. d.phase = "stopped"
  BY <1>3, <1>6 DEF Read
<1>9. /\ s' = Yield(s, <<e>>) /\ s'.tools = s.tools /\ s'.started = s.started /\ s'.next = s.next
      /\ s'.open = s.open
  BY <1>2 DEF ReceiveDone, Yield, Inv, TypeOK, Stream
<1>10. World' = World
  BY <1>9 DEF ReceiveDone, World
<1>11. Tells(a, ch, s', d, World')
  BY <1>7, <1>9, <1>10
<1>12. TypeOK'
  <2>1. s' \in Stream
    BY <1>11 DEF Tells
  <2> QED
    BY <2>1 DEF Inv, TypeOK, ReceiveDone
<1>13. Place'
  BY <1>4, <1>9 DEF Inv, Place, ReceiveDone, Readable, Reading
<1>14. Counts'
  <2>1. Known(s)' = Known(s) /\ AllOpen(s)' = AllOpen(s)
    BY <1>9 DEF Known, AllOpen
  <2> QED
    BY <1>9, <2>1 DEF Inv, Counts, ReceiveDone, Talking
<1>15. Later(World, World')
  BY <1>9, BeginsItself DEF Inv, TypeOK, ReceiveDone, Later, World
<1>16. Agrees(d)'
  <2>1. Blocks(d, s')
    BY <1>11 DEF Tells
  <2>2. \A x \in Kinds : sent'[x] = d.got[x]
    BY <1>1, <1>7 DEF Agrees, ReceiveDone
  <2>3. \A t \in Tools : sent'[t] = (d.got[t] \o s'.tools[t].pending) \o Rest(t)'
    BY <1>1, <1>7, <1>9 DEF Agrees, ReceiveDone, Rest
  <2>4. upstream' = "done" /\ s'.started
    BY <1>4, <1>9 DEF ReceiveDone
  <2> QED
    BY <1>8, <2>1, <2>2, <2>3, <2>4 DEF Agrees
<1>17. UNCHANGED <<client, channel, connected>>
  BY DEF ReceiveDone
<1> QED
  BY <1>1, <1>11, <1>12, <1>13, <1>14, <1>15, <1>16, <1>17, ConverterStep

\* An error event, wherever the message is.
LEMMA StreamFailsInv == Inv /\ StreamFails => Inv'
<1> SUFFICES ASSUME Inv, StreamFails PROVE Inv'
  OBVIOUS
<1>0. Talking
  BY DEF StreamFails, Reading, Talking
<1>1. PICK a, ch, c :
        /\ a \in Client /\ ch \in Seq(Events)
        /\ connected => a = client /\ ch = channel
        /\ c \in Client /\ Good(c, World) /\ Agrees(c)
        /\ Foreseen(a, ch \o s.out, c, World)
        /\ Tells(a, ch, s, c, World)
  BY <1>0, JoinedWhileTalking
<1>2. PICK e \in Events : e = Message("error")
  BY EventTypes
<1>3. e.type = "error"
  BY <1>2 DEF Message, Event
<1>4. c.phase # "failed"
  BY <1>1 DEF Agrees
<1>5. Legal(c, e) /\ Good(Read(c, e), World)
  <2>1. Legal(c, e)
    BY <1>3, <1>4 DEF Legal
  <2> QED
    BY <1>1, <1>3, <2>1, GoodQuiet
<1>6. PICK d : d = Read(c, e)
  OBVIOUS
<1>7. Tells(a, ch, Yield(s, <<e>>), d, World)
  BY <1>1, <1>3, <1>5, <1>6, TellMessage
<1>9. /\ s' = Yield(s, <<e>>) /\ s'.tools = s.tools /\ s'.started = s.started /\ s'.next = s.next
      /\ s'.open = s.open
  BY <1>2 DEF StreamFails, Yield, Inv, TypeOK, Stream
<1>10. World' = World
  BY <1>9 DEF StreamFails, Reading, World, input
<1>11. Tells(a, ch, s', d, World')
  BY <1>7, <1>9, <1>10
<1>12. TypeOK'
  <2>1. s' \in Stream
    BY <1>11 DEF Tells
  <2> QED
    BY <2>1 DEF Inv, TypeOK, StreamFails, input
<1>13. Place'
  BY <1>9 DEF Inv, Place, StreamFails, Reading, input
<1>14. Counts'
  <2>1. Known(s)' = Known(s) /\ AllOpen(s)' = AllOpen(s)
    BY <1>9 DEF Known, AllOpen
  <2>2. chunk.handled = 0 /\ chunk.calls = <<>>
    BY DEF Inv, Place, StreamFails, Reading, NoChunk
  <2> QED
    BY <1>9, <2>1, <2>2 DEF Inv, Counts, StreamFails, Talking, input
<1>15. Later(World, World')
  BY <1>9, BeginsItself DEF Inv, TypeOK, StreamFails, Reading, Later, World, input
<1>16. ~Talking'
  BY DEF StreamFails, Talking
<1>17. UNCHANGED <<client, channel, connected>>
  BY DEF StreamFails
<1> QED
  BY <1>1, <1>11, <1>12, <1>13, <1>14, <1>15, <1>16, <1>17, ConverterStep

\* What was yielded plays no part but in what the client will read.
LEMMA OutOnly ==
    ASSUME Inv, NEW out \in Seq(Events), s' = [s EXCEPT !.out = out],
           UNCHANGED <<more, collector, late, input>>, UNCHANGED <<chunk, pc>>
    PROVE  /\ s' \in Stream /\ s'.out = out /\ s'.tools = s.tools /\ s'.started = s.started
           /\ Shape(s)' /\ Place' /\ Counts' /\ World' = World
           /\ Talking' = Talking /\ \A c : Agrees(c) => Agrees(c)'
<1>1. /\ s' \in Stream /\ s'.out = out /\ s'.tools = s.tools /\ s'.started = s.started
      /\ s'.next = s.next /\ s'.kind = s.kind /\ s'.block = s.block /\ s'.open = s.open
  BY DEF Inv, TypeOK, Stream
<1>2. Shape(s)'
  <2>1. Shape(s)
    BY DEF Inv
  <2> QED
    BY <1>1, <2>1 DEF Shape
<1>3. Place'
  BY <1>1 DEF Inv, Place, input
<1>4. Counts'
  <2>1. Known(s)' = Known(s) /\ AllOpen(s)' = AllOpen(s)
    BY <1>1 DEF Known, AllOpen
  <2> QED
    BY <1>1, <2>1 DEF Inv, Counts, input, Talking
<1>5. World' = World /\ Talking' = Talking
  BY <1>1 DEF World, Talking, input
<1>6. ASSUME NEW c, Agrees(c) PROVE Agrees(c)'
  <2>1. Blocks(c, s')
    BY <1>1, <1>6 DEF Agrees, Blocks
  <2>2. \A x \in Kinds : sent'[x] = c.got[x]
    BY <1>6 DEF Agrees, input
  <2>3. \A t \in Tools : sent'[t] = (c.got[t] \o s'.tools[t].pending) \o Rest(t)'
    BY <1>1, <1>6 DEF Agrees, Rest, input
  <2> QED
    BY <1>1, <1>6, <2>1, <2>2, <2>3 DEF Agrees, input
<1> QED
  BY <1>1, <1>2, <1>3, <1>4, <1>5, <1>6

\* An event moves from s.out to the channel: the client will read the same.
LEMMA ForwardInv == Inv /\ Forward => Inv'
<1> SUFFICES ASSUME Inv, Forward PROVE Inv'
  OBVIOUS
<1>1. s.out \in Seq(Events) /\ channel \in Seq(Events) /\ s.out # <<>> /\ connected
  BY DEF Inv, TypeOK, Stream, Forward
<1>2. /\ Head(s.out) \in Events /\ Tail(s.out) \in Seq(Events)
      /\ s.out = <<Head(s.out)>> \o Tail(s.out)
  BY <1>1, HeadTailProperties, HeadTailAppend
<1>3. PICK e \in Events, out \in Seq(Events) : e = Head(s.out) /\ out = Tail(s.out)
  BY <1>2
<1>4. s' = [s EXCEPT !.out = out] /\ channel' = Append(channel, e)
  BY <1>3 DEF Forward
<1>5. UNCHANGED <<more, collector, late, input>> /\ UNCHANGED <<chunk, pc>> /\ UNCHANGED <<connected, client>>
  BY DEF Forward
<1>6. /\ s' \in Stream /\ s'.out = out /\ s'.tools = s.tools /\ s'.started = s.started
      /\ Shape(s)' /\ Place' /\ Counts' /\ World' = World
      /\ Talking' = Talking /\ \A c : Agrees(c) => Agrees(c)'
  BY <1>4, <1>5, OutOnly
<1>7. TypeOK'
  <2>1. channel' \in Seq(Events) /\ Len(channel') = Len(channel) + 1 /\ Len(channel) \in Nat
    BY <1>1, <1>4, AppendProperties, LenProperties
  <2>2. Len(channel') <= Capacity
    BY <2>1, ConverterAssumption DEF Forward
  <2> QED
    BY <1>5, <1>6, <2>1, <2>2 DEF Inv, TypeOK, input
<1>8. channel' \o s'.out = channel \o s.out
  <2>1. channel' = channel \o <<e>> /\ <<e>> \in Seq(Events)
    BY <1>1, <1>4, AppendIsConcat
  <2>2. (channel \o <<e>>) \o out = channel \o (<<e>> \o out)
    BY <1>1, <2>1, ConcatAssociative
  <2> QED
    BY <1>2, <1>3, <1>6, <2>1, <2>2
<1>9. PICK a, ch, c :
        /\ a \in Client /\ ch \in Seq(Events)
        /\ connected => a = client /\ ch = channel
        /\ Foreseen(a, ch \o s.out, c, World)
        /\ Talking => Agrees(c)
  BY DEF Inv, Joined
<1>10. Joined'
  <2>1. client' \in Client /\ channel' \in Seq(Events)
    BY <1>7 DEF TypeOK
  <2>2. Foreseen(client', channel' \o s'.out, c, World')
    BY <1>1, <1>5, <1>6, <1>8, <1>9
  <2>3. Talking' => Agrees(c)'
    BY <1>6, <1>9
  <2> QED
    BY <2>1, <2>2, <2>3 DEF Joined
<1>11. Good(client, World)'
  BY <1>5, <1>6 DEF Inv
<1> QED
  BY <1>6, <1>7, <1>10, <1>11 DEF Inv

\* The converter is dropped: a client that had stayed would read no more.
LEMMA NoticeDisconnectInv == Inv /\ NoticeDisconnect => Inv'
<1> SUFFICES ASSUME Inv, NoticeDisconnect PROVE Inv'
  OBVIOUS
<1>1. /\ s' \in Stream /\ s'.out = <<>> /\ s'.tools = s.tools /\ s'.started = s.started
      /\ s'.next = s.next /\ s'.kind = s.kind /\ s'.block = s.block /\ s'.open = s.open
  <2>1. s \in Stream /\ <<>> \in Seq(Events) /\ s' = [s EXCEPT !.out = <<>>]
    BY DEF NoticeDisconnect, Inv, TypeOK
  <2> QED
    BY <2>1 DEF Stream
<1>2. /\ ~connected' /\ ~Talking' /\ pc' = "ending" /\ chunk' = NoChunk
      /\ UNCHANGED <<more, collector, late, channel, connected, client>>
      /\ UNCHANGED <<upstream, metered, sent, chunks>>
  BY DEF NoticeDisconnect, Talking, input
<1>3. TypeOK'
  <2>1. NoChunk \in [calls : Seq(ToolCall), finish : BOOLEAN, usage : BOOLEAN, handled : Nat]
    BY DEF NoChunk
  <2> QED
    BY <1>1, <1>2, <2>1 DEF Inv, TypeOK
<1>4. Shape(s)'
  <2>1. Shape(s)
    BY DEF Inv
  <2> QED
    BY <1>1, <2>1 DEF Shape
<1>5. Place'
  BY <1>1, <1>2 DEF Inv, Place
<1>6. Counts'
  <2>1. Known(s)' = Known(s)
    BY <1>1 DEF Known
  <2>2. chunk'.handled = 0 /\ chunk'.calls = <<>>
    BY <1>2 DEF NoChunk
  <2> QED
    BY <1>1, <1>2, <2>1, <2>2 DEF Inv, Counts
<1>7. Later(World, World')
  BY <1>1, <1>2, BeginsItself DEF Inv, TypeOK, Later, World
<1>8. World \in Worlds /\ client \in Client
  BY WorldType DEF Inv, TypeOK
<1>9. PICK v \in Worlds : v = World'
  BY <1>3, WorldType2
<1>10. Good(client, v)
  BY <1>7, <1>8, <1>9, GoodLater DEF Inv
<1>11. Good(client, World)'
  BY <1>2, <1>9, <1>10
<1>12. Joined'
  <2>1. Foreseen(client, <<>>, client, v)
    BY <1>8, <1>10, ForeseenNothing
  <2>2. <<>> \o s'.out = <<>> /\ <<>> \in Seq(Events)
    BY <1>1
  <2>3. Foreseen(client, <<>> \o s'.out, client, World')
    BY <2>1, <2>2, <1>9
  <2> QED
    BY <1>2, <1>8, <2>2, <2>3 DEF Joined
<1> QED
  BY <1>3, <1>4, <1>5, <1>6, <1>11, <1>12 DEF Inv

\* The client reads the event its run starts with.
LEMMA DeliverInv ==
    ASSUME Inv, Deliver
    PROVE  Inv' /\ Legal(client, Head(channel)) /\ Head(channel) \in Events
<1>1. s.out \in Seq(Events) /\ channel \in Seq(Events) /\ channel # <<>> /\ connected /\ client \in Client
  BY DEF Inv, TypeOK, Stream, Deliver
<1>2. /\ Head(channel) \in Events /\ Tail(channel) \in Seq(Events)
      /\ channel = <<Head(channel)>> \o Tail(channel) /\ Len(Tail(channel)) = Len(channel) - 1
  BY <1>1, HeadTailProperties, HeadTailAppend
<1>3. PICK e \in Events, ch \in Seq(Events) : e = Head(channel) /\ ch = Tail(channel)
  BY <1>2
<1>4. /\ client' = Read(client, e) /\ channel' = ch
      /\ UNCHANGED <<s, chunk, pc, more, collector, late, connected, upstream, metered, sent, chunks>>
  BY <1>3 DEF Deliver, proxy, input
<1>5. PICK c :
        /\ Foreseen(client, channel \o s.out, c, World)
        /\ Talking => Agrees(c)
  BY <1>1 DEF Inv, Joined
<1>6. PICK q \in Seq(Events) : q = channel \o s.out
  BY <1>1, ConcatProperties
<1>7. q # <<>> /\ Head(q) = e /\ Tail(q) = ch \o s.out
  <2>1. <<e>> \in Seq(Events)
    OBVIOUS
  <2>2. q = <<e>> \o (ch \o s.out) /\ ch \o s.out \in Seq(Events)
    BY <1>1, <1>2, <1>3, <1>6, <2>1, ConcatAssociative, ConcatProperties
  <2>3. PICK rest \in Seq(Events) : rest = ch \o s.out
    BY <2>2
  <2>4. q = <<e>> \o rest
    BY <2>2, <2>3
  <2>5. q # <<>> /\ Head(q) = e /\ Tail(q) = rest
    BY <2>4
  <2> QED
    BY <2>3, <2>5
<1>8. /\ Legal(client, e) /\ Good(Read(client, e), World)
      /\ Foreseen(Read(client, e), ch \o s.out, c, World)
  <2>1. Foreseen(client, q, c, World)
    BY <1>5, <1>6
  <2>2. Legal(client, Head(q))
    BY <1>1, <1>7, <2>1, ForeseenRead
  <2>3. Good(Read(client, Head(q)), World)
    BY <1>1, <1>7, <2>1, ForeseenRead
  <2>4. Foreseen(Read(client, Head(q)), Tail(q), c, World)
    BY <1>1, <1>7, <2>1, ForeseenRead
  <2> QED
    BY <1>7, <2>2, <2>3, <2>4
<1>9. client' \in Client
  BY <1>1, <1>4, <1>8, ReadType
<1>10. World' = World /\ Talking' = Talking
  BY <1>4 DEF World, Talking
<1>11. TypeOK'
  <2>1. TypeOK
    BY DEF Inv
  <2>2. Len(channel) \in Nat /\ Len(channel) <= Capacity /\ Capacity \in Nat
    BY <2>1, <1>1, LenProperties, ConverterAssumption DEF TypeOK
  <2>3. channel' \in Seq(Events) /\ Len(channel') <= Capacity
    BY <1>2, <1>3, <1>4, <2>2
  <2>4. UNCHANGED <<s, chunk, pc, more, collector, late, connected, upstream, metered, sent, chunks>>
    BY <1>4
  <2> QED
    BY <1>9, <2>1, <2>3, <2>4 DEF TypeOK
<1>12. Shape(s)' /\ Place' /\ Counts'
  <2>1. Shape(s)' /\ Place'
    BY <1>4 DEF Inv, Place
  <2>2. Known(s)' = Known(s) /\ AllOpen(s)' = AllOpen(s)
    BY <1>4 DEF Known, AllOpen
  <2>3. Counts'
    BY <1>4, <1>10, <2>2 DEF Inv, Counts
  <2> QED
    BY <2>1, <2>3
<1>13. Talking' => Agrees(c)'
  <2> SUFFICES ASSUME Talking' PROVE Agrees(c)'
    OBVIOUS
  <2>1. Agrees(c)
    BY <1>5, <1>10
  <2>2. \A t \in Tools : Rest(t)' = Rest(t)
    BY <1>4 DEF Rest
  <2> QED
    BY <1>4, <2>1, <2>2 DEF Agrees
<1>14. Joined'
  <2>1. Foreseen(client', channel' \o s'.out, c, World')
    BY <1>4, <1>8, <1>10
  <2>2. channel' \in Seq(Events)
    BY <1>4
  <2> QED
    BY <1>9, <1>13, <2>1, <2>2 DEF Joined
<1>15. Good(client, World)'
  BY <1>4, <1>8, <1>10
<1> QED
  BY <1>3, <1>8, <1>11, <1>12, <1>14, <1>15 DEF Inv

\* The client that had stayed takes the place of the one that left.
LEMMA DisconnectInv == Inv /\ Disconnect => Inv'
<1> SUFFICES ASSUME Inv, Disconnect PROVE Inv'
  OBVIOUS
<1>1. /\ connected' = FALSE /\ channel' = <<>> /\ UNCHANGED client
      /\ UNCHANGED <<s, chunk, pc, more, collector, late, upstream, metered, sent, chunks>>
  BY DEF Disconnect, proxy, input
<1>2. TypeOK'
  <2>1. channel' \in Seq(Events) /\ Len(channel') <= Capacity
    BY <1>1, ConverterAssumption
  <2> QED
    BY <1>1, <2>1 DEF Inv, TypeOK
<1>3. World' = World /\ Talking' = Talking
  BY <1>1 DEF World, Talking
<1>4. Shape(s)' /\ Place' /\ Counts'
  <2>1. Shape(s)' /\ Place'
    BY <1>1 DEF Inv, Place
  <2>2. Known(s)' = Known(s) /\ AllOpen(s)' = AllOpen(s)
    BY <1>1 DEF Known, AllOpen
  <2>3. Counts'
    BY <1>1, <1>3, <2>2 DEF Inv, Counts
  <2> QED
    BY <2>1, <2>3
<1>5. PICK a, ch, c :
        /\ a \in Client /\ ch \in Seq(Events)
        /\ Foreseen(a, ch \o s.out, c, World)
        /\ Talking => Agrees(c)
  BY DEF Inv, Joined
<1>6. Talking' => Agrees(c)'
  <2> SUFFICES ASSUME Talking' PROVE Agrees(c)'
    OBVIOUS
  <2>1. Agrees(c)
    BY <1>3, <1>5
  <2>2. \A t \in Tools : Rest(t)' = Rest(t)
    BY <1>1 DEF Rest
  <2> QED
    BY <1>1, <2>1, <2>2 DEF Agrees
<1>7. Joined'
  <2>1. Foreseen(a, ch \o s'.out, c, World')
    BY <1>1, <1>3, <1>5
  <2> QED
    BY <1>1, <1>5, <1>6, <2>1 DEF Joined
<1>8. Good(client, World)'
  BY <1>1, <1>3 DEF Inv
<1> QED
  BY <1>2, <1>4, <1>7, <1>8 DEF Inv

\* In a chunk the message is open, and what finishes has no calls left.
LEMMA InChunk ==
    ASSUME Inv, Handling
    PROVE  /\ \E a, ch, c :
                /\ a \in Client /\ ch \in Seq(Events)
                /\ connected => a = client /\ ch = channel
                /\ c \in Client /\ Good(c, World) /\ Agrees(c) /\ c.phase = "open"
                /\ Foreseen(a, ch \o s.out, c, World)
                /\ Tells(a, ch, s, c, World)
           /\ s.started /\ Talking /\ ~World.over /\ pc = "chunk"
           /\ Finishing => upstream = "finished" /\ \A t \in Tools : Rest(t) = <<>>
<1>1. pc = "chunk" /\ Talking /\ ~World.over
  BY DEF Handling, Talking, World
<1>2. s.started /\ upstream # "done"
  BY <1>1 DEF Inv, Place
<1>3. PICK a, ch, c :
        /\ a \in Client /\ ch \in Seq(Events)
        /\ connected => a = client /\ ch = channel
        /\ c \in Client /\ Good(c, World) /\ Agrees(c)
        /\ Foreseen(a, ch \o s.out, c, World)
        /\ Tells(a, ch, s, c, World)
  BY <1>1, JoinedWhileTalking
<1>4. c.phase = "open"
  BY <1>1, <1>2, <1>3 DEF Agrees
<1>5. ASSUME Finishing PROVE upstream = "finished" /\ \A t \in Tools : Rest(t) = <<>>
  <2>1. chunk.handled = Len(chunk.calls) /\ chunk.calls \in Seq(ToolCall) /\ chunks \in Nat
    BY <1>5 DEF Finishing, Inv, TypeOK
  <2>2. \A t \in Tools : Rest(t) = <<>>
    BY <2>1, ArgsDone DEF Rest
  <2>3. upstream = "finished"
    BY <1>1, <2>1 DEF Inv, Place
  <2> QED
    BY <2>2, <2>3
<1> QED
  BY <1>1, <1>2, <1>3, <1>4, <1>5

\* finish_reason stops the current block.
LEMMA StopLastTextInv == Inv /\ StopLastText => Inv'
<1> SUFFICES ASSUME Inv, StopLastText PROVE Inv'
  OBVIOUS
<1>0. Finishing /\ Handling
  BY DEF StopLastText, Finishing
<1>1. s.started /\ Talking /\ ~World.over /\ pc = "chunk" /\ upstream = "finished"
  BY <1>0, InChunk
<1>2. PICK a, ch, c :
        /\ a \in Client /\ ch \in Seq(Events)
        /\ connected => a = client /\ ch = channel
        /\ c \in Client /\ Good(c, World) /\ Agrees(c) /\ c.phase = "open"
        /\ Foreseen(a, ch \o s.out, c, World)
        /\ Tells(a, ch, s, c, World)
  BY <1>0, InChunk
<1>3. /\ s'.started = s.started /\ s'.tools = s.tools /\ s'.open = s.open /\ s'.next = s.next
      /\ s' = WithoutText(s)
  BY <1>2, TellStop DEF StopLastText
<1>4. PICK d : Tells(a, ch, WithoutText(s), d, World) /\ d.phase = "open" /\ d.got = c.got
  BY <1>2, TellStop
<1>5. UNCHANGED <<chunk, pc, more, collector, late, channel, connected, client, upstream, metered, sent, chunks>>
  BY DEF StopLastText, input
<1>6. World' = World
  BY <1>3, <1>5 DEF World
<1>7. Tells(a, ch, s', d, World')
  BY <1>3, <1>4, <1>6
<1>8. TypeOK'
  <2>1. s' \in Stream
    BY <1>7 DEF Tells
  <2> QED
    BY <1>5, <2>1 DEF Inv, TypeOK
<1>9. Place'
  BY <1>3, <1>5 DEF Inv, Place
<1>10. Counts'
  <2>1. Known(s)' = Known(s) /\ AllOpen(s)' = AllOpen(s)
    BY <1>3 DEF Known, AllOpen
  <2> QED
    BY <1>3, <1>5, <2>1 DEF Inv, Counts, Talking
<1>11. Later(World, World')
  BY <1>3, <1>5, BeginsItself DEF Inv, TypeOK, Later, World
<1>12. Agrees(d)'
  <2>1. Blocks(d, s')
    BY <1>7 DEF Tells
  <2>2. \A x \in Kinds : sent'[x] = d.got[x]
    BY <1>2, <1>4, <1>5 DEF Agrees
  <2>3. \A t \in Tools : sent'[t] = (d.got[t] \o s'.tools[t].pending) \o Rest(t)'
    BY <1>2, <1>3, <1>4, <1>5 DEF Agrees, Rest
  <2> QED
    BY <1>1, <1>3, <1>4, <1>5, <2>1, <2>2, <2>3 DEF Agrees
<1> QED
  BY <1>2, <1>5, <1>7, <1>8, <1>9, <1>10, <1>11, <1>12, ConverterStep

\* finish_reason stops a tool's block.
LEMMA StopToolInv == \A i \in s.open : Inv /\ StopTool(i) => Inv'
<1> SUFFICES ASSUME NEW i \in s.open, Inv, StopTool(i) PROVE Inv'
  OBVIOUS
<1>0. Finishing /\ Handling
  BY DEF StopTool, Finishing
<1>1. s.started /\ Talking /\ ~World.over /\ pc = "chunk" /\ upstream = "finished"
  BY <1>0, InChunk
<1>2. PICK a, ch, c :
        /\ a \in Client /\ ch \in Seq(Events)
        /\ connected => a = client /\ ch = channel
        /\ c \in Client /\ Good(c, World) /\ Agrees(c) /\ c.phase = "open"
        /\ Foreseen(a, ch \o s.out, c, World)
        /\ Tells(a, ch, s, c, World)
  BY <1>0, InChunk
<1>3. PICK k : k = CloseTool(s, i)
  OBVIOUS
<1>4. PICK d : Tells(a, ch, k, d, World) /\ d.phase = "open" /\ d.got = c.got
  <2>1. \E d : Tells(a, ch, CloseTool(s, i), d, World) /\ d.phase = "open" /\ d.got = c.got
    BY <1>2, TellStopTool
  <2> QED
    BY <2>1, <1>3
<1>5. UNCHANGED <<chunk, pc, more, collector, late, channel, connected, client, upstream, metered, sent, chunks>>
  BY DEF StopTool, input
<1>6. s' = k /\ s'.started = s.started /\ s'.tools = s.tools /\ s'.next = s.next
  BY <1>3 DEF StopTool, CloseTool, Yield, Inv, TypeOK, Stream
<1>7. World' = World
  BY <1>5, <1>6 DEF World
<1>8. Tells(a, ch, s', d, World')
  BY <1>4, <1>6, <1>7
<1>9. TypeOK'
  <2>1. s' \in Stream
    BY <1>8 DEF Tells
  <2> QED
    BY <1>5, <2>1 DEF Inv, TypeOK
<1>10. Place'
  BY <1>5, <1>6 DEF Inv, Place
<1>11. Counts'
  <2>1. Known(s)' = Known(s)
    BY <1>6 DEF Known
  <2>2. chunk.handled = Len(chunk.calls)
    BY <1>0 DEF Finishing
  <2>3. ~(chunk.handled < Len(chunk.calls))
    BY <2>2 DEF Inv, TypeOK
  <2> QED
    BY <1>1, <1>5, <1>6, <2>1, <2>3 DEF Inv, Counts
<1>12. Later(World, World')
  BY <1>5, <1>6, BeginsItself DEF Inv, TypeOK, Later, World
<1>13. Agrees(d)'
  <2>1. Blocks(d, s')
    BY <1>8 DEF Tells
  <2>2. \A x \in Kinds : sent'[x] = d.got[x]
    BY <1>2, <1>4, <1>5 DEF Agrees
  <2>3. \A t \in Tools : sent'[t] = (d.got[t] \o s'.tools[t].pending) \o Rest(t)'
    BY <1>2, <1>4, <1>5, <1>6 DEF Agrees, Rest
  <2> QED
    BY <1>1, <1>4, <1>5, <1>6, <2>1, <2>2, <2>3 DEF Agrees
<1> QED
  BY <1>2, <1>5, <1>8, <1>9, <1>10, <1>11, <1>12, <1>13, ConverterStep

\* A late tool starts, and its arguments are said.
LEMMA StartLateInv == \A t \in Tools : Inv /\ StartLate(t) => Inv'
<1> SUFFICES ASSUME NEW t \in Tools, Inv, StartLate(t) PROVE Inv'
  OBVIOUS
<1>0. Finishing /\ Handling
  BY DEF StartLate, Finishing
<1>1. s.started /\ Talking /\ ~World.over /\ pc = "chunk" /\ upstream = "finished"
  BY <1>0, InChunk
<1>2. PICK a, ch, c :
        /\ a \in Client /\ ch \in Seq(Events)
        /\ connected => a = client /\ ch = channel
        /\ c \in Client /\ Good(c, World) /\ Agrees(c) /\ c.phase = "open"
        /\ Foreseen(a, ch \o s.out, c, World)
        /\ Tells(a, ch, s, c, World)
  BY <1>0, InChunk
<1>3. s' = BeginTool(s, t) /\ s.tools[t].index # NoBlock /\ ~s.tools[t].started
  BY DEF StartLate, LateTools
<1>4. s \in Stream /\ TypeOK /\ Shape(s) /\ Blocks(c, s)
  BY <1>2 DEF Inv, TypeOK, Agrees
<1>5. PICK k : k = BeginTool(s, t)
  OBVIOUS
<1>6. /\ k \in Stream
      /\ k.started = s.started /\ k.next = s.next
      /\ k.tools[t] = [s.tools[t] EXCEPT !.started = TRUE, !.pending = <<>>]
      /\ k.tools \in [Tools -> ToolStates]
      /\ \A u \in Tools : u # t => k.tools[u] = s.tools[u]
  <2>1. Begun(s, t, k)
    BY <1>3, <1>4, <1>5, BeginFields
  <2> QED
    BY <2>1 DEF Begun
<1>7. UNCHANGED <<chunk, pc, more, collector, late, channel, connected, client, upstream, metered, sent, chunks>>
  BY DEF StartLate, input
<1>8. TypeOK'
  BY <1>3, <1>5, <1>6, <1>7 DEF Inv, TypeOK
<1>9. PICK v \in Worlds : v = World'
  BY <1>8, WorldType2
<1>10. s.tools[t] \in ToolStates /\ k.tools[t].index = s.tools[t].index /\ k.tools[t].pending = <<>>
  BY <1>4, <1>6 DEF Stream, ToolStates
<1>11. \A u \in Tools : k.tools[u].index = s.tools[u].index
  BY <1>6, <1>10
<1>12. v.sent = sent /\ v.tools = k.tools
  BY <1>3, <1>5, <1>7, <1>9 DEF World
<1>13. Later(World, v)
  BY <1>1, <1>11, <1>12, BeginsItself DEF Inv, TypeOK, Later, World
<1>14. Tells(a, ch, s, c, v)
  BY <1>2, <1>4, <1>11, <1>12, <1>13, JoinedTells
<1>15. PICK pending \in Seq(Fragment) : pending = s.tools[t].pending
  BY <1>10 DEF ToolStates
<1>16. PICK got \in Seq(Fragment) : got = c.got[t]
  BY <1>2 DEF Client, Sources
<1>17. sent[t] = got \o pending /\ got \o pending \in Seq(Fragment)
  <2>1. got \o pending \in Seq(Fragment)
    BY ConcatProperties
  <2>2. sent[t] = (got \o pending) \o Rest(t) /\ Rest(t) = <<>>
    BY <1>0, <1>2, <1>15, <1>16, InChunk DEF Agrees
  <2> QED
    BY <2>1, <2>2, ConcatEmptySeq
<1>18. Fits(c, t, s.tools[t].pending, v)
  BY <1>12, <1>15, <1>16, <1>17, BeginsItself DEF Fits
<1>19. PICK d : /\ Tells(a, ch, k, d, v) /\ d.phase = "open"
                /\ d.got = Heard(c, t, pending)
  BY <1>2, <1>3, <1>5, <1>14, <1>15, <1>18, TellBegin
<1>20. Tells(a, ch, s', d, World')
  BY <1>3, <1>5, <1>9, <1>19
<1>21. Place'
  BY <1>3, <1>5, <1>6, <1>7 DEF Inv, Place
<1>22. Counts'
  <2>1. Known(s)' = Known(s)
    BY <1>3, <1>5, <1>11 DEF Known
  <2>2. chunk.handled = Len(chunk.calls)
    BY <1>0 DEF Finishing
  <2>3. ~(chunk.handled < Len(chunk.calls))
    BY <2>2 DEF Inv, TypeOK
  <2>4. s'.next = s.next
    BY <1>3, <1>5, <1>6
  <2> QED
    BY <1>1, <1>7, <2>1, <2>3, <2>4 DEF Inv, Counts
<1>23. d.got[t] = got \o pending /\ \A x \in Sources : x # t => d.got[x] = c.got[x]
  BY <1>2, <1>16, <1>19 DEF Heard, Client, Sources
<1>24. Agrees(d)'
  <2>1. Blocks(d, s')
    BY <1>20 DEF Tells
  <2>2. \A x \in Kinds : sent'[x] = d.got[x]
    <3>1. \A x \in Kinds : x \in Sources /\ x # t
      BY ConverterAssumption DEF Kinds, Sources
    <3> QED
      BY <1>2, <1>7, <1>23, <3>1 DEF Agrees
  <2>3. ASSUME NEW u \in Tools
        PROVE  sent'[u] = (d.got[u] \o s'.tools[u].pending) \o Rest(u)'
    <3>1. Rest(u)' = Rest(u)
      BY <1>7 DEF Rest
    <3>2. CASE u = t
      <4>1. (got \o pending) \o <<>> = got \o pending
        BY <1>17, ConcatEmptySeq
      <4>2. Rest(t) = <<>>
        BY <1>0, InChunk
      <4> QED
        BY <1>3, <1>5, <1>7, <1>10, <1>17, <1>23, <3>1, <3>2, <4>1, <4>2
    <3>3. CASE u # t
      <4>1. u \in Sources /\ d.got[u] = c.got[u] /\ s'.tools[u] = s.tools[u]
        BY <1>3, <1>5, <1>6, <1>23, <3>3 DEF Sources
      <4> QED
        BY <1>2, <1>7, <3>1, <4>1 DEF Agrees
    <3> QED
      BY <3>2, <3>3
  <2>4. s'.started
    BY <1>1, <1>3, <1>5, <1>6
  <2> QED
    BY <1>1, <1>7, <1>19, <2>1, <2>2, <2>3, <2>4 DEF Agrees
<1> QED
  BY <1>2, <1>7, <1>8, <1>9, <1>13, <1>20, <1>21, <1>22, <1>24, ConverterStep

\* Without a chunk nothing is to be said.
LEMMA RestNothing ==
    ASSUME NEW n \in Nat, NEW tool
    PROVE  ArgsAfter(<<>>, n, tool)[0] = <<>>
<1>1. <<>> \in Seq(ToolCall) /\ Len(<<>>) = 0
  OBVIOUS
<1> QED
  BY <1>1, ArgsDone

\* When no tool is late, arguments no longer wait anywhere.
LEMMA NothingWaits ==
    ASSUME Inv, LateTools(s) = {}, NEW t \in Tools
    PROVE  s.tools[t].pending = <<>>
<1>1. CASE s.tools[t].index = NoBlock
  BY <1>1 DEF Inv, Shape, NoTool
<1>2. CASE s.tools[t].started
  BY <1>2 DEF Inv, Shape
<1>3. CASE s.tools[t].index # NoBlock /\ ~s.tools[t].started
  BY <1>3 DEF LateTools
<1> QED
  BY <1>1, <1>2, <1>3

\* The stop reason: no block is open, nothing waits, and the counts are there.
LEMMA SendStopReasonInv == Inv /\ SendStopReason => Inv'
<1> SUFFICES ASSUME Inv, SendStopReason PROVE Inv'
  OBVIOUS
<1>0. Finishing /\ Handling
  BY DEF SendStopReason, Finishing
<1>1. s.started /\ Talking /\ ~World.over /\ pc = "chunk" /\ upstream = "finished"
  BY <1>0, InChunk
<1>2. PICK a, ch, c :
        /\ a \in Client /\ ch \in Seq(Events)
        /\ connected => a = client /\ ch = channel
        /\ c \in Client /\ Good(c, World) /\ Agrees(c) /\ c.phase = "open"
        /\ Foreseen(a, ch \o s.out, c, World)
        /\ Tells(a, ch, s, c, World)
  BY <1>0, InChunk
<1>3. PICK e \in Events : e = Message("message_delta")
  BY EventTypes
<1>4. e.type = "message_delta"
  BY <1>3 DEF Message, Event
<1>5. PICK k : k = Yield(s, <<e>>)
  OBVIOUS
<1>6. /\ s' = k /\ s'.tools = s.tools /\ s'.started = s.started /\ s'.next = s.next
      /\ s'.open = s.open
  BY <1>3, <1>5 DEF SendStopReason, Yield, Inv, TypeOK, Stream
<1>7. /\ collector' = (IF chunk.usage THEN "all" ELSE collector) /\ pc' = "read" /\ chunk' = NoChunk
      /\ UNCHANGED <<more, late, channel, connected, client, upstream, metered, sent, chunks>>
  BY DEF SendStopReason, input
<1>8. s \in Stream /\ TypeOK /\ Shape(s) /\ Blocks(c, s)
  BY <1>2 DEF Inv, TypeOK, Agrees
<1>9. s' \in Stream
  <2>1. s.out \in Seq(Events) /\ <<e>> \in Seq(Events)
    BY <1>8 DEF Stream
  <2>2. s.out \o <<e>> \in Seq(Events)
    BY <2>1, ConcatProperties
  <2> QED
    BY <1>5, <1>6, <1>8, <2>2 DEF Stream, Yield
<1>10. TypeOK'
  <2>1. NoChunk \in [calls : Seq(ToolCall), finish : BOOLEAN, usage : BOOLEAN, handled : Nat]
    BY DEF NoChunk
  <2>2. collector' \in {"none", "input", "all"}
    BY <1>7, <1>8 DEF TypeOK
  <2>3. channel' \in Seq(Events) /\ Len(channel') <= Capacity
    BY <1>7, <1>8 DEF TypeOK
  <2> QED
    BY <1>7, <1>8, <1>9, <2>1, <2>2, <2>3 DEF TypeOK
<1>11. PICK v \in Worlds : v = World'
  BY <1>10, WorldType2
<1>12. v.sent = sent /\ v.tools = s.tools /\ v.over /\ v.counted
  <2>1. v.sent = sent /\ v.tools = s.tools /\ v.over
    BY <1>1, <1>6, <1>7, <1>11 DEF World
  <2>2. v.counted
    BY <1>1, <1>7, <1>11 DEF World, Inv, Place
  <2> QED
    BY <2>1, <2>2
<1>13. Later(World, v)
  BY <1>1, <1>12, BeginsItself DEF Inv, TypeOK, Later, World
<1>14. Tells(a, ch, s, c, v)
  BY <1>2, <1>8, <1>12, <1>13, JoinedTells
<1>15. \A x \in Sources : v.sent[x] = c.got[x]
  <2> SUFFICES ASSUME NEW x \in Sources PROVE sent[x] = c.got[x]
    BY <1>12
  <2>1. CASE x \in Kinds
    BY <1>2, <2>1 DEF Agrees
  <2>2. CASE x \in Tools
    <3>1. s.tools[x].pending = <<>>
      BY <2>2, NothingWaits DEF SendStopReason
    <3>2. PICK got \in Seq(Fragment) : got = c.got[x]
      BY <1>2 DEF Client
    <3>3. sent[x] = (got \o <<>>) \o <<>>
      BY <1>0, <1>2, <2>2, <3>1, <3>2, InChunk DEF Agrees
    <3>4. got \o <<>> = got
      BY ConcatEmptySeq
    <3> QED
      BY <3>2, <3>3, <3>4
  <2> QED
    BY <2>1, <2>2 DEF Sources, Kinds
<1>16. \A t \in Tools : s.tools[t].index # NoBlock /\ s.tools[t].started
                          => c.block[s.tools[t].index] # "unused"
  <2> SUFFICES ASSUME NEW t \in Tools, s.tools[t].index # NoBlock, s.tools[t].started
               PROVE  c.block[s.tools[t].index] # "unused"
    OBVIOUS
  <2>1. s.tools[t].index \in Index /\ s.tools[t].index < s.next
    BY <1>8, Indices
  <2>2. \A u \in Tools : s.tools[u].index = s.tools[t].index => u = t
    BY <1>8, ToolsDistinct
  <2> QED
    BY <1>8, <2>1, <2>2 DEF Blocks
<1>17. Legal(c, e)
  <2>1. s.block = NoBlock /\ s.open = {}
    BY <1>8 DEF SendStopReason, Shape
  <2>2. NoBlock \notin Index
    BY <1>8, Indices
  <2>3. \A i \in Index : c.block[i] # "open"
    BY <1>8, <2>1, <2>2 DEF Blocks
  <2> QED
    BY <1>2, <1>4, <2>3 DEF Legal
<1>18. Good(Read(c, e), v)
  <2>1. Good(c, v)
    BY <1>2, <1>8, <1>13, WorldType, GoodLater
  <2> QED
    BY <1>2, <1>4, <1>12, <1>15, <1>16, <1>17, <2>1, GoodEnd
<1>19. PICK d : d = Read(c, e)
  OBVIOUS
<1>20. Tells(a, ch, k, d, v) /\ d.got = c.got
  <2>1. Tells(a, ch, Yield(s, <<e>>), Read(c, e), v)
    BY <1>2, <1>4, <1>14, <1>17, <1>18, TellMessage
  <2>2. d.got = c.got
    BY <1>4, <1>19 DEF Read
  <2> QED
    BY <2>1, <2>2, <1>5, <1>19
<1>21. d.phase = "ending"
  BY <1>4, <1>19 DEF Read
<1>22. Tells(a, ch, s', d, World')
  BY <1>6, <1>11, <1>20
<1>23. Place'
  BY <1>1, <1>6, <1>7 DEF Inv, Place
<1>24. Counts'
  <2>1. Known(s)' = Known(s)
    BY <1>6 DEF Known
  <2>2. chunk'.handled = 0 /\ chunk'.calls = <<>>
    BY <1>7 DEF NoChunk
  <2> QED
    BY <1>1, <1>6, <1>7, <2>1, <2>2 DEF Inv, Counts
<1>25. Agrees(d)'
  <2>1. Blocks(d, s')
    BY <1>22 DEF Tells
  <2>2. \A x \in Kinds : sent'[x] = d.got[x]
    BY <1>2, <1>7, <1>20 DEF Agrees
  <2>3. ASSUME NEW t \in Tools
        PROVE  sent'[t] = (d.got[t] \o s'.tools[t].pending) \o Rest(t)'
    <3>1. Rest(t)' = <<>>
      BY <1>7, <1>8, RestNothing DEF Rest, NoChunk, TypeOK
    <3>2. Rest(t) = <<>>
      BY <1>0, InChunk
    <3> QED
      BY <1>2, <1>6, <1>7, <1>20, <3>1, <3>2 DEF Agrees
  <2> QED
    BY <1>1, <1>6, <1>7, <1>21, <2>1, <2>2, <2>3 DEF Agrees
<1> QED
  BY <1>2, <1>7, <1>10, <1>11, <1>13, <1>22, <1>23, <1>24, <1>25, ConverterStep

\* There is an index for the next tool.
LEMMA RoomForTool ==
    ASSUME Inv, NEW t \in Tools, s.tools[t].index = NoBlock
    PROVE  /\ s.next < Top
           /\ IsFiniteSet(Known(s)) /\ t \notin Known(s)
           /\ Cardinality(Known(s) \cup {t}) = Cardinality(Known(s)) + 1
           /\ Cardinality(Known(s)) \in Nat
<1>1. Known(s) \subseteq Tools \ {t} /\ IsFiniteSet(Tools) /\ t \notin Known(s)
  BY ConverterAssumption DEF Known
<1>2. IsFiniteSet(Known(s)) /\ Cardinality(Known(s)) \in Nat
  BY <1>1, FS_Subset, FS_CardinalityType
<1>3. Cardinality(Known(s) \cup {t}) = Cardinality(Known(s)) + 1
  BY <1>1, <1>2, FS_AddElement
<1>4. Cardinality(Known(s) \cup {t}) <= Cardinality(Tools)
  <2>1. Known(s) \cup {t} \subseteq Tools
    BY <1>1
  <2> QED
    BY <1>1, <2>1, FS_Subset
<1>5. s.next <= 2 * chunks + Cardinality(Known(s)) /\ chunks <= MaxChunks
      /\ s.next \in Nat /\ chunks \in Nat /\ MaxChunks \in Nat
  BY ToolsCounted, ConverterAssumption DEF Inv, Counts, TypeOK, Stream
<1>6. s.next < Top
  BY <1>2, <1>3, <1>4, <1>5, ToolsCounted DEF Top
<1> QED
  BY <1>1, <1>2, <1>3, <1>6

\* An entry of tool_calls.
LEMMA HandleCallInv == Inv /\ HandleCall => Inv'
<1> SUFFICES ASSUME Inv, HandleCall PROVE Inv'
  OBVIOUS
<1>0. Handling /\ chunk.handled < Len(chunk.calls)
  BY DEF HandleCall
<1>1. s.started /\ Talking /\ ~World.over /\ pc = "chunk" /\ upstream # "done"
  BY <1>0, InChunk DEF Inv, Place
<1>2. PICK a, ch, c :
        /\ a \in Client /\ ch \in Seq(Events)
        /\ connected => a = client /\ ch = channel
        /\ c \in Client /\ Good(c, World) /\ Agrees(c) /\ c.phase = "open"
        /\ Foreseen(a, ch \o s.out, c, World)
        /\ Tells(a, ch, s, c, World)
  BY <1>0, InChunk
<1>3. PICK i \in Nat, n \in Nat, calls \in Seq(ToolCall) :
        /\ i = chunk.handled /\ n = chunks /\ calls = chunk.calls /\ i < Len(calls)
        /\ Len(calls) \in Nat
  BY <1>0, LenProperties DEF Inv, TypeOK
<1>4. PICK call \in ToolCall, fragment \in Fragment : call = calls[i + 1] /\ fragment = <<n, i + 1>>
  <2>1. i + 1 \in 1 .. Len(calls)
    BY <1>3
  <2>2. calls[i + 1] \in ToolCall
    BY <2>1, ElementOfSeq
  <2>3. <<n, i + 1>> \in Fragment
    BY DEF Fragment
  <2> QED
    BY <2>2, <2>3
<1>5. PICK t \in Tools : t = call.index
  BY DEF ToolCall
<1>6. PICK k : k = AfterToolCall(s, call, fragment)
  OBVIOUS
<1>7. /\ s' = k /\ Proceed(chunk, i + 1)
      /\ UNCHANGED <<more, collector, late, channel, connected, client, upstream, metered, sent, chunks>>
  BY <1>3, <1>4, <1>6 DEF HandleCall, input
<1>8. s \in Stream /\ TypeOK /\ Shape(s) /\ Blocks(c, s)
  BY <1>2 DEF Inv, TypeOK, Agrees
<1>9. AllOpen(s)
  BY <1>0 DEF Inv, Counts
<1>10. s.tools[call.index].index = NoBlock => s.next < Top
  BY <1>5, RoomForTool
<1>11. /\ s.tools[t] \in ToolStates /\ k \in Stream
       /\ k.started = s.started
       /\ k.next = (IF s.tools[t].index = NoBlock THEN s.next + 1 ELSE s.next)
       /\ k.tools[t].index = (IF s.tools[t].index = NoBlock THEN s.next ELSE s.tools[t].index)
       /\ \A u \in Tools : u # t => k.tools[u] = s.tools[u]
       /\ AllOpen(k)
  BY <1>5, <1>6, <1>8, <1>9, <1>10, CallFields
<1>12. PICK text \in Seq(Fragment) : text = ArgsText(call, fragment)
  <2>1. <<>> \in Seq(Fragment) /\ <<fragment>> \in Seq(Fragment)
    OBVIOUS
  <2>2. ArgsText(call, fragment) \in Seq(Fragment)
    BY <2>1 DEF ArgsText
  <2> QED
    BY <2>2
<1>13. PICK rest \in Seq(Fragment) : rest = ArgsAfter(calls, n, t)[i + 1]
  BY <1>3, ArgsNext
<1>14. Rest(t) = text \o rest
  <2>1. Joins(ArgsAfter(calls, n, t)[i], CallText(calls, n, t, i), ArgsAfter(calls, n, t)[i + 1])
    BY <1>3, ArgsNext
  <2>2. CallText(calls, n, t, i) = text
    BY <1>4, <1>5, <1>12 DEF CallText
  <2>3. Rest(t) = ArgsAfter(calls, n, t)[i]
    BY <1>3 DEF Rest
  <2> QED
    BY <2>1, <2>2, <2>3, <1>13 DEF Joins
<1>15. PICK heard \in Seq(Fragment) : heard = c.got[t] \o s.tools[t].pending
  <2>1. c.got[t] \in Seq(Fragment) /\ s.tools[t].pending \in Seq(Fragment)
    BY <1>2, <1>11 DEF Client, Sources, ToolStates
  <2> QED
    BY <2>1, ConcatProperties
<1>16. sent[t] = (heard \o text) \o rest /\ heard \o text \in Seq(Fragment)
  <2>1. sent[t] = heard \o (text \o rest)
    BY <1>2, <1>14, <1>15 DEF Agrees
  <2>2. heard \o (text \o rest) = (heard \o text) \o rest
    BY Regrouped
  <2>3. heard \o text \in Seq(Fragment)
    BY ConcatProperties
  <2> QED
    BY <2>1, <2>2, <2>3
\* Whether there are more calls, the world the client may go on in.
<1>17. \/ pc' = "read" /\ chunk' = NoChunk /\ i + 1 = Len(calls) /\ ~chunk.finish
       \/ /\ pc' = "chunk" /\ ~(i + 1 = Len(calls) /\ ~chunk.finish)
          /\ chunk' = [calls |-> calls, finish |-> chunk.finish, usage |-> chunk.usage, handled |-> i + 1]
  BY <1>3, <1>7 DEF Proceed
<1>18. pc' = "read" => upstream = "streaming"
  <2>1. chunk.finish <=> (upstream = "finished")
    BY <1>1 DEF Inv, Place
  <2>2. upstream \in {"streaming", "finished", "done"}
    BY <1>8 DEF TypeOK
  <2> QED
    BY <1>1, <1>17, <2>1, <2>2
<1>19. [sent |-> sent, tools |-> k.tools, over |-> FALSE, counted |-> World.counted] = World'
  <2>1. (upstream' # "streaming" /\ pc' # "chunk") = FALSE
    BY <1>7, <1>17, <1>18
  <2>2. World'.counted = World.counted
    BY <1>7 DEF World
  <2> QED
    BY <1>7, <2>1, <2>2 DEF World
<1>20. PICK v : v = World'
  OBVIOUS
<1>21. v.sent = sent /\ v.tools = k.tools /\ v.over = FALSE /\ v.counted = World.counted
       /\ v = [sent |-> sent, tools |-> k.tools, over |-> FALSE, counted |-> World.counted]
  BY <1>19, <1>20
<1>22. \A u \in Tools : s.tools[u].index # NoBlock => v.tools[u].index = s.tools[u].index
  <2> SUFFICES ASSUME NEW u \in Tools, s.tools[u].index # NoBlock
               PROVE  k.tools[u].index = s.tools[u].index
    BY <1>21
  <2>1. CASE u = t
    BY <2>1, <1>11
  <2>2. CASE u # t
    BY <2>2, <1>11
  <2> QED
    BY <2>1, <2>2
<1>23. TypeOK'
  <2>1. k \in Stream
    BY <1>11
  <2>2. chunk' \in [calls : Seq(ToolCall), finish : BOOLEAN, usage : BOOLEAN, handled : Nat]
    <3>1. NoChunk \in [calls : Seq(ToolCall), finish : BOOLEAN, usage : BOOLEAN, handled : Nat]
      BY DEF NoChunk
    <3>2. calls \in Seq(ToolCall) /\ chunk.finish \in BOOLEAN /\ chunk.usage \in BOOLEAN /\ i + 1 \in Nat
      BY <1>8 DEF TypeOK
    <3>3. [calls |-> calls, finish |-> chunk.finish, usage |-> chunk.usage, handled |-> i + 1]
            \in [calls : Seq(ToolCall), finish : BOOLEAN, usage : BOOLEAN, handled : Nat]
      BY <3>2
    <3> QED
      BY <3>1, <3>3, <1>17
  <2>3. pc' \in {"read", "chunk", "ending", "recorded"}
    BY <1>17
  <2> QED
    BY <1>7, <1>8, <2>1, <2>2, <2>3 DEF TypeOK
<1>24. v \in Worlds
  BY <1>20, <1>23, WorldType2
<1>25. Later(World, v)
  <2>1. World.sent = v.sent /\ World.tools = s.tools
    BY <1>21 DEF World
  <2>2. \A x \in Sources : Begins(World.sent[x], v.sent[x])
    BY <2>1, <1>8, BeginsItself DEF World, TypeOK
  <2> QED
    BY <1>1, <1>22, <2>1, <2>2 DEF Later
<1>26. Tells(a, ch, s, c, v)
  BY <1>2, <1>8, <1>22, <1>24, <1>25, JoinedTells
<1>27. Awaits(c, s, call.index, ArgsText(call, fragment), v)
  <2>1. Begins(heard \o text, sent[t])
    BY <1>16 DEF Begins
  <2> QED
    BY <2>1, <1>5, <1>12, <1>15, <1>21 DEF Awaits
<1>28. v.tools[call.index].index = AfterToolCall(s, call, fragment).tools[call.index].index
  BY <1>6, <1>21
<1>29. PICK d : /\ Tells(a, ch, k, d, v) /\ d.phase = "open"
                /\ HeardCall(c, s, t, text, d, k)
  BY <1>2, <1>5, <1>6, <1>9, <1>10, <1>12, <1>24, <1>26, <1>27, <1>28, TellCall
<1>30. Tells(a, ch, s', d, World')
  BY <1>7, <1>20, <1>29
<1>31. Place'
  <2>1. s'.started
    BY <1>1, <1>7, <1>11
  <2>2. /\ upstream' = upstream /\ metered' = metered
        /\ chunk.finish <=> (upstream = "finished")
        /\ metered => chunk.usage
        /\ upstream = "streaming" => ~metered
    BY <1>1, <1>7 DEF Inv, Place
  <2>3. CASE pc' = "read" /\ chunk' = NoChunk
    BY <2>1, <2>2, <2>3 DEF Place
  <2>4. CASE /\ pc' = "chunk" /\ ~(i + 1 = Len(calls) /\ ~chunk.finish)
             /\ chunk' = [calls |-> calls, finish |-> chunk.finish, usage |-> chunk.usage, handled |-> i + 1]
    <3>1. chunk'.calls = calls /\ chunk'.finish = chunk.finish /\ chunk'.usage = chunk.usage
          /\ chunk'.handled = i + 1
      BY <2>4
    <3>2. i + 1 <= Len(calls)
      BY <1>3
    <3> QED
      BY <1>1, <2>1, <2>2, <2>4, <3>1, <3>2 DEF Place
  <2> QED
    BY <1>17, <2>3, <2>4
<1>32. Counts'
  <2>1. AllOpen(s')
    BY <1>7, <1>11
  <2>2. s'.next <= 2 * chunks + Cardinality(Known(s'))
    <3>1. s.next <= 2 * chunks + Cardinality(Known(s)) /\ s.next \in Nat /\ chunks \in Nat
      BY <1>8, ToolsCounted DEF Inv, Counts, TypeOK, Stream
    <3>2. CASE s.tools[t].index = NoBlock
      <4>1. s.next \in Nat /\ s.next # NoBlock
        BY <3>1, ConverterAssumption
      <4>2. Known(k) = Known(s) \cup {t}
        BY <1>11, <3>2, <4>1 DEF Known
      <4>3. /\ Cardinality(Known(s) \cup {t}) = Cardinality(Known(s)) + 1
            /\ Cardinality(Known(s)) \in Nat
        BY <3>2, RoomForTool
      <4> QED
        BY <1>7, <1>11, <3>1, <3>2, <4>2, <4>3
    <3>3. CASE s.tools[t].index # NoBlock
      <4>1. Known(k) = Known(s)
        BY <1>11, <3>3 DEF Known
      <4> QED
        BY <1>7, <1>11, <3>1, <3>3, <4>1
    <3> QED
      BY <3>2, <3>3
  <2> QED
    BY <1>7, <2>1, <2>2 DEF Counts
<1>33. /\ d.got[t] \o k.tools[t].pending = heard \o text
       /\ \A x \in Sources : x # t => d.got[x] = c.got[x]
  BY <1>15, <1>29 DEF HeardCall
<1>34. Agrees(d)'
  <2>1. Blocks(d, s')
    BY <1>30 DEF Tells
  <2>2. \A x \in Kinds : sent'[x] = d.got[x]
    <3>1. \A x \in Kinds : x \in Sources /\ x # t
      BY ConverterAssumption DEF Kinds, Sources
    <3> QED
      BY <1>2, <1>7, <1>33, <3>1 DEF Agrees
  <2>3. ASSUME NEW u \in Tools
        PROVE  Rest(u)' = ArgsAfter(calls, n, u)[i + 1]
    <3>1. CASE pc' = "read" /\ chunk' = NoChunk /\ i + 1 = Len(calls)
      <4>1. Rest(u)' = <<>>
        BY <1>3, <1>7, <3>1, RestNothing DEF Rest, NoChunk
      <4>2. ArgsAfter(calls, n, u)[i + 1] = <<>>
        BY <3>1, ArgsDone
      <4> QED
        BY <4>1, <4>2
    <3>2. CASE chunk' = [calls |-> calls, finish |-> chunk.finish, usage |-> chunk.usage, handled |-> i + 1]
      BY <1>3, <1>7, <3>2 DEF Rest
    <3> QED
      BY <1>17, <3>1, <3>2
  <2>4. ASSUME NEW u \in Tools
        PROVE  sent'[u] = (d.got[u] \o s'.tools[u].pending) \o Rest(u)'
    <3>1. CASE u = t
      <4>1. Rest(t)' = rest
        BY <1>13, <2>3
      <4> QED
        BY <1>7, <1>16, <1>33, <3>1, <4>1
    <3>2. CASE u # t
      <4>1. u \in Sources /\ d.got[u] = c.got[u] /\ s'.tools[u] = s.tools[u]
        BY <1>7, <1>11, <1>33, <3>2 DEF Sources
      <4>2. Rest(u)' = Rest(u)
        <5>1. Joins(ArgsAfter(calls, n, u)[i], CallText(calls, n, u, i), ArgsAfter(calls, n, u)[i + 1])
          BY <1>3, ArgsNext
        <5>2. ArgsAfter(calls, n, u)[i + 1] \in Seq(Fragment)
          BY <1>3, ArgsNext
        <5>3. CallText(calls, n, u, i) = <<>>
          BY <1>4, <1>5, <3>2 DEF CallText
        <5>4. ArgsAfter(calls, n, u)[i] = ArgsAfter(calls, n, u)[i + 1]
          BY <5>1, <5>2, <5>3, ConcatEmptySeq DEF Joins
        <5>5. Rest(u) = ArgsAfter(calls, n, u)[i]
          BY <1>3 DEF Rest
        <5> QED
          BY <2>3, <5>4, <5>5
      <4> QED
        BY <1>2, <1>7, <4>1, <4>2 DEF Agrees
    <3> QED
      BY <3>1, <3>2
  <2>5. s'.started /\ upstream' = upstream /\ upstream # "done"
    BY <1>1, <1>7, <1>11
  <2>6. pc' = "read" => upstream' # "finished"
    BY <1>7, <1>18
  <2> QED
    BY <1>29, <2>1, <2>2, <2>4, <2>5, <2>6 DEF Agrees
<1> QED
  BY <1>2, <1>7, <1>20, <1>23, <1>25, <1>30, <1>31, <1>32, <1>34, ConverterStep

\* What a chunk adds to what the upstream has sent.
Longer(old, n, delta, new) == \A x \in Sources : new[x] = old[x] \o Fragments(delta, n, x)

\* The fragments of a chunk are fragments.
LEMMA FragmentsType ==
    ASSUME NEW delta \in Delta, NEW n \in Nat, NEW x \in Sources
    PROVE  Fragments(delta, n, x) \in Seq(Fragment)
<1>1. CASE x \in Kinds
  BY <1>1, FragmentsOf DEF Kinds
<1>2. CASE x \in Tools
  <2>1. Fragments(delta, n, x) = ArgsAfter(delta.calls, n, x)[0]
    BY <1>2, FragmentsOf
  <2>2. delta.calls \in Seq(ToolCall) /\ 0 \in 0 .. Len(delta.calls)
    BY LenProperties DEF Delta
  <2>3. ArgsAfter(delta.calls, n, x) \in [0 .. Len(delta.calls) -> Seq(Fragment)]
    BY <2>2, ArgsUnroll
  <2> QED
    BY <2>1, <2>2, <2>3
<1> QED
  BY <1>1, <1>2 DEF Sources, Kinds

\* A chunk: its fragments are sent, and its texts said.
LEMMA ReceiveChunkInv == \A delta \in Deltas : Inv /\ ReceiveChunk(delta) => Inv'
<1> SUFFICES ASSUME NEW delta \in Deltas, Inv, ReceiveChunk(delta) PROVE Inv'
  OBVIOUS
<1>1. delta \in Delta
  BY ConverterAssumption
<1>2. Talking /\ pc = "read" /\ chunk = NoChunk /\ upstream = "streaming"
  BY DEF ReceiveChunk, Readable, Reading, Talking, Inv, Place
<1>3. PICK a, ch, c :
        /\ a \in Client /\ ch \in Seq(Events)
        /\ connected => a = client /\ ch = channel
        /\ c \in Client /\ Good(c, World) /\ Agrees(c)
        /\ Foreseen(a, ch \o s.out, c, World)
        /\ Tells(a, ch, s, c, World)
  BY <1>2, JoinedWhileTalking
<1>4. PICK n \in Nat : n = chunks + 1
  BY DEF Inv, TypeOK
<1>5. PICK k : k = AfterTexts(s, delta, n)
  OBVIOUS
<1>6. /\ s' = k /\ Proceed(delta, 0)
      /\ collector' = (IF delta.usage /\ ~s.started THEN "input" ELSE collector)
      /\ chunks' = n /\ upstream' = (IF delta.finish THEN "finished" ELSE "streaming")
      /\ metered' = (delta.finish /\ delta.usage) /\ more' \in BOOLEAN
      /\ UNCHANGED <<late, channel, connected, client>>
  BY <1>4, <1>5 DEF ReceiveChunk
<1>7. sent' = [x \in Sources |-> sent[x] \o Fragments(delta, n, x)]
  BY <1>4 DEF ReceiveChunk
<1>8. n <= MaxChunks
  BY <1>4, ConverterAssumption DEF ReceiveChunk, Inv, TypeOK
<1>9. s \in Stream /\ TypeOK /\ Shape(s) /\ Blocks(c, s) /\ AllOpen(s)
  BY <1>2, <1>3 DEF Inv, TypeOK, Agrees, Counts
<1>10. c.phase = (IF s.started THEN "open" ELSE "waiting")
  BY <1>2, <1>3 DEF Agrees
<1>11. \A x \in Sources : Fragments(delta, n, x) \in Seq(Fragment) /\ sent[x] \in Seq(Fragment)
  BY <1>1, <1>9, FragmentsType DEF TypeOK
<1>12. \A x \in Sources : sent'[x] \in Seq(Fragment) /\ Begins(sent[x], sent'[x])
  <2> SUFFICES ASSUME NEW x \in Sources PROVE sent'[x] \in Seq(Fragment) /\ Begins(sent[x], sent'[x])
    OBVIOUS
  <2>1. PICK old \in Seq(Fragment), new \in Seq(Fragment) : old = sent[x] /\ new = Fragments(delta, n, x)
    BY <1>11
  <2>2. old \o new \in Seq(Fragment)
    BY ConcatProperties
  <2>3. sent'[x] = old \o new
    BY <1>7, <2>1
  <2>4. Begins(old, old \o new)
    BY DEF Begins
  <2> QED
    BY <2>1, <2>2, <2>3, <2>4
<1>13. delta.calls \in Seq(ToolCall) /\ delta.finish \in BOOLEAN /\ delta.usage \in BOOLEAN
       /\ Len(delta.calls) \in Nat
  BY <1>1, LenProperties DEF Delta
<1>14. \/ pc' = "read" /\ chunk' = NoChunk /\ Len(delta.calls) = 0 /\ ~delta.finish
       \/ /\ pc' = "chunk" /\ ~(Len(delta.calls) = 0 /\ ~delta.finish)
          /\ chunk' = [calls |-> delta.calls, finish |-> delta.finish, usage |-> delta.usage, handled |-> 0]
  BY <1>6, <1>13 DEF Proceed
<1>15. pc' = "read" => upstream' = "streaming"
  BY <1>6, <1>14
<1>16. PICK v : v = [sent |-> sent', tools |-> s.tools, over |-> FALSE,
                     counted |-> (metered' => collector' = "all")]
  OBVIOUS
<1>17. v \in Worlds /\ v.sent = sent' /\ v.tools = s.tools /\ v.over = FALSE
  <2>1. sent' \in [Sources -> Seq(Fragment)]
    BY <1>7, <1>12
  <2>2. (metered' => collector' = "all") \in BOOLEAN
    OBVIOUS
  <2> QED
    BY <1>9, <1>16, <2>1, <2>2 DEF Worlds, Stream
<1>18. Later(World, v)
  BY <1>2, <1>12, <1>17 DEF Later, World
<1>19. Tells(a, ch, s, c, v)
  BY <1>3, <1>9, <1>17, <1>18, JoinedTells
<1>20. \A x \in Kinds : Fits(c, x, Fragments(delta, n, x), v)
  <2> SUFFICES ASSUME NEW x \in Kinds PROVE Fits(c, x, Fragments(delta, n, x), v)
    OBVIOUS
  <2>1. x \in Sources
    BY DEF Kinds, Sources
  <2>2. v.sent[x] = c.got[x] \o Fragments(delta, n, x)
    BY <1>3, <1>7, <1>17, <2>1 DEF Agrees
  <2>3. sent'[x] \in Seq(Fragment)
    BY <1>12, <2>1
  <2> QED
    BY <1>17, <2>2, <2>3, BeginsItself DEF Fits
<1>21. s.next + 2 <= Top
  <2>1. Known(s) \subseteq Tools
    BY DEF Known
  <2>2. Cardinality(Known(s)) \in Nat /\ Cardinality(Known(s)) <= Cardinality(Tools)
    BY <2>1, ConverterAssumption, FS_Subset, FS_CardinalityType
  <2>3. s.next <= 2 * chunks + Cardinality(Known(s)) /\ chunks + 1 <= MaxChunks
        /\ s.next \in Nat /\ chunks \in Nat /\ MaxChunks \in Nat
    BY <1>4, <1>8, <1>9, ToolsCounted, ConverterAssumption DEF Inv, Counts, TypeOK, Stream
  <2> QED
    BY <2>2, <2>3, ToolsCounted DEF Top
<1>22. PICK d : Tells(a, ch, k, d, v) /\ d.phase = "open" /\ HeardTexts(c, delta, n, d.got)
  <2>0. ch \in Seq(Events) /\ n \in Nat
    BY <1>3
  <2>1. \E d : Tells(a, ch, AfterTexts(s, delta, n), d, v) /\ d.phase = "open" /\ HeardTexts(c, delta, n, d.got)
    BY <1>1, <1>10, <1>19, <1>20, <1>21, <2>0, TellTexts
  <2> QED
    BY <1>5, <2>1
<1>23. k.started /\ k.tools = s.tools /\ k.open = s.open /\ k.next <= s.next + 2
  <2>1. AfterTexts(s, delta, n).started /\ AfterTexts(s, delta, n).tools = s.tools
    BY <1>1, <1>3, <1>10, <1>19, <1>20, <1>21, TellTexts
  <2>2. AfterTexts(s, delta, n).open = s.open /\ AfterTexts(s, delta, n).next <= s.next + 2
    BY <1>1, <1>3, <1>10, <1>19, <1>20, <1>21, TellTexts
  <2> QED
    BY <1>5, <2>1, <2>2
<1>24. World' = v
  <2>1. (upstream' # "streaming" /\ pc' # "chunk") = FALSE
    BY <1>14, <1>15
  <2> QED
    BY <1>6, <1>16, <1>23, <2>1 DEF World
<1>25. Tells(a, ch, s', d, World')
  BY <1>6, <1>22, <1>24
<1>26. TypeOK'
  <2>1. s' \in Stream
    BY <1>25 DEF Tells
  <2>2. chunk' \in [calls : Seq(ToolCall), finish : BOOLEAN, usage : BOOLEAN, handled : Nat]
    <3>1. NoChunk \in [calls : Seq(ToolCall), finish : BOOLEAN, usage : BOOLEAN, handled : Nat]
      BY DEF NoChunk
    <3>2. [calls |-> delta.calls, finish |-> delta.finish, usage |-> delta.usage, handled |-> 0]
            \in [calls : Seq(ToolCall), finish : BOOLEAN, usage : BOOLEAN, handled : Nat]
      BY <1>13
    <3> QED
      BY <3>1, <3>2, <1>14
  <2>3. sent' \in [Sources -> Seq(Fragment)]
    BY <1>7, <1>12
  <2>4. /\ pc' \in {"read", "chunk", "ending", "recorded"} /\ more' \in BOOLEAN /\ metered' \in BOOLEAN
        /\ collector' \in {"none", "input", "all"} /\ upstream' \in {"streaming", "finished", "done"}
    BY <1>6, <1>9, <1>13, <1>14 DEF TypeOK
  <2>5. chunks' \in 0 .. MaxChunks
    BY <1>6, <1>8, ConverterAssumption
  <2>6. UNCHANGED <<late, channel, connected, client>>
    BY <1>6
  <2> QED
    BY <1>9, <2>1, <2>2, <2>3, <2>4, <2>5, <2>6 DEF TypeOK
<1>27. Place'
  <2>1. s'.started /\ upstream' # "done"
    BY <1>6, <1>23
  <2>2. upstream' = "streaming" => ~metered'
    BY <1>6
  <2>3. CASE pc' = "read" /\ chunk' = NoChunk
    BY <2>1, <2>2, <2>3 DEF Place
  <2>4. CASE /\ pc' = "chunk" /\ ~(Len(delta.calls) = 0 /\ ~delta.finish)
             /\ chunk' = [calls |-> delta.calls, finish |-> delta.finish, usage |-> delta.usage, handled |-> 0]
    <3>1. chunk'.calls = delta.calls /\ chunk'.finish = delta.finish /\ chunk'.usage = delta.usage
          /\ chunk'.handled = 0
      BY <2>4
    <3>2. delta.finish <=> (upstream' = "finished")
      BY <1>6
    <3> QED
      BY <1>6, <1>13, <2>1, <2>2, <2>4, <3>1, <3>2 DEF Place
  <2> QED
    BY <1>14, <2>3, <2>4
<1>28. Counts'
  <2>1. AllOpen(s')
    BY <1>6, <1>9, <1>23 DEF AllOpen
  <2>2. Known(s') = Known(s)
    BY <1>6, <1>23 DEF Known
  <2>3. Cardinality(Known(s)) \in Nat
    <3>1. Known(s) \subseteq Tools
      BY DEF Known
    <3> QED
      BY <3>1, ConverterAssumption, FS_Subset, FS_CardinalityType
  <2>4. s.next <= 2 * chunks + Cardinality(Known(s)) /\ s.next \in Nat /\ chunks \in Nat /\ s'.next \in Nat
    BY <1>9, <1>26, ToolsCounted DEF Inv, Counts, TypeOK, Stream
  <2>5. s'.next <= 2 * chunks' + Cardinality(Known(s'))
    BY <1>4, <1>6, <1>23, <2>2, <2>3, <2>4
  <2> QED
    BY <2>1, <2>5 DEF Counts
<1>29. Agrees(d)'
  <2>1. Blocks(d, s')
    BY <1>25 DEF Tells
  <2>2. \A x \in Kinds : sent'[x] = d.got[x]
    <3> SUFFICES ASSUME NEW x \in Kinds PROVE sent'[x] = d.got[x]
      OBVIOUS
    <3>1. x \in Sources
      BY DEF Kinds, Sources
    <3> QED
      BY <1>3, <1>7, <1>22, <3>1 DEF Agrees, HeardTexts
  <2>3. ASSUME NEW t \in Tools
        PROVE  sent'[t] = (d.got[t] \o s'.tools[t].pending) \o Rest(t)'
    <3>1. t \in Sources /\ d.got[t] = c.got[t] /\ s'.tools[t] = s.tools[t]
      BY <1>6, <1>22, <1>23 DEF HeardTexts, Sources
    <3>2. PICK got \in Seq(Fragment) : got = c.got[t] \o s.tools[t].pending
      <4>1. c.got[t] \in Seq(Fragment) /\ s.tools[t].pending \in Seq(Fragment)
        BY <1>3, <1>9, <3>1 DEF Client, Stream, ToolStates
      <4> QED
        BY <4>1, ConcatProperties
    <3>3. sent[t] = got
      <4>1. Rest(t) = <<>>
        BY <1>2, <1>9, RestNothing DEF Rest, NoChunk, TypeOK
      <4>2. sent[t] = got \o <<>>
        BY <1>3, <3>2, <4>1 DEF Agrees
      <4> QED
        BY <4>2, ConcatEmptySeq
    <3>4. Rest(t)' = ArgsAfter(delta.calls, n, t)[0]
      <4>1. CASE chunk' = NoChunk /\ Len(delta.calls) = 0
        <5>1. Rest(t)' = <<>>
          BY <1>6, <4>1, RestNothing DEF Rest, NoChunk
        <5>2. ArgsAfter(delta.calls, n, t)[0] = <<>>
          <6>1. ArgsAfter(delta.calls, n, t)[Len(delta.calls)] = <<>>
            BY <1>13, ArgsDone
          <6> QED
            BY <4>1, <6>1
        <5> QED
          BY <5>1, <5>2
      <4>2. CASE chunk' = [calls |-> delta.calls, finish |-> delta.finish, usage |-> delta.usage, handled |-> 0]
        BY <1>6, <4>2 DEF Rest
      <4> QED
        BY <1>14, <4>1, <4>2
    <3>5. sent'[t] = got \o ArgsAfter(delta.calls, n, t)[0]
      BY <1>1, <1>7, <3>1, <3>3, FragmentsOf
    <3> QED
      BY <3>1, <3>2, <3>4, <3>5
  <2>4. s'.started /\ upstream' # "done" /\ (pc' = "read" => upstream' # "finished")
    BY <1>6, <1>15, <1>23
  <2> QED
    BY <1>22, <2>1, <2>2, <2>3, <2>4 DEF Agrees
<1>30. UNCHANGED <<client, channel, connected>>
  BY <1>6
<1> QED
  BY <1>3, <1>18, <1>24, <1>25, <1>26, <1>27, <1>28, <1>29, <1>30, ConverterStep

-----------------------------------------------------------------------------
(* The theorems *)

\* No step of the converter, the forwarding task, the upstream or the client
\* leaves the invariant.
LEMMA NextInv == Inv /\ [Next]_vars => Inv'
<1> SUFFICES ASSUME Inv, [Next]_vars PROVE Inv'
  OBVIOUS
<1>1. ASSUME NEW delta \in Deltas, ReceiveChunk(delta) PROVE Inv'
  BY <1>1, ReceiveChunkInv
<1>2. ASSUME ReceiveUsage PROVE Inv'
  BY <1>2, ReceiveUsageInv
<1>3. ASSUME ReceiveDone PROVE Inv'
  BY <1>3, ReceiveDoneInv
<1>4. ASSUME HandleCall PROVE Inv'
  BY <1>4, HandleCallInv
<1>5. ASSUME StopLastText PROVE Inv'
  BY <1>5, StopLastTextInv
<1>6. ASSUME SendStopReason PROVE Inv'
  BY <1>6, SendStopReasonInv
<1>7. ASSUME NEW t \in Tools, StartLate(t) PROVE Inv'
  BY <1>7, StartLateInv
<1>8. ASSUME NEW i \in s.open, StopTool(i) PROVE Inv'
  BY <1>8, StopToolInv
<1>9. ASSUME UpstreamCloses PROVE Inv'
  BY <1>9, UpstreamClosesInv
<1>10. ASSUME StreamFails PROVE Inv'
  BY <1>10, StreamFailsInv
<1>11. ASSUME Deadline PROVE Inv'
  BY <1>11, DeadlineInv
<1>12. ASSUME Task PROVE Inv'
  BY <1>12, ForwardInv, NoticeDisconnectInv, RecordInv DEF Task
<1>13. ASSUME Deliver PROVE Inv'
  BY <1>13, DeliverInv
<1>14. ASSUME Disconnect PROVE Inv'
  BY <1>14, DisconnectInv
<1>15. ASSUME UNCHANGED vars PROVE Inv'
  BY <1>15, StutterInv
<1> QED
  BY <1>1, <1>2, <1>3, <1>4, <1>5, <1>6, <1>7, <1>8, <1>9, <1>10, <1>11, <1>12, <1>13, <1>14, <1>15
     DEF Next, Receive, HandleChunk

\* At any time the client can read what is on its way, in Anthropic's grammar,
\* and then knows what the converter knows.
THEOREM StreamInvariant == Spec => []Inv
<1>1. Init => Inv
  BY InitInv
<1>2. Inv /\ [Next]_vars => Inv'
  BY NextInv
<1> QED
  BY <1>1, <1>2, PTL DEF Spec

\* The converter, its channel and the client keep their types: no more events
\* wait in the channel than it has room for (mpsc::channel in handler.rs), and
\* two indices for each chunk and one for each tool are enough.
THEOREM TypeCorrect == Spec => []TypeOK
<1>1. Inv => TypeOK
  BY DEF Inv
<1> QED
  BY <1>1, StreamInvariant, PTL

\* No fragment is lost, doubled or moved, however the calls of a chunk, the
\* deltas of the tools and the end of the stream are interleaved.
THEOREM FragmentsKeptHolds == Spec => []FragmentsKept
<1>1. Inv => FragmentsKept
  <2> SUFFICES ASSUME Inv PROVE FragmentsKept
    OBVIOUS
  <2>1. \A x \in Sources : client.got[x] \in Seq(Fragment) /\ sent[x] \in Seq(Fragment)
    BY DEF Inv, TypeOK, Client
  <2>2. \A x \in Sources : Begins(client.got[x], sent[x])
    BY DEF Inv, Good, World
  <2>3. \A x \in Sources : IsPrefix(client.got[x], sent[x])
    BY <2>1, <2>2, BeginsIsPrefix
  <2>4. Over(client) => \A x \in Sources : sent[x] = client.got[x]
    BY DEF Inv, Good, World
  <2> QED
    BY <2>3, <2>4 DEF FragmentsKept, Over
<1> QED
  BY <1>1, StreamInvariant, PTL

\* The blocks start in the order of their indices, but for tools that wait.
THEOREM StartsInOrderHolds == Spec => []StartsInOrder
<1>1. Inv => StartsInOrder
  <2> SUFFICES ASSUME Inv PROVE StartsInOrder
    OBVIOUS
  <2>1. InOrder(client, World) /\ World.tools = s.tools
    BY DEF Inv, Good, World
  <2> QED
    BY <2>1 DEF InOrder, StartsInOrder, Over
<1> QED
  BY <1>1, StreamInvariant, PTL

\* An answer that was read to its end is logged with its final counts.
THEOREM UsageRecordedHolds == Spec => []UsageRecorded
<1>1. Inv => UsageRecorded
  <2> SUFFICES ASSUME Inv, client.phase = "stopped", metered PROVE collector = "all"
    BY DEF UsageRecorded
  <2>1. Over(client) => World.counted
    BY DEF Inv, Good
  <2> QED
    BY <2>1 DEF Over, World
<1> QED
  BY <1>1, StreamInvariant, PTL

\* An event that is legal is a step AnthropicMessage allows.
LEMMA LegalPromised ==
    ASSUME NEW e \in Events, client \in Client, Legal(client, e), client' = Read(client, e)
    PROVE  Promised!Next
<1>1. client'.received = client.received + 1
  BY DEF Read
<1>2. CASE e.type = "message_start"
  <2>1. Promised!MessageStart
    BY <1>2 DEF Legal, Read, Promised!MessageStart
  <2> QED
    BY <1>1, <2>1 DEF Promised!Next
<1>3. CASE e.type = "content_block_start"
  <2>1. e.index \in Index /\ Promised!BlockStart(e.index)
    BY <1>3 DEF Legal, Read, Promised!BlockStart
  <2> QED
    BY <1>1, <2>1 DEF Promised!Next
<1>4. CASE e.type = "content_block_delta"
  <2>1. e.index \in Index /\ Promised!BlockDelta(e.index)
    BY <1>4 DEF Legal, Read, Promised!BlockDelta
  <2> QED
    BY <1>1, <2>1 DEF Promised!Next
<1>5. CASE e.type = "content_block_stop"
  <2>1. e.index \in Index /\ Promised!BlockStop(e.index)
    BY <1>5 DEF Legal, Read, Promised!BlockStop
  <2> QED
    BY <1>1, <2>1 DEF Promised!Next
<1>6. CASE e.type = "message_delta"
  <2>1. Promised!MessageDelta
    BY <1>6 DEF Legal, Read, Promised!MessageDelta
  <2> QED
    BY <1>1, <2>1 DEF Promised!Next
<1>7. CASE e.type = "message_stop"
  <2>1. Promised!MessageStop
    BY <1>7 DEF Legal, Read, Promised!MessageStop
  <2> QED
    BY <1>1, <2>1 DEF Promised!Next
<1>8. CASE e.type = "error"
  <2>1. Promised!Error
    BY <1>8 DEF Legal, Read, Promised!Error
  <2> QED
    BY <1>1, <2>1 DEF Promised!Next
<1> QED
  BY <1>2, <1>3, <1>4, <1>5, <1>6, <1>7, <1>8 DEF Events

\* Only a delivered event is a step for the client.
LEMMA OnlyDeliver == [Next]_vars => Deliver \/ client' = client
BY DEF Next, vars, Receive, ReceiveChunk, ReceiveUsage, ReceiveDone, HandleChunk, HandleCall, StopLastText,
       SendStopReason, StartLate, StopTool, UpstreamCloses, StreamFails, Deadline, Task, Forward,
       NoticeDisconnect, Record, Disconnect

\* What the client reads follows Anthropic's grammar, whatever the upstream
\* sends, wherever it stalls or fails, and whenever the client goes away.
THEOREM MessageImplemented == Spec => ImplementsMessage
<1>1. Init => Promised!Init
  BY DEF Init, Promised!Init
<1>2. Inv /\ [Next]_vars => [Promised!Next]_(Promised!message)
  <2> SUFFICES ASSUME Inv, [Next]_vars PROVE [Promised!Next]_(Promised!message)
    OBVIOUS
  <2>1. CASE Deliver
    <3>1. PICK e \in Events : e = Head(channel) /\ Legal(client, e)
      BY <2>1, DeliverInv
    <3>2. client' = Read(client, e) /\ client \in Client
      BY <2>1, <3>1 DEF Deliver, Inv, TypeOK
    <3>3. Promised!Next
      BY <3>1, <3>2, LegalPromised
    <3> QED
      BY <3>3
  <2>2. CASE client' = client
    BY <2>2 DEF Promised!message
  <2> QED
    BY <2>1, <2>2, OnlyDeliver
<1> QED
  BY <1>1, <1>2, StreamInvariant, PTL DEF Spec, ImplementsMessage, Promised!Spec
=============================================================================
