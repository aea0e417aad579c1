-------------------------- MODULE AnthropicMessage --------------------------
(***************************************************************************)
(* What a client of POST /v1/messages may count on while it reads a        *)
(* streamed answer: the grammar of Anthropic's server-sent events, one     *)
(* event per step.  StreamConverter is shown to implement it.              *)
(***************************************************************************)
EXTENDS Naturals

CONSTANT Index      \* the content block indices an answer may use

VARIABLES
    phase,      \* how far the message has come
    block,      \* block[i]: the life of content block i
    received    \* the number of events read, so that every event is a step

message == <<phase, block, received>>

Phase == {"waiting", "open", "ending", "stopped", "failed"}

Init ==
    /\ phase = "waiting"
    /\ block = [i \in Index |-> "unused"]
    /\ received = 0

MessageStart ==
    /\ phase = "waiting"
    /\ phase' = "open"
    /\ UNCHANGED block

BlockStart(i) ==
    /\ phase = "open"
    /\ block[i] = "unused"
    /\ block' = [block EXCEPT ![i] = "open"]
    /\ UNCHANGED phase

\* A delta belongs to a block that was started and is not stopped.
BlockDelta(i) ==
    /\ phase = "open"
    /\ block[i] = "open"
    /\ UNCHANGED <<phase, block>>

BlockStop(i) ==
    /\ phase = "open"
    /\ block[i] = "open"
    /\ block' = [block EXCEPT ![i] = "closed"]
    /\ UNCHANGED phase

\* The stop reason comes after the last block is stopped.
MessageDelta ==
    /\ phase = "open"
    /\ \A i \in Index : block[i] # "open"
    /\ phase' = "ending"
    /\ UNCHANGED block

MessageStop ==
    /\ phase = "ending"
    /\ phase' = "stopped"
    /\ UNCHANGED block

\* An error event may cut the answer anywhere and is the last event.
Error ==
    /\ phase # "failed"
    /\ phase' = "failed"
    /\ UNCHANGED block

Next ==
    /\ received' = received + 1
    /\ \/ MessageStart \/ MessageDelta \/ MessageStop \/ Error
       \/ \E i \in Index : BlockStart(i) \/ BlockDelta(i) \/ BlockStop(i)

Spec == Init /\ [][Next]_message
=============================================================================
