------------------------ MODULE MessagesRetryProofs ------------------------
(***************************************************************************)
(* For every number of attempts, every set of endpoints and every order of *)
(* answers and disconnects: the counts of MessagesRetry stay together and  *)
(* the safety properties its run checks hold.                              *)
(***************************************************************************)
EXTENDS MessagesRetry, TLAPS

\* The overflow retry is one call beyond those that attempt counts.
Extra == IF overflow_retried THEN 1 ELSE 0

InFlight == {"sending", "retryBody", "errorBody", "okBody", "forward"}

\* attempt counts the calls made so far, less the overflow retry.
Counting ==
    /\ pc \in {"select", "sleep"} => sent = attempt + Extra
    /\ pc \in InFlight => sent = attempt + 1 + Extra
    /\ pc = "done" => sent <= max_attempts + Extra

\* The loop head is only reached with attempts left.
Within ==
    /\ pc # "done" => attempt < max_attempts
    /\ pc = "retryBody" => attempt + 1 < max_attempts

Reporting ==
    /\ pc = "sending" => sent = reported + 1
    /\ pc # "sending" => \/ sent = reported
                         \/ pc = "done" /\ client = "gone" /\ sent = reported + 1

\* Only the last step logs, and only it answers a client that still waits.
Ending ==
    /\ pc # "done" => logged = 0 /\ client \in {"waiting", "stalled", "gone"}
    /\ logged <= 1
    /\ pc = "okBody" => ~stream
    /\ stream /\ client = "response" => logged = 1

\* What the body being read, and the hint, say of the last answer.
LastAnswer ==
    /\ pc = "errorBody" => answer.kind = "client" \/ attempt + 1 >= max_attempts
    /\ pc \in {"okBody", "forward"} => answer.kind = "ok"
    /\ pc \in {"select", "sending", "errorBody"} => ~retry_hint
    /\ retry_hint => answer.hint

IInv == TypeOK /\ Counting /\ Within /\ Reporting /\ Ending /\ LastAnswer /\ ErrorsOnlyWhenExhausted

\* What an answer the environment gives can be.
LEMMA AnswerFields ==
    ASSUME NEW a \in Answers
    PROVE  /\ a.kind \in {"network", "ok", "retryable", "client"}
           /\ a.hint \in BOOLEAN /\ a.room \in BOOLEAN
           /\ a.kind # "retryable" => ~a.hint
  BY DEF Answers

\* Init establishes the invariant.
LEMMA InitIInv == Init => IInv
<1> SUFFICES ASSUME Init PROVE IInv
  OBVIOUS
<1>1. TypeOK
  <2>1. answer \in Answers \union {NoAnswer}
    BY DEF Init
  <2> QED BY <2>1, RetryAssumption DEF Init, TypeOK, Running
<1>2. Counting /\ Within /\ Reporting /\ Ending
  BY RetryAssumption DEF Init, Counting, Within, Reporting, Ending, Extra, InFlight
<1>3. LastAnswer
  BY DEF Init, LastAnswer
<1>4. ErrorsOnlyWhenExhausted
  BY DEF Init, ErrorsOnlyWhenExhausted
<1> QED BY <1>1, <1>2, <1>3, <1>4 DEF IInv

\* What Top leaves for an attempt that is still within bounds.
LEMMA TopWithin ==
    ASSUME NEW a \in Nat, max_attempts \in Nat, a < max_attempts, Top(a)
    PROVE  pc' \in {"select", "sleep"} /\ (pc' = "select" => a = 0)
  BY DEF Top

\* The delay ends and a key is selected: nothing is counted.
LEMMA SleepKeeps ==
    ASSUME IInv, Sleep
    PROVE  IInv'
<1> USE DEF IInv, TypeOK, Sleep
<1>1. TypeOK'
  BY ZenonT(40) DEF Running, fixed, loop, body, Within, InFlight
<1>2. Counting' /\ Within'
  BY DEF Counting, Within, Extra, InFlight, Running, fixed, loop, body
<1>3. Reporting'
  BY DEF Reporting, Running, fixed, loop, body
<1>4. Ending'
  BY DEF Ending, Running, fixed, loop, body
<1>5. LastAnswer' /\ ErrorsOnlyWhenExhausted'
  BY DEF LastAnswer, Ending, Within, ErrorsOnlyWhenExhausted, Running, fixed, loop, body
<1> QED BY <1>1, <1>2, <1>3, <1>4, <1>5

\* No key: the request ends with as many calls as attempts were made.
LEMMA SelectFailsKeeps ==
    ASSUME IInv, SelectFails
    PROVE  IInv'
<1> USE DEF IInv, TypeOK, SelectFails, Reply
<1>1. TypeOK'
  BY DEF Running, fixed, loop, body, Within, InFlight
<1>2. Counting' /\ Within'
  BY DEF Counting, Within, Extra, InFlight, Running, fixed, loop, body
<1>3. Reporting'
  BY DEF Reporting, Running, fixed, loop, body
<1>4. Ending'
  BY DEF Ending, Running, fixed, loop, body
<1>5. LastAnswer' /\ ErrorsOnlyWhenExhausted'
  BY DEF LastAnswer, Ending, Within, ErrorsOnlyWhenExhausted, Running, fixed, loop, body
<1> QED BY <1>1, <1>2, <1>3, <1>4, <1>5

\* A call is made; an endpoint that sets the limit does so before any was counted.
LEMMA SendKeeps ==
    ASSUME IInv, NEW e \in Endpoints \union {Fallback}, Send(e)
    PROVE  IInv'
<1> USE DEF IInv, TypeOK, Send, Limit
<1>1. TypeOK'
  BY RetryAssumption DEF Running, fixed, loop, body, Within, InFlight
<1>2. Counting' /\ Within'
  BY RetryAssumption DEF Counting, Within, Extra, InFlight, Running, fixed, loop, body
<1>3. Reporting'
  BY RetryAssumption DEF Reporting, Running, fixed, loop, body
<1>4. Ending'
  BY RetryAssumption DEF Ending, Running, fixed, loop, body
<1>5. LastAnswer' /\ ErrorsOnlyWhenExhausted'
  BY RetryAssumption DEF LastAnswer, Ending, Within, ErrorsOnlyWhenExhausted, Running, fixed, loop, body
<1> QED BY <1>1, <1>2, <1>3, <1>4, <1>5

\* The panic ends the request as a failing selection does.
LEMMA PanicsKeeps ==
    ASSUME IInv, NEW e, Panics(e)
    PROVE  IInv'
<1> USE DEF IInv, TypeOK, Panics, Reply
<1>1. TypeOK'
  BY DEF Running, fixed, loop, body, Within, InFlight
<1>2. Counting' /\ Within'
  BY DEF Counting, Within, Extra, InFlight, Running, fixed, loop, body
<1>3. Reporting'
  BY DEF Reporting, Running, fixed, loop, body
<1>4. Ending'
  BY DEF Ending, Running, fixed, loop, body
<1>5. LastAnswer' /\ ErrorsOnlyWhenExhausted'
  BY DEF LastAnswer, Ending, Within, ErrorsOnlyWhenExhausted, Running, fixed, loop, body
<1> QED BY <1>1, <1>2, <1>3, <1>4, <1>5

\* No response: reported, then the next attempt or the end.
LEMMA NetworkErrorKeeps ==
    ASSUME IInv, NetworkError
    PROVE  IInv'
<1> USE DEF IInv, TypeOK, NetworkError, HasNext, Top, Reply, Report
<1>1. TypeOK'
  BY DEF Answers, Running, fixed, loop, body, Within, InFlight
<1>2. Counting' /\ Within'
  BY DEF Counting, Within, Extra, InFlight, Running, fixed, loop, body
<1>3. Reporting'
  BY DEF Reporting, Running, fixed, loop, body
<1>4. Ending'
  BY DEF Ending, Running, fixed, loop, body
<1>5. LastAnswer' /\ ErrorsOnlyWhenExhausted'
  BY DEF LastAnswer, Ending, Within, ErrorsOnlyWhenExhausted, Running, fixed, loop, body
<1> QED BY <1>1, <1>2, <1>3, <1>4, <1>5

\* An error status: reported before its body is read.
LEMMA ErrorStatusKeeps ==
    ASSUME IInv, NEW a \in Answers, ErrorStatus(a)
    PROVE  IInv'
<1> USE DEF IInv, TypeOK, ErrorStatus, HasNext, Report
<1>0. a.hint \in BOOLEAN /\ (a.kind # "retryable" => ~a.hint)
  BY AnswerFields
<1>1. TypeOK'
  BY <1>0 DEF Running, fixed, loop, body, Within, InFlight
<1>2. Counting' /\ Within'
  BY DEF Counting, Within, Extra, InFlight, Running, fixed, loop, body
<1>3. Reporting'
  BY <1>0 DEF Reporting, Running, fixed, loop, body
<1>4. Ending'
  BY <1>0 DEF Ending, Running, fixed, loop, body
<1>5. LastAnswer' /\ ErrorsOnlyWhenExhausted'
  BY <1>0 DEF LastAnswer, Ending, Within, ErrorsOnlyWhenExhausted, Running, fixed, loop, body
<1> QED BY <1>1, <1>2, <1>3, <1>4, <1>5

\* The next attempt, which HasNext had checked for.
LEMMA RetryKeeps ==
    ASSUME IInv, Retry
    PROVE  IInv'
<1> USE DEF IInv, TypeOK, Retry, Top
<1>1. TypeOK'
  BY DEF Running, fixed, loop, body, Within, InFlight
<1>2. Counting' /\ Within'
  BY DEF Counting, Within, Extra, InFlight, Running, fixed, loop, body
<1>3. Reporting'
  BY DEF Reporting, Running, fixed, loop, body
<1>4. Ending'
  BY DEF Ending, Running, fixed, loop, body
<1>5. LastAnswer' /\ ErrorsOnlyWhenExhausted'
  BY DEF LastAnswer, Ending, Within, ErrorsOnlyWhenExhausted, Running, fixed, loop, body
<1> QED BY <1>1, <1>2, <1>3, <1>4, <1>5

\* The overflow retry repeats the attempt and can happen once.
LEMMA ShrinkAndRetryKeeps ==
    ASSUME IInv, ShrinkAndRetry
    PROVE  IInv'
<1> USE DEF IInv, TypeOK, ShrinkAndRetry, Top
<1>1. TypeOK'
  BY DEF Running, fixed, loop, body, Within, InFlight
<1>2. Counting' /\ Within'
  BY DEF Counting, Within, Extra, InFlight, Running, fixed, loop, body
<1>3. Reporting'
  BY DEF Reporting, Running, fixed, loop, body
<1>4. Ending'
  BY DEF Ending, Running, fixed, loop, body
<1>5. LastAnswer' /\ ErrorsOnlyWhenExhausted'
  BY DEF LastAnswer, Ending, Within, ErrorsOnlyWhenExhausted, Running, fixed, loop, body
<1> QED BY <1>1, <1>2, <1>3, <1>4, <1>5

\* The error is passed on; only a client error is logged.
LEMMA GiveUpKeeps ==
    ASSUME IInv, NEW unread \in BOOLEAN, GiveUp(unread)
    PROVE  IInv'
<1> USE DEF IInv, TypeOK, GiveUp, Reply
<1>1. TypeOK'
  BY DEF Running, fixed, loop, body, Within, InFlight
<1>2. Counting' /\ Within'
  BY DEF Counting, Within, Extra, InFlight, Running, fixed, loop, body
<1>3. Reporting'
  BY DEF Reporting, Running, fixed, loop, body
<1>4. Ending'
  BY DEF Ending, Running, fixed, loop, body
<1>5. LastAnswer' /\ ErrorsOnlyWhenExhausted'
  BY DEF LastAnswer, Ending, Within, ErrorsOnlyWhenExhausted, Running, fixed, loop, body
<1> QED BY <1>1, <1>2, <1>3, <1>4, <1>5

\* A success is reported before its body is looked at.
LEMMA SuccessKeeps ==
    ASSUME IInv, Success
    PROVE  IInv'
<1> USE DEF IInv, TypeOK, Success, Report
<1>1. TypeOK'
  BY DEF Answers, Running, fixed, loop, body, Within, InFlight
<1>2. Counting' /\ Within'
  BY DEF Counting, Within, Extra, InFlight, Running, fixed, loop, body
<1>3. Reporting'
  BY DEF Reporting, Running, fixed, loop, body
<1>4. Ending'
  BY DEF Ending, Running, fixed, loop, body
<1>5. LastAnswer' /\ ErrorsOnlyWhenExhausted'
  BY DEF LastAnswer, Ending, Within, ErrorsOnlyWhenExhausted, Running, fixed, loop, body
<1> QED BY <1>1, <1>2, <1>3, <1>4, <1>5

\* The plain response is logged at most here.
LEMMA PlainResponseKeeps ==
    ASSUME IInv, NEW converts \in BOOLEAN, NEW usage \in BOOLEAN, PlainResponse(converts, usage)
    PROVE  IInv'
<1> USE DEF IInv, TypeOK, PlainResponse, Reply
<1>1. TypeOK'
  BY DEF Running, fixed, loop, body, Within, InFlight
<1>2. Counting' /\ Within'
  BY DEF Counting, Within, Extra, InFlight, Running, fixed, loop, body
<1>3. Reporting'
  BY DEF Reporting, Running, fixed, loop, body
<1>4. Ending'
  BY DEF Ending, Running, fixed, loop, body
<1>5. LastAnswer' /\ ErrorsOnlyWhenExhausted'
  BY DEF LastAnswer, Ending, Within, ErrorsOnlyWhenExhausted, Running, fixed, loop, body
<1> QED BY <1>1, <1>2, <1>3, <1>4, <1>5

\* The stream is logged exactly here.
LEMMA ForwardStreamKeeps ==
    ASSUME IInv, NEW broken \in BOOLEAN, ForwardStream(broken)
    PROVE  IInv'
<1> USE DEF IInv, TypeOK, ForwardStream, Reply
<1>1. TypeOK'
  BY DEF Running, fixed, loop, body, Within, InFlight
<1>2. Counting' /\ Within'
  BY DEF Counting, Within, Extra, InFlight, Running, fixed, loop, body
<1>3. Reporting'
  BY DEF Reporting, Running, fixed, loop, body
<1>4. Ending'
  BY DEF Ending, Running, fixed, loop, body
<1>5. LastAnswer' /\ ErrorsOnlyWhenExhausted'
  BY DEF LastAnswer, Ending, Within, ErrorsOnlyWhenExhausted, Running, fixed, loop, body
<1> QED BY <1>1, <1>2, <1>3, <1>4, <1>5

\* The client leaves, stops reading or reads again.
LEMMA ClientMovesKeeps ==
    ASSUME IInv, NEW from, NEW to \in {"gone", "stalled", "waiting"},
           from \subseteq {"waiting", "stalled"}, ClientMoves(from, to)
    PROVE  IInv'
<1> USE DEF IInv, TypeOK, ClientMoves
<1>1. TypeOK'
  BY DEF Running, fixed, loop, body, Within, InFlight
<1>2. Counting' /\ Within'
  BY DEF Counting, Within, Extra, InFlight, Running, fixed, loop, body
<1>3. Reporting'
  BY DEF Reporting, Running, fixed, loop, body
<1>4. Ending'
  BY DEF Ending, Running, fixed, loop, body
<1>5. LastAnswer' /\ ErrorsOnlyWhenExhausted'
  BY DEF LastAnswer, Ending, Within, ErrorsOnlyWhenExhausted, Running, fixed, loop, body
<1> QED BY <1>1, <1>2, <1>3, <1>4, <1>5

\* The handler is dropped, or the task notices that nobody reads.
LEMMA AbandonKeeps ==
    ASSUME IInv, Abandon
    PROVE  IInv'
<1> USE DEF IInv, TypeOK, Abandon
<1>1. TypeOK'
  BY DEF Running, fixed, loop, body, Within, InFlight
<1>2. Counting' /\ Within'
  BY DEF Counting, Within, Extra, InFlight, Running, fixed, loop, body
<1>3. Reporting'
  BY DEF Reporting, Running, fixed, loop, body
<1>4. Ending'
  BY DEF Ending, Running, fixed, loop, body
<1>5. LastAnswer' /\ ErrorsOnlyWhenExhausted'
  BY DEF LastAnswer, Ending, Within, ErrorsOnlyWhenExhausted, Running, fixed, loop, body
<1> QED BY <1>1, <1>2, <1>3, <1>4, <1>5

\* A step that changes nothing, the end of a finished request among them.
LEMMA StutterKeeps ==
    ASSUME IInv, UNCHANGED vars
    PROVE  IInv'
  BY DEF IInv, TypeOK, Counting, Within, Reporting, Ending, LastAnswer, ErrorsOnlyWhenExhausted,
     Extra, vars, fixed, loop, body

\* Every step keeps the invariant, action by action.
LEMMA NextIInv == IInv /\ [Next]_vars => IInv'
<1> SUFFICES ASSUME IInv, [Next]_vars PROVE IInv'
  OBVIOUS
<1>1. CASE Sleep BY <1>1, SleepKeeps
<1>2. CASE SelectFails BY <1>2, SelectFailsKeeps
<1>3. CASE \E e \in Endpoints \union {Fallback} : Send(e) BY <1>3, SendKeeps
<1>4. CASE NetworkError BY <1>4, NetworkErrorKeeps
<1>5. CASE \E a \in Answers : ErrorStatus(a) BY <1>5, ErrorStatusKeeps
<1>6. CASE Retry BY <1>6, RetryKeeps
<1>7. CASE ShrinkAndRetry BY <1>7, ShrinkAndRetryKeeps
<1>8. CASE \E unread \in BOOLEAN : GiveUp(unread) BY <1>8, GiveUpKeeps
<1>9. CASE Success BY <1>9, SuccessKeeps
<1>10. CASE \E converts, usage \in BOOLEAN : PlainResponse(converts, usage) BY <1>10, PlainResponseKeeps
<1>11. CASE \E broken \in BOOLEAN : ForwardStream(broken) BY <1>11, ForwardStreamKeeps
<1>12. CASE Abandon BY <1>12, AbandonKeeps
<1>13. CASE Disconnect \/ Stall \/ Resume
  BY <1>13, ClientMovesKeeps DEF Disconnect, Stall, Resume
<1>14. CASE UNCHANGED vars BY <1>14, StutterKeeps
<1>15. CASE \E e \in Endpoints \union {Fallback} : Panics(e) BY <1>15, PanicsKeeps
<1> QED
  BY <1>1, <1>2, <1>3, <1>4, <1>5, <1>6, <1>7, <1>8, <1>9, <1>10, <1>11, <1>12, <1>13, <1>14, <1>15
     DEF Next, Handler, Finished

\* The invariant holds throughout, for all values of the constants.
THEOREM RetryInvariant == Spec => []IInv
  BY InitIInv, NextIInv, PTL DEF Spec

\* The control states are those of the code; in particular the exit for used-up
\* attempts at the loop head ("exhausted") is never reached.
THEOREM TypeCorrect == Spec => []TypeOK
<1>1. IInv => TypeOK
  BY DEF IInv
<1> QED BY <1>1, RetryInvariant, PTL

\* However many attempts an endpoint allows, the upstream is called at most that
\* often, plus once for a context overflow.
THEOREM AttemptsAreBounded == Spec => []AttemptsBounded
<1>1. IInv => AttemptsBounded
  BY DEF IInv, TypeOK, Counting, Within, AttemptsBounded, Extra, InFlight, Running
<1> QED BY <1>1, RetryInvariant, PTL

\* Each answered attempt is reported once, wherever the client leaves.
THEOREM AnswersAreReported == Spec => []EveryAnswerReported
<1>1. IInv => EveryAnswerReported
  BY DEF IInv, TypeOK, Reporting, EveryAnswerReported
<1> QED BY <1>1, RetryInvariant, PTL

\* A client that waits sees a retryable error only with no attempt left.
THEOREM ErrorsAreLast == Spec => []ErrorsOnlyWhenExhausted
<1>1. IInv => ErrorsOnlyWhenExhausted
  BY DEF IInv
<1> QED BY <1>1, RetryInvariant, PTL

\* A request is logged at most once, and a streamed answer is.
THEOREM RequestsAreLoggedOnce == Spec => []LoggedOnce
<1>1. IInv => LoggedOnce
  BY DEF IInv, Ending, LoggedOnce
<1> QED BY <1>1, RetryInvariant, PTL

\* A retry-after hint never delays a later attempt than the next.
THEOREM HintsAreFresh == Spec => HintIsFresh
<1>1. IInv /\ [Next]_vars =>
        [pc = "sleep" /\ pc' = "select" /\ delay' = "retry-after" => answer.hint]_vars
  <2> SUFFICES ASSUME IInv, Next, pc = "sleep", pc' = "select", delay' = "retry-after"
               PROVE  answer.hint
    OBVIOUS
  <2>1. Sleep
    BY DEF Next, Handler, Finished, vars, Sleep, SelectFails, Send, NetworkError, ErrorStatus,
       Panics, Retry, ShrinkAndRetry, GiveUp, Success, PlainResponse, ForwardStream, Abandon,
       Disconnect, Stall, Resume, ClientMoves
  <2> QED BY <2>1 DEF Sleep, IInv, LastAnswer
<1> QED BY <1>1, RetryInvariant, PTL DEF Spec, HintIsFresh
=============================================================================
