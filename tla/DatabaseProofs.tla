--------------------------- MODULE DatabaseProofs ---------------------------
(***************************************************************************)
(* For any number of endpoints, keys, tokens and calls, any old file and   *)
(* any number of stops: the safety properties the run of DatabaseAdmin     *)
(* checks.  Typed says what the locals of the start-up and of the calls    *)
(* are, and that writers exclude each other; each property then has an     *)
(* inductive strengthening of its own on top of it.                        *)
(***************************************************************************)
EXTENDS DatabaseAdmin, TLAPS

-----------------------------------------------------------------------------
(* Types, and one writer at a time *)

\* The locals of the start-up: between an insert and the end of its migration
\* fresh is the row that was made.
Booting ==
    /\ boot \in {"bind_keys", "drop_url"} => fresh \in Endpoints \cap moved
    /\ boot \in {"bind_token", "drop_token"} => fresh \in Tokens \cap moved

\* The locals of a call.
Locals ==
    \A c \in Calls :
        /\ task[c].at \in {"bind", "drop_token"} => task[c].id \in Tokens
        /\ task[c].at \in {"drop_endpoint", "batch", "check", "save", "sync"} => task[c].id \in Endpoints
        /\ task[c].at = "bind" => task[c].rest \subseteq Endpoints
        /\ task[c].at = "batch" => task[c].rest \subseteq Keys

\* Calls and start-ups exclude each other, and so do the writing methods.
OneAtATime ==
    /\ ~Serving => \A c \in Calls : task[c] = Idle
    /\ \A c, d \in Calls : task[c].at \in InMethod /\ task[d].at \in InMethod => c = d

Typed == TypeOK /\ Booting /\ Locals /\ OneAtATime

\* Init establishes the types.
LEMMA InitTyped == Init => Typed
<1> SUFFICES ASSUME Init PROVE Typed
  OBVIOUS
<1>1. DbTypeOK
  BY DatabaseAssumption DEF Init, DbInit, DbTypeOK, OldFile, Life, Values
<1>2. TypeOK
  BY <1>1, AdminAssumption DEF Init, DbInit, TypeOK, Task, Idle
<1>3. Booting /\ Locals /\ OneAtATime
  BY DEF Init, DbInit, Booting, Locals, OneAtATime, Idle, InMethod, Serving
<1> QED BY <1>2, <1>3 DEF Typed

\* An ALTER or CREATE adds a name the code knows.
LEMMA SchemaTyped ==
    ASSUME NEW steps \in {MainSchema, AccessSchema}, schema \subseteq FullSchema, Extend(steps)
    PROVE  schema' \subseteq FullSchema
<1>1. PICK i \in Missing(steps) : schema' = schema \cup Brings(steps[i])
  BY DEF Extend
<1>2. steps[i] \in FullSchema
  BY <1>1 DEF Missing, FullSchema, Range
<1>3. "endpoint_id" \in FullSchema
  <2>1. 13 \in DOMAIN MainSchema /\ MainSchema[13] = "endpoint_id"
    BY DEF MainSchema
  <2> QED BY <2>1 DEF FullSchema, Range
<1>4. Brings(steps[i]) \subseteq FullSchema
  BY <1>2, <1>3 DEF Brings
<1> QED BY <1>1, <1>4

\* A start-up leaves the calls alone, of which there are none.
LEMMA BootsTyped ==
    ASSUME Typed, NEW error \in Errors, Boots(error)
    PROVE  Typed'
<1> USE DatabaseAssumption, AdminAssumption DEF Typed, Goto, tables, start, past
<1>1. boot # "serving" /\ (\A c \in Calls : task[c] = Idle) /\ task' = task
  BY DEF Boots, StartUp, Start, MainStep, SkipUrl, MoveUrl, BindKeys, DropUrl, AccessStep,
         SkipToken, MoveToken, BindToken, DropToken, OneAtATime, Serving
<1>2. Locals' /\ OneAtATime'
  BY <1>1 DEF Locals, OneAtATime, Idle, InMethod
<1>3. DbTypeOK' /\ Booting'
  <2> USE DEF TypeOK, DbTypeOK, Booting, Life
  <2>1. CASE Start BY <2>1 DEF Start
  <2>2. CASE MainStep BY <2>2, SchemaTyped DEF MainStep
  <2>3. CASE SkipUrl(error) BY <2>3 DEF SkipUrl
  <2>4. CASE MoveUrl(error) BY <2>4 DEF MoveUrl, New, Moved
  <2>5. CASE BindKeys BY <2>5 DEF BindKeys
  <2>6. CASE DropUrl BY <2>6 DEF DropUrl, Drop, Settings
  <2>7. CASE AccessStep BY <2>7, SchemaTyped DEF AccessStep
  <2>8. CASE SkipToken(error) BY <2>8 DEF SkipToken
  <2>9. CASE MoveToken(error) BY <2>9 DEF MoveToken, InsertToken, New, Live, Moved, Values, Settings
  <2>10. CASE BindToken BY <2>10 DEF BindToken
  <2>11. CASE DropToken BY <2>11 DEF DropToken, Drop, Settings
  <2> QED BY <2>1, <2>2, <2>3, <2>4, <2>5, <2>6, <2>7, <2>8, <2>9, <2>10, <2>11 DEF Boots, StartUp
<1>4. TypeOK'
  <2>1. Live(endpoint) \subseteq Endpoints
    BY DEF TypeOK, DbTypeOK, Live
  <2>2. granted' \in [Tokens -> SUBSET Endpoints]
    BY <2>1 DEF TypeOK, Boots
  <2> QED BY <1>1, <1>3, <2>2 DEF TypeOK, Boots
<1> QED BY <1>2, <1>3, <1>4

\* A stop forgets the locals.
LEMMA StopsTyped == Typed /\ Stops => Typed'
<1> SUFFICES ASSUME Typed, Stops PROVE Typed'
  OBVIOUS
<1> USE DatabaseAssumption, AdminAssumption DEF Typed, Stops, Stop, Goto, tables
<1>1. DbTypeOK' /\ Booting'
  BY DEF TypeOK, DbTypeOK, Booting
<1>2. TypeOK'
  BY <1>1 DEF TypeOK, Task, Idle, Locals, Booting
<1>3. Locals' /\ OneAtATime'
  BY DEF Locals, OneAtATime, Idle, InMethod
<1> QED BY <1>1, <1>2, <1>3


\* What a call may remember.
WellFormed(l) ==
    /\ l \in Task
    /\ l.at \in {"bind", "drop_token"} => l.id \in Tokens
    /\ l.at \in {"drop_endpoint", "batch", "check", "save", "sync"} => l.id \in Endpoints
    /\ l.at = "bind" => l.rest \subseteq Endpoints
    /\ l.at = "batch" => l.rest \subseteq Keys

\* A call that goes on, or starts when no other method has the mutex, keeps
\* the calls apart.
LEMMA TaskTyped ==
    ASSUME Typed, UNCHANGED boot, NEW c \in Calls, NEW l,
           WellFormed(l),
           task' = [task EXCEPT ![c] = l],
           Serving \/ l = Idle,
           l.at \in InMethod => WriterFree \/ task[c].at \in InMethod
    PROVE  task' \in [Calls -> Task] /\ Locals' /\ OneAtATime'
<1> USE DEF Typed, TypeOK, WellFormed
<1>1. task' \in [Calls -> Task]
  OBVIOUS
<1>2. Locals'
  BY DEF Locals
<1>3. OneAtATime'
  BY DEF OneAtATime, WriterFree, Serving
<1> QED BY <1>1, <1>2, <1>3

\* So does a call of one statement, which remembers nothing.
LEMMA TaskKept ==
    ASSUME Typed, UNCHANGED <<boot, task>>
    PROVE  task' \in [Calls -> Task] /\ Locals' /\ OneAtATime'
  BY DEF Typed, TypeOK, Locals, OneAtATime, Serving

\* The tables and histories a call may change.
RowsTyped ==
    /\ setting \in [Settings -> {"missing", "blank"} \cup Values]
    /\ endpoint \in [Endpoints -> Life]
    /\ owner \in [Keys -> Endpoints \cup {NoEndpoint, "unused", "deleted"}]
    /\ token \in [Tokens -> Life]
    /\ bindings \subseteq Tokens \X Endpoints
    /\ models \in [Endpoints -> {"empty", "hand", "fetched"}]
    /\ calls \in 0 .. CallBound
    /\ granted \in [Tokens -> SUBSET Endpoints]
    /\ partial \subseteq Tokens

\* A call changes no local of the start-up and no history of it.
LEMMA CallTyped ==
    ASSUME Typed, UNCHANGED <<start, past, schema>>, RowsTyped',
           task' \in [Calls -> Task], Locals', OneAtATime'
    PROVE  Typed'
  BY DEF Typed, TypeOK, DbTypeOK, Booting, RowsTyped, start, past

\* Those parts of TypeOK.
LEMMA RowsAreTyped == Typed => RowsTyped
  BY DEF Typed, TypeOK, DbTypeOK, RowsTyped

\* A call is only taken within the bound.
LEMMA CallCounted ==
    ASSUME Typed, NEW c \in Calls, Call(c)
    PROVE  calls' \in 0 .. CallBound /\ Serving /\ WriterFree
  BY AdminAssumption DEF Typed, TypeOK, Call

\* Granting channels, with or without bindings to come.
LEMMA GrantTyped ==
    ASSUME Typed, NEW c \in Calls, NEW t \in Tokens, NEW channels \in SUBSET Endpoints,
           UNCHANGED boot, Serving, WriterFree, Grant(c, t, channels)
    PROVE  /\ task' \in [Calls -> Task] /\ Locals' /\ OneAtATime'
           /\ granted' \in [Tokens -> SUBSET Endpoints] /\ partial' \subseteq Tokens
<1>1. granted' \in [Tokens -> SUBSET Endpoints] /\ partial' \subseteq Tokens
  BY DEF Grant, Typed, TypeOK
<1>2. CASE channels = {}
  BY <1>1, <1>2, TaskKept DEF Grant
<1>3. CASE channels # {}
  <2> DEFINE l == [Idle EXCEPT !.at = "bind", !.id = t, !.rest = channels]
  <2>1. WellFormed(l)
    BY DEF WellFormed, Task, Idle
  <2>2. task' = [task EXCEPT ![c] = l]
    BY <1>3 DEF Grant, SetTask
  <2> QED BY <1>1, <2>1, <2>2, TaskTyped
<1> QED BY <1>2, <1>3

\* The two ways most steps end: with something to do, or with nothing.
LEMMA SetTaskTyped ==
    ASSUME Typed, UNCHANGED boot, Serving, NEW c \in Calls, NEW at, NEW id, NEW rest,
           WellFormed([Idle EXCEPT !.at = at, !.id = id, !.rest = rest]),
           at \in InMethod => WriterFree \/ task[c].at \in InMethod,
           SetTask(c, at, id, rest)
    PROVE  task' \in [Calls -> Task] /\ Locals' /\ OneAtATime'
<1> DEFINE l == [Idle EXCEPT !.at = at, !.id = id, !.rest = rest]
<1>1. l.at = at
  BY DEF Idle
<1>2. task' = [task EXCEPT ![c] = l]
  BY DEF SetTask
<1> QED BY <1>1, <1>2, TaskTyped

\* What the calls remember after one of them has moved on.
LEMMA AfterSetTask ==
    ASSUME Typed, NEW c \in Calls, NEW at, NEW id, NEW rest, SetTask(c, at, id, rest)
    PROVE  /\ \A d \in Calls \ {c} : task'[d] = task[d]
           /\ task'[c].at = at /\ task'[c].id = id /\ task'[c].rest = rest /\ task'[c].current = FALSE
  BY DEF Typed, TypeOK, SetTask, Idle

\* As AfterSetTask, for a call that is over.
LEMMA AfterDone ==
    ASSUME Typed, NEW c \in Calls, Done(c)
    PROVE  /\ \A d \in Calls \ {c} : task'[d] = task[d]
           /\ task'[c] = Idle /\ Idle.at = "idle" /\ Idle.current = FALSE
  BY DEF Typed, TypeOK, Done, Idle

\* As AfterSetTask, for the look at the model list: only an empty list makes a
\* task current.
LEMMA AfterCheckModels ==
    ASSUME Typed, NEW c \in Calls, CheckModels(c)
    PROVE  /\ \A d \in Calls \ {c} : task'[d] = task[d]
           /\ task[c].at = "check"
           /\ task'[c].at \in {"save", "idle"}
           /\ task'[c].current => \/ task[c].current
                                 \/ /\ task'[c].at = "save" /\ task'[c].id = task[c].id
                                    /\ models[task[c].id] = "empty"
<1>1. task[c] \in Task
  BY DEF Typed, TypeOK
<1>2. CASE task' = [task EXCEPT ![c] = [task[c] EXCEPT !.at = "save"]]
  <2>1. task'[c] = [task[c] EXCEPT !.at = "save"] /\ \A d \in Calls \ {c} : task'[d] = task[d]
    BY <1>2 DEF Typed, TypeOK
  <2> QED BY <1>1, <2>1 DEF CheckModels, Task
<1>3. CASE models[task[c].id] = "empty" /\ task' = [task EXCEPT ![c] = [task[c] EXCEPT !.at = "save", !.current = TRUE]]
  <2>1. task'[c] = [task[c] EXCEPT !.at = "save", !.current = TRUE] /\ \A d \in Calls \ {c} : task'[d] = task[d]
    BY <1>3 DEF Typed, TypeOK
  <2>2. task'[c].at = "save" /\ task'[c].id = task[c].id
    BY <1>1, <2>1 DEF Task
  <2> QED BY <1>3, <2>1, <2>2 DEF CheckModels
<1>4. CASE Done(c)
  BY <1>4, AfterDone DEF CheckModels
<1> QED BY <1>2, <1>3, <1>4 DEF CheckModels

\* As AfterSetTask, for the channels of a token.
LEMMA AfterGrant ==
    ASSUME Typed, NEW c \in Calls, NEW t, NEW channels, Grant(c, t, channels), task[c].at = "idle"
    PROVE  /\ \A d \in Calls \ {c} : task'[d] = task[d]
           /\ channels = {} => task' = task
           /\ channels # {} => /\ task'[c].at = "bind" /\ task'[c].id = t
                              /\ task'[c].rest = channels /\ task'[c].current = FALSE
<1>1. CASE channels = {}
  BY <1>1 DEF Grant
<1>2. CASE channels # {}
  BY <1>2, AfterSetTask DEF Grant
<1> QED BY <1>1, <1>2

\* As AfterSetTask, for a list set by hand: tasks for that endpoint are outdated.
LEMMA AfterSetModels ==
    ASSUME Typed, NEW c \in Calls, NEW e, NEW list, SetModels(c, e, list)
    PROVE  /\ \A d \in Calls : /\ task'[d].at = task[d].at /\ task'[d].id = task[d].id
                               /\ task'[d].rest = task[d].rest
           /\ \A d \in Calls : task'[d].current => task[d].current /\ task[d].id # e
<1>1. \A d \in Calls : task[d] \in Task
  BY DEF Typed, TypeOK
<1>2. task' = [d \in Calls |-> [task[d] EXCEPT !.current = @ /\ task[d].id # e]]
  BY DEF SetModels
<1> QED BY <1>1, <1>2 DEF Task

\* As AfterSetTask, for a transaction that opens.
LEMMA AfterBatch ==
    ASSUME Typed, NEW c \in Calls, NEW e, NEW ks, BatchAddKeys(c, e, ks)
    PROVE  /\ \A d \in Calls \ {c} : task'[d] = task[d]
           /\ task'[c].at = "batch" /\ task'[c].current = FALSE
  BY DEF Typed, TypeOK, BatchAddKeys, Idle

\* A call that is over leaves its task idle and holds no mutex.
LEMMA DoneTyped ==
    ASSUME Typed, UNCHANGED boot, NEW c \in Calls, Done(c)
    PROVE  task' \in [Calls -> Task] /\ Locals' /\ OneAtATime'
<1>1. WellFormed(Idle) /\ Idle.at \notin InMethod
  BY DEF WellFormed, Idle, Task, InMethod
<1> QED BY <1>1, TaskTyped DEF Done

\* Calls about tokens keep the types.
LEMMA CallTokensTyped ==
    ASSUME Typed, NEW c \in Calls, CallTokens(c)
    PROVE  Typed'
<1>1. PICK t \in Tokens :
         \/ \E channels \in SUBSET Known : AddAccessToken(c, t, channels) \/ ReplaceChannels(c, t, channels)
         \/ DeleteAccessToken(c, t)
  BY DEF CallTokens
<1> USE RowsAreTyped, CallTyped, CallCounted DEF RowsTyped, Life, start, past
<1>2. ASSUME NEW channels \in SUBSET Known, AddAccessToken(c, t, channels)
      PROVE  Typed'
  BY <1>2, GrantTyped DEF AddAccessToken, Known
<1>3. ASSUME NEW channels \in SUBSET Known, ReplaceChannels(c, t, channels)
      PROVE  Typed'
  BY <1>3, GrantTyped DEF ReplaceChannels, Known, WithoutToken
<1>4. CASE DeleteAccessToken(c, t)
  <2>1. WellFormed([Idle EXCEPT !.at = "drop_token", !.id = t, !.rest = {}])
    BY DEF WellFormed, Task, Idle
  <2>2. task' \in [Calls -> Task] /\ Locals' /\ OneAtATime'
    BY <1>4, <2>1, SetTaskTyped DEF DeleteAccessToken
  <2> QED BY <1>4, <2>2 DEF DeleteAccessToken, WithoutToken
<1> QED BY <1>1, <1>2, <1>3, <1>4

\* The tasks that name an endpoint and nothing else.
LEMMA ForEndpoint ==
    ASSUME NEW e \in Endpoints, NEW at \in {"drop_endpoint", "check", "sync"}
    PROVE  WellFormed([Idle EXCEPT !.at = at, !.id = e, !.rest = {}])
  BY DEF WellFormed, Task, Idle

\* Calls about endpoints, keys and model lists keep the types.
LEMMA CallEndpointsTyped ==
    ASSUME Typed, NEW c \in Calls, CallEndpoints(c)
    PROVE  Typed'
<1>1. PICK e \in Endpoints :
         \/ AddEndpoint(c, e) \/ DeleteEndpoint(c, e) \/ SyncModels(c, e)
         \/ \E list \in {"hand", "empty"} : SetModels(c, e, list)
         \/ \E k \in Keys : AddKey(c, e, k)
         \/ \E ks \in SUBSET Keys : BatchAddKeys(c, e, ks)
         \/ \E ks \in SUBSET KeysOf(e) : ks # {} /\ DeleteKeys(c, ks)
  BY DEF CallEndpoints
<1> USE RowsAreTyped, CallTyped, CallCounted DEF RowsTyped, Life, start, past
<1>2. CASE AddEndpoint(c, e)
  BY <1>2, TaskKept DEF AddEndpoint, Single
<1>3. CASE DeleteEndpoint(c, e)
  BY <1>3, ForEndpoint, SetTaskTyped DEF DeleteEndpoint, Freed
<1>4. CASE SyncModels(c, e)
  <2>1. calls' \in 0 .. CallBound
    BY <1>4, AdminAssumption DEF SyncModels
  <2> QED BY <1>4, <2>1, ForEndpoint, SetTaskTyped DEF SyncModels, dbVars, tables, InMethod
<1>5. ASSUME NEW list \in {"hand", "empty"}, SetModels(c, e, list)
      PROVE  Typed'
  <2>1. task' \in [Calls -> Task] /\ Locals' /\ OneAtATime'
    <3>1. \A d \in Calls : task[d] \in Task
      BY DEF Typed, TypeOK
    <3>2. task' = [d \in Calls |-> [task[d] EXCEPT !.current = @ /\ task[d].id # e]]
      BY <1>5 DEF SetModels
    <3>3. \A d \in Calls : /\ task'[d] \in Task
                          /\ task'[d].at = task[d].at /\ task'[d].id = task[d].id /\ task'[d].rest = task[d].rest
      BY <3>1, <3>2, ZenonT(40) DEF Task
    <3>4. task' \in [Calls -> Task]
      BY <3>2, <3>3
    <3>5. Serving'
      BY <1>5 DEF SetModels, Call, Serving, dbVars
    <3> QED BY <3>3, <3>4, <3>5 DEF Typed, Locals, OneAtATime
  <2> QED BY <1>5, <2>1 DEF SetModels, dbVars, tables
<1>6. ASSUME NEW k \in Keys, AddKey(c, e, k)
      PROVE  Typed'
  BY <1>6, ForEndpoint, SetTaskTyped DEF AddKey, InMethod
<1>7. ASSUME NEW ks \in SUBSET Keys, BatchAddKeys(c, e, ks)
      PROVE  Typed'
  <2>1. WellFormed([Idle EXCEPT !.at = "batch", !.id = e, !.rest = ks])
    BY DEF WellFormed, Task, Idle
  <2>2. task' \in [Calls -> Task] /\ Locals' /\ OneAtATime'
    BY <1>7, <2>1, TaskTyped DEF BatchAddKeys, dbVars
  <2> QED BY <1>7, <2>2 DEF BatchAddKeys, dbVars, tables
<1>8. ASSUME NEW ks \in SUBSET KeysOf(e), DeleteKeys(c, ks)
      PROVE  Typed'
  BY <1>8, TaskKept DEF DeleteKeys, Single, Freed
<1> QED BY <1>1, <1>2, <1>3, <1>4, <1>5, <1>6, <1>7, <1>8

\* The remaining calls keep the types.
LEMMA CallRestTyped ==
    ASSUME Typed, NEW c \in Calls, CallRest(c)
    PROVE  Typed'
<1> USE RowsAreTyped, CallTyped, CallCounted, TaskKept DEF RowsTyped, start, past, Single
<1>1. ASSUME NEW k \in Keys, DeleteKeys(c, {k})
      PROVE  Typed'
  BY <1>1 DEF DeleteKeys, Freed
<1>2. ASSUME NEW name \in Settings, NEW value \in {"blank"} \cup Values, SetSetting(c, name, value)
      PROVE  Typed'
  BY <1>2 DEF SetSetting
<1>3. "auth_token" \in Settings /\ "set" \in Values /\ Live(token) \subseteq Values
  BY DEF Settings, Values, Live, Typed, TypeOK, DbTypeOK
<1> QED BY <1>1, <1>2, <1>3 DEF CallRest

\* Only a serving process has calls.
LEMMA BusyServes ==
    ASSUME Typed, NEW c \in Calls, task[c].at # "idle"
    PROVE  Serving
  BY DEF Typed, OneAtATime, Idle

\* The later statements of a call keep the types.
LEMMA ContinueTyped ==
    ASSUME Typed, NEW c \in Calls, Continue(c)
    PROVE  Typed'
<1> DEFINE l == task[c]
<1>1. l \in Task
  BY DEF Typed, TypeOK
<1>2. WellFormed(l)
  BY <1>1 DEF WellFormed, Typed, Locals
<1> HIDE DEF l
<1> USE RowsAreTyped, CallTyped DEF RowsTyped, Life, start, past, dbVars, tables
<1>3. CASE Bind(c)
  <2>1. PICK e \in l.rest :
           /\ bindings' = bindings \cup {<<l.id, e>>}
           /\ IF l.rest = {e} THEN Done(c) ELSE SetTask(c, "bind", l.id, l.rest \ {e})
    BY <1>3 DEF Bind, l
  <2>2. l.at = "bind" /\ l.id \in Tokens /\ l.rest \subseteq Endpoints
    BY <1>2, <1>3 DEF Bind, l, WellFormed
  <2>3. WellFormed([Idle EXCEPT !.at = "bind", !.id = l.id, !.rest = l.rest \ {e}])
    BY <2>2 DEF WellFormed, Task, Idle
  <2>4. task' \in [Calls -> Task] /\ Locals' /\ OneAtATime'
    BY <1>3, <2>1, <2>2, <2>3, DoneTyped, SetTaskTyped, BusyServes DEF Bind, l, InMethod
  <2> QED BY <1>3, <2>1, <2>2, <2>4 DEF Bind
<1>4. CASE DropTokenRow(c)
  BY <1>2, <1>4, DoneTyped DEF DropTokenRow, l, WellFormed
<1>5. CASE DropEndpointRow(c)
  BY <1>2, <1>5, DoneTyped DEF DropEndpointRow, l, WellFormed
<1>6. CASE Commit(c)
  <2>1. l.at = "batch" /\ l.id \in Endpoints /\ l.rest \subseteq Keys
    BY <1>2, <1>6 DEF Commit, l, WellFormed
  <2>2. owner' \in [Keys -> Endpoints \cup {NoEndpoint, "unused", "deleted"}]
    BY <1>6, <2>1 DEF Commit, l
  <2>3. task' \in [Calls -> Task] /\ Locals' /\ OneAtATime'
    <3>1. CASE Done(c)
      BY <1>6, <3>1, DoneTyped DEF Commit
    <3>2. CASE SetTask(c, "check", l.id, {})
      BY <1>6, <2>1, <3>2, SetTaskTyped, ForEndpoint, BusyServes DEF Commit, l, InMethod
    <3> QED BY <1>6, <3>1, <3>2 DEF Commit, l
  <2> QED BY <1>6, <2>2, <2>3 DEF Commit
<1>7. CASE CheckModels(c)
  <2>1. l.at = "check" /\ l.id \in Endpoints
    BY <1>2, <1>7 DEF CheckModels, l, WellFormed
  <2>2. WellFormed([l EXCEPT !.at = "save"]) /\ WellFormed([l EXCEPT !.at = "save", !.current = TRUE])
    BY <1>1, <2>1 DEF WellFormed, Task
  <2>3. /\ [l EXCEPT !.at = "save"].at \notin InMethod
        /\ [l EXCEPT !.at = "save", !.current = TRUE].at \notin InMethod
        /\ Serving /\ UNCHANGED <<boot, dbVars, models, calls, granted, partial>>
    BY <1>1, <1>7, <2>1, BusyServes DEF CheckModels, l, InMethod, Task
  <2>4. CASE task' = [task EXCEPT ![c] = [l EXCEPT !.at = "save"]]
    <3>1. task' \in [Calls -> Task] /\ Locals' /\ OneAtATime'
      BY <2>2, <2>4, <2>3, TaskTyped
    <3> QED BY <2>3, <3>1
  <2>5. CASE task' = [task EXCEPT ![c] = [l EXCEPT !.at = "save", !.current = TRUE]]
    <3>1. task' \in [Calls -> Task] /\ Locals' /\ OneAtATime'
      BY <2>2, <2>5, <2>3, TaskTyped
    <3> QED BY <2>3, <3>1
  <2>6. CASE Done(c)
    BY <1>7, <2>6, DoneTyped DEF CheckModels
  <2>7. \/ task' = [task EXCEPT ![c] = [l EXCEPT !.at = "save"]]
        \/ task' = [task EXCEPT ![c] = [l EXCEPT !.at = "save", !.current = TRUE]]
        \/ Done(c)
    BY <1>7 DEF CheckModels, l
  <2> QED BY <2>4, <2>5, <2>6, <2>7
<1>8. CASE SaveModels(c)
  BY <1>8, DoneTyped DEF SaveModels
<1>9. CASE SaveSynced(c)
  <2>1. models' \in [Endpoints -> {"empty", "hand", "fetched"}]
    BY <1>9, ZenonT(40) DEF SaveSynced
  <2> QED BY <1>9, <2>1, DoneTyped DEF SaveSynced
<1>10. CASE FetchFails(c)
  BY <1>10, DoneTyped DEF FetchFails
<1>11. CASE StatementFails(c)
  <2>1. partial' \subseteq Tokens
    BY <1>2, <1>11 DEF StatementFails, l, WellFormed
  <2> QED BY <1>11, <2>1, DoneTyped DEF StatementFails
<1> QED BY <1>3, <1>4, <1>5, <1>6, <1>7, <1>8, <1>9, <1>10, <1>11 DEF Continue

\* Typed is inductive.
LEMMA TypedKept == Typed /\ [Next]_vars => Typed'
<1> SUFFICES ASSUME Typed, [Next]_vars PROVE Typed'
  OBVIOUS
<1>1. CASE UNCHANGED vars
  BY <1>1, RowsAreTyped, CallTyped, TaskKept DEF vars, dbVars, tables, RowsTyped, start
<1>2. CASE Next
  BY <1>2, BootsTyped, StopsTyped, CallTokensTyped, CallEndpointsTyped, CallRestTyped, ContinueTyped DEF Next
<1> QED BY <1>1, <1>2

\* The rows and the locals of Database::new and of the handlers are of their
\* types; once a start-up has left the loop over the channels, none is left.
THEOREM TypeCorrect == Spec => []TypeOK
<1>1. Typed => TypeOK
  BY DEF Typed
<1> QED BY InitTyped, TypedKept, <1>1, PTL DEF Spec

-----------------------------------------------------------------------------
(* Migrations *)

\* A row that a migration made is not unused.
Used ==
    /\ \A e \in moved \cap Endpoints : endpoint[e] # "unused"
    /\ \A t \in moved \cap Tokens : token[t] # "unused"

Once == MovedOnce /\ Used

\* What a call does to the life of a row.
Ages ==
    /\ UNCHANGED <<moved, cut, blind, boot>>
    /\ \A e \in Endpoints : endpoint'[e] = endpoint[e] \/ endpoint[e] = "unused" \/ endpoint'[e] = "deleted"
    /\ \A t \in Tokens : token'[t] = token[t] \/ token[t] = "unused" \/ token'[t] = "deleted"
    /\ \A e \in Endpoints : endpoint'[e] = "unused" => endpoint[e] = "unused"
    /\ \A t \in Tokens : token'[t] = "unused" => token[t] = "unused"

\* Calls make rows of unused ids, and delete rows.
LEMMA CallsAge ==
    ASSUME Typed, NEW c \in Calls, CallTokens(c) \/ CallEndpoints(c) \/ CallRest(c) \/ Continue(c)
    PROVE  Ages
<1> USE DEF Ages, Typed, TypeOK, DbTypeOK, start, past, dbVars, tables, Single
<1>1. CASE CallTokens(c)
  BY <1>1 DEF CallTokens, AddAccessToken, ReplaceChannels, DeleteAccessToken, New
<1>2. CASE CallEndpoints(c)
  BY <1>2, ZenonT(40) DEF CallEndpoints, AddEndpoint, DeleteEndpoint, SyncModels, SetModels, AddKey,
              BatchAddKeys, DeleteKeys, New
<1>3. CASE CallRest(c)
  BY <1>3 DEF CallRest, DeleteKeys, SetSetting
<1>4. CASE Continue(c)
  BY <1>4 DEF Continue, Bind, DropTokenRow, DropEndpointRow, Commit, CheckModels, SaveModels, SaveSynced,
              FetchFails, StatementFails
<1> QED BY <1>1, <1>2, <1>3, <1>4

\* A migration that has counted the rows saw no live one, and a new id was not
\* moved.
LEMMA OnceKept == Typed /\ Once /\ [Next]_vars => Once'
<1> SUFFICES ASSUME Typed, Once, [Next]_vars PROVE Once'
  OBVIOUS
<1> USE DEF Once, MovedOnce, Used
<1>1. ASSUME NEW error \in Errors, Boots(error)
      PROVE  Once'
  <2> USE DatabaseAssumption DEF Typed, TypeOK, DbTypeOK, start, past, tables
  <2>1. CASE MoveUrl(error)
    <3>1. PICK e \in Endpoints : /\ New(endpoint, e)
                                /\ endpoint' = [endpoint EXCEPT ![e] = "live"]
                                /\ Moved(endpoint, e, error)
      BY <2>1 DEF MoveUrl
    <3>2. e \in blind' \/ \A d \in Endpoints : endpoint[d] # "live"
      BY <2>1, <3>1 DEF MoveUrl, MovesUrl, CountsNone, Moved, Live
    <3>3. blind \subseteq blind' /\ moved' = moved \cup {e}
      BY <3>1 DEF Moved
    <3>4. UNCHANGED token /\ e \notin Tokens /\ e \in Endpoints
      BY <2>1 DEF MoveUrl
    <3>5. \A d \in Endpoints : endpoint'[d] = IF d = e THEN "live" ELSE endpoint[d]
      BY <3>1
    <3> QED BY <3>2, <3>3, <3>4, <3>5
  <2>2. CASE MoveToken(error)
    <3>1. PICK t \in Tokens : InsertToken(t) /\ Moved(token, t, error)
      BY <2>2 DEF MoveToken
    <3>2. t \in blind' \/ \A u \in Tokens : token[u] # "live"
      BY <2>2, <3>1 DEF MoveToken, MovesToken, CountsNone, Moved, Live
    <3>3. blind \subseteq blind' /\ moved' = moved \cup {t}
      BY <3>1 DEF Moved
    <3>4. UNCHANGED endpoint /\ t \notin Endpoints /\ t \in Tokens
      BY <2>2 DEF MoveToken
    <3>5. \A u \in Tokens : token'[u] = IF u = t THEN "live" ELSE token[u]
      BY <3>1 DEF InsertToken
    <3> QED BY <3>2, <3>3, <3>4, <3>5
  <2>3. CASE UNCHANGED <<endpoint, token, moved, blind>>
    BY <2>3
  <2> QED BY <1>1, <2>1, <2>2, <2>3 DEF Boots, StartUp, Start, MainStep, SkipUrl, BindKeys, DropUrl,
             AccessStep, SkipToken, BindToken, DropToken
<1>2. CASE Stops
  BY <1>2 DEF Stops, Stop, tables
<1>3. ASSUME NEW c \in Calls, CallTokens(c) \/ CallEndpoints(c) \/ CallRest(c) \/ Continue(c)
      PROVE  Once'
  BY <1>3, CallsAge DEF Ages
<1>4. CASE UNCHANGED vars
  BY <1>4 DEF vars, dbVars, tables, past
<1> QED BY <1>1, <1>2, <1>3, <1>4 DEF Next

\* However many start-ups die, the url of an old release makes one live
\* endpoint, and its auth_token one live token (Database::new): of two live
\* rows that migrations made, one was made by a start-up whose COUNT failed
\* while there were rows.
THEOREM MovedOnceHolds == Spec => []MovedOnce
<1>1. Init => Once
  BY DEF Init, DbInit, Once, MovedOnce, Used
<1>2. Once => MovedOnce
  BY DEF Once
<1> QED BY <1>1, <1>2, InitTyped, TypedKept, OnceKept, PTL DEF Spec

\* Once the default endpoint is made, a key without endpoint waits for the very
\* next statement, or for ever if the start-up dies before it.
Bound ==
    moved \cap Endpoints # {} /\ cut = {} /\ boot # "bind_keys"
        => \A k \in Keys : owner[k] # NoEndpoint

\* No call makes a key without an endpoint.
LEMMA CallsBind ==
    ASSUME Typed, NEW c \in Calls, CallTokens(c) \/ CallEndpoints(c) \/ CallRest(c) \/ Continue(c)
    PROVE  \A k \in Keys : owner'[k] = NoEndpoint => owner[k] = NoEndpoint
<1> USE DatabaseAssumption DEF Typed, TypeOK, DbTypeOK, start, past, dbVars, tables, Single
<1>1. CASE CallTokens(c)
  BY <1>1 DEF CallTokens, AddAccessToken, ReplaceChannels, DeleteAccessToken
<1>2. CASE CallEndpoints(c)
  BY <1>2, ZenonT(40) DEF CallEndpoints, AddEndpoint, DeleteEndpoint, SyncModels, SetModels, AddKey,
              BatchAddKeys, DeleteKeys, Freed
<1>3. CASE CallRest(c)
  BY <1>3 DEF CallRest, DeleteKeys, SetSetting, Freed
<1>4. CASE Continue(c)
  BY <1>4, ZenonT(40) DEF Locals, Continue, Bind, DropTokenRow, DropEndpointRow, Commit,
              CheckModels, SaveModels, SaveSynced,
              FetchFails, StatementFails
<1> QED BY <1>1, <1>2, <1>3, <1>4

\* Bound is inductive.
LEMMA BoundKept == Typed /\ Bound /\ [Next]_vars => Bound'
<1> SUFFICES ASSUME Typed, Bound, [Next]_vars PROVE Bound'
  OBVIOUS
<1> USE DEF Bound
<1>1. ASSUME NEW error \in Errors, Boots(error)
      PROVE  Bound'
  <2> USE DatabaseAssumption DEF Goto, start, past, tables
  <2>1. CASE MoveUrl(error)
    BY <2>1 DEF MoveUrl
  <2>2. CASE BindKeys
    BY <2>2 DEF BindKeys, Typed, Booting
  <2>3. CASE MoveToken(error)
    BY <2>3 DEF MoveToken, InsertToken, Moved
  <2>4. CASE UNCHANGED <<owner, moved, cut>> /\ boot # "bind_keys"
    BY <2>4
  <2> QED BY <1>1, <2>1, <2>2, <2>3, <2>4 DEF Boots, StartUp, Start, MainStep, SkipUrl, DropUrl,
             AccessStep, SkipToken, BindToken, DropToken
<1>2. CASE Stops
  BY <1>2 DEF Stops, Stop, tables, Typed, Booting
<1>3. ASSUME NEW c \in Calls, CallTokens(c) \/ CallEndpoints(c) \/ CallRest(c) \/ Continue(c)
      PROVE  Bound'
  BY <1>3, CallsAge, CallsBind DEF Ages
<1>4. CASE UNCHANGED vars
  BY <1>4 DEF vars, dbVars, tables, start, past
<1> QED BY <1>1, <1>2, <1>3, <1>4 DEF Next

\* A start-up that makes the default endpoint and comes through binds every
\* key without one to it (Database::new).
THEOREM OldKeysBoundHolds == Spec => []OldKeysBound
<1>1. Init => Bound
  BY DEF Init, DbInit, Bound
<1>2. Bound => OldKeysBound
  BY DEF Bound, OldKeysBound, Serving
<1> QED BY <1>1, <1>2, InitTyped, TypedKept, BoundKept, PTL DEF Spec

-----------------------------------------------------------------------------
(* Calls side by side *)

Moves(c) == CallTokens(c) \/ CallEndpoints(c) \/ CallRest(c) \/ Continue(c)

\* What a step of one call does to another.
Undisturbed(d) ==
    /\ task'[d].at = task[d].at /\ task'[d].id = task[d].id /\ task'[d].rest = task[d].rest
    /\ task'[d].current => task[d].current

\* A step of one call leaves what the others remember, but may outdate it.
LEMMA OthersUndisturbed ==
    ASSUME Typed, NEW c \in Calls, Moves(c), NEW d \in Calls, d # c
    PROVE  Undisturbed(d)
<1> USE DEF Undisturbed, Single
<1>1. CASE CallTokens(c)
  BY <1>1, AfterGrant, AfterSetTask DEF CallTokens, AddAccessToken, ReplaceChannels, DeleteAccessToken, Call
<1>2. CASE CallEndpoints(c)
  <2>1. ASSUME NEW e \in Endpoints, DeleteEndpoint(c, e) \/ SyncModels(c, e) \/ \E k \in Keys : AddKey(c, e, k)
        PROVE  Undisturbed(d)
    BY <2>1, AfterSetTask DEF DeleteEndpoint, SyncModels, AddKey
  <2>2. ASSUME NEW e \in Endpoints, NEW list, SetModels(c, e, list)
        PROVE  Undisturbed(d)
    BY <2>2, AfterSetModels
  <2>3. ASSUME NEW e \in Endpoints, NEW ks, BatchAddKeys(c, e, ks)
        PROVE  Undisturbed(d)
    BY <2>3, AfterBatch
  <2> QED BY <1>2, <2>1, <2>2, <2>3 DEF CallEndpoints, AddEndpoint, DeleteKeys
<1>3. CASE CallRest(c)
  BY <1>3 DEF CallRest, DeleteKeys, SetSetting
<1>4. CASE Continue(c)
  <2>1. CASE Done(c)
    BY <2>1, AfterDone
  <2>2. CASE Bind(c)
    BY <2>2, AfterDone, AfterSetTask DEF Bind
  <2>3. CASE Commit(c)
    BY <2>3, AfterDone, AfterSetTask DEF Commit
  <2>4. CASE CheckModels(c)
    BY <2>4, AfterCheckModels
  <2> QED BY <1>4, <2>1, <2>2, <2>3, <2>4
          DEF Continue, DropTokenRow, DropEndpointRow, SaveModels, SaveSynced, FetchFails, StatementFails
<1> QED BY <1>1, <1>2, <1>3, <1>4 DEF Moves

\* Only DeleteEndpoint leaves a call between the two statements of a deletion.
LEMMA StartsDeleting ==
    ASSUME Typed, NEW c \in Calls, Moves(c), task'[c].at = "drop_endpoint"
    PROVE  \E e \in Endpoints : DeleteEndpoint(c, e) /\ task'[c].id = e
<1> USE DEF Single, Call
<1>1. CASE CallTokens(c)
  BY <1>1, AfterGrant, AfterSetTask DEF CallTokens, AddAccessToken, ReplaceChannels, DeleteAccessToken
<1>2. CASE CallEndpoints(c)
  <2>1. ASSUME NEW e \in Endpoints, DeleteEndpoint(c, e)
        PROVE  task'[c].id = e
    BY <2>1, AfterSetTask DEF DeleteEndpoint
  <2>2. ASSUME NEW e \in Endpoints, SyncModels(c, e) \/ \E k \in Keys : AddKey(c, e, k)
        PROVE  FALSE
    BY <2>2, AfterSetTask, ZenonT(40) DEF SyncModels, AddKey
  <2>3. ASSUME NEW e \in Endpoints, NEW list, SetModels(c, e, list)
        PROVE  FALSE
    BY <2>3, AfterSetModels DEF SetModels
  <2>4. ASSUME NEW e \in Endpoints, NEW ks, BatchAddKeys(c, e, ks)
        PROVE  FALSE
    BY <2>4, AfterBatch
  <2> QED BY <1>2, <2>1, <2>2, <2>3, <2>4 DEF CallEndpoints, AddEndpoint, DeleteKeys
<1>3. CASE CallRest(c)
  BY <1>3 DEF CallRest, DeleteKeys, SetSetting
<1>4. CASE Continue(c)
  <2>1. ~Done(c)
    BY AfterDone
  <2>2. ASSUME Bind(c) PROVE FALSE
    <3>1. PICK e : SetTask(c, "bind", task[c].id, task[c].rest \ {e})
      BY <2>1, <2>2 DEF Bind
    <3> QED BY <3>1, AfterSetTask
  <2>3. ASSUME Commit(c) PROVE FALSE
    <3>1. SetTask(c, "check", task[c].id, {})
      BY <2>1, <2>3 DEF Commit
    <3> QED BY <3>1, AfterSetTask
  <2>4. ~CheckModels(c)
    BY AfterCheckModels
  <2> QED BY <1>4, <2>1, <2>2, <2>3, <2>4
          DEF Continue, DropTokenRow, DropEndpointRow, SaveModels, SaveSynced, FetchFails, StatementFails
<1> QED BY <1>1, <1>2, <1>3, <1>4 DEF Moves

\* A call is current after its step if it has just seen an empty list, or was
\* current and set the list of another endpoint.
LEMMA BecomesCurrent ==
    ASSUME Typed, NEW c \in Calls, Moves(c), task'[c].current, \A d \in Calls : task[d].current => task[d].at = "save"
    PROVE  \/ /\ task'[c].at = "save" /\ task'[c].id = task[c].id
              /\ models[task[c].id] = "empty" /\ UNCHANGED models
           \/ /\ task[c].current /\ task'[c].at = "save" /\ task'[c].id = task[c].id
              /\ \E e \in Endpoints, list \in {"hand", "empty"} : SetModels(c, e, list)
<1> USE DEF Single, Call
<1>1. ~CallTokens(c)
  BY AfterGrant, AfterSetTask DEF CallTokens, AddAccessToken, ReplaceChannels, DeleteAccessToken
<1>2. CASE CallEndpoints(c)
  <2>1. ASSUME NEW e \in Endpoints, DeleteEndpoint(c, e) \/ SyncModels(c, e) \/ \E k \in Keys : AddKey(c, e, k)
        PROVE  FALSE
    BY <2>1, AfterSetTask DEF DeleteEndpoint, SyncModels, AddKey
  <2>2. ASSUME NEW e \in Endpoints, NEW list, SetModels(c, e, list)
        PROVE  task[c].current /\ task'[c].at = "save" /\ task'[c].id = task[c].id
    BY <2>2, AfterSetModels
  <2>3. ASSUME NEW e \in Endpoints, NEW ks, BatchAddKeys(c, e, ks)
        PROVE  FALSE
    BY <2>3, AfterBatch
  <2> QED BY <1>2, <2>1, <2>2, <2>3 DEF CallEndpoints, AddEndpoint, DeleteKeys
<1>3. ~CallRest(c)
  BY DEF CallRest, DeleteKeys, SetSetting
<1>4. CASE Continue(c)
  <2>1. ~Done(c)
    BY AfterDone
  <2>2. ~Bind(c)
    BY <2>1, AfterSetTask DEF Bind
  <2>3. ~Commit(c)
    BY <2>1, AfterSetTask DEF Commit
  <2>4. CASE CheckModels(c)
    BY <2>4, AfterCheckModels DEF CheckModels
  <2> QED BY <1>4, <2>1, <2>2, <2>3, <2>4
          DEF Continue, DropTokenRow, DropEndpointRow, SaveModels, SaveSynced, FetchFails, StatementFails
<1> QED BY <1>1, <1>2, <1>3, <1>4 DEF Moves

\* Between the two statements of delete_endpoint the endpoint has no key.
Emptied ==
    \A c \in Calls : task[c].at = "drop_endpoint" => \A k \in Keys : owner[k] # task[c].id

\* While one method has the mutex, no other writes keys.
LEMMA KeysUntouched ==
    ASSUME Typed, NEW c \in Calls, Moves(c), NEW d \in Calls, d # c, task[d].at \in InMethod
    PROVE  UNCHANGED owner
<1> USE DEF Single, Call, WriterFree, tables, dbVars
<1>1. CASE CallTokens(c)
  BY <1>1 DEF CallTokens, AddAccessToken, ReplaceChannels, DeleteAccessToken
<1>2. CASE CallEndpoints(c)
  BY <1>2 DEF CallEndpoints, AddEndpoint, DeleteEndpoint, SyncModels, SetModels, AddKey, BatchAddKeys, DeleteKeys
<1>3. CASE CallRest(c)
  BY <1>3 DEF CallRest, DeleteKeys, SetSetting
<1>4. CASE Continue(c)
  <2>1. ~Commit(c)
    BY DEF Commit, Typed, OneAtATime, InMethod
  <2> QED BY <1>4, <2>1 DEF Continue, Bind, DropTokenRow, DropEndpointRow, CheckModels, SaveModels, SaveSynced,
             FetchFails, StatementFails
<1> QED BY <1>1, <1>2, <1>3, <1>4 DEF Moves

\* Emptied is inductive.
LEMMA EmptiedKept == Typed /\ Emptied /\ [Next]_vars => Emptied'
<1> SUFFICES ASSUME Typed, Emptied, [Next]_vars PROVE Emptied'
  OBVIOUS
<1>1. ASSUME NEW error \in Errors, Boots(error)
      PROVE  Emptied'
  <2>1. \A c \in Calls : task'[c].at = "idle"
    BY <1>1 DEF Typed, OneAtATime, Idle, Boots, StartUp, Start, MainStep, SkipUrl, MoveUrl, BindKeys, DropUrl,
           AccessStep, SkipToken, MoveToken, BindToken, DropToken, Serving
  <2> QED BY <2>1 DEF Emptied
<1>2. CASE Stops
  BY <1>2 DEF Emptied, Stops, Idle
<1>3. ASSUME NEW c \in Calls, Moves(c)
      PROVE  Emptied'
  <2> SUFFICES ASSUME NEW d \in Calls, task'[d].at = "drop_endpoint", NEW k \in Keys
               PROVE  owner'[k] # task'[d].id
    BY DEF Emptied
  <2>1. CASE d # c
    <3>1. task[d].at = "drop_endpoint" /\ task[d].id = task'[d].id
      BY <1>3, <2>1, OthersUndisturbed DEF Undisturbed
    <3>2. owner' = owner
      BY <1>3, <2>1, <3>1, KeysUntouched DEF InMethod
    <3> QED BY <3>1, <3>2 DEF Emptied
  <2>2. CASE d = c
    <3>1. PICK e \in Endpoints : DeleteEndpoint(c, e) /\ task'[c].id = e
      BY <1>3, <2>2, StartsDeleting
    <3>2. owner'[k] = IF owner[k] = e THEN "deleted" ELSE owner[k]
      BY <3>1 DEF DeleteEndpoint, Freed, KeysOf
    <3>3. e # "deleted"
      BY DatabaseAssumption
    <3> QED BY <2>2, <3>1, <3>2, <3>3
  <2> QED BY <2>1, <2>2
<1>4. CASE UNCHANGED vars
  BY <1>4 DEF Emptied, vars, dbVars, tables
<1> QED BY <1>1, <1>2, <1>3, <1>4 DEF Next, Moves

\* The row goes with the call that emptied it.
LEMMA LeavesNoKeys ==
    ASSUME Typed, Emptied, [Next]_vars, NEW e \in Endpoints, endpoint[e] = "live", endpoint'[e] = "deleted"
    PROVE  \A k \in Keys : owner'[k] # e
<1> USE DEF Typed, TypeOK, DbTypeOK, dbVars, tables, Single
<1>1. ASSUME NEW c \in Calls, DropEndpointRow(c)
      PROVE  \A k \in Keys : owner'[k] # e
  BY <1>1 DEF DropEndpointRow, Emptied
<1>2. ASSUME NEW error \in Errors, Boots(error)
      PROVE  FALSE
  <2>1. CASE MoveUrl(error)
    BY <2>1 DEF MoveUrl
  <2>2. CASE UNCHANGED endpoint
    BY <2>2
  <2> QED BY <1>2, <2>1, <2>2 DEF Boots, StartUp, Start, MainStep, SkipUrl, BindKeys, DropUrl,
             AccessStep, SkipToken, MoveToken, BindToken, DropToken
<1>3. ~Stops /\ ~UNCHANGED vars
  BY DEF Stops, Stop, vars
<1>4. ASSUME NEW c \in Calls, CallTokens(c) \/ CallEndpoints(c) \/ CallRest(c)
      PROVE  FALSE
  BY <1>4 DEF CallTokens, AddAccessToken, ReplaceChannels, DeleteAccessToken,
              CallEndpoints, AddEndpoint, DeleteEndpoint, SyncModels, SetModels, AddKey, BatchAddKeys, DeleteKeys,
              CallRest, SetSetting
<1>5. ASSUME NEW c \in Calls, Continue(c)
      PROVE  DropEndpointRow(c)
  BY <1>5 DEF Continue, Bind, DropTokenRow, Commit, CheckModels, SaveModels, SaveSynced, FetchFails, StatementFails
<1> QED BY <1>1, <1>2, <1>3, <1>4, <1>5 DEF Next

\* No key is left to an endpoint when delete_endpoint removes its row.
THEOREM EndpointsLeaveNoKeys == Spec => EndpointLeavesNoKeys
<1>1. Init => Emptied
  BY DEF Init, Emptied, Idle
<1>2. Typed /\ Emptied /\ [Next]_vars =>
        [\A e \in Endpoints : endpoint[e] = "live" /\ endpoint'[e] = "deleted" =>
             \A k \in Keys : owner'[k] # e]_vars
  BY LeavesNoKeys
<1> QED BY <1>1, <1>2, InitTyped, TypedKept, EmptiedKept, PTL DEF Spec, EndpointLeavesNoKeys

-----------------------------------------------------------------------------
(* Model lists *)

\* A background task that found the list empty still knows what is there.
Looked ==
    \A c \in Calls : task[c].current => task[c].at = "save" /\ models[task[c].id] # "hand"

\* Only SetModels makes a list one set by hand, and every task for that
\* endpoint loses its claim to know it.
LEMMA HandMade ==
    ASSUME Typed, NEW c \in Calls, Moves(c), NEW d \in Calls, task[d].current, task'[d].current,
           models'[task[d].id] = "hand"
    PROVE  models[task[d].id] = "hand"
<1> USE DEF Single, Typed, TypeOK, dbVars
<1>1. CASE CallTokens(c)
  BY <1>1 DEF CallTokens, AddAccessToken, ReplaceChannels, DeleteAccessToken
<1>2. CASE CallEndpoints(c)
  <2>1. ASSUME NEW e \in Endpoints, NEW list \in {"hand", "empty"}, SetModels(c, e, list)
        PROVE  models[task[d].id] = "hand"
    <3>1. task[d].id # e
      BY <2>1, AfterSetModels
    <3> QED BY <2>1, <3>1 DEF SetModels
  <2> QED BY <1>2, <2>1 DEF CallEndpoints, AddEndpoint, DeleteEndpoint, SyncModels, AddKey, BatchAddKeys, DeleteKeys
<1>3. CASE CallRest(c)
  BY <1>3 DEF CallRest, DeleteKeys, SetSetting
<1>4. CASE Continue(c)
  <2>1. CASE SaveModels(c)
    BY <2>1 DEF SaveModels
  <2>2. CASE SaveSynced(c)
    BY <2>2 DEF SaveSynced
  <2>3. CASE DropEndpointRow(c)
    BY <2>3 DEF DropEndpointRow
  <2> QED BY <1>4, <2>1, <2>2, <2>3
          DEF Continue, Bind, DropTokenRow, Commit, CheckModels, FetchFails, StatementFails
<1> QED BY <1>1, <1>2, <1>3, <1>4 DEF Moves

\* Looked is inductive.
LEMMA LookedKept == Typed /\ Looked /\ [Next]_vars => Looked'
<1> SUFFICES ASSUME Typed, Looked, [Next]_vars PROVE Looked'
  OBVIOUS
<1>1. ASSUME NEW error \in Errors, Boots(error)
      PROVE  Looked'
  BY <1>1 DEF Looked, Boots
<1>2. CASE Stops
  BY <1>2 DEF Looked, Stops, Idle
<1>3. ASSUME NEW c \in Calls, Moves(c)
      PROVE  Looked'
  <2> SUFFICES ASSUME NEW d \in Calls, task'[d].current
               PROVE  task'[d].at = "save" /\ models'[task'[d].id] # "hand"
    BY DEF Looked
  <2>1. CASE d # c
    <3>1. task[d].current /\ task'[d].at = task[d].at /\ task'[d].id = task[d].id
      BY <1>3, <2>1, OthersUndisturbed DEF Undisturbed
    <3> QED BY <1>3, <3>1, HandMade DEF Looked
  <2>2. CASE d = c
    <3>1. \A b \in Calls : task[b].current => task[b].at = "save"
      BY DEF Looked
    <3>2. CASE /\ task'[c].at = "save" /\ task'[c].id = task[c].id
               /\ models[task[c].id] = "empty" /\ UNCHANGED models
      BY <2>2, <3>2
    <3>3. CASE task[c].current /\ task'[c].at = "save" /\ task'[c].id = task[c].id
      BY <1>3, <2>2, <3>3, HandMade DEF Looked
    <3> QED BY <1>3, <2>2, <3>1, <3>2, <3>3, BecomesCurrent
  <2> QED BY <2>1, <2>2
<1>4. CASE UNCHANGED vars
  BY <1>4 DEF Looked, vars
<1> QED BY <1>1, <1>2, <1>3, <1>4 DEF Next, Moves

\* Fetched lists are only written by the tasks that fetched them.
LEMMA WritesOver ==
    ASSUME Typed, Looked, [Next]_vars, NEW e \in Endpoints, models[e] = "hand", models'[e] = "fetched"
    PROVE  \E c \in Calls : task[c].id = e /\ ~task[c].current /\ task'[c] = Idle
<1> USE DEF Typed, TypeOK, dbVars, Single
<1>1. ASSUME NEW c \in Calls, SaveModels(c) \/ SaveSynced(c)
      PROVE  task[c].id = e /\ ~task[c].current /\ task'[c] = Idle
  <2>1. task[c].id = e
    BY <1>1 DEF SaveModels, SaveSynced
  <2>2. task'[c] = Idle
    BY <1>1 DEF SaveModels, SaveSynced, Done
  <2> QED BY <2>1, <2>2 DEF Looked
<1>2. ~Stops /\ ~UNCHANGED vars /\ \A error \in Errors : ~Boots(error)
  BY DEF Boots, Stops, vars
<1>3. ASSUME NEW c \in Calls, CallTokens(c) \/ CallEndpoints(c) \/ CallRest(c)
      PROVE  FALSE
  BY <1>3 DEF CallTokens, AddAccessToken, ReplaceChannels, DeleteAccessToken,
              CallEndpoints, AddEndpoint, DeleteEndpoint, SyncModels, SetModels, AddKey, BatchAddKeys, DeleteKeys,
              CallRest, SetSetting
<1>4. ASSUME NEW c \in Calls, Continue(c)
      PROVE  SaveModels(c) \/ SaveSynced(c)
  BY <1>4 DEF Continue, Bind, DropTokenRow, DropEndpointRow, Commit, CheckModels, FetchFails, StatementFails
<1> QED BY <1>1, <1>2, <1>3, <1>4 DEF Next

\* add_key's background task only overwrites a list set by hand that it did not,
\* or could not, see.
THEOREM HandListsStandHolds == Spec => HandListsStand
<1>1. Init => Looked
  BY DEF Init, Looked, Idle
<1>2. Typed /\ Looked /\ [Next]_vars =>
        [\A e \in Endpoints : models[e] = "hand" /\ models'[e] = "fetched" =>
             \E c \in Calls : task[c].id = e /\ ~task[c].current /\ task'[c] = Idle]_vars
  BY WritesOver
<1> QED BY <1>1, <1>2, InitTyped, TypedKept, LookedKept, PTL DEF Spec, HandListsStand

-----------------------------------------------------------------------------
(* Channels *)

\* While a token is being bound, by a call or by the start-up, what it has and
\* what is still to come make up what it was granted, or it is partial.
Making(t, rest) ==
    /\ token[t] # "unused"
    /\ rest \subseteq granted[t]
    /\ t \in partial \/ granted[t] \subseteq Channels(t) \cup rest

Granting ==
    /\ GrantsExact
    /\ \A t \in Tokens : token[t] = "unused" => Channels(t) = {}
    /\ \A c \in Calls : task[c].at = "bind" => Making(task[c].id, task[c].rest)
    /\ boot = "bind_token" => Making(fresh, left)
    /\ boot = "drop_token" => Making(fresh, {})

\* The tasks that bind a token are the same ones.
SameBinders ==
    \A d \in Calls :
        /\ task'[d].at = "bind" <=> task[d].at = "bind"
        /\ task[d].at = "bind" => task'[d].id = task[d].id /\ task'[d].rest = task[d].rest

\* A step that leaves tokens, bindings and binders alone keeps the grants.
LEMMA QuietStep ==
    ASSUME Typed, Granting, SameBinders, UNCHANGED <<bindings, granted, partial, boot, fresh, left>>,
           \A t \in Tokens : token'[t] = "unused" => token[t] = "unused"
    PROVE  Granting'
<1> USE DEF Channels, Changing, SameBinders
<1>1. GrantsExact'
  BY DEF Granting, GrantsExact
<1>2. \A t \in Tokens : token'[t] = "unused" => Channels(t)' = {}
  BY DEF Granting
<1>3. \A c \in Calls : task'[c].at = "bind" => Making(task[c].id, task[c].rest)' /\ task'[c].id = task[c].id /\ task'[c].rest = task[c].rest
  BY DEF Granting, Making, Typed, Locals
<1>4. boot' = "bind_token" => Making(fresh, left)'
  BY DEF Granting, Making, Typed, Booting
<1>5. boot' = "drop_token" => Making(fresh, {})'
  BY DEF Granting, Making, Typed, Booting
<1> QED BY <1>1, <1>2, <1>3, <1>4, <1>5 DEF Granting, Making

\* A token gets new channels: its bindings are gone, those of others stay.
LEMMA RegrantStep ==
    ASSUME Typed, Granting, NEW c \in Calls, NEW t \in Tokens, NEW channels \in SUBSET Endpoints,
           Serving, WriterFree, task[c].at = "idle",
           Grant(c, t, channels),
           UNCHANGED <<boot, fresh, left>>,
           Channels(t)' = {}, \A u \in Tokens \ {t} : Channels(u)' = Channels(u),
           token'[t] # "unused", \A u \in Tokens \ {t} : token'[u] = "unused" => token[u] = "unused"
    PROVE  Granting'
<1>1. \A d \in Calls : task[d].at # "bind"
  BY DEF WriterFree, InMethod
<1>2. fresh = NoId /\ boot = "serving"
  BY DEF Typed, TypeOK, DbTypeOK, Serving
<1>3. /\ \A d \in Calls \ {c} : task'[d] = task[d]
      /\ channels = {} => task' = task
      /\ channels # {} => task'[c].at = "bind" /\ task'[c].id = t /\ task'[c].rest = channels
  BY AfterGrant
<1>4. /\ granted'[t] = channels /\ t \notin partial'
      /\ \A u \in Tokens \ {t} : granted'[u] = granted[u] /\ (u \in partial => u \in partial')
  BY DEF Grant, Typed, TypeOK
<1>5. \A u \in Tokens : Channels(u)' \subseteq granted'[u]
  BY <1>4 DEF Granting, GrantsExact
<1>6. ASSUME NEW u \in Tokens \ {t}
      PROVE  u \in partial' \/ Channels(u)' = granted'[u]
  BY <1>1, <1>2, <1>4, DatabaseAssumption DEF Granting, GrantsExact, Changing
<1>7. Changing(t)' \/ Channels(t)' = granted'[t]
  BY <1>3, <1>4 DEF Changing
<1>8. GrantsExact'
  BY <1>5, <1>6, <1>7 DEF GrantsExact
<1>9. \A d \in Calls : task'[d].at = "bind" => task'[d].id = t /\ task'[d].rest = channels
  BY <1>1, <1>3
<1>10. Making(t, channels)'
  BY <1>4 DEF Making
<1>11. \A d \in Calls : task'[d].at = "bind" => Making(task[d].id, task[d].rest)'
  BY <1>9, <1>10
<1> QED BY <1>2, <1>8, <1>11 DEF Granting

\* The three calls about tokens keep the grants.
LEMMA CallTokensGrants ==
    ASSUME Typed, Granting, NEW c \in Calls, CallTokens(c)
    PROVE  Granting'
<1> USE DEF Call, start, past
<1>1. ASSUME NEW t \in Tokens, NEW channels \in SUBSET Known, AddAccessToken(c, t, channels)
      PROVE  Granting'
  <2>1. Channels(t)' = {} /\ \A u \in Tokens \ {t} : Channels(u)' = Channels(u)
    BY <1>1 DEF AddAccessToken, Granting, New, Channels
  <2>2. token' = [token EXCEPT ![t] = "live"]
    BY <1>1 DEF AddAccessToken
  <2>3. token'[t] # "unused" /\ \A u \in Tokens \ {t} : token'[u] = token[u]
    BY <2>2 DEF Typed, TypeOK, DbTypeOK
  <2> QED BY <1>1, <2>1, <2>3, RegrantStep DEF AddAccessToken, Known
<1>2. ASSUME NEW t \in Tokens, NEW channels \in SUBSET Known, ReplaceChannels(c, t, channels)
      PROVE  Granting'
  <2>1. Channels(t)' = {} /\ \A u \in Tokens \ {t} : Channels(u)' = Channels(u)
    BY <1>2 DEF ReplaceChannels, WithoutToken, Channels
  <2> QED BY <1>2, <2>1, RegrantStep DEF ReplaceChannels, Known
<1>3. ASSUME NEW t \in Tokens, DeleteAccessToken(c, t)
      PROVE  Granting'
  <2>1. Channels(t)' = {} /\ \A u \in Tokens \ {t} : Channels(u)' = Channels(u)
    BY <1>3 DEF DeleteAccessToken, WithoutToken, Channels
  <2>2. granted'[t] = {} /\ \A u \in Tokens \ {t} : granted'[u] = granted[u]
    BY <1>3 DEF DeleteAccessToken, Typed, TypeOK
  <2>3. \A d \in Calls : task[d].at # "bind" /\ task'[d].at # "bind"
    <3>1. \A d \in Calls : task[d].at # "bind"
      BY <1>3 DEF DeleteAccessToken, WriterFree, InMethod
    <3>2. SetTask(c, "drop_token", t, {})
      BY <1>3 DEF DeleteAccessToken
    <3>3. task'[c].at = "drop_token" /\ \A d \in Calls \ {c} : task'[d] = task[d]
      BY <3>2, AfterSetTask
    <3> QED BY <3>1, <3>3
  <2>4. fresh = NoId /\ boot = "serving"
    BY <1>3 DEF DeleteAccessToken, Typed, TypeOK, DbTypeOK, Serving
  <2>5. GrantsExact'
    BY <1>3, <2>1, <2>2, <2>3, <2>4, DatabaseAssumption DEF DeleteAccessToken, Granting, GrantsExact, Changing
  <2> QED BY <1>3, <2>1, <2>3, <2>4, <2>5 DEF DeleteAccessToken, Granting
<1> QED BY <1>1, <1>2, <1>3 DEF CallTokens

\* So does the next binding of a call.
LEMMA BindGrants ==
    ASSUME Typed, Granting, NEW c \in Calls, Bind(c)
    PROVE  Granting'
<1>1. PICK t, rest : t = task[c].id /\ rest = task[c].rest
  OBVIOUS
<1>2. PICK e \in rest : /\ bindings' = bindings \cup {<<t, e>>}
                        /\ IF rest = {e} THEN Done(c) ELSE SetTask(c, "bind", t, rest \ {e})
  BY <1>1 DEF Bind
<1>3. t \in Tokens /\ e \in Endpoints /\ task[c].at = "bind" /\ Making(t, rest)
  BY <1>1, <1>2 DEF Bind, Typed, Locals, Granting
<1>4. Channels(t)' = Channels(t) \cup {e} /\ \A u \in Tokens \ {t} : Channels(u)' = Channels(u)
  BY <1>2, <1>3 DEF Channels
<1>5. UNCHANGED <<granted, partial, boot, fresh, left, token>>
  BY DEF Bind, start, past
<1>6. \A d \in Calls \ {c} : task[d].at # "bind"
  BY <1>3 DEF Typed, OneAtATime, InMethod
<1>7. fresh = NoId /\ boot = "serving"
  BY <1>3, BusyServes DEF Typed, TypeOK, DbTypeOK, Serving
<1>8. \A d \in Calls \ {c} : task'[d].at # "bind"
  BY <1>2, <1>6, AfterDone, AfterSetTask
\* The binding is one that was granted, to the one token that is changing.
<1>9. /\ \A u \in Tokens : Channels(u)' \subseteq granted'[u]
      /\ \A u \in Tokens \ {t} : u \in partial' \/ Channels(u)' = granted'[u]
  <2>1. \A u \in Tokens \ {t} : ~Changing(u)
    BY <1>1, <1>3, <1>6, <1>7, DatabaseAssumption DEF Changing
  <2> QED BY <1>2, <1>3, <1>4, <1>5, <2>1 DEF Granting, GrantsExact, Making
<1>10. \A u \in Tokens : token'[u] = "unused" => Channels(u)' = {}
  BY <1>3, <1>4, <1>5 DEF Granting, Making
<1>11. CASE rest = {e}
  <2>1. task'[c].at # "bind" /\ (t \in partial' \/ Channels(t)' = granted'[t])
    BY <1>2, <1>3, <1>4, <1>5, <1>9, <1>11, AfterDone DEF Making
  <2>2. GrantsExact'
    BY <1>9, <2>1 DEF GrantsExact
  <2> QED BY <1>5, <1>7, <1>8, <1>10, <2>1, <2>2 DEF Granting
<1>12. CASE rest # {e}
  <2>1. SetTask(c, "bind", t, rest \ {e})
    BY <1>2, <1>12
  <2>2. task'[c].at = "bind" /\ task'[c].id = t /\ task'[c].rest = rest \ {e}
    BY <2>1, AfterSetTask
  <2>3. Making(t, rest \ {e})'
    BY <1>2, <1>3, <1>4, <1>5 DEF Making
  <2>4. GrantsExact'
    BY <1>9, <2>2 DEF GrantsExact, Changing
  <2>5. \A d \in Calls : task'[d].at = "bind" => Making(task[d].id, task[d].rest)'
    BY <1>8, <2>2, <2>3
  <2> QED BY <1>5, <1>7, <1>10, <2>4, <2>5 DEF Granting
<1> QED BY <1>11, <1>12

\* A step of a call that does not bind neither starts nor ends a binding.
LEMMA BindersKept ==
    ASSUME Typed, NEW c \in Calls, ~Bind(c), task[c].at # "bind",
           CallEndpoints(c) \/ CallRest(c) \/ Continue(c)
    PROVE  SameBinders
<1>1. task'[c].at # "bind"
  <2> USE DEF Single, Call
  <2>1. CASE CallEndpoints(c)
    <3>1. ASSUME NEW e \in Endpoints, DeleteEndpoint(c, e)
          PROVE  task'[c].at # "bind"
      BY <3>1, AfterSetTask DEF DeleteEndpoint
    <3>2. ASSUME NEW e \in Endpoints, SyncModels(c, e) \/ \E k \in Keys : AddKey(c, e, k)
          PROVE  task'[c].at # "bind"
      BY <3>2, AfterSetTask, ZenonT(40) DEF SyncModels, AddKey
    <3>3. ASSUME NEW e \in Endpoints, NEW list, SetModels(c, e, list)
          PROVE  task'[c].at # "bind"
      BY <3>3, AfterSetModels DEF SetModels
    <3>4. ASSUME NEW e \in Endpoints, NEW ks, BatchAddKeys(c, e, ks)
          PROVE  task'[c].at # "bind"
      BY <3>4, AfterBatch
    <3> QED BY <2>1, <3>1, <3>2, <3>3, <3>4 DEF CallEndpoints, AddEndpoint, DeleteKeys
  <2>2. CASE CallRest(c)
    BY <2>2 DEF CallRest, DeleteKeys, SetSetting
  <2>3. CASE Continue(c)
    <3>1. ASSUME Done(c)
          PROVE  task'[c].at # "bind"
      BY <3>1, AfterDone
    <3>2. CASE Commit(c)
      <4>1. ASSUME SetTask(c, "check", task[c].id, {})
            PROVE  task'[c].at # "bind"
        BY <4>1, AfterSetTask
      <4> QED BY <3>1, <3>2, <4>1 DEF Commit
    <3>3. CASE CheckModels(c)
      BY <3>3, AfterCheckModels
    <3> QED BY <2>3, <3>1, <3>2, <3>3
            DEF Continue, DropTokenRow, DropEndpointRow, SaveModels, SaveSynced, FetchFails, StatementFails
  <2> QED BY <2>1, <2>2, <2>3
<1>2. ASSUME NEW d \in Calls \ {c}
      PROVE  Undisturbed(d)
  BY OthersUndisturbed DEF Moves
<1> QED BY <1>1, <1>2 DEF SameBinders, Undisturbed

\* All other steps of calls keep the grants; a binding that fails is partial.
LEMMA CallGrants ==
    ASSUME Typed, Granting, NEW c \in Calls, CallEndpoints(c) \/ CallRest(c) \/ Continue(c)
    PROVE  Granting'
<1>1. \A t \in Tokens : token'[t] = "unused" => token[t] = "unused"
  BY CallsAge DEF Ages
<1>2. CASE Bind(c)
  BY <1>2, BindGrants
<1>3. CASE ~Bind(c) /\ task[c].at # "bind"
  <2>1. UNCHANGED <<bindings, granted, partial, boot, fresh, left>>
    <3> USE DEF Single, start, past, dbVars, tables
    <3>1. CASE CallEndpoints(c)
      BY <3>1 DEF CallEndpoints, AddEndpoint, DeleteEndpoint, SyncModels, SetModels, AddKey, BatchAddKeys, DeleteKeys
    <3>2. CASE CallRest(c)
      BY <3>2 DEF CallRest, DeleteKeys, SetSetting
    <3>3. CASE Continue(c)
      BY <1>3, <3>3 DEF Continue, DropTokenRow, DropEndpointRow, Commit, CheckModels, SaveModels, SaveSynced,
                        FetchFails, StatementFails
    <3> QED BY <3>1, <3>2, <3>3
  <2> QED BY <1>1, <1>3, <2>1, BindersKept, QuietStep
<1>4. CASE ~Bind(c) /\ task[c].at = "bind"
  <2>1. StatementFails(c)
    BY <1>4 DEF CallEndpoints, AddEndpoint, DeleteEndpoint, SyncModels, SetModels, AddKey, BatchAddKeys, DeleteKeys,
                CallRest, SetSetting, Single, Call, Continue, DropTokenRow, DropEndpointRow, Commit, CheckModels,
                SaveModels, SaveSynced, FetchFails
  <2>2. PICK t : t = task[c].id
    OBVIOUS
  <2>3. /\ t \in partial' /\ \A u \in Tokens : u \in partial => u \in partial'
        /\ UNCHANGED <<token, bindings, granted, boot, fresh, left>>
    BY <1>4, <2>1, <2>2 DEF StatementFails, dbVars, tables, start, past
  <2>4. \A d \in Calls : task'[d].at # "bind"
    <3>1. \A d \in Calls \ {c} : task[d].at # "bind"
      BY <1>4 DEF Typed, OneAtATime, InMethod
    <3> QED BY <2>1, <3>1, AfterDone DEF StatementFails
  <2>5. \A u \in Tokens \ {t} : Changing(u) => Changing(u)'
    BY <1>4, <2>2, <2>3 DEF Changing, Typed, OneAtATime, InMethod
  <2>6. GrantsExact'
    BY <2>3, <2>5 DEF Granting, GrantsExact, Channels
  <2>7. boot = "serving"
    BY <1>4, BusyServes DEF Serving
  <2> QED BY <2>3, <2>4, <2>6, <2>7 DEF Granting, Channels
<1> QED BY <1>2, <1>3, <1>4

\* The migration of auth_token grants the endpoints there are, and binds them.
LEMMA BootGrants ==
    ASSUME Typed, Granting, NEW error \in Errors, Boots(error)
    PROVE  Granting'
<1> USE DEF Goto, start, past, tables
<1>1. \A d \in Calls : task[d].at # "bind" /\ task'[d].at # "bind"
  BY DEF Typed, OneAtATime, Idle, Boots, StartUp, Start, MainStep, SkipUrl, MoveUrl, BindKeys, DropUrl,
         AccessStep, SkipToken, MoveToken, BindToken, DropToken, Serving
<1>2. /\ \A t \in Tokens : t \in partial => t \in partial'
      /\ \A t \in Tokens : token'[t] # token[t] => t \in partial' \/ left' = Live(endpoint)
  BY DEF Boots
<1>3. UNCHANGED token => UNCHANGED <<granted, partial>>
  BY DEF Boots, Typed, TypeOK
\* Until the start-up has a token to bind, fresh is none, or an endpoint.
<1>4. boot \notin {"bind_token", "drop_token"} => \A t \in Tokens : ~Changing(t)
  BY <1>1, DatabaseAssumption DEF Changing, Typed, Booting, TypeOK, DbTypeOK
<1>5. CASE /\ UNCHANGED <<token, bindings>>
           /\ boot \notin {"bind_token", "drop_token"} /\ boot' \notin {"bind_token", "drop_token"}
  BY <1>1, <1>2, <1>3, <1>4, <1>5 DEF Granting, GrantsExact, Channels
<1>6. CASE MoveToken(error)
  <2>1. PICK t \in Tokens : token[t] = "unused" /\ token' = [token EXCEPT ![t] = "live"] /\ fresh' = t
    BY <1>6 DEF MoveToken, InsertToken, New
  <2>2. /\ boot' \in {"bind_token", "drop_token"} /\ left' \subseteq Live(endpoint) /\ (boot' = "drop_token" => left' = {})
        /\ boot \notin {"bind_token", "drop_token"}
        /\ UNCHANGED bindings
    BY <1>6 DEF MoveToken
  <2>3. token'[t] = "live" /\ \A u \in Tokens \ {t} : token'[u] = token[u]
    BY <2>1 DEF Typed, TypeOK, DbTypeOK
  <2>4. /\ granted'[t] = Live(endpoint) /\ (t \in partial' \/ left' = Live(endpoint))
        /\ \A u \in Tokens \ {t} : granted'[u] = granted[u]
    BY <1>2, <2>1, <2>3 DEF Boots
  <2>5. \A u \in Tokens : Channels(u)' = Channels(u)
    BY <2>2 DEF Channels
  <2>6. Channels(t) = {}
    BY <2>1 DEF Granting
  <2>7. GrantsExact'
    BY <1>2, <1>4, <2>1, <2>2, <2>4, <2>5, <2>6 DEF Granting, GrantsExact, Changing
  <2>8. Making(fresh, left)'
    BY <2>1, <2>2, <2>3, <2>4 DEF Making
  <2>9. \A u \in Tokens : token'[u] = "unused" => Channels(u)' = {}
    BY <2>3, <2>5 DEF Granting
  <2> QED BY <1>1, <2>2, <2>7, <2>8, <2>9 DEF Granting
<1>7. CASE BindToken
  <2>1. PICK t, rest : t = fresh /\ rest = left
    OBVIOUS
  <2>2. PICK e \in rest : /\ bindings' = bindings \cup {<<t, e>>}
                          /\ left' = rest \ {e}
                          /\ boot' = IF rest = {e} THEN "drop_token" ELSE "bind_token"
    BY <1>7, <2>1 DEF BindToken
  <2>3. UNCHANGED <<token, granted, partial, fresh>> /\ boot = "bind_token"
    BY <1>3, <1>7 DEF BindToken
  <2>4. t \in Tokens /\ Making(t, rest)
    BY <2>1, <2>3 DEF Granting, Typed, Booting
  <2>5. e \in Endpoints
    BY <2>1, <2>2 DEF Typed, TypeOK, DbTypeOK
  <2>6. Channels(t)' = Channels(t) \cup {e} /\ \A u \in Tokens \ {t} : Channels(u)' = Channels(u)
    BY <2>2, <2>4, <2>5 DEF Channels
  <2>7. \A u \in Tokens \ {t} : ~Changing(u)
    BY <1>1, <2>1 DEF Changing
  <2>8. Changing(t)'
    BY <2>1, <2>3 DEF Changing
  <2>9. GrantsExact'
    BY <1>2, <2>2, <2>3, <2>4, <2>6, <2>7, <2>8 DEF Granting, GrantsExact, Making
  <2>10. Making(t, rest \ {e})'
    BY <2>2, <2>3, <2>4, <2>6 DEF Making
  <2>11. Making(fresh, left)' /\ (boot' = "drop_token" => Making(fresh, {})')
    BY <2>1, <2>2, <2>3, <2>10 DEF Making, Channels
  <2>12. \A u \in Tokens : token'[u] = "unused" => Channels(u)' = {}
    BY <2>3, <2>4, <2>6 DEF Granting, Making
  <2> QED BY <1>1, <2>9, <2>11, <2>12 DEF Granting
<1>8. CASE DropToken
  <2>1. PICK t : t = fresh
    OBVIOUS
  <2>2. UNCHANGED <<token, granted, partial, bindings>> /\ boot = "drop_token" /\ boot' = "serving"
    BY <1>3, <1>8 DEF DropToken
  <2>3. t \in Tokens /\ (t \in partial \/ granted[t] \subseteq Channels(t))
    BY <2>1, <2>2 DEF Granting, Making, Typed, Booting
  <2>4. \A u \in Tokens \ {t} : ~Changing(u)
    BY <1>1, <2>1 DEF Changing
  <2>5. GrantsExact'
    BY <1>2, <2>2, <2>3, <2>4 DEF Granting, GrantsExact, Channels
  <2> QED BY <1>1, <2>2, <2>5 DEF Granting, Channels
<1>9. (\/ Start \/ MainStep \/ SkipUrl(error) \/ MoveUrl(error) \/ BindKeys \/ DropUrl
       \/ AccessStep \/ SkipToken(error)) =>
        /\ UNCHANGED <<token, bindings>>
        /\ boot \notin {"bind_token", "drop_token"} /\ boot' \notin {"bind_token", "drop_token"}
  BY DEF Start, MainStep, SkipUrl, MoveUrl, BindKeys, DropUrl, AccessStep, SkipToken
<1> QED BY <1>5, <1>6, <1>7, <1>8, <1>9 DEF Boots, StartUp

\* What a stop cuts short, it remembers.
LEMMA StopGrants == Typed /\ Granting /\ Stops => Granting'
<1> SUFFICES ASSUME Typed, Granting, Stops PROVE Granting'
  OBVIOUS
<1>1. UNCHANGED <<token, bindings, granted>> /\ boot' = "down"
  BY DEF Stops, Stop, tables, Goto
<1>2. \A d \in Calls : task'[d].at = "idle"
  BY DEF Stops, Idle
<1>3. /\ partial \subseteq partial'
      /\ boot = "bind_token" => fresh \in partial'
      /\ \A d \in Calls : task[d].at = "bind" => task[d].id \in partial'
  BY DEF Stops, Stop
<1>4. ASSUME NEW t \in Tokens, Changing(t)
      PROVE  t \in partial' \/ granted[t] \subseteq Channels(t)
  <2>1. CASE t = fresh
    <3>1. boot \in {"bind_token", "drop_token"}
      BY <2>1, DatabaseAssumption DEF Typed, Booting, TypeOK, DbTypeOK
    <3> QED BY <1>3, <2>1, <3>1 DEF Granting, Making
  <2>2. CASE t # fresh
    BY <1>3, <1>4, <2>2 DEF Changing
  <2> QED BY <2>1, <2>2
<1>5. GrantsExact'
  BY <1>1, <1>3, <1>4 DEF Granting, GrantsExact, Channels
<1> QED BY <1>1, <1>2, <1>5 DEF Granting, Channels

\* Granting is inductive.
LEMMA GrantingKept == Typed /\ Granting /\ [Next]_vars => Granting'
<1>1. ASSUME Typed, Granting, UNCHANGED vars
      PROVE  Granting'
  BY <1>1, QuietStep DEF vars, dbVars, tables, start, past, SameBinders
<1> QED BY <1>1, BootGrants, StopGrants, CallTokensGrants, CallGrants DEF Next

\* A token has the channels its last change gave it, but for changes that run
\* or were cut short (add_access_token, update_access_token_channels, and the
\* migration of auth_token, which leaves out the endpoints it cannot read).
THEOREM GrantsAreExact == Spec => []GrantsExact
<1>1. Init => Granting
  BY DatabaseAssumption DEF Init, DbInit, Granting, GrantsExact, Channels, Changing, Idle
<1>2. Granting => GrantsExact
  BY DEF Granting
<1> QED BY <1>1, <1>2, InitTyped, TypedKept, GrantingKept, PTL DEF Spec
=============================================================================
