----------------------------- MODULE CLibAsync -----------------------------
(***************************************************************************)
(* The asynchronous requests of the C library (src/bindings/clib/          *)
(* sensor.go): callbacks registered by the host language, one goroutine    *)
(* per request that calls back when the request ends, cancellation and     *)
(* deregistration by id, and a session that may be freed meanwhile.        *)
(*                                                                         *)
(* callbackMu is released before a callback runs, so taking the callback   *)
(* and running it are two steps.  Nothing stops a host from starting two   *)
(* requests with one callback id, and the model lets it.                   *)
(***************************************************************************)
EXTENDS Naturals, FiniteSets

CONSTANTS
  AsyncCalls,    \* calls of sensor_get_async, post_async and request_async
  CallbackIds,   \* values of callbackCounter
  NoCall

ASSUME AsyncAssumption ==
  /\ NoCall \notin AsyncCalls
  /\ IsFiniteSet(AsyncCalls)
  /\ CallbackIds \subseteq Nat \ {0}

VARIABLES
  inTable,      \* the session's handle is in sessions
  live,         \* Session.Close has not run
  counter,      \* callbackCounter
  callbacks,    \* asyncCallbacks: the registered ids
  cancelFuncs,  \* id -> the call whose context its cancel function ends
  call,         \* call -> its locals and those of its goroutine
  invoked,      \* id -> how often C.invoke_callback ran for it
  dropped       \* ids that were unregistered

asyncVars == <<inTable, live, counter, callbacks, cancelFuncs, call, invoked, dropped>>

AsyncSteps == {"idle", "store", "run", "do", "take", "invoke", "done"}

NewCall == [pc |-> "idle", id |-> 0, ready |-> FALSE, ctx |-> "live", out |-> "none"]

AsyncTypeOK ==
  /\ inTable \in BOOLEAN /\ live \in BOOLEAN
  /\ counter \in CallbackIds \cup {0}
  /\ callbacks \subseteq 1 .. counter /\ dropped \subseteq 1 .. counter
  /\ cancelFuncs \in [CallbackIds -> AsyncCalls \cup {NoCall}]
  /\ call \in [AsyncCalls ->
       [pc: AsyncSteps, id: CallbackIds \cup {0}, ready: BOOLEAN,
        ctx: {"live", "cancelled"}, out: {"none", "resp", "err"}]]
  /\ invoked \in [CallbackIds -> 0 .. Cardinality(AsyncCalls)]

AsyncInit ==
  /\ inTable = TRUE /\ live = TRUE
  /\ counter = 0 /\ callbacks = {} /\ dropped = {}
  /\ cancelFuncs = [i \in CallbackIds |-> NoCall]
  /\ call = [c \in AsyncCalls |-> NewCall]
  /\ invoked = [i \in CallbackIds |-> 0]

\* Mutant: the id is read before the counter goes up.
RegisterOff ==
  /\ counter + 1 \in CallbackIds
  /\ counter' = counter + 1
  /\ callbacks' = callbacks \cup {counter}
  /\ UNCHANGED <<inTable, live, cancelFuncs, call, invoked, dropped>>

\* sensor_register_callback
Register ==
  /\ counter + 1 \in CallbackIds
  /\ counter' = counter + 1
  /\ callbacks' = callbacks \cup {counter'}
  /\ UNCHANGED <<inTable, live, cancelFuncs, call, invoked, dropped>>

\* sensor_unregister_callback: the cancel function is dropped, not called.
Unregister(i) ==
  /\ i \in 1 .. counter
  /\ callbacks' = callbacks \ {i}
  /\ cancelFuncs' = [cancelFuncs EXCEPT ![i] = NoCall]
  /\ dropped' = dropped \cup {i}
  /\ UNCHANGED <<inTable, live, counter, call, invoked>>

\* sensor_session_free: the handle goes first, the session is closed after
\* sessionMu is released.
FreeSession ==
  /\ inTable
  /\ inTable' = FALSE
  /\ UNCHANGED <<live, counter, callbacks, cancelFuncs, call, invoked, dropped>>

CloseSession ==
  /\ ~inTable /\ live
  /\ live' = FALSE
  /\ UNCHANGED <<inTable, counter, callbacks, cancelFuncs, call, invoked, dropped>>

\* *_async looks the session up and parses its options.  A call that finds no
\* session, or whose body does not decode, never gets to session.Do.
Start(c, i, decodes) ==
  /\ call[c].pc = "idle" /\ i \in 1 .. counter
  /\ call' = [call EXCEPT ![c] =
       [NewCall EXCEPT !.pc = "store", !.id = i, !.ready = inTable /\ decodes]]
  /\ UNCHANGED <<inTable, live, counter, callbacks, cancelFuncs, invoked, dropped>>

GetAsync(c, i) == Start(c, i, TRUE)
PostAsync(c, i) == Start(c, i, TRUE)
RequestAsync(c, i) == \E decodes \in BOOLEAN : Start(c, i, decodes)

\* Mutant: the goroutine starts without its cancel function being stored.
StoreNothing(c) ==
  /\ call[c].pc = "store"
  /\ call' = [call EXCEPT ![c].pc = "run"]
  /\ UNCHANGED <<inTable, live, counter, callbacks, cancelFuncs, invoked, dropped>>

\* The cancel function is stored under callbackMu, then the goroutine starts.
Store(c) ==
  /\ call[c].pc = "store"
  /\ cancelFuncs' = [cancelFuncs EXCEPT ![call[c].id] = c]
  /\ call' = [call EXCEPT ![c].pc = "run"]
  /\ UNCHANGED <<inTable, live, counter, callbacks, invoked, dropped>>

\* Mutant: a request that cannot start ends the goroutine without calling back.
RunSilently(c) ==
  /\ call[c].pc = "run"
  /\ call' = [call EXCEPT ![c].pc = IF call[c].ready THEN "do" ELSE "done"]
  /\ cancelFuncs' = IF call[c].ready THEN cancelFuncs
                    ELSE [cancelFuncs EXCEPT ![call[c].id] = NoCall]
  /\ UNCHANGED <<inTable, live, counter, callbacks, invoked, dropped>>

\* The goroutine: an unknown session, or a body that cannot be decoded, is an
\* error that is called back; otherwise session.Do starts.
Run(c) ==
  /\ call[c].pc = "run"
  /\ \/ call[c].ready /\ call' = [call EXCEPT ![c].pc = "do"]
     \/ ~call[c].ready /\ call' = [call EXCEPT ![c].pc = "take", ![c].out = "err"]
  /\ UNCHANGED <<inTable, live, counter, callbacks, cancelFuncs, invoked, dropped>>

\* session.Do ends: with a response or an error.  A session closed before gives
\* errors only; a cancelled context gives either, as the response may already
\* be there.
DoEnds(c) ==
  /\ call[c].pc = "do"
  /\ \E out \in {"resp", "err"} :
       /\ ~live => out = "err"
       /\ call' = [call EXCEPT ![c].pc = "take", ![c].out = out]
  /\ UNCHANGED <<inTable, live, counter, callbacks, cancelFuncs, invoked, dropped>>

\* sensor_cancel_request: the context of the call stored under the id ends.
CancelRequest(i) ==
  /\ cancelFuncs[i] # NoCall
  /\ call' = [call EXCEPT ![cancelFuncs[i]].ctx = "cancelled"]
  /\ UNCHANGED <<inTable, live, counter, callbacks, cancelFuncs, invoked, dropped>>

Taken(c, known) ==
  call' = [call EXCEPT ![c].pc = IF known THEN "invoke" ELSE "done"]

\* Mutant: the callback stays registered.
TakeKeeps(c) ==
  LET i == call[c].id IN
  /\ call[c].pc = "take"
  /\ cancelFuncs' = [cancelFuncs EXCEPT ![i] = NoCall]
  /\ Taken(c, i \in callbacks)
  /\ UNCHANGED <<inTable, live, counter, callbacks, invoked, dropped>>

\* Mutant: with no callback left, invokeCallback returns at once.
TakeEarlyReturn(c) ==
  LET i == call[c].id IN
  /\ call[c].pc = "take"
  /\ callbacks' = callbacks \ {i}
  /\ cancelFuncs' = IF i \in callbacks THEN [cancelFuncs EXCEPT ![i] = NoCall] ELSE cancelFuncs
  /\ Taken(c, i \in callbacks)
  /\ UNCHANGED <<inTable, live, counter, invoked, dropped>>

\* invokeCallback, under callbackMu: the callback and the cancel function leave
\* their tables together.
Take(c) ==
  LET i == call[c].id IN
  /\ call[c].pc = "take"
  /\ callbacks' = callbacks \ {i}
  /\ cancelFuncs' = [cancelFuncs EXCEPT ![i] = NoCall]
  /\ Taken(c, i \in callbacks)
  /\ UNCHANGED <<inTable, live, counter, invoked, dropped>>

\* ... and, after the unlock, C.invoke_callback.
Invoke(c) ==
  /\ call[c].pc = "invoke"
  /\ invoked' = [invoked EXCEPT ![call[c].id] = @ + 1]
  /\ call' = [call EXCEPT ![c].pc = "done"]
  /\ UNCHANGED <<inTable, live, counter, callbacks, cancelFuncs, dropped>>

Goroutine(c) == Store(c) \/ Run(c) \/ DoEnds(c) \/ Take(c) \/ Invoke(c)

AsyncNext ==
  \/ Register \/ FreeSession \/ CloseSession
  \/ \E i \in CallbackIds : Unregister(i) \/ CancelRequest(i)
  \/ \E c \in AsyncCalls : Goroutine(c)
  \/ \E c \in AsyncCalls, i \in CallbackIds : GetAsync(c, i) \/ PostAsync(c, i) \/ RequestAsync(c, i)

\* A goroutine keeps running, and session.Do ends: the session's timeout (30 s
\* by default) bounds it even where the caller gave none.
AsyncFairness == \A c \in AsyncCalls : WF_asyncVars(Goroutine(c))

AsyncSpec == AsyncInit /\ [][AsyncNext]_asyncVars /\ AsyncFairness

-----------------------------------------------------------------------------
\* A registered callback runs at most once, even when two requests were
\* started with its id and end at the same time.
CallbackOnce == \A i \in CallbackIds : invoked[i] <= 1

\* cancelFuncs holds no function of a request that is over, whatever was
\* unregistered or shared an id meanwhile: the table does not grow for ever.
CancelFuncsDrain ==
  \A i \in CallbackIds :
    cancelFuncs[i] # NoCall => call[cancelFuncs[i]].pc \in {"run", "do", "take"}

\* While a request runs, its callback is registered and no other request uses
\* its id, sensor_cancel_request reaches it.
RunningCancellable ==
  \A c \in AsyncCalls :
    /\ call[c].pc \in {"run", "do"}
    /\ call[c].id \in callbacks
    /\ \A d \in AsyncCalls \ {c} : call[d].id # call[c].id
    => cancelFuncs[call[c].id] = c

\* A host that started a request is called back, unless it unregistered the
\* callback: also when the session was freed in between, the body cannot be
\* decoded or the request is cancelled.
AsyncAnswered ==
  \A c \in AsyncCalls :
    (call[c].pc = "store" /\ call[c].id \in callbacks)
      ~> (call[c].id # 0 /\ (invoked[call[c].id] > 0 \/ call[c].id \in dropped))
=============================================================================
