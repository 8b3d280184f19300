----------------------------- MODULE CLibCache -----------------------------
(***************************************************************************)
(* CAsyncSessionCacheBackend (src/bindings/clib/sensor.go): a TLS session  *)
(* cache kept by the host language.  A lookup, store or deletion registers *)
(* a request id with a channel of one slot, calls the host, and waits for  *)
(* the host to answer that id, for the context or for the 30 s timeout.    *)
(*                                                                         *)
(* The host answers from any thread, late, twice, to an id of the other    *)
(* kind, or never.  An answer looks the channel up under the lock and      *)
(* sends after releasing it.                                               *)
(***************************************************************************)
EXTENDS Naturals, FiniteSets

CONSTANTS
  Lookups,     \* calls of Get, GetECHConfig ("get") and Put, Delete, PutECHConfig ("op")
  Answers,     \* calls of sensor_async_cache_get_result and op_result
  Values,      \* what the host answers
  NoValue

ASSUME CacheAssumption ==
  /\ IsFiniteSet(Lookups)
  /\ NoValue \notin Values

VARIABLES
  requestID,  \* asyncCacheRequestID
  table,      \* kind -> ids: asyncCacheGetResults and asyncCacheOpResults
  channel,    \* id -> the value in its channel, or NoValue
  lookup,     \* call -> [pc, kind, id, got]
  answer,     \* answer -> [pc, kind, id, value]
  first       \* id -> the first value that reached its channel

cacheVars == <<requestID, table, channel, lookup, answer, first>>

CacheKinds == {"get", "op"}
RequestIds == 1 .. Cardinality(Lookups)

CacheTypeOK ==
  /\ requestID \in 0 .. Cardinality(Lookups)
  /\ table \in [CacheKinds -> SUBSET RequestIds]
  /\ channel \in [RequestIds -> Values \cup {NoValue}]
  /\ first \in [RequestIds -> Values \cup {NoValue}]
  /\ lookup \in [Lookups ->
       [pc: {"idle", "wait", "cleanup", "done"}, kind: CacheKinds,
        id: RequestIds \cup {0}, got: Values \cup {NoValue}]]
  /\ answer \in [Answers ->
       [pc: {"idle", "send", "done"}, kind: CacheKinds, id: RequestIds \cup {0},
        value: Values \cup {NoValue}]]

CacheInit ==
  /\ requestID = 0
  /\ table = [k \in CacheKinds |-> {}]
  /\ channel = [i \in RequestIds |-> NoValue]
  /\ first = [i \in RequestIds |-> NoValue]
  /\ lookup = [l \in Lookups |-> [pc |-> "idle", kind |-> "get", id |-> 0, got |-> NoValue]]
  /\ answer = [a \in Answers |-> [pc |-> "idle", kind |-> "get", id |-> 0, value |-> NoValue]]

\* Mutant: the number of open requests is used as the id.
NextIdReused == Cardinality(table["get"] \cup table["op"]) + 1

\* Mutant: the counter itself is the id, before it goes up.
NextIdOld == requestID

NextId == requestID + 1

\* registerGetRequest or registerOpRequest, then the host's callback with the id
Ask(l, k) ==
  /\ lookup[l].pc = "idle"
  /\ requestID' = requestID + 1
  /\ table' = [table EXCEPT ![k] = @ \cup {NextId}]
  /\ lookup' = [lookup EXCEPT ![l] = [pc |-> "wait", kind |-> k, id |-> NextId, got |-> NoValue]]
  /\ UNCHANGED <<channel, answer, first>>

\* The methods of the backend: those that wait for a value, and those that wait
\* for a result code.
CacheGet(l) == Ask(l, "get")
CacheGetECHConfig(l) == Ask(l, "get")
CachePut(l) == Ask(l, "op")
CacheDelete(l) == Ask(l, "op")
CachePutECHConfig(l) == Ask(l, "op")

\* Their select: the answer...
Receive(l) ==
  /\ lookup[l].pc = "wait" /\ channel[lookup[l].id] # NoValue
  /\ lookup' = [lookup EXCEPT ![l].pc = "cleanup", ![l].got = channel[lookup[l].id]]
  /\ channel' = [channel EXCEPT ![lookup[l].id] = NoValue]
  /\ UNCHANGED <<requestID, table, answer, first>>

\* Mutant: the timeout is only looked at when an answer is there.
TimeOutNever(l) ==
  /\ lookup[l].pc = "wait" /\ channel[lookup[l].id] # NoValue
  /\ lookup' = [lookup EXCEPT ![l].pc = "cleanup"]
  /\ UNCHANGED <<requestID, table, channel, answer, first>>

\* ... or the end of the context or of the 30 s.
TimeOut(l) ==
  /\ lookup[l].pc = "wait"
  /\ lookup' = [lookup EXCEPT ![l].pc = "cleanup"]
  /\ UNCHANGED <<requestID, table, channel, answer, first>>

\* Mutant: only a request that was answered is removed.
CleanUpAnswered(l) ==
  LET q == lookup[l] IN
  /\ q.pc = "cleanup"
  /\ table' = IF q.got = NoValue THEN table ELSE [table EXCEPT ![q.kind] = @ \ {q.id}]
  /\ lookup' = [lookup EXCEPT ![l].pc = "done"]
  /\ UNCHANGED <<requestID, channel, answer, first>>

\* The deferred cleanupGetRequest or cleanupOpRequest
CleanUp(l) ==
  LET q == lookup[l] IN
  /\ q.pc = "cleanup"
  /\ table' = [table EXCEPT ![q.kind] = @ \ {q.id}]
  /\ lookup' = [lookup EXCEPT ![l].pc = "done"]
  /\ UNCHANGED <<requestID, channel, answer, first>>

\* The host answers an id it was given: unknown ids are dropped.
AnswerFinds(a, k, i, v) ==
  /\ answer[a].pc = "idle" /\ i <= requestID
  /\ answer' = [answer EXCEPT ![a] =
       [pc |-> IF i \in table[k] THEN "send" ELSE "done", kind |-> k, id |-> i, value |-> v]]
  /\ UNCHANGED <<requestID, table, channel, lookup, first>>

\* Mutant: the send waits until the slot is free.
AnswerSendsBlocking(a) ==
  LET q == answer[a] IN
  /\ q.pc = "send" /\ channel[q.id] = NoValue
  /\ channel' = [channel EXCEPT ![q.id] = q.value]
  /\ first' = [first EXCEPT ![q.id] = IF @ = NoValue THEN q.value ELSE @]
  /\ answer' = [answer EXCEPT ![a].pc = "done"]
  /\ UNCHANGED <<requestID, table, lookup>>

\* The send into the channel: a second value finds the slot full and is dropped.
AnswerSends(a) ==
  LET q == answer[a] IN
  /\ q.pc = "send"
  /\ channel' = [channel EXCEPT ![q.id] = IF @ = NoValue THEN q.value ELSE @]
  /\ first' = [first EXCEPT ![q.id] = IF @ = NoValue THEN q.value ELSE @]
  /\ answer' = [answer EXCEPT ![a].pc = "done"]
  /\ UNCHANGED <<requestID, table, lookup>>

LookupStep(l) == Receive(l) \/ TimeOut(l) \/ CleanUp(l)

CacheNext ==
  \/ \E l \in Lookups :
       \/ CacheGet(l) \/ CacheGetECHConfig(l) \/ CachePut(l) \/ CacheDelete(l)
       \/ CachePutECHConfig(l) \/ LookupStep(l)
  \/ \E a \in Answers :
       \/ AnswerSends(a)
       \/ \E k \in CacheKinds, i \in RequestIds, v \in Values : AnswerFinds(a, k, i, v)

\* time.After fires; a thread inside the library keeps running.
CacheFairness ==
  /\ \A l \in Lookups : WF_cacheVars(LookupStep(l))
  /\ \A a \in Answers : WF_cacheVars(AnswerSends(a))

CacheSpec == CacheInit /\ [][CacheNext]_cacheVars /\ CacheFairness

-----------------------------------------------------------------------------
\* A lookup returns the first answer the host gave to its own request: never a
\* later one, nor one meant for another request that timed out.
FirstOwnAnswer ==
  \A l \in Lookups :
    lookup[l].got # NoValue =>
      /\ lookup[l].got = first[lookup[l].id]
      /\ \A m \in Lookups \ {l} : lookup[m].id # lookup[l].id

\* No request outlives its call in the two tables, however it ended.
RequestsCleanedUp ==
  \A k \in CacheKinds : \A i \in table[k] :
    \E l \in Lookups : lookup[l].id = i /\ lookup[l].kind = k /\ lookup[l].pc \in {"wait", "cleanup"}

\* A handshake that asks the host's cache goes on, also when the host never
\* answers or answers the wrong function.
LookupReturns == \A l \in Lookups : lookup[l].pc = "wait" ~> lookup[l].pc = "done"

\* A host thread that answers is never held up: not by a second answer to the
\* same id, nor by an answer that comes after the timeout.
HostNotBlocked == \A a \in Answers : answer[a].pc = "send" ~> answer[a].pc = "done"
=============================================================================
