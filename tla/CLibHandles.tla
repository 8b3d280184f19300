---------------------------- MODULE CLibHandles ----------------------------
(***************************************************************************)
(* The handle tables of the C library (src/bindings/clib/sensor.go and     *)
(* sensor_fast.go): sessions, streams, raw and fast responses, local       *)
(* proxies and preset pools, which the host opens, uses and frees by       *)
(* number from any of its threads.                                         *)
(*                                                                         *)
(* A lookup releases the table's lock before the object is used.  Most     *)
(* tables remove an object under the lock and close it afterwards; a fast  *)
(* response's C memory is freed under the lock, and a raw response, which  *)
(* Go collects, is copied out and removed under it.  Only sessions are     *)
(* needed to fill another table, so a behaviour has that table and one     *)
(* other, chosen at the start.                                             *)
(***************************************************************************)
EXTENDS Naturals

CONSTANTS
  Threads,      \* threads of the host
  MaxHandles    \* bound: handles ever issued from one table

ASSUME HandlesAssumption == MaxHandles \in Nat \ {0}

Tables == {"session", "stream", "raw", "fast", "proxy", "pool"}
Handles == 1 .. MaxHandles

VARIABLES
  other,      \* the table used besides the sessions
  counters,   \* table -> sessionCounter, streamCounter, rawResponseID, ...
  entries,    \* table -> handle -> the number of the object stored there, 0 if none
  object,     \* table -> object -> "none", "open" or "closed"
  closes,     \* table -> object -> how often it was closed
  thread      \* thread -> [pc, call, t, h, o]: the call it is in

handleVars == <<other, counters, entries, object, closes, thread>>

IdleThread == [pc |-> "idle", call |-> "none", t |-> "session", h |-> 0, o |-> 0]

HandlesTypeOK ==
  /\ other \in Tables \ {"session"}
  /\ counters \in [Tables -> 0 .. MaxHandles]
  /\ entries \in [Tables -> [Handles -> 0 .. MaxHandles]]
  /\ object \in [Tables -> [Handles -> {"none", "open", "closed"}]]
  /\ closes \in [Tables -> [Handles -> 0 .. 2]]
  /\ \A p \in Threads :
       /\ thread[p].pc \in {"idle", "request", "issue", "free", "close"}
       /\ thread[p].t \in {"session", other}
       /\ thread[p].h \in 0 .. MaxHandles /\ thread[p].o \in 0 .. MaxHandles

HandlesInit ==
  /\ other \in Tables \ {"session"}
  /\ counters = [t \in Tables |-> 0]
  /\ entries = [t \in Tables |-> [h \in Handles |-> 0]]
  /\ object = [t \in Tables |-> [o \in Handles |-> "none"]]
  /\ closes = [t \in Tables |-> [o \in Handles |-> 0]]
  /\ thread = [p \in Threads |-> IdleThread]

-----------------------------------------------------------------------------
(* Objects come into being, and a call has them before the table does. *)

\* Every object has a number of its own.
Fresh(t) == {o \in Handles : object[t][o] = "none"}

Create(p, t) ==
  /\ Fresh(t) # {}
  /\ LET o == CHOOSE o \in Fresh(t) : \A x \in Fresh(t) : o <= x IN
     /\ object' = [object EXCEPT ![t][o] = "open"]
     /\ thread' = [thread EXCEPT ![p] = [IdleThread EXCEPT !.pc = "issue", !.t = t, !.o = o]]

BuildObject(p, t) ==
  /\ thread[p].pc = "idle" /\ t \in {"session", other}
  /\ Create(p, t)
  /\ UNCHANGED <<other, counters, entries, closes>>

NewSession(p) == BuildObject(p, "session")
LocalProxyStart(p) == BuildObject(p, "proxy")
PoolLoad(p) == BuildObject(p, "pool")

\* getSession: an unknown handle ends the call with an error.
GetSession(p, call, t, h) ==
  /\ thread[p].pc = "idle" /\ h <= counters["session"] /\ t \in {"session", other}
  /\ entries["session"][h] # 0
  /\ thread' = [thread EXCEPT ![p] =
       [pc |-> "request", call |-> call, t |-> t, h |-> h, o |-> entries["session"][h]]]
  /\ UNCHANGED <<other, counters, entries, object, closes>>

SessionFork(p, h) == GetSession(p, "fork", "session", h)
StreamGet(p, h) == GetSession(p, "get", "stream", h)
StreamPost(p, h) == GetSession(p, "post", "stream", h)
StreamRequest(p, h) == GetSession(p, "request", "stream", h)
GetRaw(p, h) == GetSession(p, "get", "raw", h)
PostRaw(p, h) == GetSession(p, "post", "raw", h)
RequestRaw(p, h) == GetSession(p, "request", "raw", h)
GetFast(p, h) == GetSession(p, "get", "fast", h)
GetFastTimed(p, h) == GetSession(p, "timed", "fast", h)

\* sensor_get, sensor_post and sensor_request answer with JSON and no handle.
JsonCalls == {"json_get", "json_post", "json_request"}

JsonGet(p, h) == GetSession(p, "json_get", "session", h)
JsonPost(p, h) == GetSession(p, "json_post", "session", h)
JsonRequest(p, h) == GetSession(p, "json_request", "session", h)

\* The fork or the request: it may fail, and on a closed session it does.
RequestDone(p) ==
  LET q == thread[p] IN
  /\ q.pc = "request"
  /\ \/ object["session"][q.o] = "open" /\ q.call \notin JsonCalls /\ Create(p, q.t)
     \/ thread' = [thread EXCEPT ![p] = IdleThread] /\ UNCHANGED object
  /\ UNCHANGED <<other, counters, entries, closes>>

\* Mutant: the counter is used before it goes up.
NextHandleOld(t) == counters[t]

NextHandle(t) == counters[t] + 1

\* The counter goes up and the object is stored, under the table's lock.
Issue(p, t) ==
  LET q == thread[p] IN
  /\ q.pc = "issue" /\ q.t = t /\ counters[t] < MaxHandles
  /\ counters' = [counters EXCEPT ![t] = @ + 1]
  /\ entries' = [entries EXCEPT ![t][NextHandle(t)] = q.o]
  /\ thread' = [thread EXCEPT ![p] = IdleThread]
  /\ UNCHANGED <<other, object, closes>>

IssueSession(p) == Issue(p, "session")
IssueStream(p) == Issue(p, "stream")
MakeRawResponse(p) == Issue(p, "raw")
GetFastFinish(p) == Issue(p, "fast")
IssueProxy(p) == Issue(p, "proxy")
IssuePool(p) == Issue(p, "pool")

-----------------------------------------------------------------------------
(* Handles are freed. *)

\* A host's thread is about to free a handle it was given.
Free(p, call, t, h) ==
  /\ thread[p].pc = "idle" /\ h <= counters[t] /\ t \in {"session", other}
  /\ entries[t][h] # 0
  /\ thread' = [thread EXCEPT ![p] =
       [pc |-> "free", call |-> call, t |-> t, h |-> h, o |-> entries[t][h]]]
  /\ UNCHANGED <<other, counters, entries, object, closes>>

SessionFree(p, h) == Free(p, "free", "session", h)
StreamClose(p, h) == Free(p, "free", "stream", h)
ResponseFree(p, h) == Free(p, "free", "raw", h)
ResponseFinalize(p, h) == Free(p, "finalize", "raw", h)
FastFree(p, h) == Free(p, "free", "fast", h)
LocalProxyStop(p, h) == Free(p, "free", "proxy", h)
PoolFree(p, h) == Free(p, "free", "pool", h)

Closed(t, o) ==
  /\ object' = [object EXCEPT ![t][o] = "closed"]
  /\ closes' = [closes EXCEPT ![t][o] = @ + 1]

\* Mutant: whoever saw the handle closes the object.
RemoveEntrySeen(p) ==
  LET q == thread[p] IN
  /\ q.pc = "free"
  /\ entries' = [entries EXCEPT ![q.t][q.h] = 0]
  /\ thread' = [thread EXCEPT ![p] = [q EXCEPT !.pc = "close"]]
  /\ UNCHANGED <<other, counters, object, closes>>

\* Mutant: the entry is removed and the object forgotten.
RemoveEntryOnly(p) ==
  LET q == thread[p] IN
  /\ q.pc = "free"
  /\ entries' = [entries EXCEPT ![q.t][q.h] = 0]
  /\ thread' = [thread EXCEPT ![p] = IdleThread]
  /\ UNCHANGED <<other, counters, object, closes>>

\* Where nothing is left to do after the unlock.
AtOnce == {"raw", "fast"}

\* The lookup that counts is the one under the write lock, with the removal.
\* C memory is freed there and then, a raw response is garbage from here on.
RemoveEntry(p) ==
  LET q == thread[p]
      o == entries[q.t][q.h] IN
  /\ q.pc = "free"
  /\ entries' = [entries EXCEPT ![q.t][q.h] = 0]
  /\ IF q.t \in AtOnce /\ o # 0 THEN Closed(q.t, o) ELSE UNCHANGED <<object, closes>>
  /\ thread' = [thread EXCEPT ![p] =
       IF o = 0 \/ q.t \in AtOnce THEN IdleThread ELSE [q EXCEPT !.pc = "close", !.o = o]]
  /\ UNCHANGED <<other, counters>>

\* session.Close(), stream.Close(), proxy.Stop() or pool.Close(), after the unlock
CloseRemoved(p) ==
  LET q == thread[p] IN
  /\ q.pc = "close"
  /\ Closed(q.t, q.o)
  /\ thread' = [thread EXCEPT ![p] = IdleThread]
  /\ UNCHANGED <<other, counters, entries>>

HandlesNext ==
  \E p \in Threads :
    \/ NewSession(p) \/ LocalProxyStart(p) \/ PoolLoad(p) \/ RequestDone(p)
    \/ IssueSession(p) \/ IssueStream(p) \/ MakeRawResponse(p) \/ GetFastFinish(p)
    \/ IssueProxy(p) \/ IssuePool(p)
    \/ RemoveEntry(p) \/ CloseRemoved(p)
    \/ \E h \in Handles :
         \/ SessionFork(p, h) \/ StreamGet(p, h) \/ StreamPost(p, h) \/ StreamRequest(p, h)
         \/ GetRaw(p, h) \/ PostRaw(p, h) \/ RequestRaw(p, h)
         \/ GetFast(p, h) \/ GetFastTimed(p, h)
         \/ JsonGet(p, h) \/ JsonPost(p, h) \/ JsonRequest(p, h)
         \/ SessionFree(p, h) \/ StreamClose(p, h) \/ ResponseFree(p, h)
         \/ ResponseFinalize(p, h) \/ FastFree(p, h) \/ LocalProxyStop(p, h) \/ PoolFree(p, h)

HandlesSpec == HandlesInit /\ [][HandlesNext]_handleVars

-----------------------------------------------------------------------------
\* However many threads free a handle, its object is closed once: closing a
\* stream twice returns its connection twice, freeing C memory twice is fatal.
ClosedOnce == \A t \in Tables, o \in Handles : closes[t][o] <= 1

\* Nothing leaks: an object that is open can be reached by a handle, or a call
\* still has it in its hands.
NothingLost ==
  \A t \in Tables, o \in Handles :
    object[t][o] = "open" =>
      \/ \E h \in Handles : entries[t][h] = o
      \/ \E p \in Threads : thread[p].pc \in {"issue", "close"} /\ thread[p].t = t /\ thread[p].o = o

\* What a handle leads to is open, and no other handle leads to it.
HandleExact ==
  \A t \in Tables, h \in Handles : entries[t][h] # 0 =>
    /\ object[t][entries[t][h]] = "open"
    /\ \A g \in Handles : entries[t][g] = entries[t][h] => g = h

\* Whatever the threads of the host do at the same time, every object is
\* reachable by one handle until it is freed, and closed once then.
HandlesSound == HandlesTypeOK /\ ClosedOnce /\ NothingLost /\ HandleExact
=============================================================================
