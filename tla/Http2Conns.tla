----------------------------- MODULE Http2Conns -----------------------------
(***************************************************************************)
(* The connection map of HTTP2Transport (src/transport/http2_transport.go):*)
(* one multiplexed connection per "connectHost:port" key, shared by all    *)
(* requests; RoundTrip with its single retry, Connect (the protocol race's *)
(* warm dial), the 30 s cleanup, Refresh and Close.                        *)
(*                                                                         *)
(* Every connsMu section is one action, except that a section which finds  *)
(* a connection unusable is two: isConnUsable gives the connection's own   *)
(* mutex back before the connection leaves the map, and a request that     *)
(* already has the pointer can begin on it in between, because inFlight++  *)
(* needs that mutex only.  A section that finds it usable keeps no trace   *)
(* of the test and is one action; after an RLock section the test reads    *)
(* only the connection's own fields, so it is made with the pointer read.  *)
(* `go c.close()' puts the connection in `closing'.  Ages are ticks and    *)
(* saturate.  A dial lasts at most MaxDial ticks: its context ends it.     *)
(***************************************************************************)
EXTENDS Integers, FiniteSets

CONSTANTS
  Requests,  \* goroutines in RoundTrip or Connect
  Conns,     \* identities of *persistentConn objects
  Keys,      \* keys of HTTP2Transport.conns
  MaxIdle,   \* maxIdleTime in ticks
  MaxAge,    \* maxConnAge in ticks
  MaxDial,   \* the longest dial the contexts of the callers allow, in ticks
  Absent     \* no connection, no key, no request

ASSUME Http2Assumption ==
  /\ IsFiniteSet(Requests)
  /\ MaxIdle \in Nat /\ MaxAge \in Nat /\ MaxDial \in Nat
  /\ Absent \notin Conns \cup Keys \cup Requests

VARIABLES
  closed,    \* HTTP2Transport.closed
  conns,     \* HTTP2Transport.conns
  status,    \* a connection: not dialled, open or closed
  age, idle, \* ticks since createdAt / lastUsedAt
  inFlight,  \* persistentConn.inFlight
  closing,   \* connections with a pending `go close()'
  pc,        \* where each request is
  key,       \* its key
  cur,       \* its local variable conn (newConn while dialling)
  attempt,   \* 1, or 2 in the retry after a failed round trip
  dialAge,   \* how long its dial has been running
  evictor,   \* the request that holds connsMu and found its key's connection unusable
  toTest,    \* the keys cleanup(), holding connsMu, has not come to yet
  condemned, \* the key whose connection cleanup() found unusable
  late       \* history: who began on the unusable connection since it was tested

mapVars  == <<closed, conns>>
lockVars == <<evictor, toTest, condemned>>
connVars == <<status, age, idle, inFlight, closing>>
reqVars  == <<pc, key, cur, attempt, dialAge>>
vars     == <<mapVars, connVars, reqVars, lockVars, late>>

Steps == {"idle", "get", "miss", "dial", "dialed", "ready", "trip", "failed",
          "cdial", "cdialed"}

\* Types, and which of its locals a request has at which step.
TypeOK ==
  /\ closed \in BOOLEAN
  /\ conns \in [Keys -> Conns \cup {Absent}]
  /\ status \in [Conns -> {"free", "open", "closed"}]
  /\ age \in [Conns -> 0 .. MaxAge + 1]
  /\ idle \in [Conns -> 0 .. MaxIdle + 1]
  /\ inFlight \in [Conns -> Int]
  /\ closing \in SUBSET Conns
  /\ pc \in [Requests -> Steps]
  /\ key \in [Requests -> Keys \cup {Absent}]
  /\ cur \in [Requests -> Conns \cup {Absent}]
  /\ attempt \in [Requests -> {1, 2}]
  /\ dialAge \in [Requests -> 0 .. MaxDial]
  /\ \A r \in Requests :
       /\ pc[r] # "idle" <=> key[r] # Absent
       /\ pc[r] \in {"dialed", "ready", "trip", "cdialed"} <=> cur[r] # Absent

\* Who is inside a connsMu section, and that what he found is still there.
LockOK ==
  /\ evictor \in Requests \cup {Absent}
  /\ toTest \in SUBSET Keys
  /\ condemned \in (Keys \ toTest) \cup {Absent}
  /\ late \in SUBSET Requests
  /\ evictor # Absent =>
       /\ toTest = {} /\ condemned = Absent
       /\ pc[evictor] \in {"miss", "dialed", "cdialed"} /\ conns[key[evictor]] # Absent
  /\ \A k \in toTest \cup ({condemned} \ {Absent}) : conns[k] # Absent

Init ==
  /\ closed = FALSE
  /\ conns = [k \in Keys |-> Absent]
  /\ status = [c \in Conns |-> "free"]
  /\ age = [c \in Conns |-> 0]
  /\ idle = [c \in Conns |-> 0]
  /\ inFlight = [c \in Conns |-> 0]
  /\ closing = {}
  /\ pc = [r \in Requests |-> "idle"]
  /\ key = [r \in Requests |-> Absent]
  /\ cur = [r \in Requests |-> Absent]
  /\ attempt = [r \in Requests |-> 1]
  /\ dialAge = [r \in Requests |-> 0]
  /\ evictor = Absent
  /\ toTest = {}
  /\ condemned = Absent
  /\ late = {}

-----------------------------------------------------------------------------

\* Mutant: the inFlight == 0 test is missing.
isConnUsableIgnoringUse(c) == age[c] <= MaxAge /\ idle[c] <= MaxIdle

\* A request in flight protects its connection from the idle limit but not
\* from the age limit.  A closed connection passes: only the map protects it.
isConnUsable(c) ==
  /\ age[c] <= MaxAge
  /\ inFlight[c] > 0 \/ idle[c] <= MaxIdle

Usable(k) == conns[k] # Absent /\ isConnUsable(conns[k])

\* No goroutine is inside a connsMu section.
MuFree == evictor = Absent /\ toTest = {} /\ condemned = Absent

\* A whole section of connsMu.
Locked == MuFree /\ UNCHANGED <<lockVars, late>>

\* No use of connsMu: the step may come inside the section of another.
Unlocked == UNCHANGED <<lockVars, late>>

\* The connection that was found unusable and is still in the map.
Doomed ==
  IF evictor # Absent THEN conns[key[evictor]]
  ELSE IF condemned # Absent THEN conns[condemned] ELSE Absent

Return(r) ==
  /\ pc' = [pc EXCEPT ![r] = "idle"]
  /\ key' = [key EXCEPT ![r] = Absent]
  /\ cur' = [cur EXCEPT ![r] = Absent]
  /\ attempt' = [attempt EXCEPT ![r] = 1]
  /\ dialAge' = [dialAge EXCEPT ![r] = 0]

Goto(r, step, c) ==
  /\ pc' = [pc EXCEPT ![r] = step]
  /\ cur' = [cur EXCEPT ![r] = c]
  /\ dialAge' = [dialAge EXCEPT ![r] = 0]
  /\ UNCHANGED <<key, attempt>>

Unreferenced(c) ==
  /\ c \notin closing
  /\ \A k \in Keys : conns[k] # c
  /\ \A r \in Requests : cur[r] # c

\* RoundTrip and Connect on a closed transport return an error at once.
Start(r, k) ==
  /\ pc[r] = "idle" /\ ~closed /\ Locked
  /\ pc' = [pc EXCEPT ![r] = "get"]
  /\ key' = [key EXCEPT ![r] = k]
  /\ UNCHANGED <<mapVars, connVars, cur, attempt, dialAge>>

\* Connect returns at once when a usable connection is in the map.
StartConnect(r, k) ==
  /\ pc[r] = "idle" /\ ~closed /\ ~Usable(k) /\ Locked
  /\ pc' = [pc EXCEPT ![r] = "cdial"]
  /\ key' = [key EXCEPT ![r] = k]
  /\ UNCHANGED <<mapVars, connVars, cur, attempt, dialAge>>

-----------------------------------------------------------------------------
(* getOrCreateConn: "get" is its read section, "miss" its write section. *)

GetClosed(r) ==
  /\ pc[r] \in {"get", "miss"} /\ closed /\ Locked
  /\ Return(r)
  /\ UNCHANGED <<mapVars, connVars>>

\* Mutant: the exists test is missing.
GetHitUnchecked(r) ==
  /\ pc[r] \in {"get", "miss"} /\ ~closed /\ Locked
  /\ Goto(r, "ready", conns[key[r]])
  /\ UNCHANGED <<mapVars, connVars>>

GetHit(r) ==
  /\ pc[r] \in {"get", "miss"} /\ ~closed /\ Usable(key[r]) /\ Locked
  /\ Goto(r, "ready", conns[key[r]])
  /\ UNCHANGED <<mapVars, connVars>>

GetMiss(r) ==
  /\ pc[r] = "get" /\ ~closed /\ ~Usable(key[r]) /\ Locked
  /\ Goto(r, "miss", Absent)
  /\ UNCHANGED <<mapVars, connVars>>

\* Mutant: the connection is closed but not deleted from the map.
RemoveNoDelete(k) ==
  /\ closing' = closing \cup ({conns[k]} \ {Absent})
  /\ UNCHANGED conns

\* The connection under k leaves the map and is closed in the background.
Remove(k) ==
  /\ conns' = [conns EXCEPT ![k] = Absent]
  /\ closing' = closing \cup ({conns[k]} \ {Absent})

\* A write section, of getOrCreateConn or Connect, finds the connection under
\* its key unusable and keeps connsMu.
FindUnusable(r) ==
  /\ pc[r] \in {"miss", "dialed", "cdialed"} /\ ~closed /\ MuFree
  /\ conns[key[r]] # Absent /\ ~isConnUsable(conns[key[r]])
  /\ evictor' = r
  /\ UNCHANGED <<mapVars, connVars, reqVars, toTest, condemned, late>>

\* Such a section goes on, and ends: it found an unusable connection or none.
GoesOn(r) ==
  /\ evictor = r \/ (MuFree /\ ~closed /\ conns[key[r]] = Absent)
  /\ evictor' = Absent
  /\ late' = {}
  /\ UNCHANGED <<toTest, condemned>>

\* Drop the unusable connection, unlock, dial.
GetEvict(r) ==
  /\ pc[r] = "miss" /\ GoesOn(r)
  /\ Remove(key[r])
  /\ Goto(r, "dial", Absent)
  /\ UNCHANGED <<closed, status, age, idle, inFlight>>

\* createConn succeeds.
DialOk(r) ==
  /\ pc[r] \in {"dial", "cdial"}
  /\ \E c \in Conns :
       /\ status[c] # "open" /\ Unreferenced(c)
       /\ status' = [status EXCEPT ![c] = "open"]
       /\ age' = [age EXCEPT ![c] = 0]
       /\ idle' = [idle EXCEPT ![c] = 0]
       /\ inFlight' = [inFlight EXCEPT ![c] = 0]
       /\ Goto(r, IF pc[r] = "dial" THEN "dialed" ELSE "cdialed", c)
  /\ Unlocked
  /\ UNCHANGED <<mapVars, closing>>

\* createConn fails and has closed what it had opened, or the negotiated
\* protocol is not h2 and the TLS connection goes to the caller in the error.
DialFail(r) ==
  /\ pc[r] \in {"dial", "cdial"} /\ Unlocked
  /\ Return(r)
  /\ UNCHANGED <<mapVars, connVars>>

\* The transport was closed during the dial.
InstallClosed(r) ==
  /\ pc[r] \in {"dialed", "cdialed"} /\ closed /\ Locked
  /\ closing' = closing \cup {cur[r]}
  /\ Return(r)
  /\ UNCHANGED <<mapVars, status, age, idle, inFlight>>

\* Mutant: the connection that lost the race is not closed.
InstallLoseLeak(r) ==
  /\ pc[r] \in {"dialed", "cdialed"} /\ ~closed /\ Usable(key[r]) /\ Locked
  /\ IF pc[r] = "dialed" THEN Goto(r, "ready", conns[key[r]]) ELSE Return(r)
  /\ UNCHANGED <<mapVars, connVars>>

\* Another request installed a usable connection during the dial: use that.
InstallLose(r) ==
  /\ pc[r] \in {"dialed", "cdialed"} /\ ~closed /\ Usable(key[r]) /\ Locked
  /\ closing' = closing \cup {cur[r]}
  /\ IF pc[r] = "dialed" THEN Goto(r, "ready", conns[key[r]]) ELSE Return(r)
  /\ UNCHANGED <<mapVars, status, age, idle, inFlight>>

\* Put the new connection in the map.  Connect closes what it replaces,
\* getOrCreateConn does not.
InstallWin(r) ==
  /\ pc[r] \in {"dialed", "cdialed"} /\ GoesOn(r)
  /\ conns' = [conns EXCEPT ![key[r]] = cur[r]]
  /\ IF pc[r] = "dialed"
       THEN Goto(r, "ready", cur[r]) /\ UNCHANGED closing
       ELSE Return(r) /\ closing' = closing \cup ({conns[key[r]]} \ {Absent})
  /\ UNCHANGED <<closed, status, age, idle, inFlight>>

-----------------------------------------------------------------------------
(* RoundTrip *)

\* Under conn.mu only.  lastUsedAt is only refreshed before the first attempt.
Begin(r) ==
  /\ pc[r] = "ready"
  /\ late' = IF cur[r] = Doomed THEN late \cup {r} ELSE late
  /\ inFlight' = [inFlight EXCEPT ![cur[r]] = @ + 1]
  /\ idle' = [idle EXCEPT ![cur[r]] = IF attempt[r] = 1 THEN 0 ELSE @]
  /\ Goto(r, "trip", cur[r])
  /\ UNCHANGED <<mapVars, status, age, closing, lockVars>>

TripOk(r) ==
  /\ pc[r] = "trip" /\ status[cur[r]] = "open" /\ Unlocked
  /\ inFlight' = [inFlight EXCEPT ![cur[r]] = @ - 1]
  /\ idle' = [idle EXCEPT ![cur[r]] = 0]
  /\ Return(r)
  /\ UNCHANGED <<mapVars, status, age, closing>>

\* Mutant: the error path of the retry returns without the decrement.
TripErrNoDecrement(r) ==
  /\ pc[r] = "trip" /\ Unlocked
  /\ inFlight' = [inFlight EXCEPT ![cur[r]] = IF attempt[r] = 2 THEN @ ELSE @ - 1]
  /\ Goto(r, "failed", Absent)
  /\ UNCHANGED <<mapVars, status, age, idle, closing>>

TripErr(r) ==
  /\ pc[r] = "trip" /\ Unlocked
  /\ inFlight' = [inFlight EXCEPT ![cur[r]] = @ - 1]
  /\ Goto(r, "failed", Absent)
  /\ UNCHANGED <<mapVars, status, age, idle, closing>>

\* removeConn(key) takes whatever is under the key by now.  The first failure
\* is retried unless the context is over, the second is returned.
RemoveReturn(r) ==
  /\ pc[r] = "failed" /\ Locked
  /\ Remove(key[r])
  /\ Return(r)
  /\ UNCHANGED <<closed, status, age, idle, inFlight>>

\* Mutant: the retry is not counted.
RemoveRetryForever(r) ==
  /\ pc[r] = "failed" /\ Locked
  /\ Remove(key[r])
  /\ pc' = [pc EXCEPT ![r] = "get"]
  /\ UNCHANGED <<closed, status, age, idle, inFlight, key, cur, attempt, dialAge>>

RemoveRetry(r) ==
  /\ pc[r] = "failed" /\ attempt[r] = 1 /\ Locked
  /\ Remove(key[r])
  /\ attempt' = [attempt EXCEPT ![r] = 2]
  /\ pc' = [pc EXCEPT ![r] = "get"]
  /\ UNCHANGED <<closed, status, age, idle, inFlight, key, cur, dialAge>>

-----------------------------------------------------------------------------
(* Connections, time, cleanup, Refresh, Close *)

\* A spawned close() runs.  The ages of a connection are only read while it is
\* in the map, so they are reset here and at the first tick after it left.
CloseConn(c) ==
  /\ c \in closing /\ Unlocked
  /\ closing' = closing \ {c}
  /\ status' = [status EXCEPT ![c] = "closed"]
  /\ age' = [age EXCEPT ![c] = 0]
  /\ idle' = [idle EXCEPT ![c] = 0]
  /\ UNCHANGED <<mapVars, inFlight, reqVars>>

Bump(n, limit) == IF n > limit THEN n ELSE n + 1

\* A goroutine that only waits for connsMu gets it before the next tick, and a
\* dial that has used up its context has failed by then.
Tick ==
  /\ \A r \in Requests :
       /\ pc[r] \notin {"dialed", "cdialed"}
       /\ pc[r] \in {"dial", "cdial"} => dialAge[r] < MaxDial
  /\ LET mapped(c) == \E k \in Keys : conns[k] = c IN
       /\ age' = [c \in Conns |-> IF mapped(c) THEN Bump(age[c], MaxAge) ELSE 0]
       /\ idle' = [c \in Conns |-> IF mapped(c) THEN Bump(idle[c], MaxIdle) ELSE 0]
  /\ dialAge' = [r \in Requests |->
                   IF pc[r] \in {"dial", "cdial"} THEN dialAge[r] + 1 ELSE dialAge[r]]
  /\ Unlocked
  /\ UNCHANGED <<mapVars, status, inFlight, closing, pc, key, cur, attempt>>

RemoveAll(K) ==
  /\ conns' = [k \in Keys |-> IF k \in K THEN Absent ELSE conns[k]]
  /\ closing' = closing \cup ({conns[k] : k \in K} \ {Absent})

\* The ticker's cleanup() takes connsMu for the whole loop over the map.
Cleanup ==
  /\ MuFree
  /\ toTest' = {k \in Keys : conns[k] # Absent}
  /\ UNCHANGED <<mapVars, connVars, reqVars, evictor, condemned, late>>

\* The loop comes to k; isConnUsable takes and gives back the connection's mutex.
CleanupTest(k) ==
  /\ k \in toTest /\ condemned = Absent
  /\ toTest' = toTest \ {k}
  /\ condemned' = IF Usable(k) THEN Absent ELSE k
  /\ UNCHANGED <<mapVars, connVars, reqVars, evictor, late>>

\* delete and `go conn.close()', whatever has begun on the connection since.
CleanupDelete ==
  /\ condemned # Absent
  /\ Remove(condemned)
  /\ condemned' = Absent
  /\ late' = {}
  /\ UNCHANGED <<closed, status, age, idle, inFlight, reqVars, evictor, toTest>>

CleanupStep == CleanupDelete \/ \E k \in Keys : CleanupTest(k)

Refresh ==
  /\ ~closed /\ Locked
  /\ RemoveAll(Keys)
  /\ UNCHANGED <<closed, status, age, idle, inFlight, reqVars>>

Close ==
  /\ ~closed /\ Locked
  /\ closed' = TRUE
  /\ RemoveAll(Keys)
  /\ UNCHANGED <<status, age, idle, inFlight, reqVars>>

-----------------------------------------------------------------------------

RequestStep(r) ==
  \/ GetClosed(r) \/ GetHit(r) \/ GetMiss(r) \/ FindUnusable(r) \/ GetEvict(r)
  \/ DialOk(r) \/ DialFail(r)
  \/ InstallClosed(r) \/ InstallLose(r) \/ InstallWin(r)
  \/ Begin(r) \/ TripOk(r) \/ TripErr(r) \/ RemoveReturn(r) \/ RemoveRetry(r)

OtherStep ==
  \/ \E r \in Requests, k \in Keys : Start(r, k) \/ StartConnect(r, k)
  \/ \E r \in Requests : RequestStep(r)
  \/ \E c \in Conns : CloseConn(c)
  \/ Tick \/ Cleanup \/ CleanupStep \/ Close

Next == OtherStep \/ Refresh

Spec == Init /\ [][Next]_vars

(***************************************************************************)
(* Goroutines run, dials and round trips end (their contexts expire), the  *)
(* spawned close() calls run, and a cleanup that has begun comes to its    *)
(* end.  The fairness of a request is strong because connsMu is: a         *)
(* sync.RWMutex lets no waiter starve, however often the others take it.   *)
(***************************************************************************)
Fairness ==
  /\ \A r \in Requests : SF_vars(RequestStep(r))
  /\ WF_vars(CleanupStep)
  /\ \A c \in Conns : WF_vars(CloseConn(c))

FairSpec == Spec /\ Fairness

-----------------------------------------------------------------------------
(* Properties *)

\* A connection that is closed or about to be closed is not in the map: no
\* request can still find it, whoever retired it.
RetiredNotMapped ==
  \A k \in Keys : conns[k] # Absent =>
    status[conns[k]] = "open" /\ conns[k] \notin closing

InTrip(c) == {r \in Requests : pc[r] = "trip" /\ cur[r] = c}

\* inFlight counts exactly the RoundTrip calls that are active on the
\* connection, over first attempts, retries, removals and closes: it never
\* drifts, so the idle limit is neither disabled for ever nor applied to a
\* connection in use.
InFlightExact ==
  \A c \in Conns : status[c] # "free" => inFlight[c] = Cardinality(InTrip(c))

\* Two requests, Connect, cleanup, Refresh and Close keep the map and the
\* counters of its connections right at every unlock.
Http2Inv == TypeOK /\ LockOK /\ RetiredNotMapped /\ InFlightExact

\* Until it is out of the map, a connection that cleanup(), getOrCreateConn or
\* Connect has found unusable carries no request but those that began after the
\* test, unless it is past maxConnAge: no request is cut off because it takes
\* longer than maxIdleTime.  The code spares neither the latecomers (inFlight++
\* does not take connsMu) nor, as maxConnAge is tested before inFlight, a
\* request of five minutes, although the comment on that field says it
\* "prevents cleanup during long requests".
IdleLimitSparesRequests ==
  Doomed # Absent => age[Doomed] > MaxAge \/ InTrip(Doomed) \subseteq late

\* Close releases everything: eventually no connection is open.
CloseReleases == closed ~> \A c \in Conns : status[c] # "open"

\* Every RoundTrip and every Connect returns.
RequestReturns == \A r \in Requests : pc[r] # "idle" ~> pc[r] = "idle"
=============================================================================
