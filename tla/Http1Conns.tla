----------------------------- MODULE Http1Conns -----------------------------
(***************************************************************************)
(* The idle-connection stacks of HTTP1Transport                            *)
(* (src/transport/http1_transport.go).  An HTTP/1.1 connection carries one *)
(* exchange at a time: a request takes it off the stack of its key, or     *)
(* dials it, holds it until its response body is read or closed, and then  *)
(* puts it back.                                                           *)
(*                                                                         *)
(* Every section under idleConnsMu is one action; Close and Refresh take   *)
(* closedMu first and idleConnsMu later, and are two.  `go c.close()' puts *)
(* the connection in `closing'; a direct c.close() is part of its action.  *)
(* Whether an exchange ends with keep-alive is the peer's choice and is    *)
(* made when the body ends.                                                *)
(***************************************************************************)
EXTENDS Integers, Sequences, SequencesExt, SeqFilter

CONSTANTS
  Requests,   \* goroutines in RoundTrip, StreamRoundTrip, RoundTripWithTLSConn
  Conns,      \* identities of *http1Conn objects
  Keys,       \* keys of HTTP1Transport.idleConns
  MaxPerHost, \* maxIdleConnsPerHost
  MaxIdle,    \* maxIdleTime in ticks
  None

ASSUME Http1Assumption ==
  /\ MaxPerHost \in Nat \ {0} /\ MaxIdle \in Nat
  /\ None \notin Conns \cup Keys

VARIABLES
  closed,     \* HTTP1Transport.closed
  sweeps,     \* calls between their closedMu and their idleConnsMu section
  idleConns,  \* HTTP1Transport.idleConns; the nil map of a closed transport is empty
  status,     \* a connection: not dialled, open or closed
  idle,       \* ticks since lastUsedAt
  closing,    \* connections with a pending `go close()'
  pc,         \* where each request is
  key,        \* its key
  cur,        \* its local variable conn, then pooledBodyWrapper.conn
  pooled      \* its body is a pooledBodyWrapper, not a streamBodyWrapper

tVars   == <<closed, sweeps, idleConns>>
cVars   == <<status, idle, closing>>
reqVars == <<pc, key, cur, pooled>>
vars    == <<tVars, cVars, reqVars>>

Steps == {"idle", "get", "reused", "dial", "fresh", "body", "eof"}

\* Types, and at which steps a request has a connection in its locals.
TypeOK ==
  /\ closed \in BOOLEAN
  /\ sweeps \in SUBSET {"Close", "Refresh"}
  /\ idleConns \in [Keys -> Seq(Conns)]
  /\ status \in [Conns -> {"free", "open", "closed"}]
  /\ idle \in [Conns -> 0 .. MaxIdle + 1]
  /\ closing \in SUBSET Conns
  /\ pc \in [Requests -> Steps]
  /\ key \in [Requests -> Keys \cup {None}]
  /\ cur \in [Requests -> Conns \cup {None}]
  /\ pooled \in [Requests -> BOOLEAN]
  /\ \A r \in Requests :
       /\ pc[r] # "idle" <=> key[r] # None
       /\ pc[r] \in {"reused", "fresh", "body", "eof"} <=> cur[r] # None

Init ==
  /\ closed = FALSE
  /\ sweeps = {}
  /\ idleConns = [k \in Keys |-> <<>>]
  /\ status = [c \in Conns |-> "free"]
  /\ idle = [c \in Conns |-> 0]
  /\ closing = {}
  /\ pc = [r \in Requests |-> "idle"]
  /\ key = [r \in Requests |-> None]
  /\ cur = [r \in Requests |-> None]
  /\ pooled = [r \in Requests |-> FALSE]

-----------------------------------------------------------------------------

Goto(r, step, c) ==
  /\ pc' = [pc EXCEPT ![r] = step]
  /\ cur' = [cur EXCEPT ![r] = c]
  /\ UNCHANGED <<key, pooled>>

Return(r) ==
  /\ pc' = [pc EXCEPT ![r] = "idle"]
  /\ key' = [key EXCEPT ![r] = None]
  /\ cur' = [cur EXCEPT ![r] = None]
  /\ pooled' = [pooled EXCEPT ![r] = FALSE]

Begin(r, k, step, c, isPooled) ==
  /\ pc[r] = "idle" /\ ~closed
  /\ pc' = [pc EXCEPT ![r] = step]
  /\ key' = [key EXCEPT ![r] = k]
  /\ cur' = [cur EXCEPT ![r] = c]
  /\ pooled' = [pooled EXCEPT ![r] = isPooled]

Listed == UNION {ToSet(idleConns[k]) : k \in Keys}

Unreferenced(c) ==
  /\ c \notin closing \cup Listed
  /\ \A r \in Requests : cur[r] # c

Open(c) ==
  /\ status[c] # "open" /\ Unreferenced(c)
  /\ status' = [status EXCEPT ![c] = "open"]
  /\ idle' = [idle EXCEPT ![c] = 0]

close(c) == status' = [status EXCEPT ![c] = "closed"]

\* The three entry points; on a closed transport they return an error, and
\* RoundTripWithTLSConn closes the connection it was given.
RoundTrip(r, k) ==
  /\ Begin(r, k, "get", None, TRUE)
  /\ UNCHANGED <<tVars, cVars>>

StreamRoundTrip(r, k) ==
  /\ Begin(r, k, "dial", None, FALSE)
  /\ UNCHANGED <<tVars, cVars>>

RoundTripWithTLSConn(r, k) ==
  /\ \E c \in Conns : Open(c) /\ Begin(r, k, "fresh", c, FALSE)
  /\ UNCHANGED <<tVars, closing>>

-----------------------------------------------------------------------------
(* getIdleConn pops the newest connection. *)

GetNone(r) ==
  /\ pc[r] = "get" /\ idleConns[key[r]] = <<>>
  /\ Goto(r, "dial", None)
  /\ UNCHANGED <<tVars, cVars>>

Pop(k) == idleConns' = [idleConns EXCEPT ![k] = Front(@)]

\* It has been idle for too long: close it and dial, without a look at the
\* older ones.
GetStale(r) ==
  /\ pc[r] = "get" /\ idleConns[key[r]] # <<>>
  /\ LET c == Last(idleConns[key[r]]) IN
       /\ idle[c] > MaxIdle
       /\ close(c)
  /\ Pop(key[r])
  /\ Goto(r, "dial", None)
  /\ UNCHANGED <<closed, sweeps, idle, closing>>

GetIdle(r) ==
  /\ pc[r] = "get" /\ idleConns[key[r]] # <<>>
  /\ LET c == Last(idleConns[key[r]]) IN
       /\ idle[c] <= MaxIdle
       /\ Goto(r, "reused", c)
  /\ Pop(key[r])
  /\ UNCHANGED <<closed, sweeps, cVars>>

\* Mutant: the closed connection stays in the local variable.
ReuseFailStale(r) ==
  /\ pc[r] = "reused"
  /\ close(cur[r])
  /\ Goto(r, "dial", cur[r])
  /\ UNCHANGED <<tVars, idle, closing>>

\* doRequest on a reused connection fails (the peer has closed it, say): dial.
ReuseFail(r) ==
  /\ pc[r] = "reused"
  /\ close(cur[r])
  /\ Goto(r, "dial", None)
  /\ UNCHANGED <<tVars, idle, closing>>

DialOk(r) ==
  /\ pc[r] = "dial"
  /\ \E c \in Conns : Open(c) /\ Goto(r, "fresh", c)
  /\ UNCHANGED <<tVars, closing>>

\* createConn has closed what it had opened.
DialFail(r) ==
  /\ pc[r] = "dial"
  /\ Return(r)
  /\ UNCHANGED <<tVars, cVars>>

\* Mutant: the error return of doRequest does not close the connection.
FreshFailLeak(r) ==
  /\ pc[r] = "fresh"
  /\ Return(r)
  /\ UNCHANGED <<tVars, cVars>>

\* doRequest on a new connection fails: no second dial.
FreshFail(r) ==
  /\ pc[r] = "fresh"
  /\ close(cur[r])
  /\ Return(r)
  /\ UNCHANGED <<tVars, idle, closing>>

\* doRequest returns a response; the body wrapper owns the connection now.
Respond(r) ==
  /\ pc[r] \in {"reused", "fresh"}
  /\ idle' = [idle EXCEPT ![cur[r]] = 0]
  /\ Goto(r, "body", cur[r])
  /\ UNCHANGED <<tVars, status, closing>>

-----------------------------------------------------------------------------
(* The response body *)

\* Mutant: the limit is not enforced.
putIdleConnUnbounded(k, c) ==
  IF closed
    THEN close(c) /\ UNCHANGED <<idleConns, idle, closing>>
    ELSE /\ idleConns' = [idleConns EXCEPT ![k] = Append(@, c)]
         /\ idle' = [idle EXCEPT ![c] = 0]
         /\ UNCHANGED <<status, closing>>

\* Mutant: the closed flag is not looked at.
putIdleConnAnyway(k, c) ==
  /\ idleConns' = [idleConns EXCEPT ![k] = Append(@, c)]
  /\ idle' = [idle EXCEPT ![c] = 0]
  /\ UNCHANGED <<status, closing>>

\* Under idleConnsMu the closed flag is read again; a full stack loses its
\* oldest connection.
putIdleConn(k, c) ==
  IF closed
    THEN close(c) /\ UNCHANGED <<idleConns, idle, closing>>
    ELSE LET full == Len(idleConns[k]) >= MaxPerHost IN
         /\ idleConns' = [idleConns EXCEPT ![k] = Append(IF full THEN Tail(@) ELSE @, c)]
         /\ closing' = closing \cup (IF full THEN {Head(idleConns[k])} ELSE {})
         /\ idle' = [idle EXCEPT ![c] = 0]
         /\ UNCHANGED status

handleClose(r) ==
  \/ putIdleConn(key[r], cur[r])                                   \* keepAlive
  \/ close(cur[r]) /\ UNCHANGED <<idleConns, idle, closing>>

\* Read reports io.EOF: a pooled body lets go of its connection, a streamed
\* one keeps it until Close.
ReadEOF(r) ==
  /\ pc[r] = "body"
  /\ IF pooled[r] THEN handleClose(r)
                  ELSE UNCHANGED <<idleConns, cVars>>
  /\ Goto(r, "eof", cur[r])
  /\ UNCHANGED <<closed, sweeps>>

\* Mutant: handleClose without its sync.Once.
CloseBodyAgain(r) ==
  /\ pc[r] = "eof"
  /\ IF pooled[r] THEN handleClose(r)
                  ELSE close(cur[r]) /\ UNCHANGED <<idleConns, idle, closing>>
  /\ Return(r)
  /\ UNCHANGED <<closed, sweeps>>

\* Close after the end of the body: sync.Once has fired for a pooled one.
CloseBodyAfterEOF(r) ==
  /\ pc[r] = "eof"
  /\ IF pooled[r] THEN UNCHANGED status ELSE close(cur[r])
  /\ Return(r)
  /\ UNCHANGED <<tVars, idle, closing>>

\* Close before the end: the rest of the body is drained or the connection
\* closed.
CloseBodyEarly(r) ==
  /\ pc[r] = "body"
  /\ \/ pooled[r] /\ handleClose(r)
     \/ close(cur[r]) /\ UNCHANGED <<idleConns, idle, closing>>
  /\ Return(r)
  /\ UNCHANGED <<closed, sweeps>>

-----------------------------------------------------------------------------
(* Background closes, time, cleanup, Refresh, SetProxy, Close *)

CloseConn(c) ==
  /\ c \in closing
  /\ closing' = closing \ {c}
  /\ close(c)
  /\ UNCHANGED <<tVars, idle, reqVars>>

\* Only the time spent on a stack is ever compared with maxIdleTime.
Tick ==
  /\ \E c \in Listed : idle[c] <= MaxIdle
  /\ idle' = [c \in Conns |-> IF c \in Listed /\ idle[c] <= MaxIdle
                                THEN idle[c] + 1 ELSE idle[c]]
  /\ UNCHANGED <<tVars, status, closing, reqVars>>

Cleanup ==
  /\ \E c \in Listed : idle[c] > MaxIdle
  /\ idleConns' = [k \in Keys |-> FilterSeq(idleConns[k], {c \in Conns : idle[c] <= MaxIdle})]
  /\ closing' = closing \cup {c \in Listed : idle[c] > MaxIdle}
  /\ UNCHANGED <<closed, sweeps, status, idle, reqVars>>

DropAll ==
  /\ idleConns' = [k \in Keys |-> <<>>]
  /\ closing' = closing \cup Listed
  /\ UNCHANGED <<status, idle, reqVars>>

SetProxy ==
  /\ DropAll
  /\ UNCHANGED <<closed, sweeps>>

RefreshCheck ==
  /\ ~closed
  /\ sweeps' = sweeps \cup {"Refresh"}
  /\ UNCHANGED <<closed, idleConns, cVars, reqVars>>

CloseSet ==
  /\ ~closed
  /\ closed' = TRUE
  /\ sweeps' = sweeps \cup {"Close"}
  /\ UNCHANGED <<idleConns, cVars, reqVars>>

\* The idleConnsMu section of Close and of Refresh.
Sweep(s) ==
  /\ s \in sweeps
  /\ sweeps' = sweeps \ {s}
  /\ DropAll
  /\ UNCHANGED closed

-----------------------------------------------------------------------------

RequestStep(r) ==
  \/ GetNone(r) \/ GetStale(r) \/ GetIdle(r) \/ ReuseFail(r)
  \/ DialOk(r) \/ DialFail(r) \/ FreshFail(r) \/ Respond(r)
  \/ ReadEOF(r) \/ CloseBodyAfterEOF(r) \/ CloseBodyEarly(r)

Next ==
  \/ \E r \in Requests, k \in Keys :
       RoundTrip(r, k) \/ StreamRoundTrip(r, k) \/ RoundTripWithTLSConn(r, k)
  \/ \E r \in Requests : RequestStep(r)
  \/ \E c \in Conns : CloseConn(c)
  \/ \E s \in {"Close", "Refresh"} : Sweep(s)
  \/ Tick \/ Cleanup \/ SetProxy \/ RefreshCheck \/ CloseSet

Spec == Init /\ [][Next]_vars

(***************************************************************************)
(* Goroutines run, dials and exchanges end (deadlines), the callers close  *)
(* the bodies they get (Transport.doHTTP1 defers it).                      *)
(***************************************************************************)
Fairness ==
  /\ \A r \in Requests : WF_vars(RequestStep(r))
  /\ \A c \in Conns : WF_vars(CloseConn(c))
  /\ \A s \in {"Close", "Refresh"} : WF_vars(Sweep(s))

FairSpec == Spec /\ Fairness

-----------------------------------------------------------------------------
(* Properties *)

\* A request owns its connection from the moment it took or dialled it until
\* the body wrapper lets go of it.
Owns(r, c) ==
  /\ cur[r] = c
  /\ pc[r] \in {"reused", "fresh", "body"} \/ (pc[r] = "eof" /\ ~pooled[r])

\* No connection is ever shared: it is on one stack, once, or owned by one
\* request, or about to be closed, whatever the order of the last Read, Close,
\* evictions, cleanup and Refresh.  Two owners would mix two HTTP/1.1 exchanges
\* on one byte stream.
ExclusiveUse ==
  /\ \A k \in Keys : IsInjective(idleConns[k])
  /\ \A k, l \in Keys : k # l => ToSet(idleConns[k]) \cap ToSet(idleConns[l]) = {}
  /\ \A r \in Requests : Owns(r, cur[r]) =>
       /\ cur[r] \notin Listed \cup closing
       /\ \A q \in Requests \ {r} : ~Owns(q, cur[r])
  /\ Listed \cap closing = {}
  /\ \A c \in Listed : status[c] = "open"

\* A stack never holds more than maxIdleConnsPerHost connections.
StackBound == \A k \in Keys : Len(idleConns[k]) <= MaxPerHost

\* Once Close has swept, no connection is kept for reuse any more, although
\* bodies are still being read and a Refresh may be half-way.
NothingIdleAfterClose == closed /\ "Close" \notin sweeps => Listed = {}

\* However body reads, closes, evictions and Close interleave: one owner per
\* connection, bounded stacks, and stacks that stay empty after Close.
Http1Inv == TypeOK /\ ExclusiveUse /\ StackBound /\ NothingIdleAfterClose

\* Every connection is closed in the end after Close, those that were in use
\* or being dialled at that moment included.
CloseReleases == closed ~> \A c \in Conns : status[c] # "open"
=============================================================================
