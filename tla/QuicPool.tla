------------------------------ MODULE QuicPool ------------------------------
(***************************************************************************)
(* The HTTP/3 connection pools of package pool (src/pool/quic_pool.go): a  *)
(* QUICManager and the QUICHostPool of one "connectHost:port" key.         *)
(*                                                                         *)
(* Unlike its TCP counterpart a QUICConn is not dialled when it is made:   *)
(* createConn wraps an http3.Transport, whose Dial function runs when a    *)
(* request first needs it, and again when the QUIC connection has died.    *)
(* Dial opens a UDP socket per address it tries.  IsHealthy never sees the *)
(* QUIC connection (the field stays nil), only whether Close was called.   *)
(*                                                                         *)
(* Every critical section is one action, `go conn.Close()' puts the        *)
(* connection in `qClosing'.  cleanup, Close and CloseAllPools hold m.mu    *)
(* throughout but p.mu only inside the pool's methods: each of these calls *)
(* is a step (`qSweep').  The list of connections is a set, clocks are *)
(* three ages: usable, past maxIdleTime, past maxConnAge.                  *)
(***************************************************************************)
EXTENDS Naturals, FiniteSets

CONSTANTS
  Callers,      \* goroutines in client.doHTTP3
  QConns,       \* identities of *QUICConn objects
  QPools,       \* identities of *QUICHostPool objects
  MaxQConns,    \* maxConnsPerHost, 0 = unlimited
  Addrs,        \* how many addresses the host resolves to
  MaxDials,     \* bound: QUIC connections ever established by one http3.Transport
  NoQ           \* nil

ASSUME QuicPoolAssumption ==
  /\ MaxQConns \in Nat /\ Addrs \in Nat /\ MaxDials \in Nat
  /\ NoQ \notin QConns \cup QPools

VARIABLES
  qClosed,      \* QUICManager.closed
  qPool,        \* QUICManager.pools[key]
  qSweep,       \* who holds m.mu across steps, and what it does next
  qList,        \* pool -> connections
  qState,       \* connection -> "free", "open" or "closed"
  qAge,         \* connection -> "fresh", "idle" or "old"
  qClosing,     \* connections with a pending `go conn.Close()'
  qLate,        \* history: connections appended to a pool already given up
  qAlive,       \* connection -> its http3.Transport has a live QUIC connection
  qDials,       \* connection -> QUIC connections its transport established
  qSockets,     \* connection -> UDP sockets opened for it and not closed
  qCall         \* client -> [pc, pool, conn, ips]: the call it is in

qmgrVars == <<qClosed, qPool, qSweep>>
qconnVars == <<qState, qAge, qClosing, qLate>>
qdialVars == <<qAlive, qDials, qSockets>>
quicVars == <<qmgrVars, qList, qconnVars, qdialVars, qCall>>

NoQCall == [pc |-> "idle", pool |-> NoQ, conn |-> NoQ, ips |-> 0]

QuicTypeOK ==
  /\ qClosed \in BOOLEAN
  /\ qPool \in QPools \cup {NoQ}
  /\ qSweep \in {"none", "stats", "delete", "drop"}
  /\ qList \in [QPools -> SUBSET QConns]
  /\ qState \in [QConns -> {"free", "open", "closed"}]
  /\ qAge \in [QConns -> {"fresh", "idle", "old"}]
  /\ qClosing \subseteq QConns /\ qLate \subseteq QConns
  /\ qAlive \in [QConns -> BOOLEAN]
  /\ qDials \in [QConns -> 0 .. MaxDials]
  /\ qSockets \in [QConns -> 0 .. MaxDials]
  /\ qCall \in [Callers ->
       [pc: {"idle", "miss", "pool", "hit", "create", "append", "trip", "dial"},
        pool: QPools \cup {NoQ}, conn: QConns \cup {NoQ}, ips: 0 .. Addrs]]

QuicInit ==
  /\ qClosed = FALSE /\ qPool = NoQ /\ qSweep = "none"
  /\ qList = [p \in QPools |-> {}]
  /\ qState = [c \in QConns |-> "free"]
  /\ qAge = [c \in QConns |-> "fresh"]
  /\ qClosing = {} /\ qLate = {}
  /\ qAlive = [c \in QConns |-> FALSE]
  /\ qDials = [c \in QConns |-> 0]
  /\ qSockets = [c \in QConns |-> 0]
  /\ qCall = [g \in Callers |-> NoQCall]

QReturn(g) == qCall' = [qCall EXCEPT ![g] = NoQCall]

-----------------------------------------------------------------------------
(* QUICManager.GetPool *)

\* Nobody holds m.mu across steps.
QMuFree == qSweep = "none"

\* No cleanup or Close will look at the list of p again: p has left
\* QUICManager.pools, or the running one is past the moment it emptied p or saw
\* it empty, and will drop it.
QGivenUp(p) == p # qPool \/ qSweep \in {"delete", "drop"}

\* RLock section; on a closed manager ErrPoolClosed changes nothing.
QGetPoolRead(g) ==
  /\ qCall[g].pc = "idle" /\ QMuFree /\ ~qClosed
  /\ qCall' = [qCall EXCEPT ![g].pc = IF qPool = NoQ THEN "miss" ELSE "pool",
                            ![g].pool = qPool]
  /\ UNCHANGED <<qmgrVars, qList, qconnVars, qdialVars>>

\* Lock section after a miss: closed meanwhile, created meanwhile, or create.
QGetPoolCreate(g) ==
  /\ qCall[g].pc = "miss" /\ QMuFree
  /\ \/ qClosed /\ QReturn(g) /\ UNCHANGED qPool
     \/ /\ ~qClosed /\ qPool # NoQ
        /\ qCall' = [qCall EXCEPT ![g].pc = "pool", ![g].pool = qPool]
        /\ UNCHANGED qPool
     \/ /\ ~qClosed /\ qPool = NoQ
        /\ \E p \in QPools :
             /\ qList[p] = {} /\ \A h \in Callers : qCall[h].pool # p
             /\ qPool' = p
             /\ qCall' = [qCall EXCEPT ![g].pc = "pool", ![g].pool = p]
  /\ UNCHANGED <<qClosed, qSweep, qList, qconnVars, qdialVars>>

-----------------------------------------------------------------------------
(* QUICHostPool.GetConn *)

QHealthy(c) == qState[c] = "open"

QReuse(g) ==
  /\ qCall[g].pc = "pool"
  /\ \E c \in qList[qCall[g].pool] :
       /\ QHealthy(c) /\ qAge[c] = "fresh"
       /\ qCall' = [qCall EXCEPT ![g].pc = "hit", ![g].conn = c]
  /\ UNCHANGED <<qmgrVars, qList, qconnVars, qdialVars>>

\* conn.MarkUsed(), after p.mu was released.
QMarkUsed(g) ==
  /\ qCall[g].pc = "hit"
  /\ qAge' = [qAge EXCEPT ![qCall[g].conn] = IF @ = "old" THEN "old" ELSE "fresh"]
  /\ qCall' = [qCall EXCEPT ![g].pc = "trip"]
  /\ UNCHANGED <<qmgrVars, qList, qState, qClosing, qLate, qdialVars>>

\* Mutant: what leaves the list is not closed.
QEvictSilently(p, keep) ==
  /\ qList' = [qList EXCEPT ![p] = keep]
  /\ UNCHANGED qClosing

QEvict(p, keep) ==
  /\ qList' = [qList EXCEPT ![p] = keep]
  /\ qClosing' = qClosing \cup (qList[p] \ keep)

\* Nothing to reuse: the closed and the old leave, and the pool is full
\* (ErrNoConnections) or a connection is created.
QGetConnMiss(g) ==
  /\ qCall[g].pc = "pool"
  /\ LET p == qCall[g].pool
         keep == {c \in qList[p] : QHealthy(c) /\ qAge[c] # "old"} IN
       /\ \A c \in qList[p] : ~(QHealthy(c) /\ qAge[c] = "fresh")
       /\ QEvict(p, keep)
       /\ IF MaxQConns > 0 /\ Cardinality(keep) >= MaxQConns
            THEN QReturn(g)
            ELSE qCall' = [qCall EXCEPT ![g].pc = "create"]
  /\ UNCHANGED <<qmgrVars, qState, qAge, qLate, qdialVars>>

\* createConn: the host does not resolve, or a transport is built that has
\* dialled nothing yet.
QCreateConn(g) ==
  /\ qCall[g].pc = "create"
  /\ \/ QReturn(g) /\ UNCHANGED <<qState, qAge>>
     \/ \E c \in QConns :
          /\ qState[c] = "free" /\ \A h \in Callers : qCall[h].conn # c
          /\ qState' = [qState EXCEPT ![c] = "open"]
          /\ qAge' = [qAge EXCEPT ![c] = "fresh"]
          /\ qCall' = [qCall EXCEPT ![g].pc = "append", ![g].conn = c]
  /\ UNCHANGED <<qmgrVars, qList, qClosing, qLate, qdialVars>>

\* The second p.mu section: append, whatever became of the pool meanwhile.
QAppend(g) ==
  /\ qCall[g].pc = "append"
  /\ qList' = [qList EXCEPT ![qCall[g].pool] = @ \cup {qCall[g].conn}]
  /\ qLate' = IF QGivenUp(qCall[g].pool) THEN qLate \cup {qCall[g].conn} ELSE qLate
  /\ qCall' = [qCall EXCEPT ![g].pc = "trip"]
  /\ UNCHANGED <<qmgrVars, qState, qAge, qClosing, qdialVars>>

-----------------------------------------------------------------------------
(* HTTP3RT.RoundTrip and the Dial function *)

\* The transport has a live connection or was closed: the trip ends.
QTrip(g) ==
  /\ qCall[g].pc = "trip"
  /\ qAlive[qCall[g].conn] \/ qState[qCall[g].conn] = "closed"
  /\ QReturn(g)
  /\ UNCHANGED <<qmgrVars, qList, qconnVars, qdialVars>>

\* It has none: Dial goes through the addresses, preferred family first.  One
\* request at a time dials for a transport.
QDialStart(g) ==
  LET c == qCall[g].conn IN
  /\ qCall[g].pc = "trip" /\ ~qAlive[c] /\ qState[c] = "open"
  /\ qDials[c] < MaxDials
  /\ \A h \in Callers : ~(qCall[h].pc = "dial" /\ qCall[h].conn = c)
  /\ qCall' = [qCall EXCEPT ![g].pc = "dial", ![g].ips = Addrs]
  /\ UNCHANGED <<qmgrVars, qList, qconnVars, qdialVars>>

\* Out of addresses: the last error, or "no IP addresses available".
QDialFailed(g) ==
  /\ qCall[g].pc = "dial" /\ qCall[g].ips = 0
  /\ QReturn(g)
  /\ UNCHANGED <<qmgrVars, qList, qconnVars, qdialVars>>

\* Mutant: the socket of a failed attempt stays open.
QDialNextLeaky(g) ==
  /\ qCall[g].pc = "dial" /\ qCall[g].ips > 0
  /\ qCall' = [qCall EXCEPT ![g].ips = @ - 1]
  /\ \E listened \in BOOLEAN :
       qSockets' = IF listened THEN [qSockets EXCEPT ![qCall[g].conn] = @ + 1] ELSE qSockets
  /\ UNCHANGED <<qmgrVars, qList, qconnVars, qAlive, qDials>>

\* ListenUDP fails, or DialEarly does and quicTransport.Close() takes the
\* socket with it: the next address.
QDialNext(g) ==
  /\ qCall[g].pc = "dial" /\ qCall[g].ips > 0
  /\ qCall' = [qCall EXCEPT ![g].ips = @ - 1]
  /\ UNCHANGED <<qmgrVars, qList, qconnVars, qdialVars>>

\* DialEarly succeeds.  A transport closed meanwhile closes the new
\* connection; its socket stays, as after every success.
QDialOk(g) ==
  LET c == qCall[g].conn IN
  /\ qCall[g].pc = "dial" /\ qCall[g].ips > 0
  /\ qSockets' = [qSockets EXCEPT ![c] = @ + 1]
  /\ qDials' = [qDials EXCEPT ![c] = @ + 1]
  /\ qAlive' = [qAlive EXCEPT ![c] = qState[c] = "open"]
  /\ QReturn(g)
  /\ UNCHANGED <<qmgrVars, qList, qconnVars>>

\* The peer closes the QUIC connection or it idles out.
QDies(c) ==
  /\ qAlive[c]
  /\ qAlive' = [qAlive EXCEPT ![c] = FALSE]
  /\ UNCHANGED <<qmgrVars, qList, qconnVars, qDials, qSockets, qCall>>

-----------------------------------------------------------------------------
\* Time passes.
QGrow(c) ==
  /\ qState[c] = "open" /\ qAge[c] # "old"
  /\ qAge' = [qAge EXCEPT ![c] = IF @ = "fresh" THEN "idle" ELSE "old"]
  /\ UNCHANGED <<qmgrVars, qList, qState, qClosing, qLate, qdialVars, qCall>>

\* QUICConn.Close of the spawned goroutine.  What is not healthy fails every
\* test whatever its age, which is reset here.
QCloseConn(c) ==
  /\ c \in qClosing
  /\ qClosing' = qClosing \ {c}
  /\ qState' = [qState EXCEPT ![c] = "closed"]
  /\ qAlive' = [qAlive EXCEPT ![c] = FALSE]
  /\ qAge' = [qAge EXCEPT ![c] = "fresh"]
  /\ UNCHANGED <<qmgrVars, qList, qLate, qDials, qSockets, qCall>>

\* cleanup takes m.mu and calls CloseIdle.
QCleanup ==
  /\ QMuFree /\ qPool # NoQ
  /\ QEvict(qPool, {c \in qList[qPool] : QHealthy(c) /\ qAge[c] = "fresh"})
  /\ qSweep' = "stats"
  /\ UNCHANGED <<qClosed, qPool, qState, qAge, qLate, qdialVars, qCall>>

\* Stats, in a p.mu section of its own: is there no connection?
QCleanupStats ==
  /\ qSweep = "stats"
  /\ qSweep' = IF qList[qPool] = {} THEN "delete" ELSE "none"
  /\ UNCHANGED <<qClosed, qPool, qList, qconnVars, qdialVars, qCall>>

\* CloseAllConnections empties the pool and keeps it.
QCloseAllConnections ==
  /\ QMuFree /\ qPool # NoQ
  /\ QEvict(qPool, {})
  /\ UNCHANGED <<qmgrVars, qState, qAge, qLate, qdialVars, qCall>>

\* CloseAllPools takes m.mu and closes the pool ...
QCloseAllPools ==
  /\ QMuFree /\ qPool # NoQ
  /\ QEvict(qPool, {})
  /\ qSweep' = "drop"
  /\ UNCHANGED <<qClosed, qPool, qState, qAge, qLate, qdialVars, qCall>>

\* ... as Close does, once.
QClose ==
  /\ QMuFree /\ ~qClosed
  /\ qClosed' = TRUE
  /\ qSweep' = "drop"
  /\ IF qPool = NoQ THEN UNCHANGED <<qList, qClosing>> ELSE QEvict(qPool, {})
  /\ UNCHANGED <<qPool, qState, qAge, qLate, qdialVars, qCall>>

\* cleanup's delete, or the new map of Close and CloseAllPools: the pool is
\* forgotten and m.mu released, whatever the list holds by now.
QForget ==
  /\ qSweep \in {"delete", "drop"}
  /\ qPool' = NoQ
  /\ qSweep' = "none"
  /\ UNCHANGED <<qClosed, qList, qconnVars, qdialVars, qCall>>

QuicNext ==
  \/ \E g \in Callers :
       \/ QGetPoolRead(g) \/ QGetPoolCreate(g) \/ QReuse(g) \/ QMarkUsed(g)
       \/ QGetConnMiss(g) \/ QCreateConn(g) \/ QAppend(g)
       \/ QTrip(g) \/ QDialStart(g) \/ QDialFailed(g) \/ QDialNext(g) \/ QDialOk(g)
  \/ \E c \in QConns : QDies(c) \/ QGrow(c) \/ QCloseConn(c)
  \/ QCleanup \/ QCleanupStats \/ QCloseAllConnections \/ QCloseAllPools \/ QClose
  \/ QForget

QuicSpec == QuicInit /\ [][QuicNext]_quicVars

-----------------------------------------------------------------------------
(* Properties *)

\* Nothing leaks but what is known to: an open http3.Transport is in the list
\* of the pool of QUICManager.pools, where cleanup and Close find it, about to be
\* closed or in the hands of the call that made it.  The exception is `qLate': a
\* transport made by a call whose pool Close, CloseAllPools or cleanup had given
\* up meanwhile, which is in the list of that pool and closed only if another
\* call that still has the pool evicts it.  And of the sockets the Dial function
\* opens exactly those of its successful dials are still open, whichever
\* addresses failed on the way.
QuicOwned ==
  \A c \in QConns :
    /\ qState[c] = "open" =>
         \/ \E p \in QPools : c \in qList[p] /\ (p = qPool \/ c \in qLate)
         \/ c \in qClosing
         \/ \E g \in Callers : qCall[g].conn = c /\ qCall[g].pc = "append"
    /\ c \in qLate =>
         \/ qState[c] = "closed" \/ c \in qClosing
         \/ \E p \in QPools : QGivenUp(p) /\ c \in qList[p]
    /\ qSockets[c] = qDials[c]
=============================================================================
