------------------------------ MODULE ConnPool ------------------------------
(***************************************************************************)
(* The HTTP/2 connection pools of package pool (src/pool/pool.go): a       *)
(* Manager maps "connectHost:port" keys to HostPools, a HostPool keeps the *)
(* list of live connections of one key.                                    *)
(*                                                                         *)
(* Every critical section of the code is one action: a goroutine that      *)
(* unlocks m.mu or p.mu and later locks it again takes two actions, and    *)
(* everything may happen in between.  `go conn.Close()' only puts the      *)
(* connection in `closing'; the close itself is a later action.            *)
(*                                                                         *)
(* cleanup, Close and CloseAllPools hold m.mu for their whole loop, but     *)
(* p.mu only inside the HostPool methods they call: each of these calls,   *)
(* and what follows it, is a step of its own (`sweep').                     *)
(*                                                                         *)
(* Data abstraction.  HostPool.connections is a SET: which of the usable   *)
(* connections GetConn reuses (the code takes the first and rotates it to  *)
(* the end) is left open.  Clocks are ages: age[c] and idle[c] count ticks *)
(* since CreatedAt and LastUsedAt and saturate just above the limit they   *)
(* are compared with.  Connection and pool identities are recycled once    *)
(* nothing refers to them: those of a pool that was forgotten with a       *)
(* connection in its list (`late') are used up.  The port is fixed.        *)
(***************************************************************************)
EXTENDS Integers, FiniteSets

CONSTANTS
  Getters,      \* goroutines inside Manager.GetConn
  Conns,        \* identities of *Conn objects
  PoolIds,      \* identities of *HostPool objects
  Hosts,        \* request hosts
  ConnectHosts, \* hosts connections are made to, the keys of Manager.pools
  ConnectTo,    \* Manager.connectTo, total: a host without entry maps to itself
  Proxies,      \* values of Manager.proxyURL
  MaxConns,     \* maxConnsPerHost, 0 = unlimited
  MaxIdle,      \* HostPool.maxIdleTime in ticks
  MaxAge,       \* HostPool.maxConnAge in ticks
  None          \* nil

ASSUME ConnPoolAssumption ==
  /\ ConnectTo \in [Hosts -> ConnectHosts]
  /\ MaxConns \in Nat
  /\ MaxIdle \in Nat \ {0}
  /\ MaxAge \in Nat \ {0}
  /\ None \notin Conns \cup PoolIds \cup Hosts \cup ConnectHosts \cup Proxies

VARIABLES
  closed,       \* Manager.closed
  pools,        \* Manager.pools: key -> *HostPool or None
  proxyURL,     \* Manager.proxyURL
  newProxy,     \* SetProxy's argument between its two critical sections
  sweep,        \* the running cleanup(), Close() or CloseAllPools(): it holds
                \* m.mu from begin to end
  connections,  \* HostPool.connections
  sniHost,      \* HostPool.sniHost
  poolProxy,    \* HostPool.proxyURL
  status,       \* a connection: not yet dialled, open, or Close()d
  healthy,      \* HTTP2Conn.CanTakeNewRequest()
  age, idle,    \* ticks since Conn.CreatedAt / Conn.LastUsedAt
  closing,      \* connections with a pending `go conn.Close()'
  late,         \* history: connections appended to a pool already given up
  pc,           \* where each getter is
  host,         \* the getter's request host
  gpool,        \* the getter's *HostPool
  gconn         \* the getter's *Conn

mgrVars  == <<closed, pools, proxyURL, newProxy, sweep>>
poolVars == <<connections, sniHost, poolProxy>>
connVars == <<status, healthy, age, idle, closing, late>>
getVars  == <<pc, host, gpool, gconn>>
vars     == <<mgrVars, poolVars, connVars, getVars>>

Sweeps ==
  [op: {"none",              \* m.mu is free
        "cleanup", "delete", \* cleanup(), and when Stats() found no connection
        "close", "closeAll"},
   todo: SUBSET ConnectHosts,         \* keys the loop has still to visit
   at: ConnectHosts \cup {None}]      \* the key cleanup() is at

NoSweep == [op |-> "none", todo |-> {}, at |-> None]

Steps == {"idle", "miss", "pool", "hit", "dial", "dialed", "using"}

\* The types of the variables, and what a getter's step says of its locals: it
\* has a host once it entered GetPool, a pool once it left it, and a connection
\* exactly from reuse or dial to the end of the round trip.
TypeOK ==
  /\ closed \in BOOLEAN
  /\ pools \in [ConnectHosts -> PoolIds \cup {None}]
  /\ proxyURL \in Proxies
  /\ newProxy \in Proxies \cup {None}
  /\ sweep \in Sweeps
  /\ connections \in [PoolIds -> SUBSET Conns]
  /\ sniHost \in [PoolIds -> Hosts \cup ConnectHosts \cup {None}]
  /\ poolProxy \in [PoolIds -> Proxies \cup {None}]
  /\ status \in [Conns -> {"free", "open", "closed"}]
  /\ healthy \in [Conns -> BOOLEAN]
  /\ age \in [Conns -> 0 .. MaxAge + 1]
  /\ idle \in [Conns -> 0 .. MaxIdle + 1]
  /\ closing \in SUBSET Conns
  /\ late \in SUBSET Conns
  /\ pc \in [Getters -> Steps]
  /\ host \in [Getters -> Hosts \cup {None}]
  /\ gpool \in [Getters -> PoolIds \cup {None}]
  /\ gconn \in [Getters -> Conns \cup {None}]
  /\ \A g \in Getters :
       /\ pc[g] # "idle" => host[g] \in Hosts
       /\ pc[g] \notin {"idle", "miss"} <=> gpool[g] # None
       /\ pc[g] \in {"hit", "dialed", "using"} <=> gconn[g] # None

Init ==
  /\ closed = FALSE
  /\ pools = [k \in ConnectHosts |-> None]
  /\ proxyURL \in Proxies
  /\ newProxy = None
  /\ sweep = NoSweep
  /\ connections = [p \in PoolIds |-> {}]
  /\ sniHost = [p \in PoolIds |-> None]
  /\ poolProxy = [p \in PoolIds |-> None]
  /\ status = [c \in Conns |-> "free"]
  /\ healthy = [c \in Conns |-> FALSE]
  /\ age = [c \in Conns |-> 0]
  /\ idle = [c \in Conns |-> 0]
  /\ closing = {}
  /\ late = {}
  /\ pc = [g \in Getters |-> "idle"]
  /\ host = [g \in Getters |-> None]
  /\ gpool = [g \in Getters |-> None]
  /\ gconn = [g \in Getters |-> None]

-----------------------------------------------------------------------------
(* Conn *)

IsHealthy(c) == status[c] = "open" /\ healthy[c]

\* The test GetConn applies before it reuses a connection ...
Usable(c) == IsHealthy(c) /\ idle[c] < MaxIdle /\ age[c] < MaxAge

\* ... the weaker one that keeps it in the list when nothing was usable ...
Kept(c) == IsHealthy(c) /\ age[c] < MaxAge

\* Mutant: only broken connections are dropped, the time limits are ignored.
ExpiredBrokenOnly(c) == ~IsHealthy(c)

\* ... and the one by which the periodic cleanup drops it.
Expired(c) == idle[c] > MaxIdle \/ age[c] > MaxAge \/ ~IsHealthy(c)

\* No getter holds c and no list contains it: the identity may be reused.
Unreferenced(c) ==
  /\ c \notin closing
  /\ \A p \in PoolIds : c \notin connections[p]
  /\ \A g \in Getters : gconn[g] # c

FreePool(p) ==
  /\ connections[p] = {}
  /\ \A k \in ConnectHosts : pools[k] # p
  /\ \A g \in Getters : gpool[g] # p

\* cleanup, Close and CloseAllPools own m.mu for their whole run; every other
\* section under m.mu is one action.
MuFree == sweep.op = "none"

Listed(p) == \E k \in ConnectHosts : pools[k] = p

\* Nobody will look at the list of p again on behalf of the Manager: p has left
\* Manager.pools, or the running cleanup, Close or CloseAllPools is past the
\* moment it emptied p or saw it empty, and will drop it.
GivenUp(p) ==
  \/ ~Listed(p)
  \/ \E k \in ConnectHosts :
       /\ pools[k] = p
       /\ \/ sweep.op \in {"close", "closeAll"} /\ k \notin sweep.todo
          \/ sweep.op = "delete" /\ sweep.at = k

Return(g) ==
  /\ pc' = [pc EXCEPT ![g] = "idle"]
  /\ host' = [host EXCEPT ![g] = None]
  /\ gpool' = [gpool EXCEPT ![g] = None]
  /\ gconn' = [gconn EXCEPT ![g] = None]

-----------------------------------------------------------------------------
(* Manager.GetPool *)

\* Mutant: the exists test after the RLock section is missing.
GetPoolReadUnchecked(g, h) ==
  /\ pc[g] = "idle" /\ MuFree /\ ~closed
  /\ pc' = [pc EXCEPT ![g] = "pool"]
  /\ gpool' = [gpool EXCEPT ![g] = pools[ConnectTo[h]]]
  /\ host' = [host EXCEPT ![g] = h]
  /\ UNCHANGED <<mgrVars, poolVars, connVars, gconn>>

\* Mutant: the map is read without m.mu, while Close or cleanup is at work.
GetPoolReadUnlocked(g, h) ==
  /\ pc[g] = "idle" /\ ~closed
  /\ LET p == pools[ConnectTo[h]] IN
       /\ pc' = [pc EXCEPT ![g] = IF p = None THEN "miss" ELSE "pool"]
       /\ gpool' = [gpool EXCEPT ![g] = p]
  /\ host' = [host EXCEPT ![g] = h]
  /\ UNCHANGED <<mgrVars, poolVars, connVars, gconn>>

\* RLock section: a closed manager or a miss.  The ErrPoolClosed return of a
\* closed manager changes nothing and is the stuttering step.
GetPoolRead(g, h) ==
  /\ pc[g] = "idle" /\ MuFree /\ ~closed
  /\ LET p == pools[ConnectTo[h]] IN
       /\ pc' = [pc EXCEPT ![g] = IF p = None THEN "miss" ELSE "pool"]
       /\ gpool' = [gpool EXCEPT ![g] = p]
  /\ host' = [host EXCEPT ![g] = h]
  /\ UNCHANGED <<mgrVars, poolVars, connVars, gconn>>

\* Lock section after a miss: closed in the meantime, ErrPoolClosed.
GetPoolClosed(g) ==
  /\ pc[g] = "miss" /\ MuFree /\ closed
  /\ Return(g)
  /\ UNCHANGED <<mgrVars, poolVars, connVars>>

\* Lock section: another getter created the pool since the read.
GetPoolFound(g) ==
  /\ pc[g] = "miss" /\ MuFree /\ ~closed
  /\ pools[ConnectTo[host[g]]] # None
  /\ pc' = [pc EXCEPT ![g] = "pool"]
  /\ gpool' = [gpool EXCEPT ![g] = pools[ConnectTo[host[g]]]]
  /\ UNCHANGED <<mgrVars, poolVars, connVars, host, gconn>>

\* Mutant: m.closed is not checked again under the write lock.
GetPoolCreateUnchecked(g) ==
  /\ pc[g] = "miss" /\ MuFree
  /\ pools[ConnectTo[host[g]]] = None
  /\ \E p \in PoolIds :
       /\ FreePool(p)
       /\ pools' = [pools EXCEPT ![ConnectTo[host[g]]] = p]
       /\ sniHost' = [sniHost EXCEPT ![p] = host[g]]
       /\ poolProxy' = [poolProxy EXCEPT ![p] = proxyURL]
       /\ gpool' = [gpool EXCEPT ![g] = p]
  /\ pc' = [pc EXCEPT ![g] = "pool"]
  /\ UNCHANGED <<closed, proxyURL, newProxy, sweep, connections, connVars,
                 host, gconn>>

\* Mutant: the connect host goes into the ClientHello of a fronted pool.
GetPoolCreateFrontSni(g) ==
  /\ pc[g] = "miss" /\ MuFree /\ ~closed
  /\ pools[ConnectTo[host[g]]] = None
  /\ \E p \in PoolIds :
       /\ FreePool(p)
       /\ pools' = [pools EXCEPT ![ConnectTo[host[g]]] = p]
       /\ sniHost' = [sniHost EXCEPT ![p] = ConnectTo[host[g]]]
       /\ poolProxy' = [poolProxy EXCEPT ![p] = proxyURL]
       /\ gpool' = [gpool EXCEPT ![g] = p]
  /\ pc' = [pc EXCEPT ![g] = "pool"]
  /\ UNCHANGED <<closed, proxyURL, newProxy, sweep, connections, connVars,
                 host, gconn>>

\* Lock section: create the HostPool.  NewHostPoolWithConfig turns an empty
\* sniHost into the connect host, so either way sniHost is the request host
\* of the getter that creates the pool.
GetPoolCreate(g) ==
  /\ pc[g] = "miss" /\ MuFree /\ ~closed
  /\ LET k == ConnectTo[host[g]] IN
       /\ pools[k] = None
       /\ \E p \in PoolIds :
            /\ FreePool(p)
            /\ pools' = [pools EXCEPT ![k] = p]
            /\ sniHost' = [sniHost EXCEPT ![p] =
                             IF k # host[g] THEN host[g] ELSE k]
            /\ poolProxy' = [poolProxy EXCEPT ![p] = proxyURL]
            /\ gpool' = [gpool EXCEPT ![g] = p]
  /\ pc' = [pc EXCEPT ![g] = "pool"]
  /\ UNCHANGED <<closed, proxyURL, newProxy, sweep, connections, connVars,
                 host, gconn>>

-----------------------------------------------------------------------------
(* HostPool.GetConn *)

GetConnReuse(g) ==
  /\ pc[g] = "pool"
  /\ \E c \in connections[gpool[g]] :
       /\ Usable(c)
       /\ gconn' = [gconn EXCEPT ![g] = c]
  /\ pc' = [pc EXCEPT ![g] = "hit"]
  /\ UNCHANGED <<mgrVars, poolVars, connVars, host, gpool>>

\* conn.MarkUsed() runs after p.mu was released.
MarkUsed(g) ==
  /\ pc[g] = "hit"
  /\ idle' = [idle EXCEPT ![gconn[g]] = 0]
  /\ pc' = [pc EXCEPT ![g] = "using"]
  /\ UNCHANGED <<mgrVars, poolVars, status, healthy, age, closing, late, host,
                 gpool, gconn>>

\* Mutant: `p.connections = healthy' is forgotten.
EvictNoDrop(p, keep) ==
  /\ closing' = closing \cup (connections[p] \ keep)
  /\ UNCHANGED connections

\* Connections that are dead or too old leave the list and are closed.
Evict(p, keep) ==
  /\ connections' = [connections EXCEPT ![p] = keep]
  /\ closing' = closing \cup (connections[p] \ keep)

KeptOf(p) == {c \in connections[p] : Kept(c)}

\* Mutant: the comparison with maxConns is off by one.
AtCapLoose(p) == MaxConns > 0 /\ Cardinality(KeptOf(p)) > MaxConns

AtCap(p) == MaxConns > 0 /\ Cardinality(KeptOf(p)) >= MaxConns

\* Nothing usable and the pool is full: ErrNoConnections.
GetConnNone(g) ==
  /\ pc[g] = "pool"
  /\ \A c \in connections[gpool[g]] : ~Usable(c)
  /\ AtCap(gpool[g])
  /\ Evict(gpool[g], KeptOf(gpool[g]))
  /\ Return(g)
  /\ UNCHANGED <<mgrVars, sniHost, poolProxy, status, healthy, age, idle, late>>

\* Nothing usable and room left: unlock and dial.
GetConnDial(g) ==
  /\ pc[g] = "pool"
  /\ \A c \in connections[gpool[g]] : ~Usable(c)
  /\ ~AtCap(gpool[g])
  /\ Evict(gpool[g], KeptOf(gpool[g]))
  /\ pc' = [pc EXCEPT ![g] = "dial"]
  /\ UNCHANGED <<mgrVars, sniHost, poolProxy, status, healthy, age, idle, late,
                 host, gpool, gconn>>

\* createConn succeeds: resolve, dial, TLS and HTTP/2 handshakes.
DialOk(g) ==
  /\ pc[g] = "dial"
  /\ \E c \in Conns :
       /\ status[c] # "open" /\ Unreferenced(c)
       /\ status' = [status EXCEPT ![c] = "open"]
       /\ healthy' = [healthy EXCEPT ![c] = TRUE]
       /\ age' = [age EXCEPT ![c] = 0]
       /\ idle' = [idle EXCEPT ![c] = 0]
       /\ gconn' = [gconn EXCEPT ![g] = c]
  /\ pc' = [pc EXCEPT ![g] = "dialed"]
  /\ UNCHANGED <<mgrVars, poolVars, closing, late, host, gpool>>

\* Mutant: a failed dial restarts GetConn instead of returning the error.
DialFailRetry(g) ==
  /\ pc[g] = "dial"
  /\ pc' = [pc EXCEPT ![g] = "pool"]
  /\ UNCHANGED <<mgrVars, poolVars, connVars, host, gpool, gconn>>

\* createConn fails; it has closed the raw connection itself.
DialFail(g) ==
  /\ pc[g] = "dial"
  /\ Return(g)
  /\ UNCHANGED <<mgrVars, poolVars, connVars>>

\* The second p.mu section: append, whatever became of the pool meanwhile.
GetConnAppend(g) ==
  /\ pc[g] = "dialed"
  /\ connections' = [connections EXCEPT ![gpool[g]] = @ \cup {gconn[g]}]
  /\ late' = IF GivenUp(gpool[g]) THEN late \cup {gconn[g]} ELSE late
  /\ pc' = [pc EXCEPT ![g] = "using"]
  /\ UNCHANGED <<mgrVars, sniHost, poolProxy, status, healthy, age, idle, closing,
                 host, gpool, gconn>>

\* The caller's HTTP2Conn.RoundTrip is over (client.doHTTP2).
Finish(g) ==
  /\ pc[g] = "using"
  /\ Return(g)
  /\ UNCHANGED <<mgrVars, poolVars, connVars>>

-----------------------------------------------------------------------------
(* Connections on their own *)

\* A spawned `conn.Close()' runs.  The fields of a closed connection are never
\* consulted again, so they are reset.
CloseConn(c) ==
  /\ c \in closing
  /\ closing' = closing \ {c}
  /\ late' = late \ {c}
  /\ status' = [status EXCEPT ![c] = "closed"]
  /\ healthy' = [healthy EXCEPT ![c] = FALSE]
  /\ age' = [age EXCEPT ![c] = 0]
  /\ idle' = [idle EXCEPT ![c] = 0]
  /\ UNCHANGED <<mgrVars, poolVars, getVars>>

\* The peer sends GOAWAY or the connection breaks: no new request is taken.
\* A connection that is not healthy fails every test whatever its age, so the
\* clocks stop here.
PeerDeath(c) ==
  /\ IsHealthy(c)
  /\ healthy' = [healthy EXCEPT ![c] = FALSE]
  /\ age' = [age EXCEPT ![c] = 0]
  /\ idle' = [idle EXCEPT ![c] = 0]
  /\ UNCHANGED <<mgrVars, poolVars, status, closing, late, getVars>>

Bump(n, limit) == IF n > limit THEN n ELSE n + 1

\* Time passes for the connections whose age may still be looked at.
Tick ==
  /\ LET running(c) == IsHealthy(c) /\ c \notin closing IN
       /\ age' = [c \in Conns |->
                    IF running(c) THEN Bump(age[c], MaxAge) ELSE age[c]]
       /\ idle' = [c \in Conns |->
                     IF running(c) THEN Bump(idle[c], MaxIdle) ELSE idle[c]]
  /\ UNCHANGED <<mgrVars, poolVars, status, healthy, closing, late, getVars>>

-----------------------------------------------------------------------------
(* Manager.cleanup, Close, CloseAllPools and SetProxy *)

ListedKeys == {k \in ConnectHosts : pools[k] # None}

\* The ticker fired: cleanup() takes m.mu.  On an empty map it is a no-op.
CleanupBegin ==
  /\ MuFree /\ ListedKeys # {}
  /\ sweep' = [NoSweep EXCEPT !.op = "cleanup", !.todo = ListedKeys]
  /\ UNCHANGED <<closed, pools, proxyURL, newProxy, poolVars, connVars, getVars>>

\* HostPool.CloseIdle of the next pool of the range loop.
CloseIdle(k) ==
  /\ sweep.op = "cleanup" /\ sweep.at = None /\ k \in sweep.todo
  /\ LET p == pools[k] IN Evict(p, {c \in connections[p] : ~Expired(c)})
  /\ sweep' = [sweep EXCEPT !.todo = @ \ {k}, !.at = k]
  /\ UNCHANGED <<closed, pools, proxyURL, newProxy, sniHost, poolProxy, status,
                 healthy, age, idle, late, getVars>>

\* The end of an iteration; after the last one cleanup() releases m.mu.
NextKey == IF sweep.todo = {} THEN NoSweep
           ELSE [sweep EXCEPT !.op = "cleanup", !.at = None]

\* Mutant: the healthy count of Stats() is looked at instead of the total.
CleanupStatsHealthy ==
  /\ sweep.op = "cleanup" /\ sweep.at # None
  /\ sweep' = IF \A c \in connections[pools[sweep.at]] : ~IsHealthy(c)
                THEN [sweep EXCEPT !.op = "delete"]
                ELSE NextKey
  /\ UNCHANGED <<closed, pools, proxyURL, newProxy, poolVars, connVars, getVars>>

\* HostPool.Stats of the same pool; p.mu was free since CloseIdle.
CleanupStats ==
  /\ sweep.op = "cleanup" /\ sweep.at # None
  /\ sweep' = IF connections[pools[sweep.at]] = {}
                THEN [sweep EXCEPT !.op = "delete"]
                ELSE NextKey
  /\ UNCHANGED <<closed, pools, proxyURL, newProxy, poolVars, connVars, getVars>>

\* total was 0: delete.  p.mu is free again, the list may have grown.
CleanupDelete ==
  /\ sweep.op = "delete"
  /\ pools' = [pools EXCEPT ![sweep.at] = None]
  /\ sweep' = NextKey
  /\ UNCHANGED <<closed, proxyURL, newProxy, poolVars, connVars, getVars>>

Close ==
  /\ MuFree /\ ~closed
  /\ closed' = TRUE
  /\ sweep' = [NoSweep EXCEPT !.op = "close", !.todo = ListedKeys]
  /\ UNCHANGED <<pools, proxyURL, newProxy, poolVars, connVars, getVars>>

\* SetProxy, first section: CloseAllPools.
CloseAllPools(u) ==
  /\ MuFree /\ newProxy = None
  /\ newProxy' = u
  /\ sweep' = [NoSweep EXCEPT !.op = "closeAll", !.todo = ListedKeys]
  /\ UNCHANGED <<closed, pools, proxyURL, poolVars, connVars, getVars>>

\* Mutant: HostPool.Close drops the list without closing its connections.
ClosePoolDropOnly(k) ==
  /\ sweep.op \in {"close", "closeAll"} /\ k \in sweep.todo
  /\ connections' = [connections EXCEPT ![pools[k]] = {}]
  /\ sweep' = [sweep EXCEPT !.todo = @ \ {k}]
  /\ UNCHANGED <<closed, pools, proxyURL, newProxy, sniHost, poolProxy, connVars,
                 getVars>>

\* HostPool.Close of the next pool of the loop in Close or CloseAllPools.
ClosePool(k) ==
  /\ sweep.op \in {"close", "closeAll"} /\ k \in sweep.todo
  /\ Evict(pools[k], {})
  /\ sweep' = [sweep EXCEPT !.todo = @ \ {k}]
  /\ UNCHANGED <<closed, pools, proxyURL, newProxy, sniHost, poolProxy, status,
                 healthy, age, idle, late, getVars>>

\* After the loop: m.pools is replaced, m.mu released.
DropPools ==
  /\ sweep.op \in {"close", "closeAll"} /\ sweep.todo = {}
  /\ pools' = [k \in ConnectHosts |-> None]
  /\ sweep' = NoSweep
  /\ UNCHANGED <<closed, proxyURL, newProxy, poolVars, connVars, getVars>>

\* SetProxy, second section: only now is the new proxy visible.
SetProxyStore ==
  /\ MuFree /\ newProxy # None
  /\ proxyURL' = newProxy
  /\ newProxy' = None
  /\ UNCHANGED <<closed, pools, sweep, poolVars, connVars, getVars>>

-----------------------------------------------------------------------------

GetterStep(g) ==
  \/ GetPoolClosed(g) \/ GetPoolFound(g) \/ GetPoolCreate(g)
  \/ GetConnReuse(g) \/ MarkUsed(g) \/ GetConnNone(g) \/ GetConnDial(g)
  \/ DialOk(g) \/ DialFail(g) \/ GetConnAppend(g) \/ Finish(g)

SweepStep ==
  \/ CleanupStats \/ CleanupDelete \/ DropPools
  \/ \E k \in ConnectHosts : CloseIdle(k) \/ ClosePool(k)

Next ==
  \/ \E g \in Getters, h \in Hosts : GetPoolRead(g, h)
  \/ \E g \in Getters : GetterStep(g)
  \/ \E c \in Conns : CloseConn(c) \/ PeerDeath(c)
  \/ Tick
  \/ CleanupBegin \/ SweepStep
  \/ Close
  \/ \E u \in Proxies : CloseAllPools(u)
  \/ SetProxyStore

Spec == Init /\ [][Next]_vars

(***************************************************************************)
(* Fairness, for the liveness properties.  A goroutine that is not waiting *)
(* for a lock runs; Go's mutexes hand the lock to a waiter that has waited *)
(* 1 ms (starvation mode), so a getter waiting for m.mu gets it however    *)
(* often the cleanup takes it: strong fairness.  Dials and round trips end *)
(* (dial timeouts, request contexts), time passes and the ticker of        *)
(* cleanupLoop keeps firing.                                               *)
(***************************************************************************)
Fairness ==
  /\ \A g \in Getters : SF_vars(GetterStep(g))
  /\ \A c \in Conns : WF_vars(CloseConn(c))
  /\ WF_vars(Tick)
  /\ WF_vars(CleanupBegin)
  /\ WF_vars(SweepStep)

FairSpec == Spec /\ Fairness

-----------------------------------------------------------------------------
(* Safety *)

Holds(g, c) == pc[g] = "dialed" /\ gconn[g] = c

\* A connection that Close() was or will be called on is in no pool's list,
\* whichever of GetConn's eviction, CloseIdle, Close and CloseAllPools retired
\* it and however they interleave: GetConn can never hand it out again.
RetiredNotListed ==
  \A c \in Conns :
    (c \in closing \/ status[c] # "open") =>
      \A p \in PoolIds : c \notin connections[p]

\* No open connection is dropped on the floor: it is in the list of one pool of
\* Manager.pools, where the next cleanup or Close finds it, or in the hands of
\* the goroutine that just dialled it, or has its Close() pending, and never
\* two of these.  The one exception is what the code lets slip: a connection
\* whose dial ended after Close, CloseAllPools or cleanup had emptied its pool
\* for the last time.  It is in the list of that pool, which no cleanup or Close
\* reaches any more, until a GetConn that still has the pool evicts it.
OpenIsOwned ==
  \A c \in Conns :
    /\ status[c] = "open" =>
         \/ c \in closing
         \/ \E p \in PoolIds : c \in connections[p] /\ (Listed(p) \/ c \in late)
         \/ \E g \in Getters : Holds(g, c)
    /\ \A g \in Getters : Holds(g, c) =>
         /\ status[c] = "open" /\ c \notin closing
         /\ \A p \in PoolIds : c \notin connections[p]
         /\ \A g2 \in Getters : Holds(g2, c) => g2 = g
    /\ \A p, q \in PoolIds :
         c \in connections[p] /\ c \in connections[q] => p = q
    /\ c \in late =>
         c \in closing \/ \E p \in PoolIds : GivenUp(p) /\ c \in connections[p]

\* The calls that may still append to p.
Bound(p) == {g \in Getters : gpool[g] = p /\ pc[g] \in {"pool", "dial", "dialed"}}

\* What is let slip is bounded: once a pool is given up no call gets it any
\* more, and each of the calls that had it before leaves at most one connection
\* in it, however often they are interleaved with evictions and reuse.
LateIsBounded ==
  \A p \in PoolIds :
    GivenUp(p) =>
      Cardinality(connections[p]) + Cardinality(Bound(p)) <= Cardinality(Getters)

InFlight(p) == {g \in Getters : gpool[g] = p /\ pc[g] \in {"dial", "dialed"}}

\* maxConnsPerHost is checked before p.mu is released for the dial, so it is a
\* soft limit: a pool's connections plus the dials in flight exceed it by at
\* most one less than the number of concurrent callers, and by no more.
SoftCap ==
  MaxConns > 0 =>
    \A p \in PoolIds :
      Cardinality(connections[p]) + Cardinality(InFlight(p))
        <= MaxConns + Cardinality(Getters) - 1

\* Once Close() let m.mu go a closed manager never gets a pool again: a getter
\* that missed before Close() re-checks m.closed under the write lock.
NoPoolAfterClose ==
  closed => sweep.op = "close" \/ \A k \in ConnectHosts : pools[k] = None

\* HostPool.sniHost is "always the original request host": the pool a getter
\* works with sends the getter's own host as TLS ServerName.
SniIsRequestHost ==
  \A g \in Getters : gpool[g] # None => sniHost[gpool[g]] = host[g]

\* What a getter may rely on, whatever Close, the cleanup and other getters do
\* meanwhile: no pool of a closed manager, no more connections than the soft
\* limit allows and, where no two hosts share a connectTo target, the server
\* name of the host it asked for.
PoolsSound == NoPoolAfterClose /\ SoftCap /\ SniIsRequestHost

(* Liveness *)

\* Every call of HostPool.GetConn returns: with a connection or an error.
GetConnReturns ==
  \A g \in Getters : pc[g] = "pool" ~> pc[g] \in {"using", "idle"}

\* No connection stays in a listed pool for ever, used or not, at the cap or
\* not: maxConnAge and the periodic cleanup retire each of them.
ListedConnRetires ==
  \A c \in Conns :
    (\E p \in PoolIds : Listed(p) /\ c \in connections[p])
      ~> ~(\E p \in PoolIds : Listed(p) /\ c \in connections[p])
=============================================================================
