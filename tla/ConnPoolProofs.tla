--------------------------- MODULE ConnPoolProofs ---------------------------
(***************************************************************************)
(* Proofs about ConnPool (any number of goroutines, connections, pools and *)
(* hosts, any limits) and the DnsCache it asks for addresses (any number   *)
(* of calls, zones and versions of a record, answers of any length).       *)
(*                                                                         *)
(* Every part has one inductive invariant, a lemma for its initial states, *)
(* one step per action, and a theorem.                                     *)
(***************************************************************************)
EXTENDS ConnPool, DnsCache, SeqLemmas, FiniteSetTheorems

\* A running cleanup, Close or CloseAllPools holds m.mu, so the keys it still
\* has to visit and the key it is at are in Manager.pools until it deletes them
\* itself; and no two keys share a pool.
SweepListed ==
  /\ \A k \in sweep.todo : pools[k] # None
  /\ sweep.at # None => /\ sweep.op \in {"cleanup", "delete"}
                        /\ pools[sweep.at] # None /\ sweep.at \notin sweep.todo
  /\ sweep.op = "none" => sweep.todo = {}
  /\ sweep.op = "delete" => sweep.at # None
  /\ \A k, j \in ConnectHosts : pools[k] # None /\ pools[k] = pools[j] => k = j

TypeInv == TypeOK /\ SweepListed

\* NewManager establishes the types.
LEMMA TypeInit == Init => TypeInv
<1> SUFFICES ASSUME Init
             PROVE  TypeInv
  OBVIOUS
<1> USE ConnPoolAssumption DEF Init
<1>1. closed \in BOOLEAN /\ healthy \in [Conns -> BOOLEAN]
  OBVIOUS
<1>2. age \in [Conns -> 0 .. MaxAge + 1] /\ idle \in [Conns -> 0 .. MaxIdle + 1]
  OBVIOUS
<1>3. sweep \in Sweeps
  BY DEF NoSweep, Sweeps
<1>4. /\ connections \in [PoolIds -> SUBSET Conns]
      /\ closing \in SUBSET Conns /\ late \in SUBSET Conns
  OBVIOUS
<1>5. SweepListed
  BY DEF SweepListed, NoSweep
<1> QED
  BY <1>1, <1>2, <1>3, <1>4, <1>5 DEF TypeInv, TypeOK, Steps

\* Every critical section preserves the types, the shape of a getter's locals
\* and the cleanup's claim on the map.
LEMMA TypeStep == TypeInv /\ [Next]_vars => TypeInv'
<1> SUFFICES ASSUME TypeInv, [Next]_vars
             PROVE  TypeInv'
  OBVIOUS
<1> USE ConnPoolAssumption DEF TypeInv, TypeOK, SweepListed, Sweeps, Steps,
        mgrVars, poolVars, connVars, getVars
<1>1. ASSUME NEW g \in Getters, NEW h \in Hosts, GetPoolRead(g, h)
      PROVE  TypeInv'
  BY <1>1 DEF GetPoolRead
<1>2. ASSUME NEW g \in Getters, GetterStep(g)
      PROVE  TypeInv'
  <2>1. CASE GetPoolClosed(g)
    BY <2>1 DEF GetPoolClosed, Return
  <2>2. CASE GetPoolFound(g)
    BY <2>2 DEF GetPoolFound
  <2>3. CASE GetPoolCreate(g)
    BY <2>3 DEF GetPoolCreate, MuFree, FreePool
  <2>4. CASE GetConnReuse(g)
    BY <2>4 DEF GetConnReuse
  <2>5. CASE MarkUsed(g)
    BY <2>5 DEF MarkUsed
  <2>6. CASE GetConnNone(g)
    BY <2>6 DEF GetConnNone, Evict, KeptOf, Return
  <2>7. CASE GetConnDial(g)
    BY <2>7 DEF GetConnDial, Evict, KeptOf
  <2>8. CASE DialOk(g)
    BY <2>8 DEF DialOk
  <2>9. CASE DialFail(g)
    BY <2>9 DEF DialFail, Return
  <2>10. CASE GetConnAppend(g)
    BY <2>10 DEF GetConnAppend
  <2>11. CASE Finish(g)
    BY <2>11 DEF Finish, Return
  <2> QED
    BY <1>2, <2>1, <2>2, <2>3, <2>4, <2>5, <2>6, <2>7, <2>8, <2>9, <2>10, <2>11
       DEF GetterStep
<1>3. ASSUME NEW c \in Conns, CloseConn(c)
      PROVE  TypeInv'
  BY <1>3 DEF CloseConn
<1>4. ASSUME NEW c \in Conns, PeerDeath(c)
      PROVE  TypeInv'
  BY <1>4 DEF PeerDeath
<1>5. CASE Tick
  BY <1>5 DEF Tick, Bump
<1>6. CASE CleanupBegin
  BY <1>6 DEF CleanupBegin, MuFree, NoSweep, ListedKeys
<1>7. ASSUME NEW k \in ConnectHosts, CloseIdle(k)
      PROVE  TypeInv'
  <2>a. /\ sweep' = [sweep EXCEPT !.todo = @ \ {k}, !.at = k]
        /\ sweep.op = "cleanup" /\ k \in sweep.todo
    BY <1>7 DEF CloseIdle
  <2>b. sweep \in Sweeps /\ pools[k] \in PoolIds
    BY <2>a
  <2>c. sweep' \in Sweeps
    BY <2>a, <2>b DEF Sweeps
  <2>1. /\ pools[k] \in PoolIds /\ k \notin sweep'.todo /\ sweep'.at = k
        /\ sweep'.todo = sweep.todo \ {k} /\ sweep'.op = "cleanup" /\ sweep' \in Sweeps
    BY <2>a, <2>b, <2>c DEF Sweeps
  <2>3. connections' \in [PoolIds -> SUBSET Conns] /\ closing' \in SUBSET Conns
    BY <1>7 DEF CloseIdle, Evict
  <2>2. UNCHANGED <<closed, pools, proxyURL, newProxy, sniHost, poolProxy, status, healthy, age,
                    idle, late, pc, host, gpool, gconn>>
    BY <1>7 DEF CloseIdle
  <2> QED
    BY <2>1, <2>2, <2>3
<1>8. CASE CleanupStats
  BY <1>8 DEF CleanupStats, NextKey, NoSweep
<1>9. CASE CleanupDelete
  <2>1. /\ pools' = [pools EXCEPT ![sweep.at] = None] /\ sweep.at \notin sweep.todo
        /\ \/ sweep'.op = "cleanup" /\ sweep'.todo = sweep.todo
           \/ sweep'.op = "none" /\ sweep'.todo = {}
        /\ sweep'.at = None /\ sweep' \in Sweeps
    BY <1>9 DEF CleanupDelete, NextKey, NoSweep
  <2>2. UNCHANGED <<closed, proxyURL, newProxy, connections, sniHost, poolProxy, status, healthy,
                    age, idle, closing, late, pc, host, gpool, gconn>>
    BY <1>9 DEF CleanupDelete
  <2>3. SweepListed'
    BY <2>1
  <2>4. pools' \in [ConnectHosts -> PoolIds \cup {None}]
    BY <2>1
  <2> QED
    BY <2>1, <2>2, <2>3, <2>4
<1>10. CASE Close
  BY <1>10 DEF Close, MuFree, NoSweep, ListedKeys
<1>11. ASSUME NEW u \in Proxies, CloseAllPools(u)
       PROVE  TypeInv'
  BY <1>11 DEF CloseAllPools, MuFree, NoSweep, ListedKeys
<1>12. ASSUME NEW k \in ConnectHosts, ClosePool(k)
       PROVE  TypeInv'
  BY <1>12 DEF ClosePool, Evict
<1>13. CASE DropPools
  BY <1>13 DEF DropPools, NoSweep
<1>14. CASE SetProxyStore
  BY <1>14 DEF SetProxyStore
<1>15. CASE UNCHANGED vars
  BY <1>15 DEF vars
<1> QED
  BY <1>1, <1>2, <1>3, <1>4, <1>5, <1>6, <1>7, <1>8, <1>9, <1>10, <1>11, <1>12,
     <1>13, <1>14, <1>15 DEF Next, SweepStep

\* No behaviour of the pool leaves the types.
THEOREM TypeCorrect == Spec => []TypeOK
<1>1. TypeInv => TypeOK
  BY DEF TypeInv
<1> QED
  BY TypeInit, TypeStep, <1>1, PTL DEF Spec

-----------------------------------------------------------------------------
(***************************************************************************)
(* Ownership.  RetiredNotListed and OpenIsOwned are inductive together     *)
(* with LateKnown: a step that retires a connection finds it in exactly    *)
(* one list, a step that lists one finds it in the hands of its dialler    *)
(* and nowhere else, and a pool that leaves the map, or whose identity is  *)
(* taken again, has nothing in its list but what came too late.            *)
(***************************************************************************)
LateKnown == \A p \in PoolIds : GivenUp(p) => connections[p] \subseteq late

Owned == RetiredNotListed /\ OpenIsOwned /\ LateKnown

OwnedInv == TypeInv /\ Owned

\* No connection exists yet.
LEMMA OwnedInit == Init => Owned
BY ConnPoolAssumption
   DEF Init, Owned, RetiredNotListed, OpenIsOwned, LateKnown, Holds

\* A step that moves no connection and gives up, or takes back, empty pools
\* only.
LEMMA QuietOwned ==
  ASSUME Owned, UNCHANGED <<status, closing, late, connections>>,
         \A g \in Getters, c \in Conns : Holds(g, c)' <=> Holds(g, c),
         \A p \in PoolIds : connections[p] # {} => (GivenUp(p)' <=> GivenUp(p))
  PROVE  Owned'
<1>1. \A p \in PoolIds : ~Listed(p)' => GivenUp(p)'
  BY DEF GivenUp
<1>2. RetiredNotListed' /\ LateKnown'
  BY DEF Owned, RetiredNotListed, LateKnown
<1>3. OpenIsOwned'
  <2> SUFFICES ASSUME NEW c \in Conns
               PROVE  /\ status'[c] = "open" =>
                           \/ c \in closing'
                           \/ \E p \in PoolIds : c \in connections'[p] /\ (Listed(p)' \/ c \in late')
                           \/ \E g2 \in Getters : Holds(g2, c)'
                      /\ c \in late' =>
                           c \in closing' \/ \E p \in PoolIds : GivenUp(p)' /\ c \in connections'[p]
    BY DEF Owned, OpenIsOwned
  <2>1. ASSUME NEW p \in PoolIds, c \in connections[p]
        PROVE  (GivenUp(p)' <=> GivenUp(p)) /\ (Listed(p)' \/ c \in late)
    BY <1>1, <2>1 DEF Owned, LateKnown
  <2> QED
    BY <2>1 DEF Owned, OpenIsOwned
<1> QED
  BY <1>2, <1>3 DEF Owned

\* GetConn's eviction, CloseIdle and HostPool.Close: some connections of one
\* list become pending closes.
LEMMA EvictOwned ==
  ASSUME TypeInv, Owned, NEW p \in PoolIds, NEW keep \in SUBSET connections[p],
         Evict(p, keep), UNCHANGED <<status, late>>,
         \A g \in Getters, c \in Conns : Holds(g, c)' <=> Holds(g, c),
         \A q \in PoolIds : connections'[q] # {} => (GivenUp(q)' <=> GivenUp(q))
  PROVE  Owned'
<1>1. \A q \in PoolIds : ~Listed(q)' => GivenUp(q)'
  BY DEF GivenUp
<1>2. \A q \in PoolIds : connections'[q] = IF q = p THEN keep ELSE connections[q]
  BY DEF TypeInv, TypeOK, Evict
<1>3. closing' = closing \cup (connections[p] \ keep)
  BY DEF Evict
<1>4. RetiredNotListed' /\ LateKnown'
  BY <1>2, <1>3 DEF Owned, RetiredNotListed, OpenIsOwned, LateKnown
<1>5. OpenIsOwned'
  <2> SUFFICES ASSUME NEW c \in Conns
               PROVE  /\ status'[c] = "open" =>
                           \/ c \in closing'
                           \/ \E q \in PoolIds : c \in connections'[q] /\ (Listed(q)' \/ c \in late')
                           \/ \E g2 \in Getters : Holds(g2, c)'
                      /\ \A g \in Getters : Holds(g, c)' =>
                           /\ status'[c] = "open" /\ c \notin closing'
                           /\ \A q \in PoolIds : c \notin connections'[q]
                           /\ \A g2 \in Getters : Holds(g2, c)' => g2 = g
                      /\ \A q, r \in PoolIds :
                           c \in connections'[q] /\ c \in connections'[r] => q = r
                      /\ c \in late' =>
                           c \in closing' \/ \E q \in PoolIds : GivenUp(q)' /\ c \in connections'[q]
    BY DEF OpenIsOwned
  <2>1. ASSUME NEW q \in PoolIds, c \in connections[q]
        PROVE  \/ c \in closing'
               \/ /\ c \in connections'[q] /\ (GivenUp(q)' <=> GivenUp(q))
                  /\ Listed(q)' \/ c \in late'
    <3>1. CASE q = p /\ c \notin keep
      BY <1>3, <2>1, <3>1
    <3>2. CASE ~(q = p /\ c \notin keep)
      <4>1. c \in connections'[q]
        BY <1>2, <2>1, <3>2
      <4> QED
        BY <1>1, <2>1, <4>1 DEF Owned, LateKnown
    <3> QED
      BY <3>1, <3>2
  <2>2. \A g \in Getters : Holds(g, c)' =>
             /\ status'[c] = "open" /\ c \notin closing'
             /\ \A q \in PoolIds : c \notin connections'[q]
             /\ \A g2 \in Getters : Holds(g2, c)' => g2 = g
    BY <1>2, <1>3 DEF Owned, OpenIsOwned
  <2>3. \A q, r \in PoolIds : c \in connections'[q] /\ c \in connections'[r] => q = r
    BY <1>2 DEF Owned, OpenIsOwned
  <2>4. status'[c] = "open" =>
           \/ c \in closing'
           \/ \E q \in PoolIds : c \in connections'[q] /\ (Listed(q)' \/ c \in late')
           \/ \E g2 \in Getters : Holds(g2, c)'
    BY <1>3, <2>1 DEF Owned, OpenIsOwned
  <2>5. c \in late' =>
           c \in closing' \/ \E q \in PoolIds : GivenUp(q)' /\ c \in connections'[q]
    BY <1>3, <2>1 DEF Owned, OpenIsOwned
  <2> QED
    BY <2>2, <2>3, <2>4, <2>5
<1> QED
  BY <1>4, <1>5 DEF Owned

\* Every critical section preserves ownership.
LEMMA OwnedStep == OwnedInv /\ [Next]_vars => Owned'
<1> SUFFICES ASSUME TypeInv, Owned, [Next]_vars
             PROVE  Owned'
  BY DEF OwnedInv
<1> USE DEF TypeInv, TypeOK, mgrVars, poolVars, connVars, getVars
<1>a. ASSUME UNCHANGED <<pools, sweep>>
      PROVE  \A p \in PoolIds : GivenUp(p)' <=> GivenUp(p)
  BY <1>a DEF GivenUp, Listed
<1>1. ASSUME NEW g \in Getters, NEW h \in Hosts, GetPoolRead(g, h)
      PROVE  Owned'
  BY <1>1, <1>a, QuietOwned DEF GetPoolRead, Holds
<1>2. ASSUME NEW g \in Getters, GetterStep(g)
      PROVE  Owned'
  <2>1. CASE GetPoolClosed(g)
    BY <2>1, <1>a, QuietOwned DEF GetPoolClosed, Return, Holds
  <2>2. CASE GetPoolFound(g)
    BY <2>2, <1>a, QuietOwned DEF GetPoolFound, Holds
  <2>3. CASE GetPoolCreate(g)
    <3>1. PICK q \in PoolIds :
            /\ FreePool(q)
            /\ pools' = [pools EXCEPT ![ConnectTo[host[g]]] = q]
      BY <2>3 DEF GetPoolCreate
    <3>2. /\ ConnectTo[host[g]] \in ConnectHosts /\ pools[ConnectTo[host[g]]] = None
          /\ sweep.op = "none" /\ UNCHANGED sweep
      BY <2>3, ConnPoolAssumption DEF GetPoolCreate, MuFree
    <3>3. \A p \in PoolIds : p # q => (Listed(p)' <=> Listed(p))
      BY <3>1, <3>2, ConnPoolAssumption DEF Listed
    <3>4. \A p \in PoolIds : (GivenUp(p)' <=> ~Listed(p)') /\ (GivenUp(p) <=> ~Listed(p))
      BY <3>2 DEF GivenUp
    <3>5. \A p \in PoolIds : connections[p] # {} => (GivenUp(p)' <=> GivenUp(p))
      BY <3>1, <3>3, <3>4 DEF FreePool
    <3>6. \A g2 \in Getters, c \in Conns : Holds(g2, c)' <=> Holds(g2, c)
      BY <2>3 DEF GetPoolCreate, Holds
    <3>7. UNCHANGED <<status, closing, late, connections>>
      BY <2>3 DEF GetPoolCreate
    <3> QED
      BY <3>5, <3>6, <3>7, QuietOwned
  <2>4. CASE GetConnReuse(g)
    BY <2>4, <1>a, QuietOwned DEF GetConnReuse, Holds
  <2>5. CASE MarkUsed(g)
    BY <2>5, <1>a, QuietOwned DEF MarkUsed, Holds
  <2>6. CASE GetConnNone(g)
    <3>1. \A g2 \in Getters, c \in Conns : Holds(g2, c)' <=> Holds(g2, c)
      BY <2>6 DEF GetConnNone, Return, Holds
    <3>2. gpool[g] \in PoolIds
      BY <2>6 DEF GetConnNone
    <3> QED
      BY <1>a, <2>6, <3>1, <3>2, EvictOwned DEF GetConnNone, KeptOf
  <2>7. CASE GetConnDial(g)
    <3>1. \A g2 \in Getters, c \in Conns : Holds(g2, c)' <=> Holds(g2, c)
      BY <2>7 DEF GetConnDial, Holds
    <3>2. gpool[g] \in PoolIds
      BY <2>7 DEF GetConnDial
    <3> QED
      BY <1>a, <2>7, <3>1, <3>2, EvictOwned DEF GetConnDial, KeptOf
  <2>8. CASE DialOk(g)
    <3>1. PICK c \in Conns :
            /\ status[c] # "open" /\ Unreferenced(c)
            /\ status' = [status EXCEPT ![c] = "open"]
            /\ gconn' = [gconn EXCEPT ![g] = c]
      BY <2>8 DEF DialOk
    <3>2. /\ pc' = [pc EXCEPT ![g] = "dialed"] /\ pc[g] = "dial"
          /\ UNCHANGED <<closing, late, connections, pools, sweep>>
      BY <2>8 DEF DialOk
    <3>3. \A p \in PoolIds : (GivenUp(p)' <=> GivenUp(p)) /\ (Listed(p)' <=> Listed(p))
      BY <1>a, <3>2 DEF Listed
    <3>4. \A g2 \in Getters, d \in Conns :
            Holds(g2, d)' <=> (Holds(g2, d) \/ (g2 = g /\ d = c))
      BY <3>1, <3>2 DEF Holds
    <3>5. RetiredNotListed' /\ LateKnown'
      BY <3>1, <3>2, <3>3 DEF Owned, RetiredNotListed, LateKnown
    <3>6. OpenIsOwned'
      <4>1. \A d \in Conns : d # c => (status'[d] = status[d])
        BY <3>1
      <4>2. status'[c] = "open" /\ c \notin closing /\ \A p \in PoolIds : c \notin connections[p]
        BY <3>1 DEF Unreferenced
      <4>3. \A g2 \in Getters : ~Holds(g2, c)
        BY <3>1 DEF Unreferenced, Holds
      <4>4. c \notin late
        BY <4>2 DEF Owned, OpenIsOwned
      <4>5. \A g2 \in Getters, d \in Conns : Holds(g2, d)' <=>
              IF d = c THEN g2 = g ELSE Holds(g2, d)
        BY <3>4, <4>3
      <4> QED
        BY <3>2, <3>3, <4>1, <4>2, <4>4, <4>5 DEF Owned, OpenIsOwned
    <3> QED
      BY <3>5, <3>6 DEF Owned
  <2>9. CASE DialFail(g)
    BY <2>9, <1>a, QuietOwned DEF DialFail, Return, Holds
  <2>10. CASE GetConnAppend(g)
    <3>1. Holds(g, gconn[g]) /\ gconn[g] \in Conns /\ gpool[g] \in PoolIds
      BY <2>10 DEF GetConnAppend, Holds
    <3>2. \A g2 \in Getters, c \in Conns :
            Holds(g2, c)' <=> g2 # g /\ Holds(g2, c)
      BY <2>10 DEF GetConnAppend, Holds
    <3>3. /\ connections' =
               [connections EXCEPT ![gpool[g]] = connections[gpool[g]] \cup {gconn[g]}]
          /\ late' = IF GivenUp(gpool[g]) THEN late \cup {gconn[g]} ELSE late
          /\ UNCHANGED <<status, closing, pools, sweep>>
      BY <2>10 DEF GetConnAppend
    <3>4. RetiredNotListed'
      BY <3>1, <3>3 DEF Owned, RetiredNotListed, OpenIsOwned
    <3>5. \A c \in Conns, p \in PoolIds :
            c \in connections'[p] <=>
              c \in connections[p] \/ (p = gpool[g] /\ c = gconn[g])
      BY <3>1, <3>3
    <3>6. \A p \in PoolIds : /\ GivenUp(p)' <=> GivenUp(p)
                             /\ Listed(p)' <=> Listed(p)
                             /\ GivenUp(p) \/ Listed(p)
      BY <1>a, <3>3 DEF Listed, GivenUp
    <3>7. LateKnown'
      <4> SUFFICES ASSUME NEW p \in PoolIds, GivenUp(p), NEW c \in connections'[p]
                   PROVE  c \in late'
        BY <3>6 DEF LateKnown
      <4>1. c \in Conns
        BY <3>1, <3>3
      <4> QED
        BY <3>3, <3>5, <4>1 DEF Owned, LateKnown
    <3>8. OpenIsOwned'
      <4> SUFFICES ASSUME NEW c \in Conns
                   PROVE  /\ status'[c] = "open" =>
                               \/ c \in closing'
                               \/ \E p \in PoolIds : c \in connections'[p] /\ (Listed(p)' \/ c \in late')
                               \/ \E g2 \in Getters : Holds(g2, c)'
                          /\ \A g2 \in Getters : Holds(g2, c)' =>
                               /\ status'[c] = "open" /\ c \notin closing'
                               /\ \A p \in PoolIds : c \notin connections'[p]
                               /\ \A g3 \in Getters : Holds(g3, c)' => g3 = g2
                          /\ \A p, q \in PoolIds :
                               c \in connections'[p] /\ c \in connections'[q]
                                 => p = q
                          /\ c \in late' =>
                               c \in closing' \/ \E p \in PoolIds : GivenUp(p)' /\ c \in connections'[p]
        BY DEF OpenIsOwned
      <4>1. CASE c = gconn[g]
        <5>1. c \in connections'[gpool[g]] /\ (Listed(gpool[g]) \/ c \in late')
          BY <3>1, <3>3, <3>5, <3>6, <4>1
        <5>2. c \in late' => GivenUp(gpool[g])
          BY <3>1, <3>3, <4>1 DEF Owned, OpenIsOwned
        <5>3. \A g2 \in Getters : ~Holds(g2, c)'
          BY <3>1, <3>2, <4>1 DEF Owned, OpenIsOwned
        <5>4. \A p \in PoolIds : c \in connections'[p] => p = gpool[g]
          BY <3>1, <3>5, <4>1 DEF Owned, OpenIsOwned
        <5> QED
          BY <3>1, <3>6, <5>1, <5>2, <5>3, <5>4
      <4>2. CASE c # gconn[g]
        <5>1. \A g2 \in Getters : Holds(g2, c)' <=> Holds(g2, c)
          BY <4>2, <3>2 DEF Holds
        <5>2. c \in late' <=> c \in late
          BY <3>3, <4>2
        <5>3. \A p \in PoolIds : c \in connections'[p] <=> c \in connections[p]
          BY <3>5, <4>2
        <5> QED
          BY <5>1, <5>2, <5>3, <3>3, <3>6 DEF Owned, OpenIsOwned
      <4> QED
        BY <4>1, <4>2
    <3> QED
      BY <3>4, <3>7, <3>8 DEF Owned
  <2>11. CASE Finish(g)
    BY <2>11, <1>a, QuietOwned DEF Finish, Return, Holds
  <2> QED
    BY <1>2, <2>1, <2>2, <2>3, <2>4, <2>5, <2>6, <2>7, <2>8, <2>9, <2>10, <2>11
       DEF GetterStep
<1>3. ASSUME NEW c \in Conns, CloseConn(c)
      PROVE  Owned'
  <2>1. /\ c \in closing /\ closing' = closing \ {c} /\ late' = late \ {c}
        /\ status' = [status EXCEPT ![c] = "closed"]
        /\ UNCHANGED <<connections, pools, sweep>>
    BY <1>3 DEF CloseConn
  <2>2. \A p \in PoolIds : (GivenUp(p)' <=> GivenUp(p)) /\ (Listed(p)' <=> Listed(p))
    BY <1>a, <2>1 DEF Listed
  <2>3. \A g \in Getters, d \in Conns : Holds(g, d)' <=> Holds(g, d)
    BY <1>3 DEF CloseConn, Holds
  <2>4. \A p \in PoolIds : c \notin connections[p]
    BY <2>1 DEF Owned, RetiredNotListed
  <2>5. RetiredNotListed' /\ LateKnown'
    BY <2>1, <2>2, <2>4 DEF Owned, RetiredNotListed, LateKnown
  <2>6. OpenIsOwned'
    <3>1. \A d \in Conns : d # c => (status'[d] = status[d])
      BY <2>1
    <3>2. status'[c] = "closed"
      BY <2>1
    <3> QED
      BY <2>1, <2>2, <2>3, <2>4, <3>1, <3>2 DEF Owned, OpenIsOwned
  <2> QED
    BY <2>5, <2>6 DEF Owned
<1>4. ASSUME NEW c \in Conns, PeerDeath(c)
      PROVE  Owned'
  BY <1>4, <1>a, QuietOwned DEF PeerDeath, Holds
<1>5. CASE Tick
  BY <1>5, <1>a, QuietOwned DEF Tick, Holds
<1>6. CASE CleanupBegin \/ Close \/ \E u \in Proxies : CloseAllPools(u)
  <2>1. /\ sweep.op = "none" /\ sweep'.op \in {"cleanup", "close", "closeAll"}
        /\ sweep'.todo = {k \in ConnectHosts : pools[k] # None} /\ UNCHANGED pools
        /\ UNCHANGED <<status, closing, late, connections, pc, gconn>>
    BY <1>6 DEF CleanupBegin, Close, CloseAllPools, MuFree, NoSweep, ListedKeys
  <2>2. \A p \in PoolIds : GivenUp(p)' <=> GivenUp(p)
    BY <2>1, ConnPoolAssumption DEF GivenUp, Listed
  <2> QED
    BY <2>1, <2>2, QuietOwned DEF Holds
<1>7. ASSUME NEW k \in ConnectHosts, CloseIdle(k)
      PROVE  Owned'
  <2>1. \A g \in Getters, c \in Conns : Holds(g, c)' <=> Holds(g, c)
    BY <1>7 DEF CloseIdle, Holds
  <2>2. pools[k] \in PoolIds
    BY <1>7 DEF CloseIdle, SweepListed
  <2>3. sweep.op = "cleanup" /\ sweep'.op = "cleanup" /\ UNCHANGED pools
    BY <1>7 DEF CloseIdle, Sweeps
  <2>4. \A p \in PoolIds : GivenUp(p)' <=> GivenUp(p)
    BY <2>3 DEF GivenUp, Listed
  <2> QED
    BY <1>7, <2>1, <2>2, <2>4, EvictOwned DEF CloseIdle
<1>8. CASE CleanupStats
  <2>1. /\ sweep.op = "cleanup" /\ UNCHANGED pools
        /\ \/ connections[pools[sweep.at]] = {} /\ sweep'.at = sweep.at
           \/ sweep'.op \in {"none", "cleanup"}
        /\ sweep'.op \in {"none", "cleanup", "delete"}
    BY <1>8 DEF CleanupStats, NextKey, NoSweep, Sweeps
  <2>2. \A p \in PoolIds : connections[p] # {} => (GivenUp(p)' <=> GivenUp(p))
    BY <2>1 DEF GivenUp, Listed
  <2>3. UNCHANGED <<status, closing, late, connections, pc, gconn>>
    BY <1>8 DEF CleanupStats
  <2> QED
    BY <2>2, <2>3, QuietOwned DEF Holds
<1>9. CASE CleanupDelete
  <2>1. /\ sweep.op = "delete" /\ sweep.at \in ConnectHosts
        /\ pools' = [pools EXCEPT ![sweep.at] = None]
        /\ sweep'.op \in {"none", "cleanup"}
    BY <1>9 DEF CleanupDelete, NextKey, NoSweep, Sweeps, SweepListed
  <2>2. ASSUME NEW p \in PoolIds
        PROVE  GivenUp(p)' <=> GivenUp(p)
    <3>1. GivenUp(p)' <=> ~Listed(p)'
      BY <2>1 DEF GivenUp
    <3>2. GivenUp(p) <=> ~Listed(p) \/ pools[sweep.at] = p
      BY <2>1 DEF GivenUp
    <3>3. Listed(p)' <=> Listed(p) /\ pools[sweep.at] # p
      BY <2>1, ConnPoolAssumption DEF Listed, SweepListed
    <3> QED
      BY <3>1, <3>2, <3>3
  <2>3. UNCHANGED <<status, closing, late, connections, pc, gconn>>
    BY <1>9 DEF CleanupDelete
  <2> QED
    BY <2>2, <2>3, QuietOwned DEF Holds
<1>10. ASSUME NEW k \in ConnectHosts, ClosePool(k)
       PROVE  Owned'
  <2>1. \A g \in Getters, c \in Conns : Holds(g, c)' <=> Holds(g, c)
    BY <1>10 DEF ClosePool, Holds
  <2>2. pools[k] \in PoolIds
    BY <1>10 DEF ClosePool, SweepListed
  <2>3. /\ sweep.op \in {"close", "closeAll"} /\ sweep'.op = sweep.op
        /\ sweep'.todo = sweep.todo \ {k} /\ UNCHANGED pools
    BY <1>10 DEF ClosePool, Sweeps
  <2>4. connections' = [connections EXCEPT ![pools[k]] = {}]
    BY <1>10 DEF ClosePool, Evict
  <2>5. \A p \in PoolIds : connections'[p] # {} => (GivenUp(p)' <=> GivenUp(p))
    <3> SUFFICES ASSUME NEW p \in PoolIds, p # pools[k]
                 PROVE  GivenUp(p)' <=> GivenUp(p)
      BY <2>2, <2>4
    <3>1. \A j \in ConnectHosts : pools[j] = p => (j \in sweep'.todo <=> j \in sweep.todo)
      BY <2>3
    <3> QED
      BY <2>3, <3>1 DEF GivenUp, Listed
  <2> QED
    BY <1>10, <2>1, <2>2, <2>5, EvictOwned DEF ClosePool
<1>11. CASE DropPools
  <2>1. /\ sweep.op \in {"close", "closeAll"} /\ sweep.todo = {}
        /\ pools' = [k \in ConnectHosts |-> None]
    BY <1>11 DEF DropPools
  <2>2. \A p \in PoolIds : GivenUp(p) /\ GivenUp(p)'
    BY <2>1, ConnPoolAssumption DEF GivenUp, Listed
  <2>3. UNCHANGED <<status, closing, late, connections, pc, gconn>>
    BY <1>11 DEF DropPools
  <2> QED
    BY <2>2, <2>3, QuietOwned DEF Holds
<1>12. CASE SetProxyStore
  BY <1>12, <1>a, QuietOwned DEF SetProxyStore, Holds
<1>13. CASE UNCHANGED vars
  BY <1>13, <1>a, QuietOwned DEF vars, Holds
<1> QED
  BY <1>1, <1>2, <1>3, <1>4, <1>5, <1>6, <1>7, <1>8, <1>9, <1>10, <1>11, <1>12,
     <1>13 DEF Next, SweepStep

\* OwnedInv is an invariant of the pool.
LEMMA OwnedAlways == Spec => []OwnedInv
<1>1. Init => OwnedInv
  BY TypeInit, OwnedInit DEF OwnedInv
<1>2. OwnedInv /\ [Next]_vars => OwnedInv'
  BY TypeStep, OwnedStep DEF OwnedInv
<1> QED
  BY <1>1, <1>2, PTL DEF Spec

\* A connection whose Close() ran or is pending is in no list: GetConn never
\* hands out a connection that the eviction, the cleanup, Close or
\* CloseAllPools retired.
THEOREM RetiredNeverListed == Spec => []RetiredNotListed
<1>1. OwnedInv => RetiredNotListed
  BY DEF OwnedInv, Owned
<1> QED
  BY OwnedAlways, <1>1, PTL

\* Every open connection has exactly one owner: the list of one pool of
\* Manager.pools, one dialler or one pending Close(); what came too late is in
\* the list of one pool given up, and what such a list holds came too late.
THEOREM OpenAlwaysOwned == Spec => []OpenIsOwned
<1>1. OwnedInv => OpenIsOwned
  BY DEF OwnedInv, Owned
<1> QED
  BY OwnedAlways, <1>1, PTL

-----------------------------------------------------------------------------
(***************************************************************************)
(* What a getter may rely on.  That a pool sends the getter's own host as  *)
(* server name needs a fact about pools nobody works with: a pool is       *)
(* listed under the target of the host it was created for.  No two hosts   *)
(* may share a target (ConnPool's header, README).  The soft limit needs   *)
(* finite lists.                                                           *)
(***************************************************************************)
OwnTargets == \A h, j \in Hosts : ConnectTo[h] = ConnectTo[j] => h = j

ListsFinite == \A p \in PoolIds : IsFiniteSet(connections[p])

ListedForHost ==
  \A k \in ConnectHosts :
    pools[k] # None => sniHost[pools[k]] \in Hosts /\ ConnectTo[sniHost[pools[k]]] = k

SoundInv == TypeInv /\ ListsFinite /\ ListedForHost /\ PoolsSound

\* Nothing is pooled at the start.
LEMMA SoundInit ==
  ASSUME Init, IsFiniteSet(Getters)
  PROVE  SoundInv
<1>1. TypeInv
  BY TypeInit
<1>2. ListsFinite
  BY FS_EmptySet DEF ListsFinite, Init
<1>3. ListedForHost /\ NoPoolAfterClose /\ SniIsRequestHost
  BY ConnPoolAssumption DEF ListedForHost, NoPoolAfterClose, SniIsRequestHost, Init
<1>4. SoftCap
  <2> SUFFICES ASSUME MaxConns > 0, NEW p \in PoolIds
               PROVE  Cardinality(connections[p]) + Cardinality(InFlight(p))
                        <= MaxConns + Cardinality(Getters) - 1
    BY DEF SoftCap
  <2>1. connections[p] = {} /\ InFlight(p) = {}
    BY DEF Init, InFlight
  <2>2. Cardinality({}) = 0 /\ Cardinality(Getters) \in Nat
    BY FS_EmptySet, FS_CardinalityType
  <2> QED
    BY <2>1, <2>2, ConnPoolAssumption
<1> QED
  BY <1>1, <1>2, <1>3, <1>4 DEF SoundInv, PoolsSound

\* A step that takes connections off lists and getters out of dials, or does
\* neither, keeps the limit.
LEMMA FewerSoftCap ==
  ASSUME IsFiniteSet(Getters), ListsFinite, SoftCap,
         \A p \in PoolIds : connections'[p] \subseteq connections[p]
                            /\ InFlight(p)' \subseteq InFlight(p)
  PROVE  ListsFinite' /\ SoftCap'
<1>1. ASSUME NEW p \in PoolIds
      PROVE  /\ IsFiniteSet(connections'[p])
             /\ MaxConns > 0 =>
                  Cardinality(connections'[p]) + Cardinality(InFlight(p)')
                    <= MaxConns + Cardinality(Getters) - 1
  <2>1. IsFiniteSet(connections'[p]) /\ Cardinality(connections'[p]) <= Cardinality(connections[p])
    BY FS_Subset DEF ListsFinite
  <2>2. IsFiniteSet(InFlight(p))
    BY FS_Subset DEF InFlight
  <2>3. IsFiniteSet(InFlight(p)') /\ Cardinality(InFlight(p)') <= Cardinality(InFlight(p))
    BY <2>2, FS_Subset
  <2>4. /\ Cardinality(connections[p]) \in Nat /\ Cardinality(connections'[p]) \in Nat
        /\ Cardinality(InFlight(p)) \in Nat /\ Cardinality(InFlight(p)') \in Nat
        /\ Cardinality(Getters) \in Nat
    BY <2>1, <2>2, <2>3, FS_CardinalityType DEF ListsFinite
  <2>5. MaxConns > 0 => Cardinality(connections[p]) + Cardinality(InFlight(p))
                          <= MaxConns + Cardinality(Getters) - 1
    BY DEF SoftCap
  <2> QED
    BY <2>1, <2>3, <2>4, <2>5, ConnPoolAssumption
<1> QED
  BY <1>1 DEF ListsFinite, SoftCap

\* Every critical section keeps what a getter relies on.
LEMMA SoundStep ==
  ASSUME IsFiniteSet(Getters), OwnTargets, SoundInv, [Next]_vars
  PROVE  SoundInv'
<1> USE DEF SoundInv, PoolsSound
<1>1. TypeInv'
  BY TypeStep
<1>2. NoPoolAfterClose'
  <2> SUFFICES ASSUME closed', sweep'.op # "close"
               PROVE  \A k \in ConnectHosts : pools'[k] = None
    BY DEF NoPoolAfterClose
  <2> USE DEF TypeInv, TypeOK, Sweeps
  <2>1. CASE DropPools
    BY <2>1 DEF DropPools
  <2>2. ASSUME NEW g \in Getters, GetPoolCreate(g)
        PROVE  FALSE
    BY <2>2 DEF GetPoolCreate
  <2>3. CASE CleanupStats \/ CleanupDelete
    <3>1. closed /\ sweep.op # "close"
      BY <2>3 DEF CleanupStats, CleanupDelete
    <3>2. \A k \in ConnectHosts : pools[k] = None => pools'[k] = None
      BY <2>3 DEF CleanupStats, CleanupDelete, SweepListed
    <3> QED
      BY <3>1, <3>2 DEF NoPoolAfterClose
  <2>4. CASE Close
    BY <2>4 DEF Close, NoSweep
  <2>5. CASE CleanupBegin \/ \E u \in Proxies : CloseAllPools(u)
    BY <2>5 DEF CleanupBegin, CloseAllPools, MuFree, NoPoolAfterClose
  <2>6. ASSUME NEW k \in ConnectHosts, CloseIdle(k) \/ ClosePool(k)
        PROVE  \A j \in ConnectHosts : pools'[j] = None
    BY <2>6 DEF CloseIdle, ClosePool, NoPoolAfterClose
  <2>7. CASE UNCHANGED <<closed, pools, sweep>>
    BY <2>7 DEF NoPoolAfterClose
  <2>8. ASSUME ~SweepStep, ~CleanupBegin, ~Close, \A u \in Proxies : ~CloseAllPools(u),
               \A g \in Getters : ~GetPoolCreate(g)
        PROVE  UNCHANGED <<closed, pools, sweep>>
    BY <2>8 DEF Next, GetterStep, GetPoolRead, GetPoolClosed, GetPoolFound, GetConnReuse,
                MarkUsed, GetConnNone, GetConnDial, DialOk, DialFail, GetConnAppend, Finish,
                CloseConn, PeerDeath, Tick, SetProxyStore, vars, mgrVars
  <2> QED
    BY <2>1, <2>2, <2>3, <2>4, <2>5, <2>6, <2>7, <2>8 DEF SweepStep
<1>3. ListedForHost' /\ SniIsRequestHost'
  <2> USE ConnPoolAssumption DEF TypeInv, TypeOK, ListedForHost, SniIsRequestHost,
          mgrVars, poolVars, connVars, getVars
  <2>1. ASSUME NEW g \in Getters, NEW h \in Hosts, GetPoolRead(g, h)
        PROVE  ListedForHost' /\ SniIsRequestHost'
    BY <2>1 DEF GetPoolRead, OwnTargets
  <2>2. ASSUME NEW g \in Getters, GetPoolFound(g)
        PROVE  ListedForHost' /\ SniIsRequestHost'
    BY <2>2 DEF GetPoolFound, OwnTargets
  <2>3. ASSUME NEW g \in Getters, GetPoolCreate(g)
        PROVE  ListedForHost' /\ SniIsRequestHost'
    <3>1. PICK p \in PoolIds :
            /\ FreePool(p)
            /\ pools' = [pools EXCEPT ![ConnectTo[host[g]]] = p]
            /\ sniHost' = [sniHost EXCEPT ![p] = host[g]]
            /\ gpool' = [gpool EXCEPT ![g] = p]
      BY <2>3 DEF GetPoolCreate
    <3>2. host[g] \in Hosts /\ UNCHANGED host
      BY <2>3 DEF GetPoolCreate
    <3>3. ListedForHost'
      BY <3>1, <3>2 DEF FreePool
    <3>4. SniIsRequestHost'
      BY <3>1, <3>2 DEF FreePool
    <3> QED
      BY <3>3, <3>4
  <2>4. ASSUME NEW g \in Getters, GetterStep(g), ~GetPoolFound(g), ~GetPoolCreate(g)
        PROVE  ListedForHost' /\ SniIsRequestHost'
    BY <2>4 DEF GetterStep, GetPoolClosed, GetConnReuse, MarkUsed, GetConnNone, GetConnDial,
                DialOk, DialFail, GetConnAppend, Finish, Return
  <2>5. CASE CleanupDelete
    BY <2>5 DEF CleanupDelete
  <2>6. CASE DropPools
    BY <2>6 DEF DropPools
  <2>7. CASE UNCHANGED <<pools, sniHost, getVars>>
    BY <2>7
  <2>8. ASSUME \/ \E c \in Conns : CloseConn(c) \/ PeerDeath(c)
               \/ Tick \/ CleanupBegin \/ CleanupStats
               \/ (\E k \in ConnectHosts : CloseIdle(k) \/ ClosePool(k))
               \/ Close \/ (\E u \in Proxies : CloseAllPools(u))
               \/ SetProxyStore \/ UNCHANGED vars
        PROVE  UNCHANGED <<pools, sniHost, getVars>>
    BY <2>8 DEF CloseConn, PeerDeath, Tick, CleanupBegin, CleanupStats, CloseIdle, ClosePool,
                Close, CloseAllPools, SetProxyStore, vars
  <2> QED
    BY <2>1, <2>2, <2>3, <2>4, <2>5, <2>6, <2>7, <2>8 DEF Next, SweepStep
<1>4. ListsFinite' /\ SoftCap'
  <2> USE DEF TypeInv, TypeOK, mgrVars, poolVars, connVars, getVars
  <2>1. ASSUME NEW g \in Getters, GetConnDial(g)
        PROVE  ListsFinite' /\ SoftCap'
    <3> DEFINE p == gpool[g]
    <3>1. p \in PoolIds /\ pc[g] = "pool" /\ ~AtCap(p)
          /\ connections' = [connections EXCEPT ![p] = KeptOf(p)]
          /\ pc' = [pc EXCEPT ![g] = "dial"] /\ UNCHANGED gpool
      BY <2>1 DEF GetConnDial, Evict
    <3>2. ASSUME NEW q \in PoolIds
          PROVE  /\ IsFiniteSet(connections'[q])
                 /\ MaxConns > 0 =>
                      Cardinality(connections'[q]) + Cardinality(InFlight(q)')
                        <= MaxConns + Cardinality(Getters) - 1
      <4>1. CASE q # p
        <5>1. connections'[q] = connections[q] /\ InFlight(q)' = InFlight(q)
          BY <3>1, <4>1 DEF InFlight
        <5> QED
          BY <5>1 DEF ListsFinite, SoftCap
      <4>2. CASE q = p
        <5>1. connections'[q] = KeptOf(q) /\ KeptOf(q) \subseteq connections[q]
          BY <3>1, <4>2 DEF KeptOf
        <5>2. IsFiniteSet(KeptOf(q)) /\ Cardinality(KeptOf(q)) \in Nat
          BY <5>1, FS_Subset, FS_CardinalityType DEF ListsFinite
        <5>3. InFlight(q)' \subseteq Getters
          BY DEF InFlight
        <5>4. IsFiniteSet(InFlight(q)') /\ Cardinality(InFlight(q)') <= Cardinality(Getters)
          BY <5>3, FS_Subset
        <5>5. Cardinality(InFlight(q)') \in Nat /\ Cardinality(Getters) \in Nat
          BY <5>4, FS_CardinalityType
        <5>6. MaxConns > 0 => Cardinality(KeptOf(q)) < MaxConns
          BY <3>1, <4>2, <5>2, ConnPoolAssumption DEF AtCap
        <5> QED
          BY <5>1, <5>2, <5>4, <5>5, <5>6, ConnPoolAssumption
      <4> QED
        BY <4>1, <4>2
    <3> QED
      BY <3>2 DEF ListsFinite, SoftCap
  <2>2. ASSUME NEW g \in Getters, GetConnAppend(g)
        PROVE  ListsFinite' /\ SoftCap'
    <3> DEFINE p == gpool[g]
    <3>1. p \in PoolIds /\ pc[g] = "dialed"
          /\ connections' = [connections EXCEPT ![p] = connections[p] \cup {gconn[g]}]
          /\ pc' = [pc EXCEPT ![g] = "using"] /\ UNCHANGED gpool
      BY <2>2 DEF GetConnAppend
    <3>2. ASSUME NEW q \in PoolIds
          PROVE  /\ IsFiniteSet(connections'[q])
                 /\ MaxConns > 0 =>
                      Cardinality(connections'[q]) + Cardinality(InFlight(q)')
                        <= MaxConns + Cardinality(Getters) - 1
      <4>1. CASE q # p
        <5>1. connections'[q] = connections[q] /\ InFlight(q)' = InFlight(q)
          BY <3>1, <4>1 DEF InFlight
        <5> QED
          BY <5>1 DEF ListsFinite, SoftCap
      <4>2. CASE q = p
        <5>1. connections'[q] = connections[q] \cup {gconn[g]}
          BY <3>1, <4>2
        <5>2. IsFiniteSet(connections[q]) /\ Cardinality(connections[q]) \in Nat
          BY FS_CardinalityType DEF ListsFinite
        <5>3. IsFiniteSet(connections'[q])
              /\ Cardinality(connections'[q]) \in Nat
              /\ Cardinality(connections'[q]) <= Cardinality(connections[q]) + 1
          <6>1. /\ IsFiniteSet(connections[q] \cup {gconn[g]})
                /\ \/ Cardinality(connections[q] \cup {gconn[g]}) = Cardinality(connections[q])
                   \/ Cardinality(connections[q] \cup {gconn[g]}) = Cardinality(connections[q]) + 1
            BY <5>2, FS_AddElement
          <6> QED
            BY <5>1, <5>2, <6>1
        <5>4. g \in InFlight(q) /\ InFlight(q)' = InFlight(q) \ {g}
          BY <3>1, <4>2 DEF InFlight
        <5>5. IsFiniteSet(InFlight(q)) /\ Cardinality(InFlight(q)) \in Nat
          BY FS_Subset, FS_CardinalityType DEF InFlight
        <5>6. Cardinality(InFlight(q)') = Cardinality(InFlight(q)) - 1
          <6>1. \A S : g \in S /\ IsFiniteSet(S) => Cardinality(S \ {g}) = Cardinality(S) - 1
            BY FS_RemoveElement
          <6> QED
            BY <5>4, <5>5, <6>1
        <5>7. Cardinality(Getters) \in Nat
          BY FS_CardinalityType
        <5>8. MaxConns > 0 => Cardinality(connections[q]) + Cardinality(InFlight(q))
                                <= MaxConns + Cardinality(Getters) - 1
          BY DEF SoftCap
        <5> QED
          BY <5>2, <5>3, <5>5, <5>6, <5>7, <5>8, ConnPoolAssumption
      <4> QED
        BY <4>1, <4>2
    <3> QED
      BY <3>2 DEF ListsFinite, SoftCap
  <2>3. ASSUME NEW g \in Getters, GetterStep(g), ~GetConnDial(g), ~GetConnAppend(g),
               NEW p \in PoolIds
        PROVE  connections'[p] \subseteq connections[p] /\ InFlight(p)' \subseteq InFlight(p)
    BY <2>3, ConnPoolAssumption
       DEF GetterStep, GetPoolClosed, GetPoolFound, GetPoolCreate, GetConnReuse, MarkUsed,
           GetConnNone, DialOk, DialFail, Finish, Return, Evict, KeptOf, InFlight
  <2>4. ASSUME NEW g \in Getters, NEW h \in Hosts, GetPoolRead(g, h), NEW p \in PoolIds
        PROVE  connections'[p] \subseteq connections[p] /\ InFlight(p)' \subseteq InFlight(p)
    BY <2>4 DEF GetPoolRead, InFlight
  <2>5. ASSUME \/ \E c \in Conns : CloseConn(c) \/ PeerDeath(c)
               \/ Tick \/ CleanupBegin \/ SweepStep \/ SetProxyStore \/ UNCHANGED vars
               \/ Close \/ (\E u \in Proxies : CloseAllPools(u)),
               NEW p \in PoolIds
        PROVE  connections'[p] \subseteq connections[p] /\ InFlight(p)' \subseteq InFlight(p)
    <3>1. connections'[p] \subseteq connections[p]
      <4>1. ASSUME NEW k \in ConnectHosts, CloseIdle(k) \/ ClosePool(k)
            PROVE  connections'[p] \subseteq connections[p]
        BY <4>1, ConnPoolAssumption DEF CloseIdle, ClosePool, Evict
      <4>2. CASE UNCHANGED connections
        BY <4>2
      <4> QED
        BY <2>5, <4>1, <4>2
           DEF CloseConn, PeerDeath, Tick, CleanupBegin, SweepStep, CleanupStats, CleanupDelete,
               DropPools, SetProxyStore, Close, CloseAllPools, vars
    <3>2. UNCHANGED <<pc, gpool>>
      BY <2>5
         DEF CloseConn, PeerDeath, Tick, CleanupBegin, SweepStep, CleanupStats, CleanupDelete,
             CloseIdle, ClosePool, DropPools, SetProxyStore, Close, CloseAllPools, vars
    <3> QED
      BY <3>1, <3>2 DEF InFlight
  <2> QED
    BY <2>1, <2>2, <2>3, <2>4, <2>5, FewerSoftCap DEF Next
<1> QED
  BY <1>1, <1>2, <1>3, <1>4

\* A closed manager gets no pool, the limit is exceeded only by concurrent
\* dials, and the server name is the getter's host, for any number of
\* goroutines, connections and hosts, as long as no two hosts share a
\* connectTo target.
THEOREM GettersCanRely ==
  ASSUME IsFiniteSet(Getters), OwnTargets
  PROVE  Spec => []PoolsSound
<1>1. Init => SoundInv
  BY SoundInit
<1>2. SoundInv /\ [Next]_vars => SoundInv'
  BY SoundStep
<1>3. SoundInv => PoolsSound
  BY DEF SoundInv
<1> QED
  BY <1>1, <1>2, <1>3, PTL DEF Spec

-----------------------------------------------------------------------------
(***************************************************************************)
(* What comes too late is bounded: LateIsBounded is inductive once the     *)
(* lists are known to be finite.  A pool is given up with an empty list,   *)
(* and from then on a call that leaves a connection stops being one that   *)
(* may.                                                                    *)
(***************************************************************************)
LateInv == TypeInv /\ ListsFinite /\ LateIsBounded

\* The calls that may append are getters.
LEMMA BoundFinite ==
  ASSUME IsFiniteSet(Getters), NEW S, S \subseteq Getters
  PROVE  IsFiniteSet(S) /\ Cardinality(S) \in Nat /\ Cardinality(S) <= Cardinality(Getters)
         /\ Cardinality(Getters) \in Nat
BY FS_Subset, FS_CardinalityType

\* A step that moves no connection into a list keeps the bound, if a pool it
\* gives up is empty and nobody obtains one given up before.
LEMMA FewerLate ==
  ASSUME IsFiniteSet(Getters), ListsFinite, LateIsBounded,
         \A p \in PoolIds :
           /\ connections'[p] \subseteq connections[p]
           /\ GivenUp(p)' => \/ connections'[p] = {}
                             \/ GivenUp(p) /\ Bound(p)' \subseteq Bound(p)
  PROVE  ListsFinite' /\ LateIsBounded'
<1>1. ASSUME NEW p \in PoolIds
      PROVE  /\ IsFiniteSet(connections'[p])
             /\ GivenUp(p)' =>
                  Cardinality(connections'[p]) + Cardinality(Bound(p)') <= Cardinality(Getters)
  <2>1. /\ IsFiniteSet(connections'[p]) /\ Cardinality(connections'[p]) <= Cardinality(connections[p])
        /\ Cardinality(connections[p]) \in Nat /\ Cardinality(connections'[p]) \in Nat
    BY FS_Subset, FS_CardinalityType DEF ListsFinite
  <2>2. Bound(p) \subseteq Getters /\ Bound(p)' \subseteq Getters
    BY DEF Bound
  <2>3. /\ IsFiniteSet(Bound(p)) /\ Cardinality(Bound(p)) \in Nat
        /\ Cardinality(Bound(p)') \in Nat /\ Cardinality(Bound(p)') <= Cardinality(Getters)
        /\ Cardinality(Getters) \in Nat
    BY <2>2, BoundFinite
  <2>4. CASE connections'[p] = {}
    BY <2>1, <2>3, <2>4, FS_EmptySet
  <2>5. CASE GivenUp(p) /\ Bound(p)' \subseteq Bound(p)
    <3>1. Cardinality(Bound(p)') <= Cardinality(Bound(p))
      BY <2>3, <2>5, FS_Subset
    <3>2. Cardinality(connections[p]) + Cardinality(Bound(p)) <= Cardinality(Getters)
      BY <2>5 DEF LateIsBounded
    <3> QED
      BY <2>1, <2>3, <3>1, <3>2
  <2> QED
    BY <2>1, <2>4, <2>5
<1> QED
  BY <1>1 DEF ListsFinite, LateIsBounded

\* The append: one connection more, one call less that may append.
LEMMA AppendLate ==
  ASSUME IsFiniteSet(Getters), LateInv, NEW g \in Getters, GetConnAppend(g)
  PROVE  ListsFinite' /\ LateIsBounded'
<1> USE DEF LateInv, TypeInv, TypeOK
<1> DEFINE q == gpool[g]
<1>1. /\ q \in PoolIds /\ pc[g] = "dialed"
      /\ connections' = [connections EXCEPT ![q] = connections[q] \cup {gconn[g]}]
      /\ pc' = [pc EXCEPT ![g] = "using"] /\ UNCHANGED <<gpool, pools, sweep>>
  BY DEF GetConnAppend, mgrVars
<1>2. \A p \in PoolIds : GivenUp(p)' <=> GivenUp(p)
  BY <1>1 DEF GivenUp, Listed
<1>3. ASSUME NEW p \in PoolIds
      PROVE  /\ IsFiniteSet(connections'[p])
             /\ GivenUp(p) =>
                  Cardinality(connections'[p]) + Cardinality(Bound(p)') <= Cardinality(Getters)
  <2>1. GivenUp(p) => Cardinality(connections[p]) + Cardinality(Bound(p)) <= Cardinality(Getters)
    BY DEF LateIsBounded
  <2>2. IsFiniteSet(connections[p]) /\ Cardinality(connections[p]) \in Nat
    BY FS_CardinalityType DEF ListsFinite
  <2>3. CASE p # q
    <3>1. connections'[p] = connections[p] /\ Bound(p)' = Bound(p)
      BY <1>1, <2>3 DEF Bound
    <3> QED
      BY <2>1, <2>2, <3>1
  <2>4. CASE p = q
    <3>1. connections'[p] = connections[p] \cup {gconn[g]}
      BY <1>1, <2>4
    <3>2. IsFiniteSet(connections'[p])
          /\ Cardinality(connections'[p]) \in Nat
          /\ Cardinality(connections'[p]) <= Cardinality(connections[p]) + 1
      <4>1. /\ IsFiniteSet(connections[p] \cup {gconn[g]})
            /\ \/ Cardinality(connections[p] \cup {gconn[g]}) = Cardinality(connections[p])
               \/ Cardinality(connections[p] \cup {gconn[g]}) = Cardinality(connections[p]) + 1
        BY <2>2, FS_AddElement
      <4> QED
        BY <2>2, <3>1, <4>1
    <3>3. g \in Bound(p) /\ Bound(p)' = Bound(p) \ {g}
      BY <1>1, <2>4 DEF Bound
    <3>4. IsFiniteSet(Bound(p)) /\ Cardinality(Bound(p)) \in Nat /\ Cardinality(Getters) \in Nat
      <4>1. Bound(p) \subseteq Getters
        BY DEF Bound
      <4> QED
        BY <4>1, BoundFinite
    <3>5. Cardinality(Bound(p)') = Cardinality(Bound(p)) - 1
      <4>1. \A S : g \in S /\ IsFiniteSet(S) => Cardinality(S \ {g}) = Cardinality(S) - 1
        BY FS_RemoveElement
      <4> QED
        BY <3>3, <3>4, <4>1
    <3> QED
      BY <2>1, <2>2, <3>2, <3>4, <3>5
  <2> QED
    BY <2>3, <2>4
<1> QED
  BY <1>2, <1>3 DEF ListsFinite, LateIsBounded

\* Every critical section keeps the bound.
LEMMA LateStep ==
  ASSUME IsFiniteSet(Getters), LateInv, [Next]_vars
  PROVE  LateInv'
<1> USE DEF LateInv, TypeInv, TypeOK, mgrVars, poolVars, connVars, getVars
<1>1. TypeInv'
  BY TypeStep
<1>a. ASSUME UNCHANGED <<pools, sweep>>
      PROVE  \A p \in PoolIds : GivenUp(p)' <=> GivenUp(p)
  BY <1>a DEF GivenUp, Listed
<1>2. ASSUME NEW g \in Getters, NEW h \in Hosts, GetPoolRead(g, h), NEW p \in PoolIds
      PROVE  /\ connections'[p] = connections[p]
             /\ GivenUp(p)' => GivenUp(p) /\ Bound(p)' \subseteq Bound(p)
  <2>1. GivenUp(p) => pools[ConnectTo[h]] # p
    BY <1>2, ConnPoolAssumption DEF GetPoolRead, GivenUp, Listed, MuFree
  <2> QED
    BY <1>2, <1>a, <2>1 DEF GetPoolRead, Bound
<1>3. ASSUME NEW g \in Getters, GetPoolFound(g), NEW p \in PoolIds
      PROVE  /\ connections'[p] = connections[p]
             /\ GivenUp(p)' => GivenUp(p) /\ Bound(p)' \subseteq Bound(p)
  <2>1. GivenUp(p) => pools[ConnectTo[host[g]]] # p
    BY <1>3, ConnPoolAssumption DEF GetPoolFound, GivenUp, Listed, MuFree
  <2> QED
    BY <1>3, <1>a, <2>1 DEF GetPoolFound, Bound
<1>4. ASSUME NEW g \in Getters, GetPoolCreate(g), NEW p \in PoolIds
      PROVE  /\ connections'[p] = connections[p]
             /\ GivenUp(p)' => GivenUp(p) /\ Bound(p)' \subseteq Bound(p)
  <2>1. PICK q \in PoolIds :
          /\ pools' = [pools EXCEPT ![ConnectTo[host[g]]] = q]
          /\ gpool' = [gpool EXCEPT ![g] = q]
    BY <1>4 DEF GetPoolCreate
  <2>2. /\ ConnectTo[host[g]] \in ConnectHosts /\ pools[ConnectTo[host[g]]] = None
        /\ sweep.op = "none" /\ UNCHANGED sweep /\ pc' = [pc EXCEPT ![g] = "pool"]
        /\ UNCHANGED connections
    BY <1>4, ConnPoolAssumption DEF GetPoolCreate, MuFree
  <2>3. GivenUp(p)' => p # q
    BY <2>1, <2>2, ConnPoolAssumption DEF GivenUp, Listed
  <2>4. GivenUp(p)' => GivenUp(p)
    BY <2>1, <2>2, <2>3, ConnPoolAssumption DEF GivenUp, Listed
  <2>5. p # q => Bound(p)' \subseteq Bound(p)
    BY <2>1, <2>2 DEF Bound
  <2> QED
    BY <2>2, <2>3, <2>4, <2>5
<1>5. ASSUME NEW g \in Getters, GetterStep(g), ~GetPoolFound(g), ~GetPoolCreate(g),
             ~GetConnAppend(g), NEW p \in PoolIds
      PROVE  /\ connections'[p] \subseteq connections[p]
             /\ GivenUp(p)' => GivenUp(p) /\ Bound(p)' \subseteq Bound(p)
  <2>1. UNCHANGED <<pools, sweep>>
    BY <1>5 DEF GetterStep, GetPoolClosed, GetConnReuse, MarkUsed, GetConnNone, GetConnDial,
                DialOk, DialFail, Finish
  <2>2. connections'[p] \subseteq connections[p]
    BY <1>5, ConnPoolAssumption
       DEF GetterStep, GetPoolClosed, GetConnReuse, MarkUsed, GetConnNone, GetConnDial,
           DialOk, DialFail, Finish, Evict, KeptOf
  <2>3. Bound(p)' \subseteq Bound(p)
    BY <1>5, ConnPoolAssumption
       DEF GetterStep, GetPoolClosed, GetConnReuse, MarkUsed, GetConnNone, GetConnDial,
           DialOk, DialFail, Finish, Return, Bound
  <2> QED
    BY <1>a, <2>1, <2>2, <2>3
<1>6. ASSUME \/ \E c \in Conns : CloseConn(c) \/ PeerDeath(c)
             \/ Tick \/ SetProxyStore \/ UNCHANGED vars,
             NEW p \in PoolIds
      PROVE  /\ connections'[p] = connections[p]
             /\ GivenUp(p)' => GivenUp(p) /\ Bound(p)' \subseteq Bound(p)
  <2>1. UNCHANGED <<pools, sweep, connections, pc, gpool>>
    BY <1>6 DEF CloseConn, PeerDeath, Tick, SetProxyStore, vars
  <2> QED
    BY <1>a, <2>1 DEF Bound
<1>7. ASSUME CleanupBegin \/ Close \/ (\E u \in Proxies : CloseAllPools(u)) \/ SweepStep,
             NEW p \in PoolIds
      PROVE  /\ connections'[p] \subseteq connections[p]
             /\ GivenUp(p)' => connections'[p] = {}
                               \/ (GivenUp(p) /\ Bound(p)' \subseteq Bound(p))
  <2>1. connections'[p] \subseteq connections[p]
    <3>1. ASSUME NEW k \in ConnectHosts, CloseIdle(k) \/ ClosePool(k)
          PROVE  connections'[p] \subseteq connections[p]
      BY <3>1, ConnPoolAssumption DEF CloseIdle, ClosePool, Evict
    <3>2. CASE UNCHANGED connections
      BY <3>2
    <3> QED
      BY <1>7, <3>1, <3>2
         DEF CleanupBegin, SweepStep, CleanupStats, CleanupDelete, DropPools, Close, CloseAllPools
  <2>2. UNCHANGED <<pc, gpool>>
    BY <1>7
       DEF CleanupBegin, SweepStep, CleanupStats, CleanupDelete, CloseIdle, ClosePool, DropPools,
           Close, CloseAllPools
  <2>3. Bound(p)' = Bound(p)
    BY <2>2 DEF Bound
  <2>4. ASSUME CleanupBegin \/ Close \/ (\E u \in Proxies : CloseAllPools(u)), GivenUp(p)'
        PROVE  GivenUp(p)
    <3>1. /\ sweep'.op \in {"cleanup", "close", "closeAll"}
          /\ sweep'.todo = {k \in ConnectHosts : pools[k] # None} /\ UNCHANGED pools
      BY <2>4 DEF CleanupBegin, Close, CloseAllPools, NoSweep, ListedKeys
    <3> QED
      BY <2>4, <3>1, ConnPoolAssumption DEF GivenUp, Listed
  <2>5. ASSUME NEW k \in ConnectHosts, CloseIdle(k), GivenUp(p)'
        PROVE  GivenUp(p)
    <3>1. sweep'.op = "cleanup" /\ UNCHANGED pools
      BY <2>5 DEF CloseIdle, Sweeps
    <3> QED
      BY <2>5, <3>1 DEF GivenUp, Listed
  <2>6. ASSUME CleanupStats, GivenUp(p)', connections'[p] # {}
        PROVE  GivenUp(p)
    <3>1. /\ UNCHANGED <<pools, connections>>
          /\ \/ connections[pools[sweep.at]] = {} /\ sweep'.at = sweep.at
             \/ sweep'.op \in {"none", "cleanup"}
          /\ sweep'.op \in {"none", "cleanup", "delete"}
      BY <2>6 DEF CleanupStats, NextKey, NoSweep, Sweeps
    <3> QED
      BY <2>6, <3>1 DEF GivenUp, Listed
  <2>7. ASSUME CleanupDelete, GivenUp(p)'
        PROVE  GivenUp(p)
    <3>1. /\ sweep.op = "delete" /\ sweep.at \in ConnectHosts
          /\ pools' = [pools EXCEPT ![sweep.at] = None]
          /\ sweep'.op \in {"none", "cleanup"}
      BY <2>7 DEF CleanupDelete, NextKey, NoSweep, Sweeps, SweepListed
    <3> QED
      BY <2>7, <3>1 DEF GivenUp, Listed
  <2>8. ASSUME NEW k \in ConnectHosts, ClosePool(k), GivenUp(p)', connections'[p] # {}
        PROVE  GivenUp(p)
    <3>1. /\ sweep.op \in {"close", "closeAll"} /\ sweep'.op = sweep.op
          /\ sweep'.todo = sweep.todo \ {k} /\ UNCHANGED pools
          /\ connections' = [connections EXCEPT ![pools[k]] = {}]
      BY <2>8 DEF ClosePool, Evict, Sweeps
    <3>2. p # pools[k]
      BY <2>8, <3>1
    <3> QED
      BY <2>8, <3>1, <3>2 DEF GivenUp, Listed
  <2>9. ASSUME DropPools
        PROVE  GivenUp(p)
    BY <2>9 DEF DropPools, GivenUp, Listed
  <2> QED
    BY <1>7, <2>1, <2>3, <2>4, <2>5, <2>6, <2>7, <2>8, <2>9 DEF SweepStep
<1>8. CASE \E g \in Getters : GetConnAppend(g)
  BY <1>1, <1>8, AppendLate
<1>9. CASE ~\E g \in Getters : GetConnAppend(g)
  <2>1. \A p \in PoolIds :
          /\ connections'[p] \subseteq connections[p]
          /\ GivenUp(p)' => \/ connections'[p] = {}
                            \/ GivenUp(p) /\ Bound(p)' \subseteq Bound(p)
    BY <1>2, <1>3, <1>4, <1>5, <1>6, <1>7, <1>9 DEF Next
  <2>2. ListsFinite /\ LateIsBounded
    OBVIOUS
  <2>3. ListsFinite' /\ LateIsBounded'
    BY <2>1, <2>2, FewerLate
  <2> QED
    BY <1>1, <2>3
<1> QED
  BY <1>8, <1>9

\* Whatever Close, CloseAllPools and cleanup do, a pool they have given up holds
\* at most one connection per call that had it before, for any finite number of
\* goroutines and any number of pools, connections and hosts.
THEOREM LateStaysBounded ==
  ASSUME IsFiniteSet(Getters)
  PROVE  Spec => []LateIsBounded
<1>1. Init => LateInv
  <2> SUFFICES ASSUME Init
               PROVE  LateInv
    OBVIOUS
  <2>1. TypeInv
    BY TypeInit
  <2>2. \A p \in PoolIds : connections[p] = {} /\ Bound(p) = {}
    BY DEF Init, Bound
  <2>3. IsFiniteSet({}) /\ Cardinality({}) = 0 /\ Cardinality(Getters) \in Nat
    BY FS_EmptySet, FS_CardinalityType
  <2>4. ListsFinite
    BY <2>2, <2>3 DEF ListsFinite
  <2>5. \A p \in PoolIds :
          Cardinality(connections[p]) + Cardinality(Bound(p)) <= Cardinality(Getters)
    BY <2>2, <2>3
  <2> QED
    BY <2>1, <2>4, <2>5 DEF LateInv, LateIsBounded
<1>2. LateInv /\ [Next]_vars => LateInv'
  BY LateStep
<1>3. LateInv => LateIsBounded
  BY DEF LateInv
<1> QED
  BY <1>1, <1>2, <1>3, PTL DEF Spec

-----------------------------------------------------------------------------
(* DnsCache                                                                *)

AddressEntry == [ips: Zones, expired: BOOLEAN]

QueryRecords ==
  [pc : {"idle", "lookup", "store", "done", "ask", "keep", "echDone"},
   saw : {NoEntry} \cup AddressEntry \cup EchEntry, ips : Zones \cup {<<>>},
   left : Nat, err : BOOLEAN, since : Nat, config : 0 .. MaxVersion]

\* A call under way, when now is the version of the HTTPS record: what it has
\* seen is an entry of the cache it asks, and what it is about to keep is not
\* older than the call.
QueryOK(q, now) ==
  /\ q.pc \in {"store", "done"} => q.ips \in Zones
  /\ q.pc = "lookup" => q.saw = NoEntry \/ q.saw \in AddressEntry
  /\ q.pc = "ask" => (q.saw = NoEntry \/ q.saw \in EchEntry) /\ q.since <= now
  /\ q.pc = "keep" => q.config \in Version /\ q.config >= q.since
  /\ q.pc = "echDone" /\ q.config # 0 => q.config >= q.since \/ (q.err /\ q.left = 0)

DnsIInv ==
  /\ zone \in Zones
  /\ https \in [version: Version, ech: BOOLEAN]
  /\ preferIPv4 \in BOOLEAN
  /\ entry = NoEntry \/ entry \in AddressEntry
  /\ echEntry = NoEntry \/ echEntry \in EchEntry
  /\ query \in [Resolvers -> QueryRecords]
  /\ \A r \in Resolvers : QueryOK(query[r], https.version)

LEMMA NoQueryOK == NoQuery \in QueryRecords /\ \A now : QueryOK(NoQuery, now)
<1>1. 0 \in 0 .. MaxVersion
  BY DnsAssumption
<1>2. NoQuery \in QueryRecords
  BY <1>1 DEF NoQuery, QueryRecords
<1> QED
  BY <1>2 DEF NoQuery, QueryOK

\* One call moved, and is as it should be.
LEMMA OneQuery ==
  ASSUME DnsIInv, NEW r \in Resolvers, NEW q \in QueryRecords, QueryOK(q, https.version),
         query' = [query EXCEPT ![r] = q], UNCHANGED <<zone, https, preferIPv4>>,
         entry' = NoEntry \/ entry' \in AddressEntry,
         echEntry' = NoEntry \/ echEntry' \in EchEntry
  PROVE  DnsIInv'
<1>1. query' \in [Resolvers -> QueryRecords]
  BY DEF DnsIInv
<1>2. \A s \in Resolvers : QueryOK(query'[s], https.version)
  <2> SUFFICES ASSUME NEW s \in Resolvers PROVE QueryOK(query'[s], https.version)
    OBVIOUS
  <2>1. query'[s] = IF s = r THEN q ELSE query[s]
    BY DEF DnsIInv
  <2> QED
    BY <2>1 DEF DnsIInv
<1>3. https' = https /\ zone' = zone /\ preferIPv4' = preferIPv4
  OBVIOUS
<1> QED
  BY <1>1, <1>2, <1>3 DEF DnsIInv, QueryOK

\* Calls that only read the caches and change nothing but the call itself.
LEMMA QueryStep ==
  ASSUME DnsIInv, NEW r \in Resolvers, NEW q \in QueryRecords, QueryOK(q, https.version),
         query' = [query EXCEPT ![r] = q], UNCHANGED <<zone, https, preferIPv4, entry, echEntry>>
  PROVE  DnsIInv'
<1>1. (entry' = NoEntry \/ entry' \in AddressEntry) /\ (echEntry' = NoEntry \/ echEntry' \in EchEntry)
  BY DEF DnsIInv
<1> QED
  BY <1>1, OneQuery

LEMMA DnsIInvInit == DnsInit => DnsIInv
<1> SUFFICES ASSUME DnsInit PROVE DnsIInv
  OBVIOUS
<1>1. 1 \in Version
  BY DnsAssumption DEF Version
<1>2. https \in [version: Version, ech: BOOLEAN]
  BY <1>1 DEF DnsInit
<1>3. query \in [Resolvers -> QueryRecords] /\ \A r \in Resolvers : query[r] = NoQuery
  BY NoQueryOK DEF DnsInit
<1>4. \A r \in Resolvers : QueryOK(query[r], https.version)
  BY <1>3, NoQueryOK
<1> QED
  BY <1>2, <1>3, <1>4 DEF DnsInit, DnsIInv

\* The address cache.
LEMMA AddressStep ==
  ASSUME DnsIInv, AddressNext
  PROVE  DnsIInv'
<1>1. ASSUME NEW r \in Resolvers, ResolveRead(r)
      PROVE  DnsIInv'
  <2> DEFINE hit == entry # NoEntry /\ ~entry.expired
             a == [NoQuery EXCEPT !.pc = "done", !.ips = entry.ips]
             b == [NoQuery EXCEPT !.pc = "lookup", !.saw = entry]
  <2>1. UNCHANGED <<zone, https, preferIPv4, entry, echEntry>>
        /\ query' = [query EXCEPT ![r] = IF hit THEN a ELSE b]
    BY <1>1 DEF ResolveRead
  <2>2. CASE hit
    <3>1. entry.ips \in Zones
      BY <2>2 DEF DnsIInv, AddressEntry
    <3>2. a \in QueryRecords
      BY <3>1, NoQueryOK DEF QueryRecords
    <3>3. a.pc = "done" /\ a.ips \in Zones
      BY <3>1, NoQueryOK DEF NoQuery
    <3>4. query' = [query EXCEPT ![r] = a]
      BY <2>1, <2>2
    <3> HIDE DEF a
    <3>5. QueryOK(a, https.version)
      BY <3>3 DEF QueryOK
    <3> QED
      BY <2>1, <3>2, <3>4, <3>5, QueryStep
  <2>3. CASE ~hit
    <3>1. entry = NoEntry \/ entry \in AddressEntry
      BY DEF DnsIInv
    <3>2. b \in QueryRecords
      BY <3>1, NoQueryOK DEF QueryRecords
    <3>3. b.pc = "lookup" /\ b.saw = entry
      BY NoQueryOK DEF NoQuery
    <3>4. query' = [query EXCEPT ![r] = b]
      BY <2>1, <2>3
    <3> HIDE DEF b
    <3>5. QueryOK(b, https.version)
      BY <3>1, <3>3 DEF QueryOK
    <3> QED
      BY <2>1, <3>2, <3>4, <3>5, QueryStep
  <2> QED
    BY <2>2, <2>3
<1>2. ASSUME NEW r \in Resolvers, Lookup(r)
      PROVE  DnsIInv'
  <2> DEFINE q == [query[r] EXCEPT !.pc = "store", !.ips = zone]
  <2>1. UNCHANGED <<zone, https, preferIPv4, entry, echEntry>>
        /\ query' = [query EXCEPT ![r] = q]
    BY <1>2 DEF Lookup, DnsIInv
  <2>2. query[r] \in QueryRecords /\ zone \in Zones
    BY DEF DnsIInv
  <2>3. q \in QueryRecords
    BY <2>2 DEF QueryRecords
  <2>4. q.pc = "store" /\ q.ips \in Zones
    BY <2>2 DEF QueryRecords
  <2> HIDE DEF q
  <2>5. QueryOK(q, https.version)
    BY <2>4 DEF QueryOK
  <2> QED
    BY <2>1, <2>3, <2>5, QueryStep
<1>3. ASSUME NEW r \in Resolvers, LookupFails(r)
      PROVE  DnsIInv'
  <2> DEFINE saw == query[r].saw
             a == [NoQuery EXCEPT !.pc = "done", !.ips = saw.ips]
  <2>1. UNCHANGED <<zone, https, preferIPv4, entry, echEntry>>
        /\ query' = [query EXCEPT ![r] = IF saw # NoEntry THEN a ELSE NoQuery]
    BY <1>3 DEF LookupFails
  <2>2. saw = NoEntry \/ saw \in AddressEntry
    BY <1>3 DEF LookupFails, DnsIInv, QueryOK
  <2>3. CASE saw # NoEntry
    <3>1. saw.ips \in Zones
      BY <2>2, <2>3 DEF AddressEntry
    <3>2. query' = [query EXCEPT ![r] = a]
      BY <2>1, <2>3
    <3> HIDE DEF saw
    <3>3. a \in QueryRecords
      BY <3>1, NoQueryOK DEF QueryRecords
    <3>4. a.pc = "done" /\ a.ips \in Zones
      BY <3>1 DEF NoQuery
    <3> HIDE DEF a
    <3>5. QueryOK(a, https.version)
      BY <3>4 DEF QueryOK
    <3> QED
      BY <2>1, <3>2, <3>3, <3>5, QueryStep
  <2>4. CASE saw = NoEntry
    <3>1. query' = [query EXCEPT ![r] = NoQuery]
      BY <2>1, <2>4
    <3> QED
      BY <2>1, <3>1, NoQueryOK, QueryStep
  <2> QED
    BY <2>3, <2>4
<1>4. ASSUME NEW r \in Resolvers, ResolveStore(r)
      PROVE  DnsIInv'
  <2> DEFINE q == [query[r] EXCEPT !.pc = "done"]
  <2>1. /\ query[r].pc = "store" /\ UNCHANGED <<zone, https, preferIPv4, echEntry>>
        /\ entry' = [ips |-> query[r].ips, expired |-> FALSE]
        /\ query' = [query EXCEPT ![r] = q]
    BY <1>4 DEF ResolveStore, DnsIInv
  <2>2. query[r] \in QueryRecords /\ query[r].ips \in Zones
    BY <2>1 DEF DnsIInv, QueryOK
  <2>3. q \in QueryRecords
    BY <2>2 DEF QueryRecords
  <2>4. q.pc = "done" /\ q.ips \in Zones
    BY <2>2 DEF QueryRecords
  <2>5. entry' \in AddressEntry
    BY <2>1, <2>2 DEF AddressEntry
  <2>6. echEntry' = NoEntry \/ echEntry' \in EchEntry
    BY <2>1 DEF DnsIInv
  <2> HIDE DEF q
  <2>7. QueryOK(q, https.version)
    BY <2>4 DEF QueryOK
  <2> QED
    BY <2>1, <2>3, <2>5, <2>6, <2>7, OneQuery
<1>5. ASSUME NEW r \in Resolvers, ResolveReturns(r)
      PROVE  DnsIInv'
  BY <1>5, NoQueryOK, QueryStep DEF ResolveReturns
<1>6. CASE Invalidate \/ CleanupEntries
  BY <1>6 DEF Invalidate, CleanupEntries, DnsIInv
<1>7. CASE Expires
  <2>1. entry \in AddressEntry
    BY <1>7 DEF Expires, DnsIInv
  <2>2. entry' \in AddressEntry
    BY <1>7, <2>1 DEF Expires, AddressEntry
  <2> QED
    BY <1>7, <2>2 DEF Expires, DnsIInv
<1>8. CASE ZoneChanges
  BY <1>8 DEF ZoneChanges, DnsIInv
<1>9. ASSUME NEW four \in BOOLEAN, SetPreferIPv4(four)
      PROVE  DnsIInv'
  BY <1>9 DEF SetPreferIPv4, DnsIInv
<1> QED
  BY <1>1, <1>2, <1>3, <1>4, <1>5, <1>6, <1>7, <1>8, <1>9 DEF AddressNext

\* The cache of ECH configurations.
LEMMA EchStep ==
  ASSUME DnsIInv, EchNext
  PROVE  DnsIInv'
<1>0. https.version \in Version /\ https.version \in Nat /\ https.ech \in BOOLEAN
      /\ https.version \in 0 .. MaxVersion /\ 0 \in 0 .. MaxVersion /\ Servers \in Nat
      /\ \A v \in Version : v \in 0 .. MaxVersion /\ v \in Nat
  BY DnsAssumption DEF DnsIInv, Version
<1>1. ASSUME NEW r \in Resolvers, EchRead(r)
      PROVE  DnsIInv'
  <2> DEFINE hit == echEntry # NoEntry /\ ~echEntry.expired
             a == [NoQuery EXCEPT !.pc = "echDone", !.config = echEntry.config]
             b == [NoQuery EXCEPT !.pc = "ask", !.saw = echEntry, !.left = Servers,
                                  !.since = https.version]
  <2>1. UNCHANGED <<zone, https, preferIPv4, entry, echEntry>>
        /\ query' = [query EXCEPT ![r] = IF hit THEN a ELSE b]
    BY <1>1 DEF EchRead
  <2>2. CASE hit
    <3>1. echEntry.config \in Version
      BY <2>2 DEF DnsIInv, EchEntry
    <3>2. echEntry.config \in 0 .. MaxVersion /\ echEntry.config \in Nat
      BY <1>0, <3>1
    <3>3. a \in QueryRecords
      BY <3>2, NoQueryOK DEF QueryRecords
    <3>4. a.pc = "echDone" /\ a.config \in Nat /\ a.since = 0
      BY <3>2 DEF NoQuery
    <3>5. query' = [query EXCEPT ![r] = a]
      BY <2>1, <2>2
    <3> HIDE DEF a
    <3>6. QueryOK(a, https.version)
      BY <3>4 DEF QueryOK
    <3> QED
      BY <2>1, <3>3, <3>5, <3>6, QueryStep
  <2>3. CASE ~hit
    <3>1. echEntry = NoEntry \/ echEntry \in EchEntry
      BY DEF DnsIInv
    <3>2. b \in QueryRecords
      BY <1>0, <3>1, NoQueryOK DEF QueryRecords
    <3>3. b.pc = "ask" /\ b.saw = echEntry /\ b.since = https.version
      BY DEF NoQuery
    <3>4. query' = [query EXCEPT ![r] = b]
      BY <2>1, <2>3
    <3> HIDE DEF b
    <3>5. QueryOK(b, https.version)
      BY <1>0, <3>1, <3>3 DEF QueryOK
    <3> QED
      BY <2>1, <3>2, <3>4, <3>5, QueryStep
  <2> QED
    BY <2>2, <2>3
<1>2. ASSUME NEW r \in Resolvers, EchServerFails(r)
      PROVE  DnsIInv'
  <2>1. query[r] \in QueryRecords /\ query[r].pc = "ask" /\ query[r].left \in Nat
        /\ query[r].left > 0 /\ query[r].err \in BOOLEAN /\ QueryOK(query[r], https.version)
    BY <1>2 DEF EchServerFails, DnsIInv, QueryRecords
  <2>2. PICK l \in Nat, e \in BOOLEAN :
          query' = [query EXCEPT ![r] = [query[r] EXCEPT !.left = l, !.err = e]]
    <3>1. PICK err \in BOOLEAN : query' = [query EXCEPT ![r].left = @ - 1, ![r].err = @ \/ err]
      BY <1>2 DEF EchServerFails
    <3>2. query[r].left - 1 \in Nat /\ (query[r].err \/ err) \in BOOLEAN
      BY <2>1
    <3>3. query' = [query EXCEPT ![r] =
            [query[r] EXCEPT !.left = query[r].left - 1, !.err = query[r].err \/ err]]
      BY <2>1, <3>1 DEF DnsIInv, QueryRecords
    <3> QED
      BY <3>2, <3>3
  <2> DEFINE q == [query[r] EXCEPT !.left = l, !.err = e]
  <2>3. q \in QueryRecords
    BY <2>1 DEF QueryRecords
  <2>4. q.pc = "ask" /\ q.saw = query[r].saw /\ q.since = query[r].since
    BY <2>1 DEF QueryRecords
  <2>5. UNCHANGED <<zone, https, preferIPv4, entry, echEntry>>
    BY <1>2 DEF EchServerFails
  <2>6. query' = [query EXCEPT ![r] = q]
    BY <2>2
  <2> HIDE DEF q
  <2>7. QueryOK(q, https.version)
    BY <2>1, <2>4 DEF QueryOK
  <2> QED
    BY <2>3, <2>5, <2>6, <2>7, QueryStep
<1>3. ASSUME NEW r \in Resolvers, EchAnswer(r)
      PROVE  DnsIInv'
  <2> DEFINE p == IF https.ech THEN "keep" ELSE "echDone"
             c == RecordConfig(query[r])
             q == [query[r] EXCEPT !.pc = p, !.config = c]
  <2>1. UNCHANGED <<zone, https, preferIPv4, entry, echEntry>>
        /\ query' = [query EXCEPT ![r] = q]
    BY <1>3 DEF EchAnswer, DnsIInv
  <2>2. query[r] \in QueryRecords /\ query[r].since \in Nat /\ query[r].since <= https.version
    BY <1>3 DEF EchAnswer, DnsIInv, QueryOK, QueryRecords
  <2>3. p \in {"keep", "echDone"} /\ c \in 0 .. MaxVersion
    BY <1>0 DEF RecordConfig
  <2>4. IF https.ech THEN p = "keep" /\ c = https.version ELSE p = "echDone" /\ c = 0
    BY DEF RecordConfig
  <2> HIDE DEF p, c
  <2>5. q \in QueryRecords
    BY <2>2, <2>3 DEF QueryRecords
  <2>6. q.pc = p /\ q.config = c /\ q.since = query[r].since
    BY <2>2 DEF QueryRecords
  <2> HIDE DEF q
  <2>7. QueryOK(q, https.version)
    <3>1. CASE https.ech
      BY <1>0, <2>2, <2>4, <2>6, <3>1 DEF QueryOK
    <3>2. CASE ~https.ech
      BY <2>4, <2>6, <3>2 DEF QueryOK
    <3> QED
      BY <1>0, <3>1, <3>2
  <2> QED
    BY <2>1, <2>5, <2>7, QueryStep
<1>4. ASSUME NEW r \in Resolvers, EchNoServer(r)
      PROVE  DnsIInv'
  <2> DEFINE c == IF query[r].err THEN SeenConfig(query[r]) ELSE 0
             q == [query[r] EXCEPT !.pc = "echDone", !.config = c]
  <2>1. UNCHANGED <<zone, https, preferIPv4, entry, echEntry>> /\ query[r].left = 0
        /\ query' = [query EXCEPT ![r] = q]
    BY <1>4 DEF EchNoServer, DnsIInv
  <2>2. query[r] \in QueryRecords /\ (query[r].saw = NoEntry \/ query[r].saw \in EchEntry)
    BY <1>4 DEF EchNoServer, DnsIInv, QueryOK
  <2>3. c \in 0 .. MaxVersion /\ (c # 0 => query[r].err)
    <3>1. SeenConfig(query[r]) \in 0 .. MaxVersion
      BY <1>0, <2>2 DEF SeenConfig, EchEntry
    <3> QED
      BY <1>0, <3>1
  <2> HIDE DEF c
  <2>4. q \in QueryRecords
    BY <2>2, <2>3 DEF QueryRecords
  <2>5. q.pc = "echDone" /\ q.config = c /\ q.err = query[r].err /\ q.left = 0
    BY <2>1, <2>2 DEF QueryRecords
  <2> HIDE DEF q
  <2>6. QueryOK(q, https.version)
    BY <2>3, <2>5 DEF QueryOK
  <2> QED
    BY <2>1, <2>4, <2>6, QueryStep
<1>5. ASSUME NEW r \in Resolvers, EchStore(r)
      PROVE  DnsIInv'
  <2> DEFINE q == [query[r] EXCEPT !.pc = "echDone"]
  <2>1. /\ query[r].pc = "keep" /\ UNCHANGED <<zone, https, preferIPv4, entry>>
        /\ echEntry' = [config |-> query[r].config, expired |-> FALSE]
        /\ query' = [query EXCEPT ![r] = q]
    BY <1>5 DEF EchStore, DnsIInv
  <2>2. query[r] \in QueryRecords /\ query[r].config \in Version
        /\ query[r].config >= query[r].since
    BY <2>1 DEF DnsIInv, QueryOK
  <2>3. q \in QueryRecords
    BY <2>2 DEF QueryRecords
  <2>4. q.pc = "echDone" /\ q.config = query[r].config /\ q.since = query[r].since
    BY <2>2 DEF QueryRecords
  <2>5. echEntry' \in EchEntry
    BY <2>1, <2>2 DEF EchEntry
  <2>6. entry' = NoEntry \/ entry' \in AddressEntry
    BY <2>1 DEF DnsIInv
  <2> HIDE DEF q
  <2>7. QueryOK(q, https.version)
    BY <2>2, <2>4 DEF QueryOK
  <2> QED
    BY <2>1, <2>3, <2>5, <2>6, <2>7, OneQuery
<1>6. ASSUME NEW r \in Resolvers, EchReturns(r)
      PROVE  DnsIInv'
  BY <1>6, NoQueryOK, QueryStep DEF EchReturns
<1>7. CASE EchExpires
  <2>1. echEntry \in EchEntry
    BY <1>7 DEF EchExpires, DnsIInv
  <2>2. echEntry' \in EchEntry
    BY <1>7, <2>1 DEF EchExpires, EchEntry
  <2> QED
    BY <1>7, <2>2 DEF EchExpires, DnsIInv
<1>8. CASE RecordChanges
  <2>1. PICK b \in BOOLEAN : https' = [version |-> https.version + 1, ech |-> b]
    BY <1>8 DEF RecordChanges
  <2>2. https.version + 1 \in Version
    BY <1>0, <1>8, DnsAssumption DEF RecordChanges, Version
  <2>3. https' \in [version: Version, ech: BOOLEAN] /\ https'.version = https.version + 1
    BY <2>1, <2>2
  <2>4. UNCHANGED <<zone, preferIPv4, entry, echEntry, query>>
    BY <1>8 DEF RecordChanges
  <2>5. \A r \in Resolvers : QueryOK(query[r], https.version + 1)
    <3> SUFFICES ASSUME NEW r \in Resolvers PROVE QueryOK(query[r], https.version + 1)
      OBVIOUS
    <3>1. QueryOK(query[r], https.version) /\ query[r].since \in Nat
      BY DEF DnsIInv, QueryRecords
    <3> QED
      BY <1>0, <3>1 DEF QueryOK
  <2> QED
    BY <2>3, <2>4, <2>5 DEF DnsIInv, QueryOK
<1> QED
  BY <1>1, <1>2, <1>3, <1>4, <1>5, <1>6, <1>7, <1>8 DEF EchNext

LEMMA DnsIInvStep == DnsIInv /\ [DnsNext]_dnsVars => DnsIInv'
<1>1. ASSUME DnsIInv, UNCHANGED dnsVars
      PROVE  DnsIInv'
  BY <1>1 DEF DnsIInv, dnsVars
<1> QED
  BY <1>1, AddressStep, EchStep DEF DnsNext

\* However lookups, changes of the zone and of the HTTPS record, expiry,
\* Invalidate and Cleanup are interleaved: Resolve returns and stores only what
\* the name resolved to, and FetchECHConfigs returns a configuration older than
\* the call only from a live entry, or when a server could not be reached.
THEOREM EchStaysCurrent == DnsSpec => []DnsTypeOK /\ []EchCurrent
<1>1. DnsIInv => DnsTypeOK /\ EchCurrent
  <2> SUFFICES ASSUME DnsIInv PROVE DnsTypeOK /\ EchCurrent
    OBVIOUS
  <2>1. \A r \in Resolvers : query[r] \in QueryRecords /\ QueryOK(query[r], https.version)
    BY DEF DnsIInv
  <2>2. \A r \in Resolvers :
          /\ query[r].pc \in {"idle", "lookup", "store", "done", "ask", "keep", "echDone"}
          /\ query[r].pc = "done" => query[r].ips \in Zones
          /\ query[r].config \in 0 .. MaxVersion
    BY <2>1 DEF QueryRecords, QueryOK
  <2>3. EchCurrent
    BY <2>1 DEF EchCurrent, QueryOK
  <2> QED
    BY <2>2, <2>3 DEF DnsIInv, DnsTypeOK, AddressEntry
<1>2. DnsIInv /\ [DnsNext]_dnsVars => DnsIInv'
  BY DnsIInvStep
<1> QED
  BY <1>1, <1>2, DnsIInvInit, PTL DEF DnsSpec

-----------------------------------------------------------------------------
(* DnsCache: what ResolveAllSorted returns                                 *)

\* Addresses, and those of one family.
Addresses == {4, 6} \X Nat
Family(f) == {f} \X Nat

Least(m, n) == IF m < n THEN m ELSE n

\* What NextOf appends to a list.
Plus(T, R, a, m) ==
  /\ \A k \in 1 .. Len(R) : T[k] = R[k]
  /\ m <= Len(a) => Len(T) = Len(R) + 1 /\ T[Len(R) + 1] = a[m]
  /\ ~(m <= Len(a)) => T = R

LEMMA NextAdds ==
  ASSUME NEW C, NEW R \in Seq(C), NEW a \in Seq(C), NEW m \in Nat \ {0}
  PROVE  R \o NextOf(a, m) \in Seq(C) /\ Plus(R \o NextOf(a, m), R, a, m)
<1> DEFINE l == Len(R)
<1>1. l \in Nat /\ Len(a) \in Nat
  OBVIOUS
<1>2. CASE m <= Len(a)
  <2>1. NextOf(a, m) = <<a[m]>> /\ a[m] \in C
    BY <1>1, <1>2 DEF NextOf
  <2>2. PICK T \in Seq(C) : T = Append(R, a[m])
    <3>1. Append(R, a[m]) \in Seq(C)
      BY <2>1
    <3> QED
      BY <3>1
  <2>3. R \o NextOf(a, m) = T
    BY <2>1, <2>2
  <2>4. Len(T) = l + 1 /\ T[l + 1] = a[m] /\ \A k \in 1 .. l : T[k] = R[k]
    BY <2>1, <2>2
  <2> QED
    BY <1>2, <2>3, <2>4 DEF Plus
<1>3. CASE ~(m <= Len(a))
  <2>1. NextOf(a, m) = <<>> /\ R \o <<>> = R
    BY <1>3, ConcatEmptySeq DEF NextOf
  <2> QED
    BY <1>3, <2>1 DEF Plus
<1> QED
  BY <1>2, <1>3

\* What a turn appends.
Appends(T, R, a, b, m) ==
  /\ \A k \in 1 .. Len(R) : T[k] = R[k]
  /\ m <= Len(a) /\ m <= Len(b) =>
       Len(T) = Len(R) + 2 /\ T[Len(R) + 1] = a[m] /\ T[Len(R) + 2] = b[m]
  /\ m <= Len(a) /\ ~(m <= Len(b)) => Len(T) = Len(R) + 1 /\ T[Len(R) + 1] = a[m]
  /\ ~(m <= Len(a)) /\ m <= Len(b) => Len(T) = Len(R) + 1 /\ T[Len(R) + 1] = b[m]

LEMMA TurnAdds ==
  ASSUME NEW C, NEW R \in Seq(C), NEW a \in Seq(C), NEW b \in Seq(C), NEW m \in Nat \ {0}
  PROVE  /\ R \o NextOf(a, m) \o NextOf(b, m) \in Seq(C)
         /\ Appends(R \o NextOf(a, m) \o NextOf(b, m), R, a, b, m)
<1>1. PICK S \in Seq(C) : S = R \o NextOf(a, m) /\ Plus(S, R, a, m)
  BY NextAdds
<1>2. PICK T \in Seq(C) : T = S \o NextOf(b, m) /\ Plus(T, S, b, m)
  BY NextAdds
<1>3. Len(R) \in Nat /\ Len(S) \in Nat /\ Len(T) \in Nat
  OBVIOUS
<1>4. Appends(T, R, a, b, m)
  <2>1. \A k \in 1 .. Len(R) : T[k] = R[k]
    BY <1>1, <1>2, <1>3 DEF Plus
  <2>2. m <= Len(a) /\ m <= Len(b) =>
          Len(T) = Len(R) + 2 /\ T[Len(R) + 1] = a[m] /\ T[Len(R) + 2] = b[m]
    <3> SUFFICES ASSUME m <= Len(a), m <= Len(b)
                 PROVE  Len(T) = Len(R) + 2 /\ T[Len(R) + 1] = a[m] /\ T[Len(R) + 2] = b[m]
      OBVIOUS
    <3>1. Len(S) = Len(R) + 1 /\ S[Len(R) + 1] = a[m]
      BY <1>1 DEF Plus
    <3>2. Len(T) = Len(S) + 1 /\ T[Len(S) + 1] = b[m] /\ \A k \in 1 .. Len(S) : T[k] = S[k]
      BY <1>2 DEF Plus
    <3>3. Len(R) + 1 \in 1 .. Len(S) /\ Len(S) + 1 = Len(R) + 2
      BY <1>3, <3>1
    <3> QED
      BY <3>1, <3>2, <3>3
  <2>3. m <= Len(a) /\ ~(m <= Len(b)) => Len(T) = Len(R) + 1 /\ T[Len(R) + 1] = a[m]
    BY <1>1, <1>2 DEF Plus
  <2>4. ~(m <= Len(a)) /\ m <= Len(b) => Len(T) = Len(R) + 1 /\ T[Len(R) + 1] = b[m]
    BY <1>1, <1>2 DEF Plus
  <2> QED
    BY <2>1, <2>2, <2>3, <2>4 DEF Appends
<1> QED
  BY <1>1, <1>2, <1>4

\* One more of a list's elements.
LEMMA NextTaken ==
  ASSUME NEW C, NEW s \in Seq(C), NEW n \in Nat
  PROVE  SubSeq(s, 1, Least(n, Len(s))) \o NextOf(s, n + 1) = SubSeq(s, 1, Least(n + 1, Len(s)))
<1>1. Len(s) \in Nat
  OBVIOUS
<1>2. CASE n + 1 <= Len(s)
  <2>1. 1 \in 1 .. Len(s) /\ n + 1 \in 1 .. Len(s)
    BY <1>1, <1>2
  <2>2. SubSeq(s, 1, n + 1) = SubSeq(s, 1, n + 1 - 1) \o <<s[n + 1]>>
    BY <2>1, SubSeqRecursiveSecond
  <2>3. Least(n, Len(s)) = n /\ Least(n + 1, Len(s)) = n + 1 /\ n + 1 - 1 = n
    BY <1>1, <1>2 DEF Least
  <2> QED
    BY <1>2, <2>2, <2>3 DEF NextOf
<1>3. CASE ~(n + 1 <= Len(s))
  <2>1. Least(n, Len(s)) = Len(s) /\ Least(n + 1, Len(s)) = Len(s)
    BY <1>1, <1>3 DEF Least
  <2>2. NextOf(s, n + 1) = <<>> /\ SubSeq(s, 1, Len(s)) = s /\ s \o <<>> = s
    BY <1>3, SubSeqFull, ConcatEmptySeq DEF NextOf
  <2> QED
    BY <2>1, <2>2
<1> QED
  BY <1>2, <1>3

\* The list after n turns of two families' lists: each in its order ...
InOrder(R, a, b, fa, fb, n) ==
  /\ R \in Seq(Addresses)
  /\ FilterSeq(R, Family(fa)) = SubSeq(a, 1, Least(n, Len(a)))
  /\ FilterSeq(R, Family(fb)) = SubSeq(b, 1, Least(n, Len(b)))

\* ... the families changing until Cut, and one of them from there on ...
Cut(a, b) == IF Len(a) > Len(b) THEN 2 * Len(b) + 1 ELSE 2 * Len(a)

Changing(R, a, b, fa, fb, n) ==
  /\ Len(R) = Least(n, Len(a)) + Least(n, Len(b))
  /\ \A k \in 1 .. Len(R) - 1 : k < Cut(a, b) => R[k][1] # R[k + 1][1]
  /\ \A k \in 1 .. Len(R) : k >= Cut(a, b) => R[k][1] = IF Len(a) > Len(b) THEN fa ELSE fb
  /\ n > 0 /\ n <= Len(a) /\ n <= Len(b) => R[Len(R)][1] = fb

\* ... beginning with the first family, if it has an address.
Begins(R, a, b, n) ==
  n > 0 /\ Turns(a, b) > 0 => R # <<>> /\ R[1] = IF a # <<>> THEN a[1] ELSE b[1]

LEMMA OrderTurn ==
  ASSUME NEW fa \in {4, 6}, NEW fb \in {4, 6}, fa # fb,
         NEW a \in Seq(Family(fa)), NEW b \in Seq(Family(fb)), NEW n \in Nat,
         NEW R, InOrder(R, a, b, fa, fb, n)
  PROVE  InOrder(R \o NextOf(a, n + 1) \o NextOf(b, n + 1), a, b, fa, fb, n + 1)
<1> DEFINE x == NextOf(a, n + 1)
           y == NextOf(b, n + 1)
           S == R \o x
           A == Family(fa)
           B == Family(fb)
<1>1. x \in Seq(A) /\ y \in Seq(B)
  BY DEF NextOf
<1>2. A \subseteq Addresses /\ B \subseteq Addresses /\ A \cap B = {}
  BY DEF Family, Addresses
<1>3. x \in Seq(Addresses) /\ y \in Seq(Addresses)
  <2> HIDE DEF x, y, A, B
  <2> QED
    BY <1>1, <1>2
<1>4. R \in Seq(Addresses)
  BY DEF InOrder
<1>5. S \in Seq(Addresses) /\ S \o y \in Seq(Addresses)
  <2> HIDE DEF x, y
  <2> QED
    BY <1>3, <1>4, ConcatProperties
<1>6. ToSet(x) \subseteq A /\ ToSet(y) \subseteq B
  <2> HIDE DEF x, y, A, B
  <2> QED
    BY <1>1 DEF ToSet
<1>7. ASSUME NEW K
      PROVE  FilterSeq(S \o y, K) = FilterSeq(R, K) \o FilterSeq(x, K) \o FilterSeq(y, K)
  <2> HIDE DEF x, y
  <2>1. FilterSeq(S \o y, K) = FilterSeq(S, K) \o FilterSeq(y, K)
    <3> HIDE DEF S
    <3> QED
      BY <1>3, <1>5, FilterConcat, SMTT(60)
  <2>2. FilterSeq(S, K) = FilterSeq(R, K) \o FilterSeq(x, K)
    BY <1>3, <1>4, FilterConcat, SMTT(60)
  <2> QED
    BY <2>1, <2>2
<1>8. FilterSeq(x, A) = x /\ FilterSeq(y, B) = y /\ FilterSeq(x, B) = <<>> /\ FilterSeq(y, A) = <<>>
  <2> HIDE DEF x, y, A, B
  <2>1. ToSet(x) \cap B = {} /\ ToSet(y) \cap A = {}
    BY <1>2, <1>6
  <2> QED
    BY <1>3, <1>6, <2>1, FilterAll, FilterNone
<1> DEFINE ra == SubSeq(a, 1, Least(n, Len(a)))
           rb == SubSeq(b, 1, Least(n, Len(b)))
<1>9. FilterSeq(R, A) = ra /\ FilterSeq(R, B) = rb
  BY DEF InOrder
<1>10. ra \o x = SubSeq(a, 1, Least(n + 1, Len(a))) /\ rb \o y = SubSeq(b, 1, Least(n + 1, Len(b)))
  BY NextTaken
<1>11. ra \in Seq(Addresses) /\ rb \in Seq(Addresses)
  <2>1. FilterSeq(R, A) \in Seq(Addresses) /\ FilterSeq(R, B) \in Seq(Addresses)
    BY <1>4, FilterKeeps
  <2> QED
    BY <1>9, <2>1
<1> HIDE DEF ra, rb, x, y, A, B
<1>12. ra \o x \in Seq(Addresses)
  BY <1>3, <1>11, ConcatProperties
<1> HIDE DEF S
<1>13. FilterSeq(S \o y, A) = ra \o x
  <2>1. FilterSeq(S \o y, A) = ra \o x \o <<>>
    BY <1>7, <1>8, <1>9
  <2> DEFINE z == ra \o x
  <2>2. z \in Seq(Addresses)
    BY <1>12
  <2> HIDE DEF z
  <2>3. z \o <<>> = z
    BY <2>2, ConcatEmptySeq
  <2> QED
    BY <2>1, <2>3 DEF z
<1>14. FilterSeq(S \o y, B) = rb \o y
  <2>1. FilterSeq(S \o y, B) = rb \o <<>> \o y
    BY <1>7, <1>8, <1>9
  <2>2. rb \o <<>> = rb
    BY <1>11, ConcatEmptySeq
  <2> QED
    BY <2>1, <2>2
<1> QED
  BY <1>5, <1>10, <1>13, <1>14 DEF InOrder, S, x, y, A, B

LEMMA ChangingTurn ==
  ASSUME NEW fa \in {4, 6}, NEW fb \in {4, 6}, fa # fb,
         NEW a \in Seq(Family(fa)), NEW b \in Seq(Family(fb)), NEW n \in Nat, n < Turns(a, b),
         NEW R \in Seq(Addresses), Changing(R, a, b, fa, fb, n)
  PROVE  Changing(R \o NextOf(a, n + 1) \o NextOf(b, n + 1), a, b, fa, fb, n + 1)
<1> DEFINE p == Len(a)
           q == Len(b)
           l == Len(R)
           T == R \o NextOf(a, n + 1) \o NextOf(b, n + 1)
<1>1. p \in Nat /\ q \in Nat /\ l \in Nat /\ n + 1 \in Nat \ {0}
  OBVIOUS
<1>2. a \in Seq(Addresses) /\ b \in Seq(Addresses)
  <2>1. Family(fa) \subseteq Addresses /\ Family(fb) \subseteq Addresses
    BY DEF Family, Addresses
  <2> QED
    BY <2>1
<1>3. (\A k \in 1 .. p : a[k][1] = fa) /\ (\A k \in 1 .. q : b[k][1] = fb)
  <2>1. (\A k \in 1 .. p : a[k] \in Family(fa)) /\ (\A k \in 1 .. q : b[k] \in Family(fb))
    OBVIOUS
  <2> QED
    BY <2>1 DEF Family
<1>4. /\ T \in Seq(Addresses) /\ \A k \in 1 .. l : T[k] = R[k]
      /\ n + 1 <= p /\ n + 1 <= q => Len(T) = l + 2 /\ T[l + 1] = a[n + 1] /\ T[l + 2] = b[n + 1]
      /\ n + 1 <= p /\ ~(n + 1 <= q) => Len(T) = l + 1 /\ T[l + 1] = a[n + 1]
      /\ ~(n + 1 <= p) /\ n + 1 <= q => Len(T) = l + 1 /\ T[l + 1] = b[n + 1]
  <2> DEFINE m == n + 1
  <2>1. m \in Nat \ {0}
    BY <1>1
  <2> HIDE DEF m
  <2>2. /\ R \o NextOf(a, m) \o NextOf(b, m) \in Seq(Addresses)
        /\ Appends(R \o NextOf(a, m) \o NextOf(b, m), R, a, b, m)
    BY <1>2, <2>1, TurnAdds
  <2>3. T \in Seq(Addresses) /\ Appends(T, R, a, b, n + 1)
    BY <2>2 DEF m
  <2> QED
    BY <2>3 DEF Appends
<1>5. n + 1 <= p \/ n + 1 <= q
  BY <1>1 DEF Turns
<1>6. /\ l = Least(n, p) + Least(n, q)
      /\ \A k \in 1 .. l - 1 : k < Cut(a, b) => R[k][1] # R[k + 1][1]
      /\ \A k \in 1 .. l : k >= Cut(a, b) => R[k][1] = IF p > q THEN fa ELSE fb
      /\ n > 0 /\ n <= p /\ n <= q => R[l][1] = fb
  BY DEF Changing
<1> DEFINE c == Cut(a, b)
           f == IF p > q THEN fa ELSE fb
<1>7. /\ p > q => c = 2 * q + 1 /\ f = fa
      /\ ~(p > q) => c = 2 * p /\ f = fb
      /\ c \in Nat
  BY <1>1 DEF Cut
<1> HIDE DEF T, p, q, l, c, f
\* The last address of R and the first that the turn appends.
<1>8. ASSUME NEW e, T[l + 1] = e, Len(T) >= l + 1, Len(T) \in Nat,
             l > 0 /\ l < c => R[l][1] # e[1], l + 1 >= c => e[1] = f
      PROVE  /\ \A k \in 1 .. l : k < c => T[k][1] # T[k + 1][1]
             /\ \A k \in 1 .. l + 1 : k >= c => T[k][1] = f
  <2>1. ASSUME NEW k \in 1 .. l, k < c PROVE T[k][1] # T[k + 1][1]
    <3>1. CASE k < l
      <4>1. k \in 1 .. l - 1 /\ k + 1 \in 1 .. l
        BY <1>1, <3>1
      <4>2. R[k][1] # R[k + 1][1]
        BY <1>6, <2>1, <4>1 DEF c, l
      <4> QED
        BY <1>4, <4>1, <4>2
    <3>2. CASE k = l
      BY <1>1, <1>4, <1>8, <2>1, <3>2
    <3> QED
      BY <1>1, <3>1, <3>2
  <2>2. ASSUME NEW k \in 1 .. l + 1, k >= c PROVE T[k][1] = f
    <3>1. CASE k \in 1 .. l
      BY <1>4, <1>6, <2>2, <3>1 DEF c, f, p, q, l
    <3>2. CASE k = l + 1
      BY <1>8, <2>2, <3>2
    <3> QED
      BY <1>1, <3>1, <3>2
  <2> QED
    BY <2>1, <2>2
<1>9. CASE n + 1 <= p /\ n + 1 <= q
  <2>1. l = 2 * n /\ Least(n + 1, p) = n + 1 /\ Least(n + 1, q) = n + 1
    <3>1. Least(n, p) = n /\ Least(n, q) = n /\ Least(n + 1, p) = n + 1 /\ Least(n + 1, q) = n + 1
      BY <1>1, <1>9 DEF Least
    <3>2. l = n + n
      BY <1>6, <3>1
    <3> QED
      BY <3>1, <3>2
  <2>2. Len(T) = l + 2 /\ T[l + 1][1] = fa /\ T[l + 2][1] = fb
    BY <1>1, <1>3, <1>4, <1>9
  <2>3. c >= l + 2
    BY <1>1, <1>7, <1>9, <2>1
  <2>4. l > 0 => R[l][1] = fb
    BY <1>1, <1>6, <1>9, <2>1
  <2>5. \A k \in 1 .. l : T[k][1] # T[k + 1][1]
    <3> DEFINE e == T[l + 1]
    <3>1. T[l + 1] = e /\ Len(T) >= l + 1 /\ Len(T) \in Nat
      BY <1>1, <2>2
    <3>2. (l > 0 /\ l < c => R[l][1] # e[1]) /\ (l + 1 >= c => e[1] = f)
      BY <1>1, <1>7, <2>2, <2>3, <2>4
    <3>3. \A k \in 1 .. l : k < c
      BY <1>1, <1>7, <2>3
    <3> HIDE DEF e
    <3> QED
      BY <1>8, <3>1, <3>2, <3>3
  <2>6. \A k \in 1 .. Len(T) - 1 : k < c => T[k][1] # T[k + 1][1]
    <3> SUFFICES ASSUME NEW k \in 1 .. Len(T) - 1
                 PROVE  T[k][1] # T[k + 1][1]
      OBVIOUS
    <3>1. k \in 1 .. l \/ k = l + 1
      BY <1>1, <2>2
    <3>2. l + 1 + 1 = l + 2
      BY <1>1
    <3> QED
      BY <2>2, <2>5, <3>1, <3>2
  <2>7. \A k \in 1 .. Len(T) : k >= c => T[k][1] = f
    <3> SUFFICES ASSUME NEW k \in 1 .. Len(T), k >= c
                 PROVE  T[k][1] = f
      OBVIOUS
    <3>1. k = l + 2 /\ c = l + 2
      BY <1>1, <1>7, <2>2, <2>3
    <3>2. ~(p > q)
      BY <1>1, <1>7, <1>9, <2>1, <3>1
    <3> QED
      BY <1>7, <2>2, <3>1, <3>2
  <2>8. Len(T) = Least(n + 1, p) + Least(n + 1, q)
    BY <1>1, <2>1, <2>2
  <2> QED
    BY <2>2, <2>6, <2>7, <2>8 DEF Changing, T, p, q, l, c, f
<1>10. CASE n + 1 <= p /\ ~(n + 1 <= q)
  <2>1. l = n + q /\ Least(n + 1, p) = n + 1 /\ Least(n + 1, q) = q /\ p > q /\ n >= q
    BY <1>1, <1>6, <1>10 DEF Least
  <2>2. Len(T) = l + 1 /\ T[l + 1][1] = fa /\ f = fa /\ c = 2 * q + 1
    BY <1>1, <1>3, <1>4, <1>7, <1>10, <2>1
  <2>3. l > 0 /\ l < c => R[l][1] = fb
    <3> SUFFICES ASSUME l > 0, l < c PROVE R[l][1] = fb
      OBVIOUS
    <3>1. n = q /\ n > 0
      BY <1>1, <2>1, <2>2
    <3> QED
      BY <1>1, <1>6, <1>10, <3>1
  <2>4. /\ \A k \in 1 .. l : k < c => T[k][1] # T[k + 1][1]
        /\ \A k \in 1 .. l + 1 : k >= c => T[k][1] = f
    BY <1>1, <1>8, <2>2, <2>3
  <2>5. Len(T) = Least(n + 1, p) + Least(n + 1, q) /\ Len(T) - 1 = l
    <3>1. Len(T) = l + 1
      BY <2>2
    <3>2. (n + 1) + q = l + 1 /\ l + 1 - 1 = l
      BY <1>1, <2>1
    <3> QED
      BY <2>1, <3>1, <3>2
  <2> QED
    BY <1>10, <2>2, <2>4, <2>5 DEF Changing, T, p, q, l, c, f
<1>11. CASE ~(n + 1 <= p) /\ n + 1 <= q
  <2>1. l = n + p /\ Least(n + 1, p) = p /\ Least(n + 1, q) = n + 1 /\ ~(p > q) /\ n >= p
    BY <1>1, <1>6, <1>11 DEF Least
  <2>2. Len(T) = l + 1 /\ T[l + 1][1] = fb /\ f = fb /\ c = 2 * p
    BY <1>1, <1>3, <1>4, <1>7, <1>11, <2>1
  <2>3. ~(l < c)
    BY <1>1, <2>1, <2>2
  <2>4. /\ \A k \in 1 .. l : k < c => T[k][1] # T[k + 1][1]
        /\ \A k \in 1 .. l + 1 : k >= c => T[k][1] = f
    BY <1>1, <1>8, <2>2, <2>3
  <2>5. Len(T) = Least(n + 1, p) + Least(n + 1, q) /\ Len(T) - 1 = l
    <3>1. Len(T) = l + 1
      BY <2>2
    <3>2. p + (n + 1) = l + 1 /\ l + 1 - 1 = l
      BY <1>1, <2>1
    <3> QED
      BY <2>1, <3>1, <3>2
  <2> QED
    BY <1>11, <2>2, <2>4, <2>5 DEF Changing, T, p, q, l, c, f
<1> QED
  BY <1>5, <1>9, <1>10, <1>11

LEMMA BeginsTurn ==
  ASSUME NEW C, NEW a \in Seq(C), NEW b \in Seq(C), NEW n \in Nat, n < Turns(a, b),
         NEW R \in Seq(C), n = 0 => R = <<>>, Begins(R, a, b, n)
  PROVE  Begins(R \o NextOf(a, n + 1) \o NextOf(b, n + 1), a, b, n + 1)
<1> DEFINE T == R \o NextOf(a, n + 1) \o NextOf(b, n + 1)
           l == Len(R)
<1>1. l \in Nat /\ Len(a) \in Nat /\ Len(b) \in Nat /\ n + 1 \in Nat \ {0} /\ (a # <<>> <=> Len(a) > 0)
  BY EmptySeq
<1>2. /\ T \in Seq(C) /\ \A k \in 1 .. l : T[k] = R[k]
      /\ n + 1 <= Len(a) /\ n + 1 <= Len(b) =>
           Len(T) = l + 2 /\ T[l + 1] = a[n + 1] /\ T[l + 2] = b[n + 1]
      /\ n + 1 <= Len(a) /\ ~(n + 1 <= Len(b)) => Len(T) = l + 1 /\ T[l + 1] = a[n + 1]
      /\ ~(n + 1 <= Len(a)) /\ n + 1 <= Len(b) => Len(T) = l + 1 /\ T[l + 1] = b[n + 1]
  <2> DEFINE m == n + 1
  <2>1. m \in Nat \ {0}
    BY <1>1
  <2> HIDE DEF m
  <2>2. /\ R \o NextOf(a, m) \o NextOf(b, m) \in Seq(C)
        /\ Appends(R \o NextOf(a, m) \o NextOf(b, m), R, a, b, m)
    BY <2>1, TurnAdds
  <2>3. T \in Seq(C) /\ Appends(T, R, a, b, n + 1)
    BY <2>2 DEF m
  <2> QED
    BY <2>3 DEF Appends
<1>3. n + 1 <= Len(a) \/ n + 1 <= Len(b)
  BY <1>1 DEF Turns
<1> HIDE DEF T
<1>4. Len(T) > l
  BY <1>1, <1>2, <1>3
<1>5. T # <<>>
  BY <1>1, <1>4, EmptySeq
<1>6. CASE n = 0
  <2>1. l = 0
    BY <1>6, EmptySeq
  <2>2. T[1] = IF a # <<>> THEN a[1] ELSE b[1]
    BY <1>1, <1>2, <1>3, <1>6, <2>1
  <2> QED
    BY <1>5, <2>2 DEF Begins, T
<1>7. CASE n > 0
  <2>1. R # <<>> /\ R[1] = IF a # <<>> THEN a[1] ELSE b[1]
    BY <1>7 DEF Begins, Turns
  <2>2. T[1] = R[1]
    BY <1>1, <1>2, <2>1, EmptySeq
  <2> QED
    BY <1>5, <2>1, <2>2 DEF Begins, T
<1> QED
  BY <1>6, <1>7

\* The list after i turns.
IsTurns(result, a, b, n) ==
  result = [i \in 0 .. n |->
              IF i = 0 THEN <<>> ELSE result[i - 1] \o NextOf(a, i) \o NextOf(b, i)]

\* The loop of ResolveAllSorted runs through.
LEMMA TurnsExist ==
  ASSUME NEW a, NEW b, NEW n \in Nat
  PROVE  \E result : IsTurns(result, a, b, n)
<1> DEFINE Good == {m \in Nat : \E result : IsTurns(result, a, b, m)}
<1>1. 0 \in Good
  <2> DEFINE result == [i \in 0 .. 0 |-> <<>>]
  <2>1. IsTurns(result, a, b, 0)
    BY DEF IsTurns
  <2> QED
    BY <2>1
<1>2. ASSUME NEW m \in Good
      PROVE  m + 1 \in Good
  <2>1. PICK result : IsTurns(result, a, b, m)
    OBVIOUS
  <2> DEFINE last == result[m] \o NextOf(a, m + 1) \o NextOf(b, m + 1)
             more == [i \in 0 .. m + 1 |-> IF i = m + 1 THEN last ELSE result[i]]
  <2>2. \A i \in 0 .. m : more[i] = result[i]
    BY SMT
  <2>3. \A i \in 0 .. m : result[i] =
          IF i = 0 THEN <<>> ELSE result[i - 1] \o NextOf(a, i) \o NextOf(b, i)
    <3> SUFFICES ASSUME NEW i \in 0 .. m
                 PROVE  result[i] =
                          IF i = 0 THEN <<>> ELSE result[i - 1] \o NextOf(a, i) \o NextOf(b, i)
      OBVIOUS
    <3> DEFINE g == [j \in 0 .. m |->
                       IF j = 0 THEN <<>> ELSE result[j - 1] \o NextOf(a, j) \o NextOf(b, j)]
    <3>1. result = g
      BY <2>1 DEF IsTurns
    <3>2. g[i] = IF i = 0 THEN <<>> ELSE result[i - 1] \o NextOf(a, i) \o NextOf(b, i)
      OBVIOUS
    <3> HIDE DEF g
    <3> QED
      BY <3>1, <3>2
  <2>4. m \in Nat /\ m + 1 \in 0 .. m + 1 /\ m + 1 # 0 /\ m + 1 - 1 = m /\ m \in 0 .. m
    OBVIOUS
  <2>5. more[m + 1] = last
    BY <2>4
  <2> HIDE DEF last
  <2>6. \A i \in 0 .. m + 1 : more[i] =
          IF i = 0 THEN <<>> ELSE more[i - 1] \o NextOf(a, i) \o NextOf(b, i)
    <3> SUFFICES ASSUME NEW i \in 0 .. m + 1
                 PROVE  more[i] = IF i = 0 THEN <<>> ELSE more[i - 1] \o NextOf(a, i) \o NextOf(b, i)
      OBVIOUS
    <3> HIDE DEF more
    <3>1. CASE i = m + 1
      <4>1. more[i] = more[m] \o NextOf(a, m + 1) \o NextOf(b, m + 1)
        BY <2>2, <2>4, <2>5, <3>1 DEF last
      <4>2. i # 0 /\ i - 1 = m
        BY <2>4, <3>1
      <4> QED
        BY <3>1, <4>1, <4>2
    <3>2. CASE i # m + 1
      <4>1. i \in 0 .. m /\ (i = 0 \/ i - 1 \in 0 .. m)
        BY <2>4, <3>2
      <4> QED
        BY <2>2, <2>3, <4>1
    <3> QED
      BY <3>1, <3>2
  <2>7. IsTurns(more, a, b, m + 1)
    <3>1. more = [i \in 0 .. m + 1 |-> more[i]]
      OBVIOUS
    <3> HIDE DEF more
    <3>2. [i \in 0 .. m + 1 |-> more[i]] =
            [i \in 0 .. m + 1 |->
               IF i = 0 THEN <<>> ELSE more[i - 1] \o NextOf(a, i) \o NextOf(b, i)]
      BY <2>6
    <3>3. more = [i \in 0 .. m + 1 |->
                   IF i = 0 THEN <<>> ELSE more[i - 1] \o NextOf(a, i) \o NextOf(b, i)]
      BY <3>1, <3>2
    <3> QED
      BY <3>3 DEF IsTurns
  <2> QED
    BY <2>4, <2>7
<1>3. Good = Nat
  <2> HIDE DEF Good
  <2>1. Good \in SUBSET Nat
    BY DEF Good
  <2> QED
    BY <1>1, <1>2, <2>1, InductionOverNat
<1> QED
  BY <1>3

LEMMA TurnsAre ==
  ASSUME NEW a, NEW b, Turns(a, b) \in Nat
  PROVE  \E result : IsTurns(result, a, b, Turns(a, b)) /\ InTurns(a, b) = result[Turns(a, b)]
<1> DEFINE chosen == CHOOSE result : IsTurns(result, a, b, Turns(a, b))
<1>1. IsTurns(chosen, a, b, Turns(a, b))
  BY TurnsExist
<1>2. InTurns(a, b) = chosen[Turns(a, b)]
  BY DEF InTurns, IsTurns
<1> QED
  BY <1>1, <1>2

\* What holds of the list after n turns.
LEMMA InTurnsFacts ==
  ASSUME NEW fa \in {4, 6}, NEW fb \in {4, 6}, fa # fb,
         NEW a \in Seq(Family(fa)), NEW b \in Seq(Family(fb))
  PROVE  /\ InOrder(InTurns(a, b), a, b, fa, fb, Turns(a, b))
         /\ Changing(InTurns(a, b), a, b, fa, fb, Turns(a, b))
         /\ Begins(InTurns(a, b), a, b, Turns(a, b))
<1> DEFINE N == Turns(a, b)
           AfterTurns(R, n) == /\ InOrder(R, a, b, fa, fb, n)
                               /\ Changing(R, a, b, fa, fb, n)
                               /\ Begins(R, a, b, n)
                               /\ n = 0 => R = <<>>
<1>1. N \in Nat
  BY DEF Turns
<1>2. PICK result : IsTurns(result, a, b, N) /\ InTurns(a, b) = result[N]
  BY <1>1, TurnsAre
<1>3. \A i \in 0 .. N : result[i] =
        IF i = 0 THEN <<>> ELSE result[i - 1] \o NextOf(a, i) \o NextOf(b, i)
  BY <1>2 DEF IsTurns
<1>4. AfterTurns(<<>>, 0)
  <2>1. Len(a) \in Nat /\ Len(b) \in Nat
    OBVIOUS
  <2>2. Least(0, Len(a)) = 0 /\ Least(0, Len(b)) = 0
    BY <2>1 DEF Least
  <2>3. SubSeq(a, 1, 0) = <<>> /\ SubSeq(b, 1, 0) = <<>> /\ <<>> \in Seq(Addresses) /\ Len(<<>>) = 0
    BY EmptySeq
  <2>4. InOrder(<<>>, a, b, fa, fb, 0)
    BY <2>2, <2>3, FilterEmpty DEF InOrder
  <2>5. Changing(<<>>, a, b, fa, fb, 0)
    BY <2>2, <2>3 DEF Changing
  <2> QED
    BY <2>4, <2>5 DEF Begins
<1>5. ASSUME NEW n \in Nat, n < N, NEW R, AfterTurns(R, n)
      PROVE  AfterTurns(R \o NextOf(a, n + 1) \o NextOf(b, n + 1), n + 1)
  <2>1. R \in Seq(Addresses)
    BY <1>5 DEF InOrder
  <2>2. a \in Seq(Addresses) /\ b \in Seq(Addresses)
    <3>1. Family(fa) \subseteq Addresses /\ Family(fb) \subseteq Addresses
      BY DEF Family, Addresses
    <3> QED
      BY <3>1
  <2>3. InOrder(R \o NextOf(a, n + 1) \o NextOf(b, n + 1), a, b, fa, fb, n + 1)
    BY <1>5, OrderTurn
  <2>4. Changing(R \o NextOf(a, n + 1) \o NextOf(b, n + 1), a, b, fa, fb, n + 1)
    BY <1>5, <2>1, ChangingTurn
  <2>5. Begins(R \o NextOf(a, n + 1) \o NextOf(b, n + 1), a, b, n + 1)
    BY <1>5, <2>1, <2>2, BeginsTurn
  <2> QED
    BY <2>3, <2>4, <2>5
<1> DEFINE Good == {n \in Nat : n <= N => AfterTurns(result[n], n)}
<1> HIDE DEF AfterTurns, N
<1>6. 0 \in Good
  BY <1>1, <1>3, <1>4
<1>7. ASSUME NEW n \in Good
      PROVE  n + 1 \in Good
  <2> SUFFICES ASSUME n + 1 <= N
               PROVE  AfterTurns(result[n + 1], n + 1)
    OBVIOUS
  <2>1. n \in Nat /\ n < N /\ n + 1 \in 0 .. N /\ n + 1 # 0 /\ n + 1 - 1 = n
    BY <1>1
  <2>2. AfterTurns(result[n], n)
    BY <1>1, <2>1
  <2>3. result[n + 1] = result[n] \o NextOf(a, n + 1) \o NextOf(b, n + 1)
    <3> DEFINE m == n + 1
    <3>1. m \in 0 .. N /\ m # 0 /\ m - 1 = n
      BY <2>1
    <3> HIDE DEF m
    <3>2. result[m] = result[m - 1] \o NextOf(a, m) \o NextOf(b, m)
      BY <1>3, <3>1
    <3>3. result[m] = result[n] \o NextOf(a, m) \o NextOf(b, m)
      BY <3>1, <3>2
    <3> QED
      BY <3>3 DEF m
  <2> QED
    BY <1>5, <2>1, <2>2, <2>3
<1>8. Good = Nat
  <2> HIDE DEF Good
  <2>1. Good \in SUBSET Nat
    BY DEF Good
  <2> QED
    BY <1>6, <1>7, <2>1, InductionOverNat
<1>9. AfterTurns(result[N], N)
  BY <1>1, <1>8
<1> QED
  BY <1>2, <1>9 DEF AfterTurns, N

\* A family's addresses of an answer.
LEMMA FamilyOf ==
  ASSUME NEW ips \in Seq(Addresses), NEW f \in {4, 6}
  PROVE  /\ OfFamily(ips, f) \in Seq(Family(f))
         /\ ToSet(OfFamily(ips, f)) = ToSet(ips) \cap Family(f)
<1> DEFINE a == OfFamily(ips, f)
<1>1. a \in Seq(Addresses) /\ ToSet(a) = ToSet(ips) \cap Family(f)
  BY FilterKeeps DEF OfFamily, Family
<1> HIDE DEF a
<1>2. \A i \in 1 .. Len(a) : a[i] \in ToSet(a)
  BY <1>1 DEF ToSet
<1>3. a \in Seq(Family(f))
  BY <1>1, <1>2
<1> QED
  BY <1>1, <1>3 DEF a

\* How the list s made of an answer fits it, with the addresses of family fa first.
Fits(s, ips, fa, fb) ==
  /\ Len(s) = Len(ips)
  /\ OfFamily(s, fa) = OfFamily(ips, fa) /\ OfFamily(s, fb) = OfFamily(ips, fb)
  /\ \A i \in 1 .. Len(s) - 1 :
       s[i][1] = s[i + 1][1] => \A j \in i .. Len(s) : s[j][1] = s[i][1]
  /\ Head(s) = IF OfFamily(ips, fa) # <<>> THEN Head(OfFamily(ips, fa)) ELSE Head(ips)

LEMMA SortedFits ==
  ASSUME NEW fa \in {4, 6}, NEW fb \in {4, 6}, fa # fb,
         NEW ips \in Seq(Addresses), ips # <<>>
  PROVE  Fits(InTurns(OfFamily(ips, fa), OfFamily(ips, fb)), ips, fa, fb)
<1> DEFINE a == OfFamily(ips, fa)
           b == OfFamily(ips, fb)
           s == InTurns(a, b)
<1>a. a = OfFamily(ips, fa) /\ b = OfFamily(ips, fb)
  OBVIOUS
<1>b. s = InTurns(a, b)
  OBVIOUS
<1> HIDE DEF a, b, s
<1> DEFINE N == Turns(a, b)
           p == Len(a)
           q == Len(b)
<1>1. /\ a \in Seq(Family(fa)) /\ ToSet(a) = ToSet(ips) \cap Family(fa)
      /\ b \in Seq(Family(fb)) /\ ToSet(b) = ToSet(ips) \cap Family(fb)
  BY <1>a, FamilyOf
<1>2. InOrder(s, a, b, fa, fb, N) /\ Changing(s, a, b, fa, fb, N) /\ Begins(s, a, b, N)
  BY <1>1, <1>b, InTurnsFacts
<1>3. p \in Nat /\ q \in Nat /\ (a # <<>> <=> p > 0)
  BY <1>1, EmptySeq
<1>4. Least(N, p) = p /\ Least(N, q) = q
  BY <1>3 DEF Least, Turns
<1>5. s \in Seq(Addresses)
  BY <1>2 DEF InOrder
<1>6. ToSet(ips) \subseteq Family(fa) \cup Family(fb) /\ Family(fa) \cap Family(fb) = {}
  <2>1. Family(fa) \cup Family(fb) = Addresses /\ Family(fa) \cap Family(fb) = {}
    BY DEF Family, Addresses
  <2>2. ToSet(ips) \subseteq Addresses
    BY DEF ToSet
  <2> QED
    BY <2>1, <2>2
<1>7. p + q = Len(ips)
  <2>1. Len(FilterSeq(ips, Family(fa))) + Len(FilterSeq(ips, Family(fb))) = Len(ips)
    BY <1>6, FilterParts
  <2> QED
    BY <1>a, <2>1 DEF OfFamily, Family
<1>8. Len(s) = Len(ips)
  BY <1>2, <1>4, <1>7 DEF Changing
<1>9. OfFamily(s, fa) = a /\ OfFamily(s, fb) = b
  <2>1. SubSeq(a, 1, p) = a /\ SubSeq(b, 1, q) = b
    BY <1>1, SubSeqFull
  <2> QED
    BY <1>2, <1>4, <2>1 DEF InOrder, OfFamily, Family
<1>10. ASSUME NEW i \in 1 .. Len(s) - 1, s[i][1] = s[i + 1][1], NEW j \in i .. Len(s)
       PROVE  s[j][1] = s[i][1]
  <2>1. Len(s) \in Nat /\ Cut(a, b) \in Nat
    BY <1>3, <1>5 DEF Cut
  <2>2. ~(i < Cut(a, b))
    BY <1>2, <1>10 DEF Changing
  <2>3. i \in 1 .. Len(s) /\ j \in 1 .. Len(s) /\ i >= Cut(a, b) /\ j >= Cut(a, b)
    BY <2>1, <2>2
  <2> QED
    BY <1>2, <2>3 DEF Changing
<1>11. Head(s) = IF a # <<>> THEN Head(a) ELSE Head(ips)
  <2>1. Len(ips) \in Nat /\ Len(ips) > 0
    BY EmptySeq
  <2>2. N > 0
    BY <1>3, <1>7, <2>1 DEF Turns
  <2>3. s # <<>> /\ s[1] = IF a # <<>> THEN a[1] ELSE b[1]
    BY <1>2, <2>2 DEF Begins
  <2>4. a = <<>> => b = ips
    <3> SUFFICES ASSUME a = <<>> PROVE b = ips
      OBVIOUS
    <3>1. ToSet(a) = {}
      BY DEF ToSet
    <3>2. ToSet(ips) \subseteq Family(fb)
      BY <1>1, <1>6, <3>1
    <3> QED
      BY <1>a, <3>2, FilterAll DEF OfFamily, Family
  <2>5. Head(s) = s[1] /\ Head(ips) = ips[1] /\ (a # <<>> => Head(a) = a[1])
    BY <1>1, <1>5, <2>3
  <2> QED
    BY <2>3, <2>4, <2>5
<1> QED
  BY <1>a, <1>8, <1>9, <1>10, <1>11 DEF Fits, s

\* The order of the addresses does not depend on the state: it is a fact about
\* every answer and either preference.
LEMMA AnswersFit ==
  ASSUME DnsIInv
  PROVE  AddressOrder
<1>1. SUFFICES ASSUME NEW r \in Resolvers, query[r].pc = "done", query[r].ips # <<>>,
                      NEW ips, ips = query[r].ips,
                      NEW s, s = ResolveAllSorted(ips, preferIPv4)
               PROVE  /\ Len(s) = Len(ips)
                      /\ OfFamily(s, 6) = OfFamily(ips, 6) /\ OfFamily(s, 4) = OfFamily(ips, 4)
                      /\ \A i \in 1 .. Len(s) - 1 :
                           s[i][1] = s[i + 1][1] => \A j \in i .. Len(s) : s[j][1] = s[i][1]
                      /\ Head(s) = ResolveOne(ips, preferIPv4)
  BY DEF AddressOrder, ResolveIPv6First
<1>2. ips \in Seq(Addresses) /\ ips # <<>> /\ preferIPv4 \in BOOLEAN
  <2>1. ips \in Zones /\ preferIPv4 \in BOOLEAN
    BY <1>1 DEF DnsIInv, QueryOK
  <2> QED
    BY <1>1, <2>1, DnsAssumption DEF Addresses
<1> DEFINE four == OfFamily(ips, 4)
           six == OfFamily(ips, 6)
<1>3. CASE preferIPv4
  <2>1. s = InTurns(four, six)
    BY <1>1, <1>3 DEF ResolveAllSorted
  <2>2. ResolveOne(ips, preferIPv4) = IF four # <<>> THEN Head(four) ELSE Head(ips)
    BY <1>3 DEF ResolveOne
  <2> HIDE DEF four, six
  <2>3. four = OfFamily(ips, 4) /\ six = OfFamily(ips, 6)
    BY DEF four, six
  <2>4. 4 \in {4, 6} /\ 6 \in {4, 6} /\ 4 # 6
    OBVIOUS
  <2>5. Fits(InTurns(OfFamily(ips, 4), OfFamily(ips, 6)), ips, 4, 6)
    BY <1>2, <2>4, SortedFits
  <2> QED
    BY <2>1, <2>2, <2>3, <2>5 DEF Fits
<1>4. CASE ~preferIPv4
  <2>1. s = InTurns(six, four)
    BY <1>1, <1>4 DEF ResolveAllSorted
  <2>2. ResolveOne(ips, preferIPv4) = IF six # <<>> THEN Head(six) ELSE Head(ips)
    BY <1>4 DEF ResolveOne
  <2> HIDE DEF four, six
  <2>3. four = OfFamily(ips, 4) /\ six = OfFamily(ips, 6)
    BY DEF four, six
  <2>4. 4 \in {4, 6} /\ 6 \in {4, 6} /\ 6 # 4
    OBVIOUS
  <2>5. Fits(InTurns(OfFamily(ips, 6), OfFamily(ips, 4)), ips, 6, 4)
    BY <1>2, <2>4, SortedFits
  <2> QED
    BY <2>1, <2>2, <2>3, <2>5 DEF Fits
<1> QED
  BY <1>3, <1>4

\* For every answer of the resolver, of any length: the list ResolveAllSorted
\* makes of it has every address once, keeps the order of each family, changes
\* family at every step until one is used up, and begins with the address
\* ResolveOne gives; and the caches keep what EchStaysCurrent says.
THEOREM DnsStaysSound == DnsSpec => []DnsSound
<1>1. DnsIInv /\ [DnsNext]_dnsVars => DnsIInv'
  BY DnsIInvStep
<1>2. DnsIInv => AddressOrder
  BY AnswersFit
<1>3. DnsSpec => []AddressOrder
  BY <1>1, <1>2, DnsIInvInit, PTL DEF DnsSpec
<1> QED
  BY <1>3, EchStaysCurrent, PTL DEF DnsSound

=============================================================================
