--------------------------- MODULE NetPartsProofs ---------------------------
(***************************************************************************)
(* Proofs about the parts of the network layer that share no state:        *)
(* TLSCache (any finite set of keys, any identifiers and limits),          *)
(* Http3Conns (any finite number of requests and enough transports),       *)
(* BodyPool (any readers, buffers and body sizes), QuicPool (any number of *)
(* callers, pools and connections), ProxyDial (any number of dials, any    *)
(* number of records and an answer in any number of parts), HappyEyeballs  *)
(* (any finite families of addresses), UdpTunnels (any number of users and *)
(* retries), and about the sum of them all.                                *)
(*                                                                         *)
(* Every part has one inductive invariant, a lemma for its initial states, *)
(* one step per action, and a theorem.                                     *)
(***************************************************************************)
EXTENDS MCNetParts, SeqLemmas, FiniteSetTheorems

(* TLSCache                                                                *)

MaybeTicket == Ticket \cup {None}

\* The keys cached in cache.
CachedIn(cache) == {k \in Keys : cache[k] # None}

\* order is the LRU order of the keys cached in cache, where r orders all keys.
Ordered(cache, order, r) ==
  /\ cache \in [Keys -> MaybeTicket]
  /\ r \in Seq(Keys) /\ IsInjective(r) /\ ToSet(r) = Keys
  /\ order = FilterSeq(r, CachedIn(cache))

\* All keys, k now the last.
Touched(r, k) == Append(RemoveFirst(r, k), k)

LEMMA OrderedFacts ==
  ASSUME NEW cache, NEW order, NEW r, Ordered(cache, order, r)
  PROVE  /\ order \in Seq(Keys) /\ IsInjective(order)
         /\ ToSet(order) = CachedIn(cache)
<1> DEFINE K == CachedIn(cache)
<1>1. /\ FilterSeq(r, K) \in Seq(Keys) /\ IsInjective(FilterSeq(r, K))
      /\ ToSet(FilterSeq(r, K)) = ToSet(r) \cap K
  <2> HIDE DEF K
  <2>1. r \in Seq(Keys) /\ IsInjective(r)
    BY DEF Ordered
  <2> QED
    BY <2>1, FilterFacts
<1>2. K \subseteq Keys
  BY DEF CachedIn
<1> QED
  BY <1>1, <1>2 DEF Ordered

LEMMA TouchedFacts ==
  ASSUME NEW r \in Seq(Keys), IsInjective(r), ToSet(r) = Keys, NEW k \in Keys
  PROVE  /\ Touched(r, k) \in Seq(Keys) /\ IsInjective(Touched(r, k))
         /\ ToSet(Touched(r, k)) = Keys
         /\ \A K \in SUBSET Keys :
              FilterSeq(Touched(r, k), K) =
                IF k \in K THEN Append(FilterSeq(r, K \ {k}), k) ELSE FilterSeq(r, K)
<1> DEFINE R == Keys \ {k}
           f == FilterSeq(r, R)
<1>1. Touched(r, k) = Append(f, k)
  <2>1. RemoveFirst(r, k) = f
    BY RemoveIsFilter
  <2> QED
    BY <2>1 DEF Touched
<1>2. f \in Seq(Keys) /\ IsInjective(f) /\ ToSet(f) = ToSet(r) \cap R
  <2> HIDE DEF R
  <2> QED
    BY FilterFacts
<1>3. k \notin ToSet(f) /\ ToSet(f) \cup {k} = Keys
  BY <1>2
<1>4. ASSUME NEW K \in SUBSET Keys
      PROVE  FilterSeq(Append(f, k), K) =
                IF k \in K THEN Append(FilterSeq(r, K \ {k}), k) ELSE FilterSeq(r, K)
  <2>1. FilterSeq(f, K) = FilterSeq(r, R \cap K)
    <3> HIDE DEF R
    <3> QED
      BY FilterTwice
  <2>2. R \cap K = K \ {k}
    OBVIOUS
  <2> HIDE DEF f, R
  <2>3. FilterSeq(Append(f, k), K) = IF k \in K THEN Append(FilterSeq(f, K), k) ELSE FilterSeq(f, K)
    BY <1>2, FilterAppend
  <2>4. k \notin K => K \ {k} = K
    OBVIOUS
  <2> QED
    BY <2>1, <2>2, <2>3, <2>4
<1> HIDE DEF f
<1>5. Append(f, k) \in Seq(Keys) /\ IsInjective(Append(f, k)) /\ ToSet(Append(f, k)) = ToSet(f) \cup {k}
  BY <1>2, <1>3, AppendFacts
<1> QED
  BY <1>1, <1>3, <1>4, <1>5

\* A hit.
LEMMA HitOrdered ==
  ASSUME NEW cache, NEW order, NEW r, Ordered(cache, order, r),
         NEW k \in CachedIn(cache), NEW t \in Ticket
  PROVE  /\ Ordered([cache EXCEPT ![k] = t], moveToEnd(k, order), Touched(r, k))
         /\ CachedIn([cache EXCEPT ![k] = t]) = CachedIn(cache)
<1> DEFINE K == CachedIn(cache)
           new == [cache EXCEPT ![k] = t]
<1>1. /\ cache \in [Keys -> MaybeTicket] /\ k \in Keys
      /\ r \in Seq(Keys) /\ IsInjective(r) /\ ToSet(r) = Keys
      /\ order = FilterSeq(r, K)
  BY DEF Ordered, CachedIn
<1>2. order \in Seq(Keys) /\ IsInjective(order) /\ ToSet(order) = K
  BY OrderedFacts
<1>3. new \in [Keys -> MaybeTicket] /\ CachedIn(new) = K
  BY <1>1, NoneNotTicket DEF CachedIn, MaybeTicket
<1>4. K \subseteq Keys /\ k \in K
  BY DEF CachedIn
<1> HIDE DEF K, new
<1>5. moveToEnd(k, order) = Append(FilterSeq(order, Keys \ {k}), k)
  <2>1. RemoveFirst(order, k) = FilterSeq(order, Keys \ {k})
    BY <1>1, <1>2, RemoveIsFilter
  <2>2. Contains(order, k)
    BY <1>2, <1>4 DEF ToSet, Contains
  <2> QED
    BY <2>1, <2>2 DEF moveToEnd
<1>6. FilterSeq(order, Keys \ {k}) = FilterSeq(r, K \ {k})
  <2>1. K \cap (Keys \ {k}) = K \ {k}
    BY <1>4
  <2> QED
    BY <1>1, <2>1, FilterTwice
<1>7. /\ Touched(r, k) \in Seq(Keys) /\ IsInjective(Touched(r, k)) /\ ToSet(Touched(r, k)) = Keys
      /\ FilterSeq(Touched(r, k), K) = Append(FilterSeq(r, K \ {k}), k)
  BY <1>1, <1>4, TouchedFacts
<1>8. Ordered(new, moveToEnd(k, order), Touched(r, k))
  BY <1>3, <1>5, <1>6, <1>7 DEF Ordered
<1> QED
  BY <1>3, <1>8 DEF K, new

\* A new entry.
LEMMA InsertOrdered ==
  ASSUME NEW cache, NEW order, NEW r, Ordered(cache, order, r),
         NEW k \in Keys \ CachedIn(cache), NEW t \in Ticket
  PROVE  /\ Ordered([cache EXCEPT ![k] = t], Append(order, k), Touched(r, k))
         /\ CachedIn([cache EXCEPT ![k] = t]) = CachedIn(cache) \cup {k}
<1> DEFINE K == CachedIn(cache)
           new == [cache EXCEPT ![k] = t]
<1>1. /\ cache \in [Keys -> MaybeTicket] /\ k \in Keys /\ k \notin K
      /\ r \in Seq(Keys) /\ IsInjective(r) /\ ToSet(r) = Keys
      /\ order = FilterSeq(r, K)
  BY DEF Ordered
<1>2. new \in [Keys -> MaybeTicket] /\ CachedIn(new) = K \cup {k}
  BY <1>1, NoneNotTicket DEF CachedIn, MaybeTicket
<1>3. K \subseteq Keys
  BY DEF CachedIn
<1> HIDE DEF K, new
<1>4. (K \cup {k}) \ {k} = K /\ K \cup {k} \in SUBSET Keys /\ k \in K \cup {k}
  BY <1>1, <1>3
<1>5. /\ Touched(r, k) \in Seq(Keys) /\ IsInjective(Touched(r, k)) /\ ToSet(Touched(r, k)) = Keys
      /\ FilterSeq(Touched(r, k), K \cup {k}) = Append(FilterSeq(r, (K \cup {k}) \ {k}), k)
  <2> DEFINE L == K \cup {k}
             u == Touched(r, k)
  <2>1. k \in Keys /\ L \in SUBSET Keys /\ k \in L
    BY <1>1, <1>4
  <2> HIDE DEF L
  <2>2. /\ u \in Seq(Keys) /\ IsInjective(u) /\ ToSet(u) = Keys
        /\ \A M \in SUBSET Keys :
             FilterSeq(u, M) = IF k \in M THEN Append(FilterSeq(r, M \ {k}), k) ELSE FilterSeq(r, M)
    BY <1>1, TouchedFacts
  <2> HIDE DEF u
  <2>3. FilterSeq(u, L) = Append(FilterSeq(r, L \ {k}), k)
    BY <2>1, <2>2
  <2> QED
    BY <2>2, <2>3 DEF L, u
<1>6. Ordered(new, Append(order, k), Touched(r, k))
  BY <1>1, <1>2, <1>4, <1>5 DEF Ordered
<1> QED
  BY <1>2, <1>6 DEF K, new

\* evictIfNeeded stops somewhere, at the limit or with nothing left.
LEMMA EvictCountFacts ==
  ASSUME NEW S \in SUBSET Keys, NEW order \in Seq(Keys)
  PROVE  /\ EvictCount(S, order) \in 0 .. Len(order)
         /\ \/ EvictCount(S, order) = Len(order)
            \/ Cardinality(S \ ToSet(SubSeq(order, 1, EvictCount(S, order)))) <= MaxSize
<1> DEFINE Left(n) == Cardinality(S \ ToSet(SubSeq(order, 1, n)))
           T == {n \in 0 .. Len(order) : n = Len(order) \/ Left(n) <= MaxSize}
           Stop(n) == /\ n = Len(order) \/ Left(n) <= MaxSize
                      /\ \A m \in 0 .. n - 1 : Left(m) > MaxSize
<1>1. Len(order) \in Nat /\ IsFiniteSet(S)
  BY TLSCacheAssumption, FS_Subset
<1>2. \A n : Left(n) \in Nat
  BY <1>1, FS_Difference, FS_CardinalityType
<1> HIDE DEF Left
<1>3. T \in SUBSET Nat /\ T # {}
  BY <1>1
<1>4. PICK n \in T : \A m \in T : n <= m
  <2> HIDE DEF T
  <2> QED
    BY <1>3, LeastNat
<1>5. n \in 0 .. Len(order) /\ Stop(n)
  <2>1. ASSUME NEW m \in 0 .. n - 1
        PROVE  Left(m) > MaxSize
    <3>1. m \in 0 .. Len(order) /\ m < n /\ m \in Nat
      BY <1>1, <1>4
    <3>2. ~(Left(m) <= MaxSize)
      BY <1>4, <3>1
    <3> QED
      BY <1>2, <3>2, TLSCacheAssumption
  <2> QED
    BY <1>4, <2>1
<1>6. EvictCount(S, order) = CHOOSE m \in 0 .. Len(order) : Stop(m)
  BY DEF EvictCount, Left
<1> HIDE DEF Stop
<1>7. EvictCount(S, order) \in 0 .. Len(order) /\ Stop(EvictCount(S, order))
  BY <1>5, <1>6
<1> QED
  BY <1>7 DEF Stop, Left

\* Eviction keeps the order of what it leaves, and leaves no more than the limit.
LEMMA EvictOrdered ==
  ASSUME NEW cache, NEW order, NEW r, Ordered(cache, order, r)
  PROVE  /\ Ordered(Evicted(cache, order), EvictedOrder(cache, order), r)
         /\ CachedIn(Evicted(cache, order)) \subseteq CachedIn(cache)
         /\ Cardinality(CachedIn(Evicted(cache, order))) <= MaxSize
<1> DEFINE K == CachedIn(cache)
           n == EvictCount(K, order)
           P == ToSet(SubSeq(order, 1, n))
           new == [k \in Keys |-> IF k \in P THEN None ELSE cache[k]]
<1>1. /\ cache \in [Keys -> MaybeTicket]
      /\ r \in Seq(Keys) /\ IsInjective(r) /\ ToSet(r) = Keys
      /\ order = FilterSeq(r, K)
  BY DEF Ordered
<1>2. order \in Seq(Keys) /\ IsInjective(order) /\ ToSet(order) = K
  BY OrderedFacts
<1>3. K \subseteq Keys
  BY DEF CachedIn
<1>4. Evicted(cache, order) = new /\ EvictedOrder(cache, order) = SubSeq(order, n + 1, Len(order))
  BY DEF Evicted, EvictedOrder, CachedIn
<1>5. new \in [Keys -> MaybeTicket] /\ CachedIn(new) = K \ P
  <2> HIDE DEF P
  <2> QED
    BY <1>1 DEF CachedIn, MaybeTicket
<1> HIDE DEF K, new
<1>6. n \in 0 .. Len(order) /\ (n = Len(order) \/ Cardinality(K \ P) <= MaxSize)
  BY <1>2, <1>3, EvictCountFacts
<1>7. SubSeq(order, n + 1, Len(order)) = FilterSeq(order, Keys \ P)
  <2> HIDE DEF n
  <2> QED
    BY <1>2, <1>6, CutIsFilter
<1>8. FilterSeq(order, Keys \ P) = FilterSeq(r, K \ P)
  <2> HIDE DEF P
  <2>1. K \cap (Keys \ P) = K \ P
    BY <1>3
  <2> QED
    BY <1>1, <2>1, FilterTwice
<1>9. Cardinality(K \ P) <= MaxSize
  <2>1. CASE n = Len(order)
    <3>1. P = K
      BY <1>2, <2>1, SubSeqFull
    <3> QED
      BY <3>1, FS_EmptySet, TLSCacheAssumption
  <2> QED
    BY <1>6, <2>1
<1> HIDE DEF n, P
<1>10. Ordered(new, SubSeq(order, n + 1, Len(order)), r)
  BY <1>1, <1>5, <1>7, <1>8 DEF Ordered
<1>11. K \ P \subseteq K
  OBVIOUS
<1> QED
  BY <1>4, <1>5, <1>9, <1>10, <1>11 DEF K

\* The list of all keys that a run starts with.
LEMMA AllKeys ==
  SetToSeq(Keys) \in Seq(Keys) /\ IsInjective(SetToSeq(Keys)) /\ ToSet(SetToSeq(Keys)) = Keys
<1> DEFINE n == Cardinality(Keys)
           s == SetToSeq(Keys)
<1>1. n \in Nat /\ ExistsBijection(1 .. n, Keys)
  BY TLSCacheAssumption, FS_CardinalityType
<1> HIDE DEF n
<1>2. \E f \in [1 .. n -> Keys] : IsInjective(f)
  BY <1>1 DEF ExistsBijection, Bijection, Injection
<1>3. s = CHOOSE f \in [1 .. n -> Keys] : IsInjective(f)
  BY DEF SetToSeq, n
<1> HIDE DEF s
<1>4. s \in [1 .. n -> Keys] /\ IsInjective(s)
  BY <1>2, <1>3
<1>5. s \in Seq(Keys) /\ DOMAIN s = 1 .. n
  BY <1>1, <1>4
<1> DEFINE R == ToSet(s)
<1>6. R \in SUBSET Keys /\ IsFiniteSet(R)
  <2>1. R \in SUBSET Keys
    BY <1>4, <1>5 DEF ToSet
  <2> QED
    BY <2>1, TLSCacheAssumption, FS_Subset
<1>7. ExistsBijection(1 .. n, R)
  <2>1. s \in [1 .. n -> R]
    BY <1>4, <1>5 DEF ToSet
  <2>2. \A k \in R : \E i \in 1 .. n : s[i] = k
    BY <1>5 DEF ToSet
  <2> HIDE DEF R
  <2> QED
    BY <1>4, <2>1, <2>2 DEF ExistsBijection, Bijection, Injection, Surjection
<1> HIDE DEF R
<1>8. Cardinality(R) = n
  BY <1>1, <1>7, FS_CountingElements
<1>9. R = Keys
  BY <1>6, <1>8, TLSCacheAssumption, FS_Subset DEF n
<1> QED
  BY <1>4, <1>5, <1>9 DEF R, s

TicketTypes ==
  /\ sessionId \in Ids
  /\ backend \in [Ids \X Keys -> MaybeTicket]
  /\ pending \subseteq [key: Keys, ticket: Ticket]
  /\ saved \in [Keys -> MaybeTicket]

LRUInv ==
  /\ TicketTypes
  /\ Ordered(sessions, accessOrder, recent)
  /\ SizeBound

LEMMA LRUInvInit == Init => LRUInv
<1> SUFFICES ASSUME Init
             PROVE  LRUInv
  OBVIOUS
<1>1. TicketTypes
  BY DEF Init, TicketTypes, MaybeTicket
<1>2. sessions \in [Keys -> MaybeTicket] /\ CachedIn(sessions) = {}
  BY DEF Init, MaybeTicket, CachedIn
<1>3. recent \in Seq(Keys) /\ IsInjective(recent) /\ ToSet(recent) = Keys
  BY AllKeys DEF Init
<1>4. accessOrder = FilterSeq(recent, CachedIn(sessions))
  <2>1. FilterSeq(recent, {}) = <<>>
    BY <1>3, FilterNone
  <2> QED
    BY <1>2, <2>1 DEF Init
<1>5. Cached = {} /\ Cardinality({}) = 0
  BY <1>2, FS_EmptySet DEF CachedIn, Cached
<1> QED
  BY <1>1, <1>2, <1>3, <1>4, <1>5, TLSCacheAssumption DEF LRUInv, Ordered, SizeBound

LEMMA LRUInvGetHit ==
  ASSUME LRUInv, NEW k \in Keys, GetHit(k)
  PROVE  LRUInv'
<1>1. Ordered(sessions, accessOrder, recent) /\ k \in CachedIn(sessions)
  BY DEF LRUInv, GetHit, CachedIn
<1>2. sessions[k] \in Ticket /\ [sessions EXCEPT ![k] = sessions[k]] = sessions
  BY <1>1, NoneNotTicket DEF Ordered, MaybeTicket, CachedIn
<1>3. Ordered([sessions EXCEPT ![k] = sessions[k]], moveToEnd(k, accessOrder), Touched(recent, k))
  <2> DEFINE t == sessions[k]
  <2>1. t \in Ticket
    BY <1>2
  <2> HIDE DEF t
  <2>2. Ordered([sessions EXCEPT ![k] = t], moveToEnd(k, accessOrder), Touched(recent, k))
    BY <1>1, <2>1, HitOrdered
  <2> QED
    BY <2>2 DEF t
<1>4. sessions' = sessions /\ accessOrder' = moveToEnd(k, accessOrder) /\ recent' = Touched(recent, k)
  BY DEF GetHit, Touch, Touched
<1>5. Ordered(sessions', accessOrder', recent')
  BY <1>2, <1>3, <1>4
<1>6. TicketTypes' /\ SizeBound'
  BY DEF LRUInv, GetHit, TicketTypes, SizeBound, Cached
<1> QED
  BY <1>5, <1>6 DEF LRUInv, Ordered, CachedIn

\* What may be in the cache after an eviction, and after one more entry.
LEMMA SizeKept ==
  ASSUME NEW cache
  PROVE  /\ IsFiniteSet(CachedIn(cache)) /\ Cardinality(CachedIn(cache)) \in Nat
         /\ \A k : k \notin CachedIn(cache) =>
              Cardinality(CachedIn(cache) \cup {k}) = Cardinality(CachedIn(cache)) + 1
<1>1. CachedIn(cache) \subseteq Keys
  BY DEF CachedIn
<1>2. IsFiniteSet(CachedIn(cache))
  BY <1>1, TLSCacheAssumption, FS_Subset
<1> QED
  BY <1>2, FS_CardinalityType, FS_AddElement

LEMMA LRUInvGetFromBackend ==
  ASSUME LRUInv, NEW k \in Keys, GetFromBackend(k)
  PROVE  LRUInv'
<1>1. PICK t : t = backend[<<sessionId, k>>]
  OBVIOUS
<1> DEFINE cache == [sessions EXCEPT ![k] = t]
           order == Append(accessOrder, k)
<1>2. /\ k \notin CachedIn(sessions) /\ t # None
      /\ sessions' = Evicted(cache, order) /\ accessOrder' = EvictedOrder(cache, order)
      /\ recent' = Touched(recent, k)
      /\ UNCHANGED <<sessionId, backend, pending, saved>>
  BY <1>1 DEF GetFromBackend, CachedIn, Touch, Touched
<1>3. t \in Ticket
  BY <1>1, <1>2 DEF LRUInv, TicketTypes, MaybeTicket
<1>4. Ordered(cache, order, Touched(recent, k))
  BY <1>2, <1>3, InsertOrdered DEF LRUInv
<1> HIDE DEF cache, order
<1>5. /\ Ordered(sessions', accessOrder', recent')
      /\ Cardinality(CachedIn(sessions')) <= MaxSize
  BY <1>2, <1>4, EvictOrdered
<1>6. Cardinality(CachedIn(sessions')) \in Nat
  BY SizeKept
<1>7. SizeBound'
  BY <1>5, <1>6, TLSCacheAssumption DEF SizeBound, Cached, CachedIn
<1>8. TicketTypes'
  BY <1>2 DEF LRUInv, TicketTypes
<1> QED
  BY <1>5, <1>7, <1>8 DEF LRUInv, Ordered, CachedIn

LEMMA LRUInvPut ==
  ASSUME LRUInv, NEW k \in Keys, Put(k)
  PROVE  LRUInv'
<1>1. PICK t : t = [id |-> sessionId, old |-> FALSE]
  OBVIOUS
<1>2. t \in Ticket
  BY <1>1 DEF LRUInv, TicketTypes, Ticket
<1>3. /\ recent' = Touched(recent, k)
      /\ pending' = pending \cup {[key |-> k, ticket |-> t]}
      /\ UNCHANGED <<sessionId, backend, saved>>
  BY <1>1 DEF Put, Touch, Touched
<1>4. TicketTypes'
  <2>1. [key |-> k, ticket |-> t] \in [key : Keys, ticket : Ticket]
    BY <1>2
  <2> QED
    BY <1>3, <2>1 DEF LRUInv, TicketTypes
<1>5. Ordered(sessions, accessOrder, recent) /\ SizeBound
  BY DEF LRUInv
<1>6. Ordered(sessions', accessOrder', recent') /\ SizeBound'
  <2>1. CASE k \in CachedIn(sessions)
    <3>1. sessions' = [sessions EXCEPT ![k] = t] /\ accessOrder' = moveToEnd(k, accessOrder)
      BY <1>1, <2>1 DEF Put, CachedIn
    <3>2. /\ Ordered([sessions EXCEPT ![k] = t], moveToEnd(k, accessOrder), Touched(recent, k))
          /\ CachedIn([sessions EXCEPT ![k] = t]) = CachedIn(sessions)
      BY <1>2, <1>5, <2>1, HitOrdered
    <3> QED
      BY <1>3, <1>5, <3>1, <3>2 DEF SizeBound, Cached, CachedIn
  <2>2. CASE k \notin CachedIn(sessions)
    <3> DEFINE cache == Evicted(sessions, accessOrder)
               order == EvictedOrder(sessions, accessOrder)
    <3>1. sessions' = [cache EXCEPT ![k] = t] /\ accessOrder' = Append(order, k)
      BY <1>1, <2>2 DEF Put, CachedIn
    <3>2. /\ Ordered(cache, order, recent)
          /\ CachedIn(cache) \subseteq CachedIn(sessions)
          /\ Cardinality(CachedIn(cache)) <= MaxSize
      BY <1>5, EvictOrdered
    <3> HIDE DEF cache, order
    <3>3. k \notin CachedIn(cache)
      BY <2>2, <3>2
    <3>4. /\ Ordered([cache EXCEPT ![k] = t], Append(order, k), Touched(recent, k))
          /\ CachedIn([cache EXCEPT ![k] = t]) = CachedIn(cache) \cup {k}
      BY <1>2, <3>2, <3>3, InsertOrdered
    <3>5. Cardinality(CachedIn(sessions')) = Cardinality(CachedIn(cache)) + 1
          /\ Cardinality(CachedIn(cache)) \in Nat
      BY <3>1, <3>3, <3>4, SizeKept
    <3>6. Cardinality(CachedIn(sessions')) <= MaxSize + 1
      BY <3>2, <3>5, TLSCacheAssumption
    <3>7. SizeBound'
      BY <3>6 DEF SizeBound, Cached, CachedIn
    <3> QED
      BY <1>3, <3>1, <3>4, <3>7
  <2> QED
    BY <2>1, <2>2
<1> QED
  BY <1>4, <1>6 DEF LRUInv, Ordered, CachedIn

\* The steps that leave the cache as it is.
LEMMA LRUInvAside ==
  ASSUME LRUInv,
         \/ \E w \in pending : PutToBackend(w) \/ PutToBackendError(w)
         \/ \E id \in Ids : SetSessionIdentifier(id)
         \/ Export
         \/ UNCHANGED vars
  PROVE  LRUInv'
<1>1. UNCHANGED <<sessions, accessOrder, recent>>
  BY DEF PutToBackend, PutToBackendError, SetSessionIdentifier, Export, vars
<1>2. Ordered(sessions, accessOrder, recent)' /\ SizeBound'
  BY <1>1 DEF LRUInv, Ordered, CachedIn, SizeBound, Cached
<1>3. TicketTypes'
  <2>1. TicketTypes /\ sessions \in [Keys -> MaybeTicket]
    BY DEF LRUInv, Ordered
  <2>2. ASSUME NEW w \in pending, PutToBackend(w) \/ PutToBackendError(w)
        PROVE  TicketTypes'
    <3>1. w.key \in Keys /\ w.ticket \in Ticket
      BY <2>1 DEF TicketTypes
    <3>2. CASE PutToBackend(w)
      <4>1. backend' \in [Ids \X Keys -> MaybeTicket]
        BY <2>1, <3>1, <3>2 DEF TicketTypes, MaybeTicket, PutToBackend
      <4> QED
        BY <2>1, <3>2, <4>1 DEF TicketTypes, PutToBackend
    <3>3. CASE PutToBackendError(w)
      BY <2>1, <3>3 DEF TicketTypes, PutToBackendError
    <3> QED
      BY <2>2, <3>2, <3>3
  <2>3. ASSUME NEW id \in Ids, SetSessionIdentifier(id)
        PROVE  TicketTypes'
    BY <2>1, <2>3 DEF TicketTypes, SetSessionIdentifier
  <2>4. ASSUME Export
        PROVE  TicketTypes'
    BY <2>1, <2>4 DEF TicketTypes, Export
  <2>5. ASSUME UNCHANGED vars
        PROVE  TicketTypes'
    BY <2>1, <2>5 DEF TicketTypes, vars
  <2> QED
    BY <2>2, <2>3, <2>4, <2>5
<1> QED
  BY <1>2, <1>3 DEF LRUInv

\* The keys of a saved session in some order.
LEMMA ListFacts ==
  ASSUME NEW S \in SUBSET Keys, NEW ks \in SetToSeqs(S)
  PROVE  ks \in Seq(Keys) /\ IsInjective(ks) /\ ToSet(ks) \subseteq S
<1>1. Cardinality(S) \in Nat
  BY TLSCacheAssumption, FS_Subset, FS_CardinalityType
<1>2. ks \in [1 .. Cardinality(S) -> S]
  BY DEF SetToSeqs
<1>3. ks \in Seq(Keys) /\ DOMAIN ks = 1 .. Cardinality(S)
  BY <1>1, <1>2
<1>4. IsInjective(ks)
  BY <1>2 DEF SetToSeqs, IsInjective
<1> QED
  BY <1>2, <1>3, <1>4 DEF ToSet

LEMMA LRUInvImport ==
  ASSUME LRUInv, Import
  PROVE  LRUInv'
<1> DEFINE S == {k \in Keys : saved[k] # None /\ ~saved[k].old}
<1>1. PICK ks \in SetToSeqs(S) :
        LET cache == [k \in Keys |-> IF Contains(ks, k) THEN saved[k] ELSE sessions[k]]
            order == accessOrder \o ks
        IN /\ sessions' = Evicted(cache, order)
           /\ accessOrder' = EvictedOrder(cache, order)
           /\ recent' = FilterSeq(recent, Keys \ ToSet(ks)) \o ks
  BY DEF Import
<1>2. ks \in Seq(Keys) /\ IsInjective(ks) /\ ToSet(ks) \subseteq S
  BY ListFacts
<1>3. /\ sessions \in [Keys -> MaybeTicket] /\ saved \in [Keys -> MaybeTicket]
      /\ recent \in Seq(Keys) /\ IsInjective(recent) /\ ToSet(recent) = Keys
      /\ accessOrder = FilterSeq(recent, CachedIn(sessions))
      /\ CachedIn(sessions) = {}
  BY DEF LRUInv, Ordered, TicketTypes, Import, Cached, CachedIn
<1> DEFINE L == ToSet(ks)
           cache == [k \in Keys |-> IF Contains(ks, k) THEN saved[k] ELSE sessions[k]]
           old == FilterSeq(recent, Keys \ L)
           r == old \o ks
<1>4. cache \in [Keys -> MaybeTicket] /\ CachedIn(cache) = L
  <2>1. \A k \in Keys : Contains(ks, k) <=> k \in L
    BY <1>2 DEF Contains, ToSet
  <2>2. \A k \in L : k \in Keys /\ saved[k] # None
    BY <1>2
  <2>3. \A k \in Keys : sessions[k] = None
    BY <1>3 DEF CachedIn
  <2> HIDE DEF L
  <2> QED
    BY <1>3, <2>1, <2>2, <2>3 DEF CachedIn
<1>5. L \subseteq Keys
  BY <1>2
<1> HIDE DEF cache
<1>6. old \in Seq(Keys) /\ IsInjective(old) /\ ToSet(old) = Keys \ L
  <2>1. /\ old \in Seq(Keys) /\ IsInjective(old)
        /\ ToSet(old) = ToSet(recent) \cap (Keys \ L)
    <3> HIDE DEF L
    <3> QED
      BY <1>3, FilterFacts
  <2> QED
    BY <1>3, <2>1
<1>7. r \in Seq(Keys) /\ IsInjective(r) /\ ToSet(r) = Keys
  <2>1. ToSet(old) \cap ToSet(ks) = {}
    BY <1>6
  <2> HIDE DEF old
  <2>2. r \in Seq(Keys) /\ IsInjective(r) /\ ToSet(r) = ToSet(old) \cup ToSet(ks)
    BY <1>2, <1>6, <2>1, JoinFacts
  <2> QED
    BY <1>5, <1>6, <2>2
<1>8. FilterSeq(r, L) = ks
  <2> HIDE DEF old
  <2>1. FilterSeq(old \o ks, L) = FilterSeq(old, L) \o FilterSeq(ks, L)
    BY <1>2, <1>6, FilterConcat
  <2>2. FilterSeq(old, L) = <<>>
    BY <1>6, FilterNone
  <2>3. FilterSeq(ks, L) = ks
    BY <1>2, FilterAll
  <2>4. <<>> \o ks = ks
    BY <1>2, ConcatEmptySeq
  <2> QED
    BY <2>1, <2>2, <2>3, <2>4
<1>9. accessOrder \o ks = ks
  <2>1. accessOrder = <<>>
    BY <1>3, FilterNone
  <2> QED
    BY <1>2, <2>1, ConcatEmptySeq
<1> HIDE DEF old, L
<1>10. Ordered(cache, accessOrder \o ks, r)
  BY <1>4, <1>7, <1>8, <1>9 DEF Ordered
<1>11. /\ sessions' = Evicted(cache, accessOrder \o ks)
       /\ accessOrder' = EvictedOrder(cache, accessOrder \o ks) /\ recent' = r
  BY <1>1 DEF cache, old, L
<1> HIDE DEF r
<1>12. Ordered(sessions', accessOrder', recent') /\ Cardinality(CachedIn(sessions')) <= MaxSize
  BY <1>10, <1>11, EvictOrdered
<1>13. Cardinality(CachedIn(sessions')) \in Nat
  BY SizeKept
<1>14. SizeBound'
  BY <1>12, <1>13, TLSCacheAssumption DEF SizeBound, Cached, CachedIn
<1>15. TicketTypes'
  BY DEF LRUInv, TicketTypes, Import
<1> QED
  BY <1>12, <1>14, <1>15 DEF LRUInv, Ordered, CachedIn

LEMMA LRUInvClear ==
  ASSUME LRUInv, Clear
  PROVE  LRUInv'
<1>1. /\ sessions' \in [Keys -> MaybeTicket] /\ CachedIn(sessions') = {}
      /\ accessOrder' = <<>> /\ recent' = recent
  BY DEF Clear, MaybeTicket, CachedIn
<1>2. recent \in Seq(Keys) /\ IsInjective(recent) /\ ToSet(recent) = Keys
  BY DEF LRUInv, Ordered
<1>3. FilterSeq(recent, {}) = <<>>
  BY <1>2, FilterNone
<1>4. Ordered(sessions', accessOrder', recent')
  BY <1>1, <1>2, <1>3 DEF Ordered
<1>5. SizeBound'
  BY <1>1, FS_EmptySet, TLSCacheAssumption, SMTT(60) DEF SizeBound, Cached, CachedIn
<1>6. TicketTypes'
  BY DEF LRUInv, TicketTypes, Clear
<1> QED
  BY <1>4, <1>5, <1>6 DEF LRUInv, Ordered, CachedIn

LEMMA LRUInvExpire ==
  ASSUME LRUInv, Expire
  PROVE  LRUInv'
<1>1. \A t \in MaybeTicket : Grow(t) \in MaybeTicket /\ (Grow(t) = None <=> t = None)
  <2>1. \A t \in Ticket : [t EXCEPT !.old = TRUE] \in Ticket
    BY DEF Ticket
  <2> QED
    BY <2>1, NoneNotTicket DEF Grow, MaybeTicket
<1>2. /\ TicketTypes /\ SizeBound
      /\ Ordered(sessions, accessOrder, recent) /\ sessions \in [Keys -> MaybeTicket]
  BY DEF LRUInv, Ordered
<1>3. sessions' \in [Keys -> MaybeTicket] /\ CachedIn(sessions') = CachedIn(sessions)
  BY <1>1, <1>2 DEF Expire, CachedIn
<1>4. Ordered(sessions', accessOrder', recent')
  BY <1>2, <1>3 DEF Expire, Ordered
<1>5. SizeBound'
  BY <1>2, <1>3 DEF SizeBound, Cached, CachedIn
<1>6. TicketTypes'
  BY <1>1, <1>2 DEF TicketTypes, Expire
<1> QED
  BY <1>4, <1>5, <1>6 DEF LRUInv, Ordered, CachedIn

LEMMA LRUInvStep == LRUInv /\ [Next]_vars => LRUInv'
<1> SUFFICES ASSUME LRUInv, [Next]_vars
             PROVE  LRUInv'
  OBVIOUS
<1>1. ASSUME NEW k \in Keys, GetHit(k) \/ GetFromBackend(k) \/ Put(k)
      PROVE  LRUInv'
  BY <1>1, LRUInvGetHit, LRUInvGetFromBackend, LRUInvPut
<1> QED
  BY <1>1, LRUInvAside, LRUInvImport, LRUInvClear, LRUInvExpire DEF Next

\* What the run checks of it.
LEMMA LRUInvGives == LRUInv => TypeOK /\ LRUOrder /\ SizeBound
<1> SUFFICES ASSUME LRUInv
             PROVE  TypeOK /\ LRUOrder /\ SizeBound
  OBVIOUS
<1>1. Ordered(sessions, accessOrder, recent) /\ Cached = CachedIn(sessions)
  BY DEF LRUInv, Cached, CachedIn
<1>2. accessOrder \in Seq(Keys) /\ ToSet(accessOrder) = Cached
  BY <1>1, OrderedFacts
<1>3. LRUOrder
  BY <1>1 DEF Ordered, LRUOrder
<1>4. TypeOK
  BY <1>1, <1>2 DEF LRUInv, Ordered, TicketTypes, MaybeTicket, TypeOK
<1> QED
  BY <1>3, <1>4 DEF LRUInv

\* Whatever gets, puts, imports, exports, clears and expiries do, in every order,
\* the TLS session cache evicts the least recently used ticket first: its access
\* order is the order of last use, holds every cached key once and no other, and
\* the cache exceeds its size by at most the entry Put inserts after evicting.
THEOREM LRUSafe == Spec => [](TypeOK /\ LRUOrder /\ SizeBound)
BY LRUInvInit, LRUInvStep, LRUInvGives, PTL DEF Spec

-----------------------------------------------------------------------------
(* Http3Conns                                                              *)

TripType ==
  [pc: {"idle", "sent", "dial", "list", "handshake", "recreate", "again", "done"},
   t: Transports \cup {NoTransport}, n: Int]

Http3Shape ==
  /\ tr \in [Transports -> {"open", "closed"}] /\ current \in Transports
  /\ trip \in [Trips -> TripType]
  /\ assoc \in [Trips -> {"none", "open", "closed"}] /\ watch \in [Trips -> BOOLEAN]
  /\ listed \in SUBSET Trips /\ taken \in [Takers -> SUBSET Trips]

\* Refresh has t.mu while it is at work, and whoever takes the list has closed
\* what it took the time before.
TakersOK ==
  /\ muHolder = "refresh" <=> refresh # "idle"
  /\ refresh # "install" => taken["refresh"] = {}
  /\ closing \in {"no", "assocs"} => taken["close"] = {}

Http3IInv == Http3Shape /\ TakersOK /\ AssocOwned /\ CurrentUsable

LEMMA NoTripType == NoTrip \in TripType /\ NoTrip.t = NoTransport
  BY DEF NoTrip, TripType

LEMMA Http3InitOK == Http3Init => Http3IInv
<1> SUFFICES ASSUME Http3Init PROVE Http3IInv
  OBVIOUS
<1>1. Transports # {}
  <2> SUFFICES ASSUME Transports = {} PROVE FALSE
    OBVIOUS
  <2>1. Cardinality(Transports) = 0 /\ Cardinality(Trips) \in Nat
    BY FS_EmptySet, FS_CardinalityType, Http3Assumption
  <2> QED
    BY <2>1, Http3Assumption
<1>2. current \in Transports /\ tr[current] = "open"
  BY <1>1 DEF Http3Init
<1>3. Http3Shape
  BY <1>2, NoTripType DEF Http3Init, Http3Shape
<1>4. TakersOK /\ AssocOwned /\ CurrentUsable
  BY <1>2 DEF Http3Init, TakersOK, Takers, AssocOwned, CurrentUsable
<1> QED
  BY <1>3, <1>4 DEF Http3IInv

\* There is always an identity for a new http3.Transport: the current one and
\* those the calls refer to are fewer than the identities.
LEMMA SomeUnreferenced ==
  ASSUME Http3Shape PROVE \E u \in Transports : ~Referenced(u)
<1> SUFFICES ASSUME \A u \in Transports : Referenced(u) PROVE FALSE
  OBVIOUS
<1> DEFINE f == [c \in Trips |-> trip[c].t]
           R == {f[c] : c \in Trips}
<1>1. IsFiniteSet(Trips) /\ IsFiniteSet(Transports) /\ Cardinality(Transports) >= Cardinality(Trips) + 2
  BY Http3Assumption
<1>2. IsFiniteSet(R) /\ Cardinality(R) <= Cardinality(Trips)
  <2>1. f \in Surjection(Trips, R)
    BY DEF Surjection
  <2> HIDE DEF f, R
  <2> QED
    BY <1>1, <2>1, FS_Surjection
<1>3. Transports \subseteq R \cup {current}
  BY DEF Referenced
<1> HIDE DEF R
<1>4. IsFiniteSet(R \cup {current}) /\ Cardinality(R \cup {current}) <= Cardinality(R) + 1
  <2>1. Cardinality(R) \in Nat
    BY <1>2, FS_CardinalityType
  <2>2. /\ IsFiniteSet(R \cup {current})
        /\ Cardinality(R \cup {current}) \in {Cardinality(R), Cardinality(R) + 1}
    BY <1>2, FS_AddElement
  <2> QED
    BY <2>1, <2>2
<1>5. Cardinality(Transports) <= Cardinality(R \cup {current})
  BY <1>3, <1>4, FS_Subset
<1>6. Cardinality(R) \in Nat /\ Cardinality(Trips) \in Nat /\ Cardinality(Transports) \in Nat
      /\ Cardinality(R \cup {current}) \in Nat
  BY <1>1, <1>2, <1>4, FS_CardinalityType
<1> QED
  BY <1>1, <1>2, <1>4, <1>5, <1>6

LEMMA BuildFacts ==
  ASSUME Http3Shape, Build
  PROVE  /\ current' \in Transports /\ tr' \in [Transports -> {"open", "closed"}]
         /\ tr'[current'] = "open"
<1> DEFINE t == CHOOSE u \in Transports : ~Referenced(u)
<1>1. t \in Transports
  BY SomeUnreferenced
<1>2. /\ current' = t
      /\ tr' = [tr EXCEPT ![t] = "open"]
  BY DEF Build
<1> HIDE DEF t
<1> QED
  BY <1>1, <1>2 DEF Http3Shape

\* One call's record changes; the transports, the associations and the takers do not.
LEMMA OneTrip ==
  ASSUME Http3IInv, NEW c \in Trips, NEW z \in TripType, trip' = [trip EXCEPT ![c] = z],
         UNCHANGED <<tr, current, muHolder, assoc, listed, watch, taken, socket, refresh, closing>>,
         trip[c].pc \notin {"list", "handshake", "recreate"}
  PROVE  Http3IInv'
<1> USE DEF Http3IInv, Http3Shape
<1>1. /\ trip' \in [Trips -> TripType] /\ trip'[c] = z
      /\ \A d \in Trips \ {c} : trip'[d] = trip[d]
  OBVIOUS
<1>2. AssocOwned'
  BY <1>1 DEF AssocOwned
<1>3. CurrentUsable'
  BY <1>1 DEF CurrentUsable
<1> QED
  BY <1>1, <1>2, <1>3 DEF TakersOK

LEMMA Http3Step == Http3IInv /\ [Http3Next /\ UNCHANGED tunnelled]_http3Vars => Http3IInv'
<1> SUFFICES ASSUME Http3IInv, [Http3Next /\ UNCHANGED tunnelled]_http3Vars
             PROVE  Http3IInv'
  OBVIOUS
<1>1. Http3Shape /\ TakersOK /\ AssocOwned /\ CurrentUsable
  BY DEF Http3IInv
<1>2. CASE UNCHANGED http3Vars
  BY <1>2 DEF http3Vars, Http3IInv, Http3Shape, TakersOK, AssocOwned, CurrentUsable
<1>3. ASSUME NEW c \in Trips, NEW pc \in {"idle", "sent", "dial", "list", "handshake", "recreate", "again", "done"}
      PROVE  /\ [trip[c] EXCEPT !.pc = pc] \in TripType /\ [NoTrip EXCEPT !.pc = pc] \in TripType
             /\ [trip[c] EXCEPT !.pc = pc].pc = pc /\ [NoTrip EXCEPT !.pc = pc].pc = pc
             /\ [trip[c] EXCEPT !.pc = pc].t = trip[c].t
             /\ [trip EXCEPT ![c].pc = pc] = [trip EXCEPT ![c] = [trip[c] EXCEPT !.pc = pc]]
  BY <1>1, NoTripType DEF Http3Shape, TripType
<1>4. ASSUME NEW c \in Trips, Capture(c) PROVE Http3IInv'
  <2>1. [pc |-> "sent", t |-> current, n |-> 0] \in TripType
    BY <1>1 DEF Http3Shape, TripType
  <2> QED
    BY <1>4, <2>1, OneTrip DEF Capture
<1>5. ASSUME NEW c \in Trips, Exchange(c) \/ Dial(c) \/ DialDirect(c) PROVE Http3IInv'
  <2>1. trip[c].pc \notin {"list", "handshake", "recreate"}
    BY <1>5 DEF Exchange, Dial, DialDirect
  <2>2. UNCHANGED <<tr, current, muHolder, assoc, listed, watch, taken, socket, refresh, closing>>
    BY <1>5 DEF Exchange, Dial, DialDirect
  <2>3. \E z \in TripType : trip' = [trip EXCEPT ![c] = z]
    <3>1. CASE Dial(c)
      BY <1>3, <3>1 DEF Dial, Goto
    <3>2. CASE Exchange(c) \/ DialDirect(c)
      BY <1>3, <3>2 DEF Exchange, DialDirect, Leave
    <3> QED
      BY <1>5, <3>1, <3>2
  <2> QED
    BY <2>1, <2>2, <2>3, OneTrip
<1>6. ASSUME NEW c \in Trips, Again(c) PROVE Http3IInv'
  <2>1. trip[c].n + 1 \in Int
    BY <1>1 DEF Http3Shape, TripType
  <2>2. [pc |-> "sent", t |-> current, n |-> trip[c].n + 1] \in TripType
    BY <1>1, <2>1 DEF Http3Shape, TripType
  <2>3. \E z \in TripType : trip' = [trip EXCEPT ![c] = z]
    BY <1>3, <1>6, <2>2 DEF Again, Leave
  <2> QED
    BY <1>6, <2>3, OneTrip DEF Again
<1>7. ASSUME NEW c \in Trips, NEW z \in TripType, trip' = [trip EXCEPT ![c] = z]
      PROVE  /\ trip' \in [Trips -> TripType] /\ trip'[c] = z
             /\ \A d \in Trips \ {c} : trip'[d] = trip[d]
  BY <1>1, <1>7 DEF Http3Shape
<1>8. ASSUME NEW c \in Trips, TunnelDial(c) PROVE Http3IInv'
  <2>1. CASE Leave(c, "done") /\ UNCHANGED assoc
    BY <1>3, <1>8, <2>1, OneTrip DEF TunnelDial, Leave
  <2>2. CASE Leave(c, "list") /\ assoc' = [assoc EXCEPT ![c] = "open"]
    <3>1. /\ trip' \in [Trips -> TripType] /\ trip'[c].pc = "list"
          /\ \A d \in Trips \ {c} : trip'[d] = trip[d]
      BY <1>3, <1>7, <2>2 DEF Leave
    <3>2. /\ UNCHANGED <<tr, current, muHolder, listed, watch, taken, socket, refresh, closing>>
          /\ trip[c].pc = "dial"
      BY <1>8 DEF TunnelDial
    <3>3. Http3Shape' /\ TakersOK'
      BY <1>1, <2>2, <3>1, <3>2 DEF Http3Shape, TakersOK
    <3>4. AssocOwned'
      BY <1>1, <2>2, <3>1, <3>2 DEF AssocOwned, Http3Shape
    <3>5. CurrentUsable'
      BY <1>1, <3>1, <3>2 DEF CurrentUsable
    <3> QED
      BY <3>3, <3>4, <3>5 DEF Http3IInv
  <2> QED
    BY <1>8, <2>1, <2>2 DEF TunnelDial
<1>9. ASSUME NEW c \in Trips, List(c) \/ HandshakeDone(c) \/ HandshakeFailed(c) PROVE Http3IInv'
  <2>1. /\ trip' \in [Trips -> TripType] /\ trip[c].pc \in {"list", "handshake"}
        /\ trip'[c].pc = IF trip[c].pc = "list" THEN "handshake" ELSE "done"
        /\ \A d \in Trips \ {c} : trip'[d] = trip[d]
    <3>1. CASE List(c)
      <4>1. PICK z \in TripType : z.pc = "handshake" /\ [trip EXCEPT ![c].pc = "handshake"] = [trip EXCEPT ![c] = z]
        BY <1>3
      <4>2. trip' = [trip EXCEPT ![c] = z] /\ trip[c].pc = "list"
        BY <3>1, <4>1 DEF List, Goto
      <4> QED
        BY <1>7, <4>1, <4>2
    <3>2. CASE HandshakeDone(c) \/ HandshakeFailed(c)
      <4>1. trip[c].pc = "handshake" /\ Leave(c, "done")
        BY <3>2 DEF HandshakeDone, HandshakeFailed
      <4>2. [NoTrip EXCEPT !.pc = "done"] \in TripType /\ [NoTrip EXCEPT !.pc = "done"].pc = "done"
        BY <1>3
      <4> QED
        BY <1>7, <4>1, <4>2 DEF Leave
    <3> QED
      BY <1>9, <3>1, <3>2
  <2>2. /\ UNCHANGED <<tr, current, muHolder, taken, socket, refresh, closing>>
        /\ assoc' \in [Trips -> {"none", "open", "closed"}] /\ watch' \in [Trips -> BOOLEAN]
        /\ listed' \in SUBSET Trips
    BY <1>1, <1>9 DEF List, HandshakeDone, HandshakeFailed, Http3Shape
  <2>3. Http3Shape' /\ TakersOK'
    BY <1>1, <2>1, <2>2 DEF Http3Shape, TakersOK
  <2>4. CurrentUsable'
    BY <1>1, <2>1, <2>2 DEF CurrentUsable
  <2>5. AssocOwned'
    <3>1. CASE List(c)
      BY <1>1, <2>1, <2>2, <3>1 DEF AssocOwned, List
    <3>2. CASE HandshakeDone(c)
      BY <1>1, <2>1, <2>2, <3>2 DEF AssocOwned, HandshakeDone, Http3Shape
    <3>3. CASE HandshakeFailed(c)
      BY <1>1, <2>1, <2>2, <3>3 DEF AssocOwned, HandshakeFailed, Http3Shape
    <3> QED
      BY <1>9, <3>1, <3>2, <3>3
  <2> QED
    BY <2>3, <2>4, <2>5 DEF Http3IInv
<1>10. ASSUME NEW c \in Trips, Reject(c) PROVE Http3IInv'
  <2>1. /\ trip' \in [Trips -> TripType] /\ trip'[c].pc = "recreate" /\ trip'[c].t = trip[c].t
        /\ \A d \in Trips \ {c} : trip'[d] = trip[d]
    BY <1>3, <1>7, <1>10, ZenonT(60) DEF Reject, Goto
  <2>2. /\ UNCHANGED <<current, muHolder, assoc, listed, watch, taken, socket, refresh, closing>>
        /\ trip[c].pc = "sent" /\ tr' = [tr EXCEPT ![trip[c].t] = "closed"]
    BY <1>10 DEF Reject, CloseTr
  <2>3. Http3Shape' /\ TakersOK'
    BY <1>1, <2>1, <2>2 DEF Http3Shape, TakersOK
  <2>4. AssocOwned'
    BY <1>1, <2>1, <2>2 DEF AssocOwned
  <2>5. CurrentUsable'
    <3> SUFFICES ASSUME tr'[current] = "closed"
                 PROVE  CurrentUsable'
      BY <2>2 DEF CurrentUsable
    <3>1. CASE trip[c].t = current
      BY <2>1, <2>2, <3>1 DEF CurrentUsable
    <3>2. CASE trip[c].t # current
      <4>1. tr[current] = "closed"
        BY <1>1, <2>2, <3>2 DEF Http3Shape
      <4> QED
        BY <1>1, <2>1, <2>2, <4>1 DEF CurrentUsable
    <3> QED
      BY <3>1, <3>2
  <2> QED
    BY <2>3, <2>4, <2>5 DEF Http3IInv
<1>11. ASSUME NEW c \in Trips, Recreate(c) PROVE Http3IInv'
  <2> DEFINE z == [trip[c] EXCEPT !.pc = "again", !.t = NoTransport]
  <2>1. z \in TripType /\ trip' = [trip EXCEPT ![c] = z]
    BY <1>1, <1>11 DEF Recreate, Http3Shape, TripType
  <2> HIDE DEF z
  <2>2. trip' \in [Trips -> TripType] /\ \A d \in Trips \ {c} : trip'[d] = trip[d]
    BY <1>7, <2>1
  <2>3. /\ UNCHANGED <<muHolder, assoc, listed, watch, taken, socket, refresh, closing>>
        /\ trip[c].pc = "recreate"
    BY <1>11 DEF Recreate
  <2>4. current' \in Transports /\ tr' \in [Transports -> {"open", "closed"}] /\ tr'[current'] = "open"
    BY <1>1, <1>11, BuildFacts DEF Recreate
  <2>5. Http3Shape' /\ TakersOK'
    BY <1>1, <2>2, <2>3, <2>4 DEF Http3Shape, TakersOK
  <2>6. AssocOwned'
    BY <1>1, <2>2, <2>3 DEF AssocOwned
  <2> QED
    BY <2>4, <2>5, <2>6 DEF Http3IInv, CurrentUsable
<1>12. ASSUME NEW c \in Trips, TripEnd(c) PROVE Http3IInv'
  <2>1. trip' \in [Trips -> TripType] /\ \A d \in Trips \ {c} : trip'[d] = trip[d]
    BY <1>7, <1>12, NoTripType DEF TripEnd
  <2>2. /\ UNCHANGED <<tr, current, muHolder, listed, watch, taken, socket, refresh, closing>>
        /\ trip[c].pc = "done" /\ assoc' = [assoc EXCEPT ![c] = "none"]
    BY <1>12 DEF TripEnd
  <2>3. Http3Shape' /\ TakersOK'
    BY <1>1, <2>1, <2>2 DEF Http3Shape, TakersOK
  <2>4. AssocOwned' /\ CurrentUsable'
    BY <1>1, <2>1, <2>2 DEF AssocOwned, CurrentUsable, Http3Shape
  <2> QED
    BY <2>3, <2>4 DEF Http3IInv
<1>13. ASSUME NEW c \in Trips, WatchEnd(c) PROVE Http3IInv'
  BY <1>1, <1>13 DEF WatchEnd, Http3IInv, Http3Shape, TakersOK, AssocOwned, CurrentUsable
<1>14. CASE RefreshLock
  BY <1>1, <1>14 DEF RefreshLock, Unlocked, Http3IInv, Http3Shape, TakersOK, AssocOwned, CurrentUsable
<1>15. CASE RefreshClose \/ CloseStart
  BY <1>1, <1>15 DEF RefreshClose, CloseStart, CloseTr, Http3IInv, Http3Shape, TakersOK, AssocOwned,
                     CurrentUsable
<1>16. CASE RefreshSocket
  BY <1>1, <1>16 DEF RefreshSocket, Http3IInv, Http3Shape, TakersOK, AssocOwned, CurrentUsable
<1>17. CASE RefreshTake
  BY <1>1, <1>17 DEF RefreshTake, TakeAll, Takers, Http3IInv, Http3Shape, TakersOK, AssocOwned, CurrentUsable
<1>18. CASE CloseTake
  BY <1>1, <1>18 DEF CloseTake, TakeAll, Takers, Http3IInv, Http3Shape, TakersOK, AssocOwned, CurrentUsable
<1>19. ASSUME NEW w \in Takers, CloseTaken(w) PROVE Http3IInv'
  BY <1>1, <1>19 DEF CloseTaken, Takers, Http3IInv, Http3Shape, TakersOK, AssocOwned, CurrentUsable
<1>20. CASE RefreshInstall
  <2>1. current' \in Transports /\ tr' \in [Transports -> {"open", "closed"}] /\ tr'[current'] = "open"
    BY <1>1, <1>20, BuildFacts DEF RefreshInstall
  <2> QED
    BY <1>1, <1>20, <2>1 DEF RefreshInstall, Http3IInv, Http3Shape, TakersOK, AssocOwned, CurrentUsable
<1>21. CASE CloseSocket
  BY <1>1, <1>21 DEF CloseSocket, Http3IInv, Http3Shape, TakersOK, AssocOwned, CurrentUsable
<1>22. ASSUME NEW c \in Trips, Capture(c) \/ Dial(c) \/ Reject(c) \/ TripStep(c) \/ TripEnd(c) \/ WatchEnd(c)
       PROVE  Http3IInv'
  BY <1>4, <1>5, <1>6, <1>8, <1>9, <1>10, <1>11, <1>12, <1>13, <1>22 DEF TripStep
<1>23. CASE RefreshLock \/ RefreshStep \/ CloseStart \/ CloseStep
  BY <1>14, <1>15, <1>16, <1>17, <1>18, <1>19, <1>20, <1>21, <1>23 DEF RefreshStep, CloseStep, Takers
<1> QED
  BY <1>2, <1>22, <1>23 DEF Http3Next

\* However calls, dials, rejected handshakes, Refresh and Close interleave, an
\* open UDP association has someone who will close it and can be found by Refresh
\* and Close, and a new request meets a closed http3.Transport only where someone
\* is about to replace it or it is closed for good.
THEOREM Http3NothingLost == Http3Spec => []AssocOwned /\ []CurrentUsable
<1>1. Http3IInv => AssocOwned /\ CurrentUsable
  BY DEF Http3IInv
<1> QED
  BY <1>1, Http3InitOK, Http3Step, PTL DEF Http3Spec

-----------------------------------------------------------------------------
(* BodyPool                                                                *)

ReaderType ==
  [pc: {"idle", "got", "copy", "full", "body", "error"}, size: Nat, enc: {"none", "gzip", "identity"},
   buf: Buffers \cup {NoBuffer}]

BodyShape ==
  /\ pooled \in [Buffers -> BOOLEAN]
  /\ class \in [Buffers -> Classes]
  /\ written \in [Buffers -> Readers \cup {NoReader}]
  /\ rd \in [Readers -> ReaderType]

\* A call of doHTTP* relies on its buffer until the body is copied, decompressed
\* or dropped, but not after decompress has returned its argument.
Holds(r) == rd[r].pc \in {"got", "full", "body"} /\ rd[r].buf # NoBuffer /\ ~Returned(r)

\* Nobody else can be given or has the buffer a reader relies on.
BufferOwned ==
  \A r \in Readers :
    /\ Holds(r) => ~pooled[rd[r].buf]
    /\ \A q \in Readers : Holds(r) /\ Holds(q) /\ rd[r].buf = rd[q].buf => r = q
    /\ rd[r].pc \in {"idle", "error"} => rd[r].buf = NoBuffer

\* What is in a buffer that a body was read into is that body.
BufferIntact ==
  \A r \in Readers :
    rd[r].pc \in {"full", "body"} /\ rd[r].buf # NoBuffer /\ ~Returned(r) =>
      /\ written[rd[r].buf] = r
      /\ ~pooled[rd[r].buf]

\* A buffer that was released and is still to be copied from holds its old
\* bytes as long as no other reader was given it.
CopyRaced ==
  /\ mixed \subseteq raced /\ raced \subseteq Readers
  /\ \A r \in Readers : rd[r].pc = "copy" =>
       /\ rd[r].buf \in Buffers
       /\ \/ r \in raced
          \/ /\ written[rd[r].buf] = r
             /\ \A q \in Readers : Holds(q) => rd[q].buf # rd[r].buf

BufferIInv == BodyShape /\ BufferOwned /\ BufferIntact /\ SliceFits

BodyIInv == BufferIInv /\ CopyRaced

LEMMA BodyInitOK == BodyInit => BodyIInv
<1> SUFFICES ASSUME BodyInit PROVE BodyIInv
  OBVIOUS
<1>1. Idle \in ReaderType /\ Idle.pc = "idle" /\ Idle.buf = NoBuffer
  BY DEF Idle, ReaderType
<1>2. \A r \in Readers : rd[r] = Idle
  BY DEF BodyInit
<1> HIDE DEF Idle
<1>3. BodyShape
  BY <1>1 DEF BodyInit, BodyShape, Classes
<1>4. BufferOwned /\ BufferIntact /\ SliceFits
  BY <1>1, <1>2 DEF BufferOwned, BufferIntact, SliceFits, Holds
<1>5. CopyRaced
  BY <1>1, <1>2 DEF BodyInit, CopyRaced
<1> QED
  BY <1>3, <1>4, <1>5 DEF BodyIInv, BufferIInv

\* A body fits into a buffer of the class it is given.
LEMMA PoolForFits ==
  ASSUME NEW size \in Nat, size <= 100
  PROVE  PoolFor(size) \in Classes /\ size <= PoolFor(size)
  BY DEF PoolFor, Classes

\* A reader gives its buffer back to the pool and keeps nothing of it.
LEMMA LetGo ==
  ASSUME BufferIInv, NEW r \in Readers, rd[r].pc \in {"got", "full"},
         NEW z \in ReaderType, z.buf = NoBuffer, rd' = [rd EXCEPT ![r] = z],
         Release(rd[r].buf), Wrote(r, rd[r].buf) \/ written' = written, class' = class
  PROVE  BufferIInv'
<1> USE BodyPoolAssumption DEF BufferIInv, BodyShape
<1>1. /\ rd' \in [Readers -> ReaderType] /\ rd'[r] = z
      /\ \A q \in Readers \ {r} : rd'[q] = rd[q]
  OBVIOUS
<1>2. rd[r].buf \in Buffers \cup {NoBuffer}
  BY DEF ReaderType
<1>3. PICK b \in Buffers \cup {NoBuffer} : b = rd[r].buf
  BY <1>2
<1>4. /\ pooled' \in [Buffers -> BOOLEAN] /\ written' \in [Buffers -> Readers \cup {NoReader}]
      /\ \A c \in Buffers \ {b} : pooled'[c] = pooled[c] /\ written'[c] = written[c]
  BY <1>3 DEF Release, Wrote
<1>5. \A q \in Readers \ {r} : Holds(q) => rd[q].buf # b /\ rd[q].buf \in Buffers
  BY <1>3 DEF BufferOwned, Holds, Returned, ReaderType
<1>6. \A q \in Readers : Holds(q)' => q # r /\ Holds(q)
  BY <1>1 DEF Holds, Returned
<1>7. BufferOwned'
  BY <1>1, <1>4, <1>5, <1>6 DEF BufferOwned
<1>8. BufferIntact'
  <2> SUFFICES ASSUME NEW q \in Readers, rd'[q].pc \in {"full", "body"}, rd'[q].buf # NoBuffer,
                      ~Returned(q)'
               PROVE  written'[rd'[q].buf] = q /\ ~pooled'[rd'[q].buf]
    BY DEF BufferIntact
  <2>1. q # r /\ rd'[q] = rd[q] /\ Holds(q) /\ ~Returned(q)
    BY <1>1 DEF Holds, Returned
  <2> QED
    BY <1>4, <1>5, <2>1 DEF BufferIntact
<1>9. SliceFits'
  BY <1>1 DEF SliceFits
<1> QED
  BY <1>1, <1>4, <1>7, <1>8, <1>9

LEMMA BufferStep == BufferIInv /\ [BodyNext]_poolVars => BufferIInv'
<1> SUFFICES ASSUME BufferIInv, [BodyNext]_poolVars
             PROVE  BufferIInv'
  OBVIOUS
<1> USE BodyPoolAssumption DEF BufferIInv, BodyShape, ReaderType
<1>1. CASE UNCHANGED poolVars
  BY <1>1 DEF poolVars, BufferOwned, BufferIntact, SliceFits, Holds, Returned
<1>2. ASSUME NEW r \in Readers, NEW x \in Bodies, StartRead(r, x.size, x.enc)
      PROVE  BufferIInv'
  <2>1. x.size \in Nat /\ x.enc \in {"none", "gzip", "identity"} /\ rd[r].pc = "idle"
    BY <1>2 DEF StartRead
  <2>2. CASE /\ rd' = [rd EXCEPT ![r] = [pc |-> "got", size |-> x.size, enc |-> x.enc, buf |-> NoBuffer]]
             /\ UNCHANGED <<pooled, class>>
    BY <1>2, <2>1, <2>2 DEF StartRead, BufferOwned, BufferIntact, SliceFits, Holds, Returned
  <2>3. ASSUME NEW b \in Buffers, x.size <= 100, Take(PoolFor(x.size), b),
               rd' = [rd EXCEPT ![r] = [pc |-> "got", size |-> x.size, enc |-> x.enc, buf |-> b]]
        PROVE  BufferIInv'
    <3>1. PoolFor(x.size) \in Classes /\ x.size <= PoolFor(x.size)
      BY <2>1, <2>3, PoolForFits
    <3>2. pooled' \in [Buffers -> BOOLEAN] /\ class' \in [Buffers -> Classes] /\ written' = written
      <4> DEFINE k == PoolFor(x.size)
      <4>1. k \in Classes /\ Take(k, b)
        BY <2>3, <3>1
      <4> HIDE DEF k
      <4>2. written' = written
        BY <1>2 DEF StartRead
      <4>3. pooled' \in [Buffers -> BOOLEAN] /\ class' \in [Buffers -> Classes]
        BY <4>1 DEF Take
      <4> QED
        BY <4>2, <4>3
    <3>3. \A q \in Readers : Holds(q) => rd[q].buf # b
      BY <2>3 DEF Take, InUse, BufferOwned
    <3>4. /\ ~pooled'[b] /\ class'[b] = PoolFor(x.size)
          /\ \A c \in Buffers \ {b} : pooled'[c] = pooled[c] /\ class'[c] = class[c]
          /\ class'[b] = class[b] \/ \A q \in Readers : rd[q].buf # b
      BY <2>3 DEF Take, InUse
    <3>5. /\ rd'[r] = [pc |-> "got", size |-> x.size, enc |-> x.enc, buf |-> b]
          /\ \A q \in Readers \ {r} : rd'[q] = rd[q]
          /\ rd' \in [Readers -> ReaderType]
      BY <2>1, <2>3
    <3>6. BufferOwned'
      BY <2>1, <3>3, <3>4, <3>5 DEF BufferOwned, Holds, Returned
    <3>7. BufferIntact'
      BY <2>1, <3>2, <3>3, <3>4, <3>5 DEF BufferIntact, Holds, Returned
    <3>8. SliceFits'
      BY <2>1, <3>1, <3>4, <3>5 DEF SliceFits
    <3> QED
      BY <3>2, <3>5, <3>6, <3>7, <3>8
  <2> QED
    BY <1>2, <2>2, <2>3 DEF StartRead
<1>3. ASSUME NEW r \in Readers, ReadError(r) PROVE BufferIInv'
  <2>1. PICK pc \in {"full", "body", "error"} : rd' = [rd EXCEPT ![r].pc = pc, ![r].buf = NoBuffer]
    BY <1>3 DEF ReadError
  <2>2. rd' = [rd EXCEPT ![r] = [rd[r] EXCEPT !.pc = pc, !.buf = NoBuffer]]
    BY <2>1
  <2>3. [rd[r] EXCEPT !.pc = pc, !.buf = NoBuffer] \in ReaderType
    BY ZenonT(60)
  <2>4. [rd[r] EXCEPT !.pc = pc, !.buf = NoBuffer].buf = NoBuffer
    OBVIOUS
  <2>5. /\ rd[r].pc \in {"got", "full"} /\ Release(rd[r].buf) /\ class' = class
        /\ Wrote(r, rd[r].buf) \/ written' = written
    BY <1>3 DEF ReadError
  <2> QED
    BY <2>2, <2>3, <2>4, <2>5, LetGo
<1>4. ASSUME NEW r \in Readers, ReadKnown(r) PROVE BufferIInv'
  <2>1. /\ rd[r].pc = "got" /\ rd' = [rd EXCEPT ![r] = [rd[r] EXCEPT !.pc = "full"]]
        /\ Wrote(r, rd[r].buf) /\ UNCHANGED <<pooled, class>>
    BY <1>4 DEF ReadKnown
  <2>2. [rd[r] EXCEPT !.pc = "full"] \in ReaderType
    BY <2>1, ZenonT(60)
  <2>3. PICK z \in ReaderType : /\ rd' = [rd EXCEPT ![r] = z] /\ z.pc = "full"
                                /\ z.buf = rd[r].buf /\ z.size = rd[r].size
    BY <2>1, <2>2
  <2>4. rd' \in [Readers -> ReaderType] /\ rd'[r] = z /\ \A q \in Readers \ {r} : rd'[q] = rd[q]
    BY <2>3
  <2>5. PICK b \in Buffers \cup {NoBuffer} : b = rd[r].buf
    OBVIOUS
  <2>6. /\ written' \in [Buffers -> Readers \cup {NoReader}]
        /\ \A c \in Buffers \ {b} : written'[c] = written[c]
        /\ b \in Buffers => written'[b] = r
    BY <2>1, <2>5 DEF Wrote
  <2>7. \A q \in Readers : Holds(q)' => Holds(q)
    BY <2>1, <2>3, <2>4 DEF Holds, Returned
  <2>8. b \in Buffers => ~pooled[b] /\ \A q \in Readers \ {r} : Holds(q) => rd[q].buf # b
    BY <2>1, <2>5 DEF BufferOwned, Holds, Returned
  <2>9. BufferOwned'
    BY <2>1, <2>3, <2>4, <2>7 DEF BufferOwned
  <2>10. BufferIntact'
    <3> SUFFICES ASSUME NEW q \in Readers, rd'[q].pc \in {"full", "body"}, rd'[q].buf # NoBuffer,
                        ~Returned(q)'
                 PROVE  written'[rd'[q].buf] = q /\ ~pooled'[rd'[q].buf]
      BY DEF BufferIntact
    <3>1. CASE q = r
      BY <2>1, <2>3, <2>4, <2>5, <2>6, <2>8, <3>1
    <3>2. CASE q # r
      <4>1. rd'[q] = rd[q] /\ Holds(q) /\ ~Returned(q) /\ rd[q].buf \in Buffers
        BY <2>4, <3>2 DEF Holds, Returned
      <4>2. rd[q].buf # b
        BY <2>8, <3>2, <4>1
      <4> QED
        BY <2>1, <2>6, <4>1, <4>2 DEF BufferIntact
    <3> QED
      BY <3>1, <3>2
  <2>11. SliceFits'
    BY <2>1, <2>3, <2>4 DEF SliceFits
  <2> QED
    BY <2>1, <2>4, <2>6, <2>9, <2>10, <2>11
<1>5. ASSUME NEW r \in Readers, Outgrow(r) PROVE BufferIInv'
  BY <1>5 DEF Outgrow, Release, Wrote, BufferOwned, BufferIntact, SliceFits, Holds, Returned
<1>6. ASSUME NEW r \in Readers, ReadUnknown(r) PROVE BufferIInv'
  <2>1. PICK pc \in {"full", "body", "error"} : rd' = [rd EXCEPT ![r].pc = pc, ![r].buf = NoBuffer]
    BY <1>6 DEF ReadUnknown
  <2>2. rd' = [rd EXCEPT ![r] = [rd[r] EXCEPT !.pc = pc, !.buf = NoBuffer]]
    BY <2>1
  <2>3. [rd[r] EXCEPT !.pc = pc, !.buf = NoBuffer] \in ReaderType
    BY ZenonT(60)
  <2>4. [rd[r] EXCEPT !.pc = pc, !.buf = NoBuffer].buf = NoBuffer
    OBVIOUS
  <2>5. /\ rd[r].pc \in {"got", "full"} /\ Release(rd[r].buf) /\ class' = class
        /\ Wrote(r, rd[r].buf) \/ written' = written
    BY <1>6 DEF ReadUnknown
  <2> QED
    BY <2>2, <2>3, <2>4, <2>5, LetGo
<1>7. ASSUME NEW r \in Readers, Plain(r) PROVE BufferIInv'
  BY <1>7 DEF Plain, BufferOwned, BufferIntact, SliceFits, Holds, Returned
<1>8. ASSUME NEW r \in Readers, Decompress(r) PROVE BufferIInv'
  <2>1. PICK pc \in {"full", "body", "error"} : rd' = [rd EXCEPT ![r].pc = pc, ![r].buf = NoBuffer]
    BY <1>8 DEF Decompress
  <2>2. rd' = [rd EXCEPT ![r] = [rd[r] EXCEPT !.pc = pc, !.buf = NoBuffer]]
    BY <2>1
  <2>3. [rd[r] EXCEPT !.pc = pc, !.buf = NoBuffer] \in ReaderType
    BY ZenonT(60)
  <2>4. [rd[r] EXCEPT !.pc = pc, !.buf = NoBuffer].buf = NoBuffer
    OBVIOUS
  <2>5. /\ rd[r].pc \in {"got", "full"} /\ Release(rd[r].buf) /\ class' = class
        /\ Wrote(r, rd[r].buf) \/ written' = written
    BY <1>8 DEF Decompress
  <2> QED
    BY <2>2, <2>3, <2>4, <2>5, LetGo
<1>9. ASSUME NEW r \in Readers, Identity(r) PROVE BufferIInv'
  BY <1>9 DEF Identity, Release, BufferOwned, BufferIntact, SliceFits, Holds, Returned
<1>10. ASSUME NEW r \in Readers, Drop(r) PROVE BufferIInv'
  BY <1>10 DEF Drop, Idle, BufferOwned, BufferIntact, SliceFits, Holds, Returned
<1>11. ASSUME NEW b \in Buffers, Collect(b) PROVE BufferIInv'
  BY <1>11 DEF Collect, BufferOwned, BufferIntact, SliceFits, Holds, Returned
<1>12. ASSUME NEW r \in Readers, ReadSome(r) PROVE BufferIInv'
  BY <1>12 DEF ReadSome, Wrote, BufferOwned, BufferIntact, SliceFits, Holds, Returned
<1>13. ASSUME NEW r \in Readers, CopyOut(r) PROVE BufferIInv'
  <2>1. /\ rd' = [rd EXCEPT ![r] = [rd[r] EXCEPT !.pc = "got", !.buf = NoBuffer]]
        /\ UNCHANGED <<pooled, class, written>>
    BY <1>13 DEF CopyOut
  <2>2. [rd[r] EXCEPT !.pc = "got", !.buf = NoBuffer] \in ReaderType
    BY ZenonT(60)
  <2>3. PICK z \in ReaderType : rd' = [rd EXCEPT ![r] = z] /\ z.pc = "got" /\ z.buf = NoBuffer
    BY <2>1, <2>2
  <2>4. rd' \in [Readers -> ReaderType] /\ rd'[r] = z /\ \A q \in Readers \ {r} : rd'[q] = rd[q]
    BY <2>3
  <2>5. \A q \in Readers : Holds(q)' => q # r /\ Holds(q)
    BY <2>3, <2>4 DEF Holds, Returned
  <2>6. BufferOwned'
    BY <2>1, <2>3, <2>4, <2>5 DEF BufferOwned
  <2>7. BufferIntact'
    BY <2>1, <2>3, <2>4 DEF BufferIntact, Returned
  <2>8. SliceFits'
    BY <2>1, <2>3, <2>4 DEF SliceFits
  <2> QED
    BY <2>1, <2>4, <2>6, <2>7, <2>8
<1> QED
  BY <1>1, <1>2, <1>3, <1>4, <1>5, <1>6, <1>7, <1>8, <1>9, <1>10, <1>11, <1>12, <1>13 DEF BodyNext

\* A reader reads on, or is done with its buffer: the buffers of the others that
\* are still to be copied from are not its own.
LEMMA CopyQuiet ==
  ASSUME BodyIInv, NEW r \in Readers, rd[r].pc \in {"got", "full"},
         Wrote(r, rd[r].buf) \/ written' = written,
         \A q \in Readers \ {r} : rd'[q] = rd[q],
         rd'[r].pc # "copy", Holds(r)' => rd'[r].buf = rd[r].buf,
         UNCHANGED <<mixed, raced>>
  PROVE  CopyRaced'
<1> USE DEF BodyIInv, BufferIInv, BodyShape
<1>1. ASSUME NEW s \in Readers, rd'[s].pc = "copy", s \notin raced
      PROVE  /\ written'[rd'[s].buf] = s
             /\ \A q \in Readers : Holds(q)' => rd'[q].buf # rd'[s].buf
  <2>1. s # r /\ rd'[s] = rd[s] /\ rd[s].pc = "copy" /\ rd[s].buf \in Buffers
    BY <1>1 DEF CopyRaced
  <2>2. written[rd[s].buf] = s /\ \A q \in Readers : Holds(q) => rd[q].buf # rd[s].buf
    BY <1>1, <2>1 DEF CopyRaced
  <2>3. rd[r].buf # rd[s].buf
    BY <2>1, <2>2, BodyPoolAssumption DEF Holds, Returned
  <2>4. written'[rd[s].buf] = written[rd[s].buf]
    BY <2>1, <2>3 DEF Wrote
  <2>5. \A q \in Readers \ {r} : Holds(q)' => Holds(q)
    BY DEF Holds, Returned
  <2> QED
    BY <2>1, <2>2, <2>3, <2>4, <2>5
<1>2. ASSUME NEW s \in Readers, rd'[s].pc = "copy"
      PROVE  rd'[s].buf \in Buffers
  BY <1>2 DEF CopyRaced
<1> QED
  BY <1>1, <1>2 DEF CopyRaced

LEMMA CopyStep == BodyIInv /\ [BodyNext]_poolVars => CopyRaced'
<1> SUFFICES ASSUME BodyIInv, [BodyNext]_poolVars
             PROVE  CopyRaced'
  OBVIOUS
<1> USE BodyPoolAssumption
<1>a. BodyShape /\ BufferOwned /\ CopyRaced
  BY DEF BodyIInv, BufferIInv
<1>1. CASE UNCHANGED poolVars
  BY <1>1, <1>a DEF poolVars, CopyRaced, Holds, Returned
<1>2. ASSUME NEW r \in Readers, NEW x \in Bodies, StartRead(r, x.size, x.enc)
      PROVE  CopyRaced'
  <2>1. PICK b \in Buffers \cup {NoBuffer} :
          rd' = [rd EXCEPT ![r] = [pc |-> "got", size |-> x.size, enc |-> x.enc, buf |-> b]]
          /\ raced' = raced \cup {s \in Readers : rd[s].pc = "copy" /\ rd[s].buf = b}
    BY <1>2, <1>a DEF StartRead, CopyRaced
  <2>2. written' = written /\ mixed' = mixed
    BY <1>2 DEF StartRead
  <2>3. /\ rd'[r].pc = "got" /\ rd'[r].buf = b
        /\ \A q \in Readers \ {r} : rd'[q] = rd[q]
    BY <2>1, <1>a DEF BodyShape
  <2>4. \A q \in Readers \ {r} : Holds(q)' => Holds(q)
    BY <2>3 DEF Holds, Returned
  <2>5. ASSUME NEW s \in Readers, rd'[s].pc = "copy"
        PROVE  /\ rd'[s].buf \in Buffers
               /\ \/ s \in raced'
                  \/ /\ written'[rd'[s].buf] = s
                     /\ \A q \in Readers : Holds(q)' => rd'[q].buf # rd'[s].buf
    <3>1. s # r /\ rd'[s] = rd[s]
      BY <2>3, <2>5
    <3>2. rd[s].buf = b => s \in raced'
      BY <2>1, <2>5, <3>1
    <3> QED
      BY <1>a, <2>1, <2>2, <2>3, <2>4, <2>5, <3>1, <3>2 DEF CopyRaced
  <2>6. mixed' \subseteq raced' /\ raced' \subseteq Readers
    BY <2>1, <2>2, <1>a DEF CopyRaced
  <2> QED
    BY <2>5, <2>6 DEF CopyRaced
<1>3. ASSUME NEW r \in Readers,
             ReadSome(r) \/ ReadError(r) \/ ReadKnown(r) \/ ReadUnknown(r)
             \/ Plain(r) \/ Decompress(r) \/ Identity(r)
      PROVE  CopyRaced'
  <2>1. /\ rd[r].pc \in {"got", "full"} /\ UNCHANGED <<mixed, raced>>
        /\ Wrote(r, rd[r].buf) \/ written' = written
    BY <1>3 DEF ReadSome, ReadError, ReadKnown, ReadUnknown, Plain, Decompress, Identity
  <2>2. PICK z : rd' = [rd EXCEPT ![r] = z] /\ z.pc # "copy" /\ z.buf \in {rd[r].buf, NoBuffer}
    <3>1. rd[r] \in ReaderType
      BY <1>a DEF BodyShape
    <3>2. CASE ReadSome(r)
      BY <1>a, <3>2, rd' = [rd EXCEPT ![r] = rd[r]] DEF ReadSome, BodyShape
    <3>3. CASE ~ReadSome(r)
      <4>1. PICK p \in {"full", "body", "error"}, b \in {rd[r].buf, NoBuffer} :
              rd' = [rd EXCEPT ![r] = [rd[r] EXCEPT !.pc = p, !.buf = b]]
        <5>1. \A p : [rd[r] EXCEPT !.pc = p] = [rd[r] EXCEPT !.pc = p, !.buf = rd[r].buf]
          BY <3>1 DEF ReaderType
        <5>2. CASE ReadError(r)
          BY <5>2 DEF ReadError
        <5>3. CASE ReadUnknown(r)
          BY <5>3 DEF ReadUnknown
        <5>4. CASE Decompress(r)
          BY <5>4 DEF Decompress
        <5>5. CASE ReadKnown(r)
          BY <5>1, <5>5 DEF ReadKnown
        <5>6. CASE Plain(r)
          BY <5>1, <5>6 DEF Plain
        <5>7. CASE Identity(r)
          BY <5>1, <5>7 DEF Identity
        <5> QED
          BY <1>3, <3>3, <5>2, <5>3, <5>4, <5>5, <5>6, <5>7
      <4>2. [rd[r] EXCEPT !.pc = p, !.buf = b].pc = p /\ [rd[r] EXCEPT !.pc = p, !.buf = b].buf = b
        BY <3>1 DEF ReaderType
      <4> QED
        BY <4>1, <4>2
    <3> QED
      BY <3>2, <3>3
  <2>3. /\ rd'[r].pc # "copy" /\ rd'[r].buf \in {rd[r].buf, NoBuffer}
        /\ \A q \in Readers \ {r} : rd'[q] = rd[q]
    BY <2>2, <1>a DEF BodyShape
  <2>4. Holds(r)' => rd'[r].buf = rd[r].buf
    BY <2>3 DEF Holds
  <2> QED
    BY <2>1, <2>3, <2>4, CopyQuiet
<1>4. ASSUME NEW r \in Readers, Outgrow(r) PROVE CopyRaced'
  <2>1. PICK b \in Buffers : b = rd[r].buf /\ Holds(r)
    BY <1>4, <1>a DEF Outgrow, Holds, Returned, BodyShape, ReaderType
  <2>2. /\ written' = [written EXCEPT ![b] = r] /\ UNCHANGED <<mixed, raced>>
        /\ rd'[r].pc = "copy" /\ rd'[r].buf = b
        /\ \A q \in Readers \ {r} : rd'[q] = rd[q]
    BY <1>4, <1>a, <2>1 DEF Outgrow, Wrote, BodyShape, ReaderType
  <2>3. \A q \in Readers : Holds(q)' => q # r /\ Holds(q) /\ rd'[q].buf = rd[q].buf
    BY <2>2 DEF Holds, Returned
  <2>4. \A q \in Readers \ {r} : Holds(q) => rd[q].buf # b
    BY <1>a, <2>1 DEF BufferOwned
  <2>5. written'[b] = r /\ \A c \in Buffers \ {b} : written'[c] = written[c]
    BY <2>2, <1>a DEF BodyShape
  <2>6. ASSUME NEW s \in Readers \ {r}, rd'[s].pc = "copy"
        PROVE  /\ rd'[s].buf \in Buffers
               /\ \/ s \in raced
                  \/ /\ written'[rd'[s].buf] = s
                     /\ \A q \in Readers : Holds(q)' => rd'[q].buf # rd'[s].buf
    BY <1>a, <2>1, <2>2, <2>3, <2>5, <2>6 DEF CopyRaced
  <2> QED
    BY <1>a, <2>2, <2>3, <2>4, <2>5, <2>6 DEF CopyRaced
<1>5. ASSUME NEW r \in Readers, CopyOut(r) PROVE CopyRaced'
  <2>1. /\ rd[r].pc = "copy" /\ written' = written /\ raced' = raced
        /\ rd'[r].pc = "got" /\ rd'[r].buf = NoBuffer
        /\ \A q \in Readers \ {r} : rd'[q] = rd[q]
    BY <1>5, <1>a DEF CopyOut, BodyShape, ReaderType
  <2>2. mixed' \subseteq raced
    BY <1>5, <2>1, <1>a DEF CopyOut, CopyRaced
  <2>3. \A q \in Readers : Holds(q)' => q # r /\ Holds(q) /\ rd'[q].buf = rd[q].buf
    BY <2>1 DEF Holds, Returned
  <2> QED
    BY <1>a, <2>1, <2>2, <2>3 DEF CopyRaced
<1>6. ASSUME NEW r \in Readers, Drop(r) PROVE CopyRaced'
  <2>1. /\ written' = written /\ raced' = raced \ {r} /\ mixed' = mixed \ {r}
        /\ rd'[r] = Idle /\ \A q \in Readers \ {r} : rd'[q] = rd[q]
    BY <1>6, <1>a DEF Drop, BodyShape
  <2>2. Idle.pc = "idle"
    BY DEF Idle
  <2>3. \A q \in Readers : Holds(q)' => q # r /\ Holds(q) /\ rd'[q].buf = rd[q].buf
    BY <2>1, <2>2 DEF Holds, Returned
  <2> QED
    BY <1>a, <2>1, <2>2, <2>3 DEF CopyRaced
<1>7. ASSUME NEW b \in Buffers, Collect(b) PROVE CopyRaced'
  BY <1>7, <1>a DEF Collect, CopyRaced, Holds, Returned
<1> QED
  BY <1>1, <1>2, <1>3, <1>4, <1>5, <1>6, <1>7 DEF BodyNext

LEMMA BodyStep == BodyIInv /\ [BodyNext]_poolVars => BodyIInv'
BY BufferStep, CopyStep DEF BodyIInv

\* A body that was handed out holds what its own call wrote, whatever the other
\* calls and the garbage collector do to the sync.Pools, unless its buffer was
\* given to another call between release() and copy(); and no slice exceeds its
\* buffer, for every Content-Length.
THEOREM BodiesIntact == BodySpec => []BodyIntact /\ []SliceFits
<1>1. BodyIInv => BodyIntact /\ SliceFits
  BY DEF BodyIInv, BufferIInv, BufferIntact, CopyRaced, BodyIntact
<1> QED
  BY <1>1, BodyInitOK, BodyStep, PTL DEF BodySpec

-----------------------------------------------------------------------------
(* QuicPool                                                                *)

\* The locals of a call of GetConn and RoundTrip: where it has a pool and where
\* a connection.
QCallType ==
  [pc: {"idle", "miss", "pool", "hit", "create", "append", "trip", "dial"},
   pool: QPools \cup {NoQ}, conn: QConns \cup {NoQ}, ips: Nat]

QCallOK(r) ==
  /\ r.pc \in {"pool", "create", "append"} => r.pool \in QPools
  /\ r.pc \in {"hit", "append", "trip", "dial"} => r.conn \in QConns

QShape ==
  /\ qPool \in QPools \cup {NoQ}
  /\ qSweep \in {"none", "stats", "delete", "drop"}
  /\ qList \in [QPools -> SUBSET QConns]
  /\ qState \in [QConns -> {"free", "open", "closed"}]
  /\ qClosing \in SUBSET QConns /\ qLate \in SUBSET QConns
  /\ qDials \in [QConns -> Nat]
  /\ qSockets \in [QConns -> Nat]
  /\ qCall \in [Callers -> QCallType]
  /\ \A g \in Callers : QCallOK(qCall[g])

\* A pool that is given up has nothing in its list but what came too late, so
\* none of it stops being owned when the pool leaves the map.
QLateKnown == \A p \in QPools : QGivenUp(p) => qList[p] \subseteq qLate

QuicIInv == QShape /\ QuicOwned /\ QLateKnown

LEMMA QuicInitOK == QuicInit => QuicIInv
<1> SUFFICES ASSUME QuicInit PROVE QuicIInv
  OBVIOUS
<1>1. QShape
  BY QuicPoolAssumption DEF QuicInit, QShape, QCallOK, QCallType, NoQCall
<1>2. QuicOwned /\ QLateKnown
  BY DEF QuicInit, QuicOwned, QLateKnown
<1> QED
  BY <1>1, <1>2 DEF QuicIInv

\* The connection of a call about to append it stays with the call.
QHoldersStay == \A h \in Callers : qCall[h].pc = "append" => qCall'[h] = qCall[h]

\* A step that moves no connection and gives up, or takes back, empty pools
\* only.
LEMMA QQuiet ==
  ASSUME QuicIInv, UNCHANGED <<qList, qState, qClosing, qLate>>, QHoldersStay,
         \A c \in QConns : qSockets'[c] = qDials'[c],
         \A p \in QPools : qList[p] # {} => (QGivenUp(p)' <=> QGivenUp(p))
  PROVE  QuicOwned' /\ QLateKnown'
<1>1. QLateKnown'
  BY DEF QuicIInv, QLateKnown
<1>2. \A p \in QPools : p # qPool' => QGivenUp(p)'
  BY DEF QGivenUp
<1>3. QuicOwned'
  <2> SUFFICES ASSUME NEW c \in QConns
               PROVE  /\ qState[c] = "open" =>
                           \/ \E p \in QPools : c \in qList[p] /\ (p = qPool' \/ c \in qLate)
                           \/ c \in qClosing
                           \/ \E g \in Callers : qCall'[g].conn = c /\ qCall'[g].pc = "append"
                      /\ c \in qLate =>
                           \/ qState[c] = "closed" \/ c \in qClosing
                           \/ \E p \in QPools : QGivenUp(p)' /\ c \in qList[p]
    BY DEF QuicOwned
  <2>1. ASSUME NEW p \in QPools, c \in qList[p]
        PROVE  (QGivenUp(p)' <=> QGivenUp(p)) /\ (p = qPool' \/ c \in qLate)
    BY <1>2, <2>1 DEF QuicIInv, QLateKnown
  <2> QED
    BY <2>1 DEF QuicIInv, QuicOwned, QHoldersStay
<1> QED
  BY <1>1, <1>3

\* The eviction of GetConn, CloseIdle and the pool's two ways of closing: some
\* connections of one list become pending closes.
LEMMA QEvicts ==
  ASSUME QuicIInv, NEW p \in QPools, NEW keep \in SUBSET qList[p], QEvict(p, keep),
         UNCHANGED <<qState, qLate, qDials, qSockets>>, QHoldersStay,
         \A q \in QPools : qList'[q] # {} => (QGivenUp(q)' <=> QGivenUp(q))
  PROVE  QuicOwned' /\ QLateKnown'
<1>1. \A q \in QPools : qList'[q] = IF q = p THEN keep ELSE qList[q]
  BY DEF QuicIInv, QShape, QEvict
<1>2. qClosing' = qClosing \cup (qList[p] \ keep)
  BY DEF QEvict
<1>3. QLateKnown'
  BY <1>1 DEF QuicIInv, QLateKnown
<1>4. \A q \in QPools : q # qPool' => QGivenUp(q)'
  BY DEF QGivenUp
<1>5. QuicOwned'
  <2> SUFFICES ASSUME NEW c \in QConns
               PROVE  /\ qState[c] = "open" =>
                           \/ \E q \in QPools : c \in qList'[q] /\ (q = qPool' \/ c \in qLate)
                           \/ c \in qClosing'
                           \/ \E g \in Callers : qCall'[g].conn = c /\ qCall'[g].pc = "append"
                      /\ c \in qLate =>
                           \/ qState[c] = "closed" \/ c \in qClosing'
                           \/ \E q \in QPools : QGivenUp(q)' /\ c \in qList'[q]
    BY DEF QuicIInv, QuicOwned
  <2>1. ASSUME NEW q \in QPools, c \in qList[q]
        PROVE  \/ c \in qClosing'
               \/ /\ c \in qList'[q] /\ (QGivenUp(q)' <=> QGivenUp(q))
                  /\ q = qPool' \/ c \in qLate
    <3>1. CASE q = p /\ c \notin keep
      BY <1>2, <2>1, <3>1
    <3>2. CASE ~(q = p /\ c \notin keep)
      <4>1. c \in qList'[q]
        BY <1>1, <2>1, <3>2
      <4> QED
        BY <1>4, <2>1, <4>1 DEF QuicIInv, QLateKnown
    <3> QED
      BY <3>1, <3>2
  <2> QED
    BY <1>2, <2>1 DEF QuicIInv, QuicOwned, QHoldersStay
<1> QED
  BY <1>3, <1>5

\* One call's record changes to a well-formed one: all calls are well-formed.
LEMMA QOneCall ==
  ASSUME QShape, NEW g \in Callers, NEW r \in QCallType, QCallOK(r), qCall' = [qCall EXCEPT ![g] = r]
  PROVE  /\ qCall' \in [Callers -> QCallType]
         /\ \A h \in Callers : QCallOK(qCall'[h])
         /\ qCall'[g] = r /\ \A h \in Callers \ {g} : qCall'[h] = qCall[h]
<1>1. qCall'[g] = r /\ \A h \in Callers \ {g} : qCall'[h] = qCall[h]
  BY DEF QShape
<1>2. \A h \in Callers : QCallOK(qCall'[h])
  BY <1>1 DEF QShape
<1>3. qCall' \in [Callers -> QCallType]
  BY DEF QShape
<1> QED
  BY <1>1, <1>2, <1>3

LEMMA QuicStep == QuicIInv /\ [QuicNext]_quicVars => QuicIInv'
<1> SUFFICES ASSUME QuicIInv, [QuicNext]_quicVars
             PROVE  QuicIInv'
  OBVIOUS
<1> USE DEF QuicIInv
<1>a. ASSUME UNCHANGED <<qPool, qSweep>>
      PROVE  \A p \in QPools : QGivenUp(p)' <=> QGivenUp(p)
  BY <1>a DEF QGivenUp
<1>b. ASSUME UNCHANGED <<qList, qState, qClosing, qLate, qDials, qSockets>>,
             UNCHANGED <<qPool, qSweep>>, QHoldersStay
      PROVE  QuicOwned' /\ QLateKnown'
  BY <1>a, <1>b, QQuiet DEF QuicOwned
<1>1. CASE UNCHANGED quicVars
  <2>1. QShape'
    BY <1>1 DEF quicVars, qmgrVars, qconnVars, qdialVars, QShape
  <2>2. QuicOwned' /\ QLateKnown'
    BY <1>1, <1>b DEF quicVars, qmgrVars, qconnVars, qdialVars, QHoldersStay
  <2> QED
    BY <2>1, <2>2
<1>2. ASSUME NEW g \in Callers, QGetPoolRead(g) PROVE QuicIInv'
  <2> DEFINE r == [qCall[g] EXCEPT !.pc = IF qPool = NoQ THEN "miss" ELSE "pool", !.pool = qPool]
  <2>1. r \in QCallType /\ r.pool = qPool /\ r.pc = IF qPool = NoQ THEN "miss" ELSE "pool"
    BY DEF QShape, QCallType
  <2>2. qCall' = [qCall EXCEPT ![g] = r]
    BY <1>2 DEF QGetPoolRead, QShape, QCallType
  <2> HIDE DEF r
  <2>3. QCallOK(r)
    BY <2>1 DEF QCallOK, QShape
  <2>4. QShape'
    BY <1>2, <2>1, <2>2, <2>3, QOneCall DEF QGetPoolRead, QShape, qmgrVars, qconnVars, qdialVars
  <2>5. QuicOwned' /\ QLateKnown'
    <3>1. QHoldersStay
      BY <1>2, <2>2 DEF QGetPoolRead, QShape, QHoldersStay
    <3> QED
      BY <1>2, <1>b, <3>1 DEF QGetPoolRead, qmgrVars, qconnVars, qdialVars
  <2> QED
    BY <2>4, <2>5
<1>3. ASSUME NEW g \in Callers, QGetPoolCreate(g) PROVE QuicIInv'
  <2>0. qPool' \in QPools \cup {NoQ} /\ UNCHANGED <<qSweep, qList, qconnVars, qdialVars>>
    BY <1>3 DEF QGetPoolCreate, QShape
  <2>1. \E r \in QCallType : QCallOK(r) /\ qCall' = [qCall EXCEPT ![g] = r]
    <3>1. CASE QReturn(g)
      BY <3>1, QuicPoolAssumption DEF QReturn, NoQCall, QCallType, QCallOK
    <3>2. ASSUME NEW p \in QPools, qCall' = [qCall EXCEPT ![g].pc = "pool", ![g].pool = p]
          PROVE  \E r \in QCallType : QCallOK(r) /\ qCall' = [qCall EXCEPT ![g] = r]
      <4> DEFINE r == [qCall[g] EXCEPT !.pc = "pool", !.pool = p]
      <4>1. r \in QCallType /\ r.pool = p /\ r.pc = "pool"
        BY DEF QShape, QCallType
      <4>2. qCall' = [qCall EXCEPT ![g] = r]
        BY <3>2 DEF QShape, QCallType
      <4> HIDE DEF r
      <4> QED
        BY <4>1, <4>2 DEF QCallOK
    <3> QED
      BY <1>3, <3>1, <3>2 DEF QGetPoolCreate, QShape
  <2>2. QShape'
    BY <2>0, <2>1, QOneCall DEF QShape, qconnVars, qdialVars
  <2>3. \A h \in Callers : qCall[h].pc = "append" => qCall'[h] = qCall[h]
    BY <1>3, <2>1 DEF QGetPoolCreate, QShape
  <2>4. QuicOwned' /\ QLateKnown'
    <3>1. QHoldersStay
      BY <2>3 DEF QHoldersStay
    <3>2. UNCHANGED qPool \/ (qPool = NoQ /\ \E p \in QPools : qPool' = p /\ qList[p] = {})
      BY <1>3 DEF QGetPoolCreate
    <3>3. \A p \in QPools : qList[p] # {} => (QGivenUp(p)' <=> QGivenUp(p))
      BY <2>0, <3>2, QuicPoolAssumption DEF QGivenUp
    <3>4. \A c \in QConns : qSockets'[c] = qDials'[c]
      BY <2>0 DEF qdialVars, QuicOwned
    <3> QED
      BY <2>0, <3>1, <3>3, <3>4, QQuiet DEF qconnVars
  <2> QED
    BY <2>2, <2>4
<1>4. ASSUME NEW g \in Callers, QReuse(g) PROVE QuicIInv'
  <2>1. PICK c \in QConns : qCall' = [qCall EXCEPT ![g].pc = "hit", ![g].conn = c]
    BY <1>4 DEF QReuse, QShape, QCallOK
  <2> DEFINE r == [qCall[g] EXCEPT !.pc = "hit", !.conn = c]
  <2>2. r \in QCallType /\ r.conn = c /\ r.pc = "hit"
    BY DEF QShape, QCallType
  <2>3. qCall' = [qCall EXCEPT ![g] = r]
    BY <2>1 DEF QShape, QCallType
  <2> HIDE DEF r
  <2>4. QCallOK(r)
    BY <2>2 DEF QCallOK
  <2>5. QShape'
    BY <1>4, <2>2, <2>3, <2>4, QOneCall DEF QReuse, QShape, qmgrVars, qconnVars, qdialVars
  <2>6. QuicOwned' /\ QLateKnown'
    <3>1. QHoldersStay
      BY <1>4, <2>3 DEF QReuse, QShape, QHoldersStay
    <3> QED
      BY <1>4, <1>b, <3>1 DEF QReuse, qmgrVars, qconnVars, qdialVars
  <2> QED
    BY <2>5, <2>6
<1>5. ASSUME NEW g \in Callers, QMarkUsed(g) PROVE QuicIInv'
  <2>1. QShape'
    BY <1>5, QuicPoolAssumption
    DEF QMarkUsed, QReturn, NoQCall, QShape, QCallOK, QCallType, QEvict, qmgrVars, qconnVars, qdialVars
  <2>2. QuicOwned' /\ QLateKnown'
    <3>1. QHoldersStay
      BY <1>5 DEF QMarkUsed, QReturn, QShape, QHoldersStay
    <3> QED
      BY <1>5, <1>b, <3>1 DEF QMarkUsed, qmgrVars, qconnVars, qdialVars
  <2> QED
    BY <2>1, <2>2
<1>6. ASSUME NEW g \in Callers, QGetConnMiss(g) PROVE QuicIInv'
  <2>1. QShape'
    BY <1>6, QuicPoolAssumption, SMTT(30)
    DEF QGetConnMiss, QReturn, NoQCall, QShape, QCallOK, QCallType, QEvict, qmgrVars, qconnVars, qdialVars
  <2>2. QuicOwned' /\ QLateKnown'
    <3>1. qCall[g].pool \in QPools /\ qCall[g].pc = "pool"
      BY <1>6 DEF QGetConnMiss, QShape, QCallOK
    <3>2. PICK keep \in SUBSET qList[qCall[g].pool] : QEvict(qCall[g].pool, keep)
      BY <1>6 DEF QGetConnMiss
    <3>3. QHoldersStay
      BY <1>6, <3>1 DEF QGetConnMiss, QReturn, QShape, QHoldersStay
    <3>4. UNCHANGED <<qPool, qSweep, qState, qLate, qSockets, qDials>>
      BY <1>6 DEF QGetConnMiss, qmgrVars, qdialVars
    <3> QED
      BY <1>a, <3>1, <3>2, <3>3, <3>4, QEvicts
  <2> QED
    BY <2>1, <2>2
<1>7. ASSUME NEW g \in Callers, QCreateConn(g) PROVE QuicIInv'
  <2>1. CASE QReturn(g) /\ UNCHANGED <<qState, qAge>>
    <3>1. QShape'
      BY <1>7, <2>1, QuicPoolAssumption
      DEF QCreateConn, QReturn, NoQCall, QShape, QCallOK, QCallType, qmgrVars, qdialVars
    <3>2. QHoldersStay
      BY <1>7, <2>1 DEF QCreateConn, QReturn, QShape, QHoldersStay
    <3>3. QuicOwned' /\ QLateKnown'
      BY <1>7, <1>b, <2>1, <3>2 DEF QCreateConn, qmgrVars, qdialVars
    <3> QED
      BY <3>1, <3>3
  <2>2. ASSUME NEW c \in QConns, qState[c] = "free",
               qState' = [qState EXCEPT ![c] = "open"],
               qCall' = [qCall EXCEPT ![g].pc = "append", ![g].conn = c]
        PROVE  QuicIInv'
    <3> DEFINE r == [qCall[g] EXCEPT !.pc = "append", !.conn = c]
    <3>1. r \in QCallType /\ r.conn = c /\ r.pc = "append" /\ r.pool = qCall[g].pool
      BY DEF QShape, QCallType
    <3>2. qCall' = [qCall EXCEPT ![g] = r]
      BY <2>2 DEF QShape, QCallType
    <3> HIDE DEF r
    <3>3. QCallOK(r)
      BY <1>7, <3>1 DEF QCallOK, QShape, QCreateConn
    <3>4. QShape'
      BY <1>7, <2>2, <3>1, <3>2, <3>3, QOneCall DEF QCreateConn, QShape, qmgrVars, qconnVars, qdialVars
    <3>5. qCall'[g] = r /\ \A h \in Callers \ {g} : qCall'[h] = qCall[h]
      BY <3>1, <3>2, <3>3, QOneCall
    <3>7. qState[c] # "closed"
      BY <2>2
    <3>6. QuicOwned'
      <4>1. \A d \in QConns : d # c => qState'[d] = qState[d]
        BY <2>2 DEF QShape
      <4>2. \A h \in Callers : qCall[h].pc = "append" => qCall'[h] = qCall[h]
        BY <1>7, <3>5 DEF QCreateConn
      <4>3. UNCHANGED <<qPool, qSweep, qList, qClosing, qLate, qDials, qSockets>>
        BY <1>7 DEF QCreateConn, qmgrVars, qdialVars
      <4>4. \A p \in QPools : QGivenUp(p)' <=> QGivenUp(p)
        BY <1>a, <4>3
      <4>5. qState[c] # "closed"
        BY <3>7
      <4>6. ASSUME NEW d \in QConns, d # c
            PROVE  /\ qState'[d] = "open" =>
                        \/ \E p \in QPools : d \in qList'[p] /\ (p = qPool' \/ d \in qLate')
                        \/ d \in qClosing'
                        \/ \E h \in Callers : qCall'[h].conn = d /\ qCall'[h].pc = "append"
                   /\ d \in qLate' =>
                        \/ qState'[d] = "closed" \/ d \in qClosing'
                        \/ \E p \in QPools : QGivenUp(p)' /\ d \in qList'[p]
        BY <4>1, <4>2, <4>3, <4>4, <4>6 DEF QuicOwned
      <4>7. \E h \in Callers : qCall'[h].conn = c /\ qCall'[h].pc = "append"
        BY <3>1, <3>5
      <4>8. c \in qLate' => c \in qClosing' \/ \E p \in QPools : QGivenUp(p)' /\ c \in qList'[p]
        BY <4>3, <4>4, <4>5 DEF QuicOwned
      <4>9. \A d \in QConns : qSockets'[d] = qDials'[d]
        BY <4>3 DEF QuicOwned
      <4> QED
        BY <4>6, <4>7, <4>8, <4>9 DEF QuicOwned
    <3>8. QLateKnown'
      <4>1. UNCHANGED <<qPool, qSweep, qList, qLate>>
        BY <1>7 DEF QCreateConn, qmgrVars
      <4> QED
        BY <1>a, <4>1 DEF QLateKnown
    <3> QED
      BY <3>4, <3>6, <3>8
  <2> QED
    BY <1>7, <2>1, <2>2 DEF QCreateConn
<1>8. ASSUME NEW g \in Callers, QAppend(g) PROVE QuicIInv'
  <2>1. QShape'
    BY <1>8, QuicPoolAssumption
    DEF QAppend, QReturn, NoQCall, QShape, QCallOK, QCallType, QEvict, qmgrVars, qconnVars, qdialVars
  <2>2. QuicOwned' /\ QLateKnown'
    <3> DEFINE q == qCall[g].pool
               d == qCall[g].conn
    <3>1. /\ q \in QPools /\ d \in QConns /\ qCall[g].pc = "append"
          /\ qList' = [qList EXCEPT ![q] = qList[q] \cup {d}]
          /\ qLate' = IF QGivenUp(q) THEN qLate \cup {d} ELSE qLate
          /\ UNCHANGED <<qPool, qSweep, qState, qClosing, qDials, qSockets>>
      BY <1>8 DEF QAppend, QShape, QCallOK, qmgrVars, qdialVars
    <3>2. \A h \in Callers \ {g} : qCall'[h] = qCall[h]
      BY <1>8 DEF QAppend, QShape
    <3> HIDE DEF q, d
    <3>3. \A p \in QPools, c \in QConns :
            c \in qList'[p] <=> c \in qList[p] \/ (p = q /\ c = d)
      BY <3>1 DEF QShape
    <3>4. \A p \in QPools : /\ QGivenUp(p)' <=> QGivenUp(p)
                            /\ QGivenUp(p) \/ p = qPool
      BY <1>a, <3>1 DEF QGivenUp
    <3>5. QLateKnown'
      <4> SUFFICES ASSUME NEW p \in QPools, QGivenUp(p), NEW c \in qList'[p]
                   PROVE  c \in qLate'
        BY <3>4 DEF QLateKnown
      <4>1. c \in QConns
        BY <3>1 DEF QShape
      <4> QED
        BY <3>1, <3>3, <4>1 DEF QLateKnown
    <3>6. QuicOwned'
      <4> SUFFICES ASSUME NEW c \in QConns
                   PROVE  /\ qState'[c] = "open" =>
                               \/ \E p \in QPools : c \in qList'[p] /\ (p = qPool' \/ c \in qLate')
                               \/ c \in qClosing'
                               \/ \E h \in Callers : qCall'[h].conn = c /\ qCall'[h].pc = "append"
                          /\ c \in qLate' =>
                               \/ qState'[c] = "closed" \/ c \in qClosing'
                               \/ \E p \in QPools : QGivenUp(p)' /\ c \in qList'[p]
                          /\ qSockets'[c] = qDials'[c]
        BY DEF QuicOwned
      <4>1. qSockets'[c] = qDials'[c]
        BY <3>1 DEF QuicOwned
      <4>2. CASE c = d
        <5>1. c \in qList'[q] /\ (q = qPool' \/ c \in qLate')
          BY <3>1, <3>3, <3>4, <4>2
        <5>2. c \in qLate' => QGivenUp(q) \/ c \in qLate
          BY <3>1
        <5> QED
          BY <3>1, <3>3, <3>4, <4>1, <5>1, <5>2 DEF QuicOwned
      <4>3. CASE c # d
        <5>1. c \in qLate' <=> c \in qLate
          BY <3>1, <4>3
        <5>2. \A h \in Callers : qCall[h].conn = c => h # g
          BY <4>3 DEF d
        <5> QED
          BY <3>1, <3>2, <3>3, <3>4, <4>1, <4>3, <5>1, <5>2 DEF QuicOwned
      <4> QED
        BY <4>2, <4>3
    <3> QED
      BY <3>5, <3>6
  <2> QED
    BY <2>1, <2>2
<1>9. ASSUME NEW g \in Callers, QTrip(g) PROVE QuicIInv'
  <2>1. QShape'
    BY <1>9, QuicPoolAssumption
    DEF QTrip, QReturn, NoQCall, QShape, QCallOK, QCallType, QEvict, qmgrVars, qconnVars, qdialVars
  <2>2. QuicOwned' /\ QLateKnown'
    <3>1. QHoldersStay
      BY <1>9 DEF QTrip, QReturn, QShape, QHoldersStay
    <3> QED
      BY <1>9, <1>b, <3>1 DEF QTrip, qmgrVars, qconnVars, qdialVars
  <2> QED
    BY <2>1, <2>2
<1>10. ASSUME NEW g \in Callers, QDialStart(g) PROVE QuicIInv'
  <2>1. QShape'
    BY <1>10, QuicPoolAssumption, ZenonT(60)
    DEF QDialStart, QReturn, NoQCall, QShape, QCallOK, QCallType, QEvict, qmgrVars, qconnVars, qdialVars
  <2>2. QuicOwned' /\ QLateKnown'
    <3>1. QHoldersStay
      BY <1>10 DEF QDialStart, QReturn, QShape, QHoldersStay
    <3> QED
      BY <1>10, <1>b, <3>1 DEF QDialStart, qmgrVars, qconnVars, qdialVars
  <2> QED
    BY <2>1, <2>2
<1>11. ASSUME NEW g \in Callers, QDialFailed(g) PROVE QuicIInv'
  <2>1. QShape'
    BY <1>11, QuicPoolAssumption
    DEF QDialFailed, QReturn, NoQCall, QShape, QCallOK, QCallType, QEvict, qmgrVars, qconnVars, qdialVars
  <2>2. QuicOwned' /\ QLateKnown'
    <3>1. QHoldersStay
      BY <1>11 DEF QDialFailed, QReturn, QShape, QHoldersStay
    <3> QED
      BY <1>11, <1>b, <3>1 DEF QDialFailed, qmgrVars, qconnVars, qdialVars
  <2> QED
    BY <2>1, <2>2
<1>12. ASSUME NEW g \in Callers, QDialNext(g) PROVE QuicIInv'
  <2>1. QShape'
    BY <1>12, QuicPoolAssumption
    DEF QDialNext, QReturn, NoQCall, QShape, QCallOK, QCallType, QEvict, qmgrVars, qconnVars, qdialVars
  <2>2. QuicOwned' /\ QLateKnown'
    <3>1. QHoldersStay
      BY <1>12 DEF QDialNext, QReturn, QShape, QHoldersStay
    <3> QED
      BY <1>12, <1>b, <3>1 DEF QDialNext, qmgrVars, qconnVars, qdialVars
  <2> QED
    BY <2>1, <2>2
<1>13. ASSUME NEW g \in Callers, QDialOk(g) PROVE QuicIInv'
  <2>1. QShape'
    BY <1>13, QuicPoolAssumption
    DEF QDialOk, QReturn, NoQCall, QShape, QCallOK, QCallType, QEvict, qmgrVars, qconnVars, qdialVars
  <2>2. QuicOwned' /\ QLateKnown'
    <3>1. QHoldersStay
      BY <1>13 DEF QDialOk, QReturn, QShape, QHoldersStay
    <3>2. \A c \in QConns : qSockets'[c] = qDials'[c]
      BY <1>13 DEF QDialOk, QShape, QCallOK, QuicOwned
    <3> QED
      BY <1>13, <1>a, <3>1, <3>2, QQuiet DEF QDialOk, qmgrVars, qconnVars
  <2> QED
    BY <2>1, <2>2
<1>14. ASSUME NEW c \in QConns, QDies(c) \/ QGrow(c) PROVE QuicIInv'
  <2>1. UNCHANGED <<qPool, qSweep, qList, qState, qClosing, qLate, qDials, qSockets, qCall>>
    BY <1>14 DEF QDies, QGrow, qmgrVars, qconnVars, qdialVars
  <2>2. QShape'
    BY <2>1 DEF QShape
  <2> QED
    BY <1>b, <2>1, <2>2 DEF QHoldersStay
<1>15. ASSUME NEW c \in QConns, QCloseConn(c) PROVE QuicIInv'
  <2>1. /\ qClosing' = qClosing \ {c} /\ qState' = [qState EXCEPT ![c] = "closed"]
        /\ UNCHANGED <<qPool, qSweep, qList, qLate, qDials, qSockets, qCall>>
    BY <1>15 DEF QCloseConn, qmgrVars
  <2>2. QShape'
    BY <2>1 DEF QShape
  <2>3. qState'[c] = "closed" /\ \A d \in QConns : d # c => qState'[d] = qState[d]
    BY <2>1 DEF QShape
  <2>4. \A p \in QPools : QGivenUp(p)' <=> QGivenUp(p)
    BY <1>a, <2>1
  <2>5. QuicOwned'
    BY <2>1, <2>3, <2>4 DEF QuicOwned
  <2>6. QLateKnown'
    BY <2>1, <2>4 DEF QLateKnown
  <2> QED
    BY <2>2, <2>5, <2>6
<1>16. CASE QCleanup \/ QCloseAllConnections \/ QCloseAllPools \/ (QClose /\ qPool # NoQ)
  <2>1. PICK keep \in SUBSET qList[qPool] : QEvict(qPool, keep) /\ (keep = {} \/ qSweep' \in {"none", "stats"})
    BY <1>16 DEF QCleanup, QCloseAllConnections, QCloseAllPools, QClose, QMuFree, qmgrVars
  <2>2. /\ qPool \in QPools /\ UNCHANGED <<qPool, qState, qLate, qDials, qSockets, qCall>>
        /\ qSweep = "none" /\ qSweep' \in {"none", "stats", "delete", "drop"}
    BY <1>16 DEF QCleanup, QCloseAllConnections, QCloseAllPools, QClose, QMuFree, QShape, qmgrVars, qdialVars
  <2>3. \A q \in QPools : qList'[q] # {} => (QGivenUp(q)' <=> QGivenUp(q))
    BY <2>1, <2>2 DEF QGivenUp, QEvict, QShape
  <2>4. QShape'
    BY <2>1, <2>2 DEF QShape, QEvict
  <2>5. QuicOwned' /\ QLateKnown'
    BY <2>1, <2>2, <2>3, QEvicts DEF QHoldersStay
  <2> QED
    BY <2>4, <2>5
<1>17. CASE QClose /\ qPool = NoQ
  <2>1. /\ UNCHANGED <<qPool, qList, qState, qClosing, qLate, qDials, qSockets, qCall>>
        /\ qSweep' = "drop"
    BY <1>17 DEF QClose, qdialVars
  <2>2. \A p \in QPools : QGivenUp(p)' /\ QGivenUp(p)
    BY <1>17, <2>1, QuicPoolAssumption DEF QGivenUp
  <2>3. QShape'
    BY <2>1 DEF QShape
  <2> QED
    BY <2>1, <2>2, <2>3, QQuiet DEF QHoldersStay, QuicOwned
<1>18. CASE QCleanupStats
  <2>1. /\ UNCHANGED <<qPool, qList, qState, qClosing, qLate, qDials, qSockets, qCall>>
        /\ qSweep = "stats" /\ qSweep' = IF qList[qPool] = {} THEN "delete" ELSE "none"
    BY <1>18 DEF QCleanupStats, qconnVars, qdialVars
  <2>2. \A p \in QPools : qList[p] # {} => (QGivenUp(p)' <=> QGivenUp(p))
    BY <2>1 DEF QGivenUp
  <2>3. QShape'
    BY <2>1 DEF QShape
  <2> QED
    BY <2>1, <2>2, <2>3, QQuiet DEF QHoldersStay, QuicOwned
<1>19. CASE QForget
  <2>1. /\ UNCHANGED <<qList, qState, qClosing, qLate, qDials, qSockets, qCall>>
        /\ qSweep \in {"delete", "drop"} /\ qPool' = NoQ /\ qSweep' = "none"
    BY <1>19 DEF QForget, qconnVars, qdialVars
  <2>2. \A p \in QPools : QGivenUp(p)' /\ QGivenUp(p)
    BY <2>1, QuicPoolAssumption DEF QGivenUp
  <2>3. QShape'
    BY <2>1 DEF QShape
  <2> QED
    BY <2>1, <2>2, <2>3, QQuiet DEF QHoldersStay, QuicOwned
<1> QED
  BY <1>1, <1>2, <1>3, <1>4, <1>5, <1>6, <1>7, <1>8, <1>9, <1>10, <1>11, <1>12, <1>13, <1>14, <1>15, <1>16, <1>17, <1>18, <1>19 DEF QuicNext

\* However requests, the cleanup and the manager's three ways of closing
\* interleave, no open http3.Transport is lost from sight but those made by a
\* call whose pool was given up under it, and no failed dial leaves its UDP
\* socket.
THEOREM QuicNothingLost == QuicSpec => []QuicOwned
<1>1. QuicIInv => QuicOwned
  BY DEF QuicIInv
<1> QED
  BY <1>1, QuicInitOK, QuicStep, PTL DEF QuicSpec

-----------------------------------------------------------------------------
(* ProxyDial                                                               *)

\* What the peer sends has the shape of Answer: parts, one end, the records.
LEMMA AnswerFacts ==
  ASSUME NEW n \in Nat, NEW ok \in BOOLEAN
  PROVE  LET a == Answer(n, ok)
             m == IF ok THEN Records ELSE 0
         IN /\ a \in Seq(Int) /\ Len(a) = n + 1 + m
            /\ \A i \in 1 .. n : a[i] = 0
            /\ a[n + 1] = HeadEnd
            /\ \A i \in n + 2 .. n + 1 + m : a[i] = i - (n + 1)
<1> DEFINE h == [i \in 1 .. n |-> HeadPart]
           t == IF ok THEN Tls ELSE <<>>
           m == IF ok THEN Records ELSE 0
<1>1. h \in Seq(Int) /\ Len(h) = n /\ \A i \in 1 .. n : h[i] = 0
  BY DEF HeadPart
<1>2. m \in Nat /\ t \in Seq(Int) /\ Len(t) = m /\ \A i \in 1 .. m : t[i] = i
  BY ProxyDialAssumption DEF Tls
<1>3. HeadEnd \in Int
  BY ProxyDialAssumption DEF HeadEnd
<1>4. Answer(n, ok) = h \o <<HeadEnd>> \o t
  BY DEF Answer
<1> HIDE DEF h, t, m
<1>5. h \o <<HeadEnd>> \in Seq(Int) /\ Len(h \o <<HeadEnd>>) = n + 1
      /\ (\A i \in 1 .. n : (h \o <<HeadEnd>>)[i] = 0) /\ (h \o <<HeadEnd>>)[n + 1] = HeadEnd
  BY <1>1, <1>3
<1> DEFINE g == h \o <<HeadEnd>>
<1> HIDE DEF g
<1>6. g \in Seq(Int) /\ Len(g) = n + 1 /\ (\A i \in 1 .. n : g[i] = 0) /\ g[n + 1] = HeadEnd
  BY <1>5 DEF g
<1>7. /\ g \o t \in Seq(Int) /\ Len(g \o t) = n + 1 + m
      /\ \A i \in 1 .. n + 1 : (g \o t)[i] = g[i]
      /\ \A i \in n + 2 .. n + 1 + m : (g \o t)[i] = t[i - (n + 1)]
  BY <1>2, <1>6
<1>8. \A i \in n + 2 .. n + 1 + m : i - (n + 1) \in 1 .. m
  BY <1>2
<1>9. Answer(n, ok) = g \o t
  BY <1>4 DEF g
<1>10. /\ \A i \in 1 .. n : (g \o t)[i] = 0
       /\ (g \o t)[n + 1] = HeadEnd
  BY <1>6, <1>7
<1>11. \A i \in n + 2 .. n + 1 + m : (g \o t)[i] = i - (n + 1)
  BY <1>2, <1>7, <1>8
<1>12. m = IF ok THEN Records ELSE 0
  BY DEF m
<1> HIDE DEF m
<1> QED
  BY <1>7, <1>9, <1>10, <1>11, <1>12, Zenon

\* However the answer and the records are cut in two behind the end of the
\* answer, what is left when the answer is taken off are the records.
LEMMA BehindTheEnd ==
  ASSUME NEW n \in Nat, NEW data \in Seq(Int), NEW rest \in Seq(Int),
         data \o rest = Answer(n, TRUE), Len(data) >= n + 1
  PROVE  SubSeq(data, n + 2, Len(data)) \o rest = Tls
<1> DEFINE a == Answer(n, TRUE)
           L == n + 1 + Records
           x == SubSeq(data, n + 2, Len(data))
           p == Len(data)
           q == Len(rest)
<1>1. a \in Seq(Int) /\ Len(a) = L /\ \A i \in n + 2 .. L : a[i] = i - (n + 1)
  BY AnswerFacts
<1>2. L \in Nat /\ Records \in Nat /\ p \in Nat /\ q \in Nat
  BY ProxyDialAssumption
<1>3. Len(data \o rest) = p + q
      /\ \A i \in 1 .. p + q : (data \o rest)[i] = IF i <= p THEN data[i] ELSE rest[i - p]
  BY ConcatProperties, Zenon
<1>4. p + q = L
  BY <1>1, <1>3
<1>5. \A i \in n + 2 .. p : data[i] \in Int
  <2> SUFFICES ASSUME NEW i \in n + 2 .. p PROVE data[i] \in Int
    OBVIOUS
  <2>1. i \in 1 .. Len(data)
    BY <1>2
  <2> QED
    BY <2>1, ElementOfSeq
<1>6. /\ x \in Seq(Int) /\ Len(x) = (IF n + 2 <= p THEN p - (n + 2) + 1 ELSE 0)
      /\ \A i \in 1 .. p - (n + 2) + 1 : x[i] = data[n + 2 + i - 1]
  <2>1. n + 2 \in Int /\ p \in Int
    BY <1>2
  <2> HIDE DEF p
  <2> QED
    BY <1>5, <2>1, SubSeqProperties DEF p
<1>7. Len(x) = p - (n + 1)
  BY <1>2, <1>6
<1> HIDE DEF x
<1>8. x \o rest \in Seq(Int) /\ Len(x \o rest) = Len(x) + Len(rest)
      /\ \A i \in 1 .. Len(x) + Len(rest) :
           (x \o rest)[i] = IF i <= Len(x) THEN x[i] ELSE rest[i - Len(x)]
  BY <1>6, ConcatProperties, Zenon
<1>9. Len(x \o rest) = Records
  BY <1>2, <1>4, <1>7, <1>8
<1>10. \A i \in 1 .. Records : (x \o rest)[i] = i
  <2> SUFFICES ASSUME NEW i \in 1 .. Records PROVE (x \o rest)[i] = i
    OBVIOUS
  <2>1. PICK j \in Nat : j = i + n + 1
    BY <1>2
  <2>2. j \in n + 2 .. L /\ j \in 1 .. p + q /\ i \in 1 .. Len(x) + Len(rest)
    BY <1>2, <1>4, <1>7, <2>1
  <2>3. (data \o rest)[j] = i
    <3>1. (data \o rest)[j] = j - (n + 1)
      BY <1>1, <2>2
    <3>2. j - (n + 1) = i
      BY <1>2, <2>1
    <3> QED
      BY <3>1, <3>2
  <2>4. CASE i <= p - (n + 1)
    <3>1. (x \o rest)[i] = x[i] /\ i \in 1 .. p - (n + 2) + 1
      BY <1>2, <1>7, <1>8, <2>2, <2>4
    <3>2. x[i] = data[n + 2 + i - 1] /\ n + 2 + i - 1 = j
      BY <1>2, <1>6, <2>1, <3>1
    <3>3. (data \o rest)[j] = IF j <= p THEN data[j] ELSE rest[j - p]
      BY <1>3, <2>2
    <3>4. j <= p
      BY <1>2, <2>1, <2>4
    <3> QED
      BY <2>3, <3>1, <3>2, <3>3, <3>4
  <2>5. CASE ~(i <= p - (n + 1))
    <3>1. (x \o rest)[i] = rest[i - (p - (n + 1))]
      BY <1>2, <1>7, <1>8, <2>2, <2>5
    <3>2. (data \o rest)[j] = IF j <= p THEN data[j] ELSE rest[j - p]
      BY <1>3, <2>2
    <3>3. j - p = i - (p - (n + 1)) /\ ~(j <= p)
      BY <1>2, <2>1, <2>5
    <3> QED
      BY <2>3, <3>1, <3>2, <3>3
  <2> QED
    BY <2>4, <2>5
<1>11. Tls \in Seq(Int) /\ Len(Tls) = Records /\ \A i \in 1 .. Records : Tls[i] = i
  BY <1>2 DEF Tls
<1>12. x \o rest = Tls
  <2>1. Len(x \o rest) = Len(Tls) /\ \A i \in 1 .. Len(x \o rest) : (x \o rest)[i] = Tls[i]
    BY <1>9, <1>10, <1>11, SMTT(30)
  <2> QED
    BY <1>8, <1>11, <2>1, SeqEqual, Zenon
<1> QED
  BY <1>12 DEF x

\* What is read, what is left and what comes after may be grouped either way.
LEMMA ConcatThree ==
  ASSUME NEW u \in Seq(Int), NEW v \in Seq(Int), NEW w \in Seq(Int)
  PROVE  (u \o v) \o w = u \o (v \o w)
<1>1. /\ u \o v \in Seq(Int) /\ v \o w \in Seq(Int)
      /\ (u \o v) \o w \in Seq(Int) /\ u \o (v \o w) \in Seq(Int)
  OBVIOUS
<1>2. Len((u \o v) \o w) = Len(u \o (v \o w))
  BY <1>1
<1>3. ASSUME NEW i \in 1 .. Len((u \o v) \o w)
      PROVE  ((u \o v) \o w)[i] = (u \o (v \o w))[i]
  <2>1. CASE i <= Len(u)
    BY <1>1, <2>1
  <2>2. CASE i > Len(u) /\ i <= Len(u) + Len(v)
    BY <1>1, <2>2
  <2>3. CASE i > Len(u) + Len(v)
    BY <1>1, <2>3
  <2> QED
    BY <1>1, <2>1, <2>2, <2>3
<1> QED
  BY <1>1, <1>2, <1>3, SeqEqual

\* A Read moves the cut between what was read and what is under way.
LEMMA OneStream ==
  ASSUME NEW held \in Seq(Int), NEW wire \in Seq(Int), NEW k \in 1 .. Len(wire)
  PROVE  LET data == held \o SubSeq(wire, 1, k)
             rest == SubSeq(wire, k + 1, Len(wire))
         IN data \in Seq(Int) /\ rest \in Seq(Int) /\ data \o rest = held \o wire
<1> DEFINE x == SubSeq(wire, 1, k)
           y == SubSeq(wire, k + 1, Len(wire))
<1>0. Len(wire) \in Nat /\ k \in Nat
  OBVIOUS
<1>1. x \in Seq(Int) /\ y \in Seq(Int)
  BY <1>0
<1>2. x \o y = SubSeq(wire, 1, Len(wire))
  <2>1. 1 \in 1 .. Len(wire) + 1 /\ k \in 1 - 1 .. Len(wire) /\ Len(wire) \in k .. Len(wire)
    BY <1>0
  <2> QED
    BY <2>1, ConcatAdjacentSubSeq
<1>3. x \o y = wire
  BY <1>2, SubSeqFull
<1> HIDE DEF x, y
<1>4. (held \o x) \o y = held \o wire
  <2>1. (held \o x) \o y = held \o (x \o y)
    BY <1>1, ConcatThree
  <2> QED
    BY <1>3, <2>1
<1>5. held \o x \in Seq(Int)
  BY <1>1, ConcatProperties
<1> QED
  BY <1>1, <1>4, <1>5 DEF x, y

\* Where an answer has been cut, the end that is found is the answer's.
LEMMA EndFound ==
  ASSUME NEW n \in Nat, NEW ok \in BOOLEAN, NEW data \in Seq(Int), NEW rest \in Seq(Int),
         data \o rest = Answer(n, ok), Contains(data, HeadEnd)
  PROVE  HeaderEnd(data) = n + 1 /\ Len(data) >= n + 1
<1> DEFINE a == Answer(n, ok)
           p == Len(data)
<1>1. p \in Nat /\ Len(rest) \in Nat /\ Records \in Nat
  BY ProxyDialAssumption
<1>2. \A i \in 1 .. p : a[i] = data[i] /\ i <= Len(a)
  <2>1. Len(data \o rest) = p + Len(rest)
        /\ \A i \in 1 .. p + Len(rest) : (data \o rest)[i] = IF i <= p THEN data[i] ELSE rest[i - p]
    BY ConcatProperties, Zenon
  <2>2. \A i \in 1 .. p : i \in 1 .. p + Len(rest) /\ i <= p
    BY <1>1
  <2> QED
    BY <1>1, <2>1, <2>2
<1>3. \A i \in 1 .. p : data[i] = HeadEnd => i = n + 1
  <2> SUFFICES ASSUME NEW i \in 1 .. p, data[i] = HeadEnd, i # n + 1 PROVE FALSE
    OBVIOUS
  <2> DEFINE m == IF ok THEN Records ELSE 0
  <2>1. Len(a) = n + 1 + m /\ (\A j \in 1 .. n : a[j] = 0)
        /\ \A j \in n + 2 .. n + 1 + m : a[j] = j - (n + 1)
    BY AnswerFacts
  <2>2. m \in Nat /\ m <= Records
    BY <1>1
  <2>3. a[i] = Records + 1 /\ i <= n + 1 + m
    BY <1>2, <2>1 DEF HeadEnd
  <2> HIDE DEF a, m
  <2>4. CASE i \in 1 .. n
    BY <1>1, <2>1, <2>3, <2>4
  <2>5. CASE i \notin 1 .. n
    <3>1. i \in n + 2 .. n + 1 + m
      BY <1>1, <2>2, <2>3, <2>5
    <3>2. a[i] = i - (n + 1)
      BY <2>1, <3>1
    <3> QED
      BY <1>1, <2>2, <2>3, <3>1, <3>2
  <2> QED
    BY <2>4, <2>5
<1>4. PICK e \in 1 .. p : data[e] = HeadEnd
  BY DEF Contains
<1>5. e = n + 1
  BY <1>3, <1>4
<1>6. \A j \in 1 .. e - 1 : data[j] # HeadEnd
  <2> SUFFICES ASSUME NEW j \in 1 .. e - 1, data[j] = HeadEnd PROVE FALSE
    OBVIOUS
  <2>1. j \in 1 .. p /\ j # n + 1
    BY <1>1, <1>5
  <2> QED
    BY <1>3, <2>1
<1> DEFINE F(i) == data[i] = HeadEnd /\ \A j \in 1 .. i - 1 : data[j] # HeadEnd
<1>7. F(e)
  BY <1>4, <1>6
<1>8. HeaderEnd(data) \in 1 .. p /\ F(HeaderEnd(data))
  <2>1. HeaderEnd(data) = CHOOSE i \in 1 .. p : F(i)
    BY DEF HeaderEnd
  <2>2. \E i \in 1 .. p : F(i)
    BY <1>7
  <2> HIDE DEF F
  <2> QED
    BY <2>1, <2>2
<1> QED
  BY <1>1, <1>3, <1>5, <1>8

\* The TLS layer takes the first piece of what is there for it.
LEMMA TakeFirst ==
  ASSUME NEW got \in Seq(Int), NEW s \in Seq(Int), s # <<>>
  PROVE  Append(got, Head(s)) \o Tail(s) = got \o s
         /\ Append(got, Head(s)) \in Seq(Int) /\ Tail(s) \in Seq(Int)
<1>1. Head(s) \in Int /\ Tail(s) \in Seq(Int)
  BY HeadTailProperties
<1>2. Append(got, Head(s)) = got \o <<Head(s)>> /\ Append(got, Head(s)) \in Seq(Int)
  BY <1>1, AppendIsConcat, AppendProperties
<1>3. <<Head(s)>> \o Tail(s) = s
  <2>1. Len(s) \in Nat /\ Len(s) >= 1
    BY EmptySeq
  <2>2. SubSeq(s, 1, Len(s)) = <<s[1]>> \o SubSeq(s, 1 + 1, Len(s))
    <3>1. 1 \in 1 .. Len(s) /\ Len(s) \in 1 .. Len(s)
      BY <2>1
    <3> QED
      BY <3>1, SubSeqRecursiveFirst
  <2>3. SubSeq(s, 1, Len(s)) = s /\ Tail(s) = SubSeq(s, 2, Len(s))
    BY SubSeqFull, TailIsSubSeq
  <2>4. Head(s) = s[1]
    BY <2>1
  <2> QED
    BY <2>2, <2>3, <2>4
<1>4. <<Head(s)>> \in Seq(Int)
  BY <1>1
<1>5. (got \o <<Head(s)>>) \o Tail(s) = got \o (<<Head(s)>> \o Tail(s))
  <2> DEFINE h == <<Head(s)>>
             t == Tail(s)
  <2>1. h \in Seq(Int) /\ t \in Seq(Int)
    BY <1>1, <1>4
  <2> HIDE DEF h, t
  <2>2. (got \o h) \o t = got \o (h \o t)
    BY <2>1, ConcatThree
  <2> QED
    BY <2>2 DEF h, t
<1> QED
  BY <1>1, <1>2, <1>3, <1>5

DialRecords ==
  [stack : {"pool", "h1", "h2"}, kind : {"http", "socks5"}, spec : BOOLEAN,
   pc : {"idle", "connect", "greet", "request", "spec", "strip", "tls", "mark", "done", "failed"},
   socks : Nat, tried : BOOLEAN, status : {200, 407},
   wire : Seq(Int), held : Seq(Int), got : Seq(Int)]

\* A dial holds its one socket, and while it strips, what it has read and what
\* is under way are one answer: that is what the records come out of.
DialOK(r) ==
  /\ r.socks = IF r.pc \in {"idle", "mark", "failed"} THEN 0 ELSE 1
  /\ r.pc \in {"idle", "connect", "greet", "request", "spec", "strip"} => r.got = <<>>
  /\ r.pc \in {"idle", "connect", "greet", "request", "spec", "mark"} => r.held = <<>>
  /\ r.pc = "strip" => \E n \in Nat : r.held \o r.wire = Answer(n, r.status = 200)
  /\ r.pc = "tls" /\ r.stack # "pool" => r.got \o r.held \o r.wire = Tls

DialIInv ==
  /\ blocklist \in BOOLEAN
  /\ dial \in [Dials -> DialRecords]
  /\ \A d \in Dials : DialOK(dial[d])

\* One dial moved, and is as it should be.
LEMMA OneDial ==
  ASSUME DialIInv, NEW d \in Dials, NEW r \in DialRecords, DialOK(r),
         dial' = [dial EXCEPT ![d] = r], blocklist' \in BOOLEAN
  PROVE  DialIInv'
<1>1. dial' \in [Dials -> DialRecords]
  BY DEF DialIInv
<1>2. \A e \in Dials : DialOK(dial'[e])
  <2> SUFFICES ASSUME NEW e \in Dials PROVE DialOK(dial'[e])
    OBVIOUS
  <2>1. dial'[e] = IF e = d THEN r ELSE dial[e]
    BY DEF DialIInv
  <2> QED
    BY <2>1 DEF DialIInv
<1> QED
  BY <1>1, <1>2 DEF DialIInv, DialOK

\* An error return.
LEMMA DialFails ==
  ASSUME DialIInv, NEW d \in Dials, UNCHANGED blocklist, Fail(d),
         dial[d].pc \in {"connect", "greet", "request", "tls"}
  PROVE  DialIInv'
<1> DEFINE r == [dial[d] EXCEPT !.pc = "failed", !.socks = 0]
<1>1. dial[d] \in DialRecords /\ DialOK(dial[d])
  BY DEF DialIInv
<1>2. dial[d].socks = 1
  BY <1>1 DEF DialOK
<1>3. r \in DialRecords /\ r.pc = "failed" /\ r.socks = 0
  <2>1. r \in DialRecords
    BY <1>1, <1>2, ZenonT(60) DEF DialRecords
  <2> QED
    BY <1>1, <1>2, <2>1 DEF DialRecords
<1>4. dial' = [dial EXCEPT ![d] = r] /\ blocklist' \in BOOLEAN
  <2>1. dial[d].socks - 1 = 0
    BY <1>2
  <2> QED
    BY <2>1 DEF Fail, Set, DialIInv
<1> HIDE DEF r
<1>5. DialOK(r)
  BY <1>3 DEF DialOK
<1> QED
  BY <1>3, <1>4, <1>5, OneDial

\* A failed speculation closes the connection it speculated on.
LEMMA SpeculationFails ==
  ASSUME DialIInv, NEW d \in Dials, UNCHANGED blocklist, SpecError(d),
         dial[d].pc \in {"spec", "strip"}
  PROVE  DialIInv'
<1> DEFINE r == [dial[d] EXCEPT !.pc = "mark", !.socks = 0, !.wire = <<>>, !.held = <<>>]
<1>1. dial[d] \in DialRecords /\ DialOK(dial[d])
  BY DEF DialIInv
<1>2. dial[d].socks = 1
  BY <1>1 DEF DialOK
<1>3. r \in DialRecords /\ r.pc = "mark" /\ r.socks = 0 /\ r.held = <<>>
  <2>0. <<>> \in Seq(Int)
    OBVIOUS
  <2>1. r \in DialRecords
    BY <1>1, <2>0, ZenonT(60) DEF DialRecords
  <2> QED
    BY <1>1, <1>2, <2>1 DEF DialRecords
<1>4. dial' = [dial EXCEPT ![d] = r] /\ blocklist' \in BOOLEAN
  <2>1. dial[d].socks - 1 = 0
    BY <1>2
  <2> QED
    BY <2>1 DEF SpecError, Set, DialIInv
<1> HIDE DEF r
<1>5. DialOK(r)
  BY <1>3 DEF DialOK
<1> QED
  BY <1>3, <1>4, <1>5, OneDial

\* The proxy is connected to, or not.
LEMMA ProxyDialed ==
  ASSUME DialIInv, NEW d \in Dials, NEW next \in {"connect", "spec", "greet"}, DialProxy(d, next)
  PROVE  DialIInv'
<1>1. dial[d] \in DialRecords /\ DialOK(dial[d]) /\ dial[d].pc = "idle"
  BY DEF DialIInv, DialProxy, At
<1>2. dial[d].socks = 0 /\ dial[d].got = <<>> /\ dial[d].held = <<>>
  BY <1>1 DEF DialOK
<1>3. blocklist' \in BOOLEAN
  BY DEF DialIInv, DialProxy
<1>4. CASE Set(d, [dial[d] EXCEPT !.pc = next, !.socks = @ + 1])
  <2> DEFINE r == [dial[d] EXCEPT !.pc = next, !.socks = 1]
  <2>1. r \in DialRecords /\ r.pc = next /\ r.socks = 1 /\ r.got = <<>> /\ r.held = <<>>
    <3>0. next \in {"connect", "greet", "spec"} /\ 1 \in Nat
      OBVIOUS
    <3>1. r \in DialRecords
      BY <1>1, <3>0, ZenonT(60) DEF DialRecords
    <3> QED
      BY <1>1, <1>2, <3>1 DEF DialRecords
  <2>2. dial' = [dial EXCEPT ![d] = r]
    <3>1. dial[d].socks + 1 = 1
      BY <1>2
    <3> QED
      BY <1>4, <3>1 DEF Set
  <2> HIDE DEF r
  <2>3. DialOK(r)
    BY <2>1 DEF DialOK
  <2> QED
    BY <1>3, <2>1, <2>2, <2>3, OneDial
<1>5. CASE Set(d, [dial[d] EXCEPT !.pc = "failed"])
  <2> DEFINE r == [dial[d] EXCEPT !.pc = "failed"]
  <2>1. r \in DialRecords /\ r.pc = "failed" /\ r.socks = 0
    <3>1. r \in DialRecords
      BY <1>1, ZenonT(60) DEF DialRecords
    <3> QED
      BY <1>1, <1>2, <3>1 DEF DialRecords
  <2>2. dial' = [dial EXCEPT ![d] = r]
    BY <1>5 DEF Set
  <2> HIDE DEF r
  <2>3. DialOK(r)
    BY <2>1 DEF DialOK
  <2> QED
    BY <1>3, <2>1, <2>2, <2>3, OneDial
<1> QED
  BY <1>4, <1>5 DEF DialProxy

\* The stream is open: the dial goes on with wire and held for the TLS layer.
LEMMA TunnelOpens ==
  ASSUME DialIInv, NEW d \in Dials, UNCHANGED blocklist,
         dial[d].pc \in {"connect", "greet", "request", "strip"},
         NEW wire \in Seq(Int), NEW held \in Seq(Int),
         dial[d].stack # "pool" => held \o wire = Tls,
         Set(d, [dial[d] EXCEPT !.pc = "tls", !.wire = wire, !.held = held])
  PROVE  DialIInv'
<1> DEFINE r == [dial[d] EXCEPT !.pc = "tls", !.wire = wire, !.held = held]
<1>1. dial[d] \in DialRecords /\ DialOK(dial[d])
  BY DEF DialIInv
<1>2. dial[d].socks = 1 /\ dial[d].got = <<>>
  BY <1>1 DEF DialOK
<1>3. r \in DialRecords /\ r.pc = "tls" /\ r.socks = 1 /\ r.got = <<>> /\ r.held = held
      /\ r.wire = wire /\ r.stack = dial[d].stack
  BY <1>1, <1>2, ZenonT(60) DEF DialRecords
<1>4. dial' = [dial EXCEPT ![d] = r] /\ blocklist' \in BOOLEAN
  BY DEF Set, DialIInv
<1> HIDE DEF r
<1>5. r.got \o r.held = held
  BY <1>3, ConcatEmptySeq
<1>6. DialOK(r)
  BY <1>3, <1>5 DEF DialOK
<1> QED
  BY <1>3, <1>4, <1>6, OneDial

\* A blocking CONNECT: whatever the reader read behind the answer is kept.
LEMMA ConnectStep ==
  ASSUME DialIInv, NEW d \in Dials, ConnectBlocking(d)
  PROVE  DialIInv'
<1>1. dial[d].pc = "connect" /\ UNCHANGED blocklist
  BY DEF ConnectBlocking, At
<1>2. CASE Fail(d)
  BY <1>1, <1>2, DialFails
<1>3. ASSUME NEW n \in 0 .. HeadParts, NEW k \in n + 1 .. n + 1 + Records,
             Set(d, AfterConnect(dial[d], n, k))
      PROVE  DialIInv'
  <2> DEFINE a == Answer(n, TRUE)
             L == n + 1 + Records
             wire == SubSeq(a, k + 1, L)
             held == SubSeq(a, n + 2, k)
  <2>1. n \in Nat /\ L \in Nat /\ k \in Nat /\ Records \in Nat
    BY ProxyDialAssumption
  <2>2. a \in Seq(Int) /\ Len(a) = L
    BY <2>1, AnswerFacts
  <2>3. wire \in Seq(Int) /\ held \in Seq(Int)
    <3> HIDE DEF a
    <3> QED
      BY <2>1, <2>2
  <2>4. held \o wire = Tls
    <3>1. SubSeq(a, 1, k) \in Seq(Int) /\ Len(SubSeq(a, 1, k)) = k
      <4> HIDE DEF a
      <4> QED
        BY <2>1, <2>2
    <3>2. SubSeq(a, 1, k) \o wire = a
      <4>0. k <= L
        BY <2>1
      <4> HIDE DEF a, L
      <4>1. 1 \in 1 .. Len(a) + 1 /\ k \in 1 - 1 .. Len(a) /\ L \in k .. Len(a)
        BY <2>1, <2>2, <4>0
      <4>2. SubSeq(a, 1, k) \o SubSeq(a, k + 1, L) = SubSeq(a, 1, L)
        BY <2>2, <4>1, ConcatAdjacentSubSeq
      <4>3. SubSeq(a, 1, L) = a
        BY <2>2, SubSeqFull
      <4> QED
        BY <4>2, <4>3
    <3>3. k >= n + 1
      BY <2>1
    <3>4. SubSeq(SubSeq(a, 1, k), n + 2, k) \o wire = Tls
      <4> DEFINE data == SubSeq(a, 1, k)
      <4> HIDE DEF data, wire
      <4>1. data \in Seq(Int) /\ Len(data) = k /\ data \o wire = Answer(n, TRUE) /\ Len(data) >= n + 1
        BY <3>1, <3>2, <3>3 DEF data
      <4>2. SubSeq(data, n + 2, Len(data)) \o wire = Tls
        BY <2>1, <2>3, <4>1, BehindTheEnd
      <4> QED
        BY <4>1, <4>2 DEF data
    <3>5. SubSeq(SubSeq(a, 1, k), n + 2, k) = held
      <4> DEFINE data == SubSeq(a, 1, k)
      <4> HIDE DEF a
      <4>1. data \in Seq(Int) /\ Len(data) = k /\ \A i \in 1 .. k : data[i] = a[i]
        BY <2>1, <2>2
      <4> HIDE DEF data
      <4>2. SubSeq(data, n + 2, k) \in Seq(Int) /\ Len(SubSeq(data, n + 2, k)) = k - (n + 1)
            /\ \A i \in 1 .. k - (n + 1) : SubSeq(data, n + 2, k)[i] = data[i + n + 1]
        BY <2>1, <4>1
      <4>3. held \in Seq(Int) /\ Len(held) = k - (n + 1)
            /\ \A i \in 1 .. k - (n + 1) : held[i] = a[i + n + 1]
        <5>1. k <= Len(a)
          BY <2>1, <2>2
        <5> QED
          BY <2>1, <2>2, <5>1
      <4>4. \A i \in 1 .. k - (n + 1) : i + n + 1 \in 1 .. k
        BY <2>1
      <4> HIDE DEF held
      <4>5. Len(SubSeq(data, n + 2, k)) = Len(held)
            /\ \A i \in 1 .. Len(SubSeq(data, n + 2, k)) : SubSeq(data, n + 2, k)[i] = held[i]
        BY <4>1, <4>2, <4>3, <4>4
      <4>6. SubSeq(data, n + 2, k) = held
        BY <4>2, <4>3, <4>5, SeqEqual, Zenon
      <4> QED
        BY <4>6 DEF data
    <3> QED
      BY <3>4, <3>5
  <2>5. Set(d, [dial[d] EXCEPT !.pc = "tls", !.wire = wire, !.held = held])
    BY <1>3 DEF AfterConnect
  <2> HIDE DEF wire, held
  <2> QED
    BY <1>1, <2>3, <2>4, <2>5, TunnelOpens
<1> QED
  BY <1>2, <1>3 DEF ConnectBlocking

\* One turn of the loop that strips the answer.
LEMMA StripStep ==
  ASSUME DialIInv, NEW d \in Dials, Strip(d)
  PROVE  DialIInv'
<1>1. dial[d].pc = "strip" /\ UNCHANGED blocklist
  BY DEF Strip, At
<1>2. dial[d] \in DialRecords /\ DialOK(dial[d])
  BY DEF DialIInv
<1>3. PICK k \in 1 .. Len(dial[d].wire) :
        LET data == dial[d].held \o SubSeq(dial[d].wire, 1, k)
            rest == SubSeq(dial[d].wire, k + 1, Len(dial[d].wire))
        IN IF Contains(data, HeadEnd)
             THEN IF dial[d].status # 200 THEN SpecError(d)
                  ELSE Set(d, [dial[d] EXCEPT !.pc = "tls",
                         !.held = SubSeq(data, HeaderEnd(data) + 1, Len(data)), !.wire = rest])
             ELSE IF Len(data) > MaxHead THEN SpecError(d)
                  ELSE Set(d, [dial[d] EXCEPT !.held = data, !.wire = rest])
  BY <1>2 DEF Strip, DialRecords
<1> DEFINE data == dial[d].held \o SubSeq(dial[d].wire, 1, k)
           rest == SubSeq(dial[d].wire, k + 1, Len(dial[d].wire))
<1>4. data \in Seq(Int) /\ rest \in Seq(Int) /\ data \o rest = dial[d].held \o dial[d].wire
  <2>1. dial[d].held \in Seq(Int) /\ dial[d].wire \in Seq(Int)
    BY <1>2 DEF DialRecords
  <2> QED
    BY <2>1, OneStream
<1>5. PICK n \in Nat : data \o rest = Answer(n, dial[d].status = 200)
  BY <1>1, <1>2, <1>4 DEF DialOK
<1>6. CASE SpecError(d)
  BY <1>1, <1>6, SpeculationFails
<1>7. CASE /\ Contains(data, HeadEnd) /\ dial[d].status = 200
           /\ Set(d, [dial[d] EXCEPT !.pc = "tls",
                        !.held = SubSeq(data, HeaderEnd(data) + 1, Len(data)), !.wire = rest])
  <2> HIDE DEF data, rest
  <2>1. data \o rest = Answer(n, TRUE)
    BY <1>5, <1>7
  <2>2. HeaderEnd(data) = n + 1 /\ Len(data) >= n + 1
    BY <1>4, <1>7, <2>1, EndFound
  <2> DEFINE held == SubSeq(data, n + 2, Len(data))
  <2>3. held \o rest = Tls
    BY <1>4, <2>1, <2>2, BehindTheEnd
  <2>4. held \in Seq(Int)
    BY <1>4
  <2>5. HeaderEnd(data) + 1 = n + 2
    BY <2>2
  <2>6. Set(d, [dial[d] EXCEPT !.pc = "tls", !.wire = rest, !.held = held])
    BY <1>2, <1>7, <2>5, ZenonT(60) DEF Set, DialRecords
  <2> HIDE DEF held
  <2> QED
    BY <1>1, <1>4, <2>3, <2>4, <2>6, TunnelOpens
<1>8. CASE Set(d, [dial[d] EXCEPT !.held = data, !.wire = rest])
  <2> HIDE DEF data, rest
  <2> DEFINE r == [dial[d] EXCEPT !.held = data, !.wire = rest]
  <2>1. r \in DialRecords /\ r.pc = "strip" /\ r.socks = dial[d].socks /\ r.got = dial[d].got
        /\ r.held = data /\ r.wire = rest /\ r.status = dial[d].status
    BY <1>1, <1>2, <1>4, ZenonT(60) DEF DialRecords
  <2>2. dial' = [dial EXCEPT ![d] = r] /\ blocklist' \in BOOLEAN
    BY <1>1, <1>8 DEF Set, DialIInv
  <2> HIDE DEF r
  <2>3. r.held \o r.wire = Answer(n, r.status = 200)
    BY <1>5, <2>1
  <2>4. dial[d].socks = 1 /\ dial[d].got = <<>>
    BY <1>1, <1>2 DEF DialOK
  <2>5. DialOK(r)
    BY <2>1, <2>3, <2>4 DEF DialOK
  <2> QED
    BY <2>1, <2>2, <2>5, OneDial
<1> QED
  BY <1>3, <1>6, <1>7, <1>8

\* A Read of the TLS layer.
LEMMA TlsReadStep ==
  ASSUME DialIInv, NEW d \in Dials, TlsRead(d)
  PROVE  DialIInv'
<1> DEFINE s == dial[d]
<1>1. s.pc = "tls" /\ blocklist' \in BOOLEAN
  BY DEF TlsRead, At, DialIInv
<1>2. s \in DialRecords /\ DialOK(s)
  BY DEF DialIInv
<1>3. s.got \in Seq(Int) /\ s.held \in Seq(Int) /\ s.wire \in Seq(Int)
  BY <1>2 DEF DialRecords
<1>4. s.socks = 1 /\ (s.stack # "pool" => s.got \o s.held \o s.wire = Tls)
  BY <1>1, <1>2 DEF DialOK
<1>5. CASE s.held # <<>> /\ Set(d, [s EXCEPT !.got = Append(@, Head(s.held)), !.held = Tail(@)])
  <2> DEFINE g == Append(s.got, Head(s.held))
             h == Tail(s.held)
             r == [s EXCEPT !.got = g, !.held = h]
  <2>1. g \in Seq(Int) /\ h \in Seq(Int) /\ g \o h = s.got \o s.held
    BY <1>3, <1>5, TakeFirst
  <2>2. dial' = [dial EXCEPT ![d] = r]
    BY <1>2, <1>5 DEF Set, DialRecords
  <2> HIDE DEF g, h
  <2>3. r \in DialRecords
    BY <1>2, <2>1, ZenonT(60) DEF DialRecords
  <2>4. r.pc = "tls" /\ r.socks = 1 /\ r.got = g /\ r.held = h /\ r.wire = s.wire
        /\ r.stack = s.stack
    BY <1>1, <1>2, <1>4 DEF DialRecords
  <2> HIDE DEF r
  <2>5. s.stack # "pool" => r.got \o r.held \o r.wire = Tls
    BY <1>4, <2>1, <2>4
  <2>6. DialOK(r)
    BY <2>4, <2>5 DEF DialOK
  <2> QED
    BY <1>1, <2>2, <2>3, <2>6, OneDial
<1>6. CASE s.held = <<>> /\ s.wire # <<>>
           /\ Set(d, [s EXCEPT !.got = Append(@, Head(s.wire)), !.wire = Tail(@)])
  <2> DEFINE g == Append(s.got, Head(s.wire))
             w == Tail(s.wire)
             r == [s EXCEPT !.got = g, !.wire = w]
  <2>1. g \in Seq(Int) /\ w \in Seq(Int) /\ g \o w = s.got \o s.wire
    BY <1>3, <1>6, TakeFirst
  <2>2. dial' = [dial EXCEPT ![d] = r]
    BY <1>2, <1>6 DEF Set, DialRecords
  <2> HIDE DEF g, w
  <2>3. r \in DialRecords
    BY <1>2, <2>1, ZenonT(60) DEF DialRecords
  <2>4. r.pc = "tls" /\ r.socks = 1 /\ r.got = g /\ r.held = <<>> /\ r.wire = w
        /\ r.stack = s.stack
    BY <1>1, <1>2, <1>4, <1>6 DEF DialRecords
  <2> HIDE DEF r
  <2>5. r.got \o r.held = g /\ s.got \o s.held = s.got
    BY <1>3, <1>6, <2>1, <2>4, ConcatEmptySeq
  <2>6. s.stack # "pool" => r.got \o r.held \o r.wire = Tls
    BY <1>4, <2>1, <2>4, <2>5
  <2>7. DialOK(r)
    BY <2>4, <2>6 DEF DialOK
  <2> QED
    BY <1>1, <2>2, <2>3, <2>7, OneDial
<1> QED
  BY <1>5, <1>6 DEF TlsRead

LEMMA DialIInvInit == DialInit => DialIInv
<1> SUFFICES ASSUME DialInit PROVE DialIInv
  OBVIOUS
<1>1. ASSUME NEW s \in {"pool", "h1", "h2"}, NEW k \in {"http", "socks5"}, NEW b \in BOOLEAN
      PROVE  NewDial(s, k, b) \in DialRecords /\ DialOK(NewDial(s, k, b))
  <2>1. <<>> \in Seq(Int) /\ 0 \in Nat
    OBVIOUS
  <2>2. NewDial(s, k, b) \in DialRecords
    BY <2>1 DEF NewDial, DialRecords
  <2> QED
    BY <2>2 DEF NewDial, DialOK
<1>2. \A r \in PoolDials : r \in DialRecords /\ DialOK(r)
  BY <1>1 DEF PoolDials
<1>3. \A r \in TransportDials : r \in DialRecords /\ DialOK(r)
  BY <1>1 DEF TransportDials
<1>4. dial \in [Dials -> PoolDials \cup TransportDials] /\ blocklist = FALSE
  BY DEF DialInit
<1> QED
  BY <1>2, <1>3, <1>4 DEF DialIInv

LEMMA DialIInvStep == DialIInv /\ [DialNext]_dialVars => DialIInv'
<1> SUFFICES ASSUME DialIInv, [DialNext]_dialVars PROVE DialIInv'
  OBVIOUS
<1>1. CASE UNCHANGED dialVars
  BY <1>1, ZenonT(60) DEF dialVars, DialIInv, DialOK
<1>2. ASSUME NEW d \in Dials,
             \/ h1DialHTTPProxy(d) \/ h2DialHTTPProxy(d) \/ poolDialHTTPProxy(d)
             \/ h1BlockingFresh(d) \/ h2BlockingFresh(d) \/ DialSOCKS5(d) \/ poolDialSOCKS5(d)
      PROVE  DialIInv'
  <2>1. \E next \in {"connect", "spec", "greet"} : DialProxy(d, next)
    BY <1>2 DEF h1DialHTTPProxy, h2DialHTTPProxy, poolDialHTTPProxy, h1BlockingFresh,
                h2BlockingFresh, DialSOCKS5, poolDialSOCKS5
  <2> QED
    BY <2>1, ProxyDialed
<1>3. ASSUME NEW d \in Dials, PoolConnect(d)
      PROVE  DialIInv'
  <2>1. dial[d].pc = "connect" /\ dial[d].stack = "pool" /\ UNCHANGED blocklist
    BY <1>3 DEF PoolConnect, At
  <2>2. CASE Fail(d)
    BY <2>1, <2>2, DialFails
  <2>3. ASSUME NEW n \in 0 .. HeadParts, NEW k \in 1 .. n + 1,
               Set(d, [dial[d] EXCEPT !.pc = "tls",
                         !.wire = SubSeq(Answer(n, TRUE), k + 1, n + 1 + Records)])
        PROVE  DialIInv'
    <3> DEFINE wire == SubSeq(Answer(n, TRUE), k + 1, n + 1 + Records)
    <3>1. n \in Nat /\ k \in Nat /\ Records \in Nat
      BY ProxyDialAssumption
    <3>2. Answer(n, TRUE) \in Seq(Int) /\ Len(Answer(n, TRUE)) = n + 1 + Records
      BY <3>1, AnswerFacts
    <3>3. wire \in Seq(Int)
      <4> DEFINE a == Answer(n, TRUE)
      <4>0. k + 1 \in 1 .. n + 1 + Records + 1
        BY <3>1
      <4>1. a \in Seq(Int) /\ Len(a) = n + 1 + Records /\ k + 1 \in 1 .. Len(a) + 1
        BY <3>2, <4>0
      <4> HIDE DEF a
      <4>2. SubSeq(a, k + 1, n + 1 + Records) \in Seq(Int)
        BY <3>1, <4>1
      <4> QED
        BY <4>2 DEF a
    <3>4. dial[d] \in DialRecords /\ DialOK(dial[d])
      BY DEF DialIInv
    <3>5. dial[d].held = <<>> /\ <<>> \in Seq(Int)
      BY <2>1, <3>4 DEF DialOK
    <3> HIDE DEF wire
    <3>6. [dial[d] EXCEPT !.pc = "tls", !.wire = wire]
            = [dial[d] EXCEPT !.pc = "tls", !.wire = wire, !.held = <<>>]
      BY <3>4, <3>5, ZenonT(60) DEF DialRecords
    <3>7. Set(d, [dial[d] EXCEPT !.pc = "tls", !.wire = wire, !.held = <<>>])
      BY <2>3, <3>6 DEF Set, wire
    <3> QED
      BY <2>1, <3>3, <3>5, <3>7, TunnelOpens
  <2> QED
    BY <1>3, <2>2, <2>3 DEF PoolConnect
<1>4. ASSUME NEW d \in Dials, SocksGreet(d)
      PROVE  DialIInv'
  <2>1. dial[d].pc = "greet" /\ UNCHANGED blocklist
    BY <1>4 DEF SocksGreet, At
  <2>2. CASE Fail(d)
    BY <2>1, <2>2, DialFails
  <2>3. CASE Set(d, [dial[d] EXCEPT !.pc = "request"])
    <3> DEFINE r == [dial[d] EXCEPT !.pc = "request"]
    <3>1. dial[d] \in DialRecords /\ DialOK(dial[d])
      BY DEF DialIInv
    <3>2. dial[d].socks = 1 /\ dial[d].got = <<>> /\ dial[d].held = <<>>
      BY <2>1, <3>1 DEF DialOK
    <3>3. r \in DialRecords
      BY <3>1, ZenonT(60) DEF DialRecords
    <3>4. r.pc = "request" /\ r.socks = 1 /\ r.got = <<>> /\ r.held = <<>>
      BY <3>1, <3>2 DEF DialRecords
    <3>5. dial' = [dial EXCEPT ![d] = r] /\ blocklist' \in BOOLEAN
      BY <2>1, <2>3 DEF Set, DialIInv
    <3> HIDE DEF r
    <3>6. DialOK(r)
      BY <3>4 DEF DialOK
    <3> QED
      BY <3>3, <3>5, <3>6, OneDial
  <2> QED
    BY <1>4, <2>2, <2>3 DEF SocksGreet
<1>5. ASSUME NEW d \in Dials, SocksConnect(d) \/ PoolSocks(d)
      PROVE  DialIInv'
  <2>1. dial[d].pc \in {"request", "greet"} /\ UNCHANGED blocklist
    BY <1>5 DEF SocksConnect, PoolSocks, At
  <2>2. CASE Fail(d)
    BY <2>1, <2>2, DialFails
  <2>3. dial[d] \in DialRecords /\ DialOK(dial[d])
    BY DEF DialIInv
  <2>4. dial[d].held = <<>> /\ <<>> \in Seq(Int)
    BY <2>1, <2>3 DEF DialOK
  <2>5. Tls \in Seq(Int)
    BY ProxyDialAssumption DEF Tls
  <2>6. ASSUME NEW wire \in Seq(Int), dial[d].stack # "pool" => wire = Tls,
               Set(d, [dial[d] EXCEPT !.pc = "tls", !.wire = wire])
        PROVE  DialIInv'
    <3>1. [dial[d] EXCEPT !.pc = "tls", !.wire = wire]
            = [dial[d] EXCEPT !.pc = "tls", !.wire = wire, !.held = <<>>]
      BY <2>3, <2>4, ZenonT(60) DEF DialRecords
    <3>2. Set(d, [dial[d] EXCEPT !.pc = "tls", !.wire = wire, !.held = <<>>])
      BY <2>6, <3>1 DEF Set
    <3>3. <<>> \o wire = wire
      BY <2>6, ConcatEmptySeq
    <3>4. dial[d].stack # "pool" => <<>> \o wire = Tls
      BY <2>6, <3>3
    <3> QED
      BY <2>1, <2>4, <3>2, <3>4, TunnelOpens
  <2>7. CASE SocksConnect(d)
    BY <2>2, <2>5, <2>6, <2>7 DEF SocksConnect
  <2>8. CASE PoolSocks(d)
    <3>1. dial[d].stack = "pool"
      BY <2>8 DEF PoolSocks
    <3>2. \A rest \in {<<>>, <<HeadPart>>} : rest \o Tls \in Seq(Int)
      <4>1. <<>> \in Seq(Int) /\ <<HeadPart>> \in Seq(Int)
        BY DEF HeadPart
      <4> QED
        BY <2>5, <4>1, ConcatProperties
    <3> QED
      BY <2>2, <2>6, <2>8, <3>1, <3>2 DEF PoolSocks
  <2> QED
    BY <1>5, <2>7, <2>8
<1>6. ASSUME NEW d \in Dials, SpecWrite(d)
      PROVE  DialIInv'
  <2>1. dial[d].pc = "spec" /\ UNCHANGED blocklist
    BY <1>6 DEF SpecWrite, At
  <2>2. CASE SpecError(d)
    BY <2>1, <2>2, SpeculationFails
  <2>3. ASSUME NEW n \in 0 .. HeadParts, NEW s \in {200, 407},
               Set(d, [dial[d] EXCEPT !.pc = "strip", !.status = s, !.wire = Answer(n, s = 200)])
        PROVE  DialIInv'
    <3> DEFINE wire == Answer(n, s = 200)
               r == [dial[d] EXCEPT !.pc = "strip", !.status = s, !.wire = wire]
    <3>1. dial[d] \in DialRecords /\ DialOK(dial[d])
      BY DEF DialIInv
    <3>2. dial[d].socks = 1 /\ dial[d].got = <<>> /\ dial[d].held = <<>>
      BY <2>1, <3>1 DEF DialOK
    <3>3. n \in Nat /\ (s = 200) \in BOOLEAN
      BY ProxyDialAssumption
    <3>4. wire \in Seq(Int)
      <4>1. \A ok \in BOOLEAN : Answer(n, ok) \in Seq(Int)
        BY <3>3, AnswerFacts
      <4> QED
        BY <3>3, <4>1, Zenon
    <3>5. dial' = [dial EXCEPT ![d] = r] /\ blocklist' \in BOOLEAN
      BY <2>1, <2>3 DEF Set, DialIInv
    <3> HIDE DEF wire
    <3>6. r \in DialRecords
      BY <3>1, <3>4, ZenonT(60) DEF DialRecords
    <3>7. r.pc = "strip" /\ r.status = s /\ r.wire = wire /\ r.socks = 1 /\ r.got = <<>>
          /\ r.held = <<>>
      BY <3>1, <3>2 DEF DialRecords
    <3> HIDE DEF r
    <3>8. r.held \o r.wire = Answer(n, r.status = 200)
      BY <3>4, <3>7, ConcatEmptySeq DEF wire
    <3>9. DialOK(r)
      BY <3>3, <3>7, <3>8 DEF DialOK
    <3> QED
      BY <3>5, <3>6, <3>9, OneDial
  <2> DEFINE P(n, s) ==
        Set(d, [dial[d] EXCEPT !.pc = "strip", !.status = s, !.wire = Answer(n, s = 200)])
  <2>4. SpecError(d) \/ \E n \in 0 .. HeadParts, s \in {200, 407} : P(n, s)
    BY <1>6 DEF SpecWrite
  <2>5. \A n \in 0 .. HeadParts, s \in {200, 407} : P(n, s) => DialIInv'
    BY <2>3
  <2> HIDE DEF P
  <2> QED
    BY <2>2, <2>4, <2>5
<1>7. ASSUME NEW d \in Dials, StripFails(d)
      PROVE  DialIInv'
  BY <1>7, SpeculationFails DEF StripFails, At
<1>8. ASSUME NEW d \in Dials, TlsDone(d)
      PROVE  DialIInv'
  <2> DEFINE r == [dial[d] EXCEPT !.pc = "done"]
  <2>1. dial[d] \in DialRecords /\ DialOK(dial[d]) /\ dial[d].pc = "tls"
    BY <1>8 DEF DialIInv, TlsDone, At
  <2>2. dial[d].socks = 1
    BY <2>1 DEF DialOK
  <2>3. r \in DialRecords
    BY <2>1, ZenonT(60) DEF DialRecords
  <2>4. r.pc = "done" /\ r.socks = 1
    BY <2>1, <2>2 DEF DialRecords
  <2>5. dial' = [dial EXCEPT ![d] = r] /\ blocklist' \in BOOLEAN
    BY <1>8 DEF TlsDone, Set, DialIInv
  <2> HIDE DEF r
  <2>6. DialOK(r)
    BY <2>4 DEF DialOK
  <2> QED
    BY <2>3, <2>5, <2>6, OneDial
<1>9. ASSUME NEW d \in Dials, TlsFails(d)
      PROVE  DialIInv'
  BY <1>9, DialFails DEF TlsFails, At
<1>10. ASSUME NEW d \in Dials, h1Fallback(d) \/ h2Fallback(d)
       PROVE  DialIInv'
  <2> DEFINE r == [dial[d] EXCEPT !.pc = "idle", !.tried = TRUE, !.got = <<>>]
  <2>1. dial[d] \in DialRecords /\ DialOK(dial[d]) /\ dial[d].pc = "mark"
    BY <1>10 DEF DialIInv, h1Fallback, h2Fallback, Mark, At
  <2>2. dial[d].socks = 0 /\ dial[d].held = <<>>
    BY <2>1 DEF DialOK
  <2>3. r \in DialRecords
    <3>1. <<>> \in Seq(Int)
      OBVIOUS
    <3> QED
      BY <2>1, <3>1, ZenonT(60) DEF DialRecords
  <2>4. r.pc = "idle" /\ r.socks = 0 /\ r.got = <<>> /\ r.held = <<>>
    BY <2>1, <2>2 DEF DialRecords
  <2>5. dial' = [dial EXCEPT ![d] = r] /\ blocklist' \in BOOLEAN
    BY <1>10 DEF h1Fallback, h2Fallback, Mark, Set
  <2> HIDE DEF r
  <2>6. DialOK(r)
    BY <2>4 DEF DialOK
  <2> QED
    BY <2>3, <2>5, <2>6, OneDial
<1> QED
  BY <1>1, <1>2, <1>3, <1>4, <1>5, <1>6, <1>7, <1>8, <1>9, <1>10,
     ConnectStep, StripStep, TlsReadStep DEF DialNext

\* Whatever way the proxy's answer and the records are cut into reads, and
\* however often a dial falls back, the TLS layer over dialThroughProxy reads
\* the target's records complete and in order, and the dial holds exactly one
\* socket, or none once it failed.
THEOREM TunnelsStaySound == DialSpec => []TunnelSound
<1>1. DialIInv => TunnelSound
  BY DEF DialIInv, DialOK, TunnelSound, RecordsIntact, OneSocket, At
<1> QED
  BY <1>1, DialIInvInit, DialIInvStep, PTL DEF DialSpec

-----------------------------------------------------------------------------
(* HappyEyeballs                                                           *)

Results == (Ipv6 \cup Ipv4) \X BOOLEAN

HappyShape ==
  /\ Preferred \in SUBSET (Ipv6 \cup Ipv4) /\ Fallback \in SUBSET (Ipv6 \cup Ipv4)
  /\ Preferred \cap Fallback = {}
  /\ todo \in Int /\ inProgress \in SUBSET Ips /\ resultCh \in Seq(Results)

\* While the race is on, a connection that was opened is still in the channel.
InChannel == \A i \in opened : \E k \in 1 .. Len(resultCh) : resultCh[k] = <<i, TRUE>>

RaceOK ==
  /\ race = "start" => inProgress = {} /\ resultCh = <<>> /\ opened = {}
  /\ race = "head" => inProgress \subseteq Preferred
  /\ race \in {"head", "wait"} => InChannel

HappyIInv == HappyShape /\ RaceOK /\ RaceExact

LEMMA FiniteIps == ASSUME NEW S \in SUBSET (Ipv6 \cup Ipv4)
                   PROVE  IsFiniteSet(S) /\ Cardinality(S) \in Nat
<1>1. IsFiniteSet(Ipv6 \cup Ipv4)
  BY HappyAssumption, FS_Union
<1>2. IsFiniteSet(S)
  BY <1>1, FS_Subset
<1> QED
  BY <1>2, FS_CardinalityType

LEMMA HappyInitOK == HappyInit => HappyIInv
<1> SUFFICES ASSUME HappyInit PROVE HappyIInv
  OBVIOUS
<1>1. \E a \in SUBSET Ipv6, b \in SUBSET Ipv4 :
        \/ addrs = [preferred |-> b, fallback |-> a]
        \/ addrs = [preferred |-> a, fallback |-> b]
  <2>1. PICK six \in SUBSET Ipv6, four \in SUBSET Ipv4, local \in {0, 4, 6}, prefer4 \in BOOLEAN :
          LET a == IF local = 4 THEN {} ELSE six
              b == IF local = 6 THEN {} ELSE four
          IN addrs = [preferred |-> IF prefer4 THEN b ELSE a, fallback |-> IF prefer4 THEN a ELSE b]
    BY DEF HappyInit
  <2> DEFINE x == IF local = 4 THEN {} ELSE six
             y == IF local = 6 THEN {} ELSE four
  <2>2. x \in SUBSET Ipv6 /\ y \in SUBSET Ipv4
    OBVIOUS
  <2>3. addrs = [preferred |-> IF prefer4 THEN y ELSE x, fallback |-> IF prefer4 THEN x ELSE y]
    BY <2>1
  <2> HIDE DEF x, y
  <2> QED
    BY <2>2, <2>3
<1>2. /\ Preferred \in SUBSET (Ipv6 \cup Ipv4) /\ Fallback \in SUBSET (Ipv6 \cup Ipv4)
      /\ Preferred \cap Fallback = {}
  BY <1>1, HappyAssumption DEF Preferred, Fallback
<1>3. HappyShape
  BY <1>2 DEF HappyInit, HappyShape
<1> QED
  BY <1>3 DEF HappyInit, HappyIInv, RaceOK, RaceExact

\* One dial less is in progress.
LEMMA DialLess ==
  ASSUME HappyShape, NEW i \in inProgress
  PROVE  /\ Cardinality(inProgress \ {i}) = Cardinality(inProgress) - 1
         /\ Cardinality(inProgress) \in Nat /\ inProgress \ {i} \in SUBSET Ips
<1>1. inProgress \in SUBSET (Ipv6 \cup Ipv4)
  BY DEF HappyShape, Ips
<1>2. IsFiniteSet(inProgress) /\ Cardinality(inProgress) \in Nat
  BY <1>1, FiniteIps
<1> QED
  BY <1>2, FS_RemoveElement DEF HappyShape

\* The fallback dials join those of the preferred family.
LEMMA FallbackJoins ==
  ASSUME HappyShape, inProgress \subseteq Preferred
  PROVE  /\ Cardinality(inProgress \cup Fallback) = Cardinality(inProgress) + Cardinality(Fallback)
         /\ Cardinality(inProgress) \in Nat /\ Cardinality(Fallback) \in Nat
         /\ inProgress \cup Fallback \in SUBSET Ips
<1>1. inProgress \in SUBSET (Ipv6 \cup Ipv4) /\ Fallback \in SUBSET (Ipv6 \cup Ipv4)
  BY DEF HappyShape, Ips
<1>2. /\ IsFiniteSet(inProgress) /\ IsFiniteSet(Fallback)
      /\ Cardinality(inProgress) \in Nat /\ Cardinality(Fallback) \in Nat
  BY <1>1, FiniteIps
<1>3. inProgress \cap Fallback = {} /\ Cardinality({}) = 0
  BY FS_EmptySet DEF HappyShape
<1>4. Cardinality(inProgress \cup Fallback) =
        Cardinality(inProgress) + Cardinality(Fallback) - Cardinality(inProgress \cap Fallback)
  BY <1>2, FS_Union
<1>5. Cardinality(inProgress \cap Fallback) = 0
  BY <1>3
<1>6. inProgress \cup Fallback \in SUBSET Ips
  BY DEF HappyShape, Ips
<1> QED
  BY <1>2, <1>4, <1>5, <1>6

\* A failure read from the channel loses no connection.
LEMMA ReadFailure ==
  ASSUME HappyShape, InChannel, resultCh # <<>>, ~Head(resultCh)[2],
         resultCh' = Tail(resultCh), opened' = opened
  PROVE  /\ resultCh' \in Seq(Results) /\ Len(resultCh') = Len(resultCh) - 1 /\ InChannel'
         /\ Len(resultCh) \in Nat
<1>1. /\ resultCh \in Seq(Results) /\ Len(resultCh) \in Nat \ {0} /\ Head(resultCh) = resultCh[1]
  BY DEF HappyShape
<1>2. /\ resultCh' \in Seq(Results) /\ Len(resultCh') = Len(resultCh) - 1
      /\ \A k \in 1 .. Len(resultCh') : resultCh'[k] = resultCh[k + 1]
  BY <1>1
<1>3. InChannel'
  <2> SUFFICES ASSUME NEW i \in opened
               PROVE  \E k \in 1 .. Len(resultCh') : resultCh'[k] = <<i, TRUE>>
    BY DEF InChannel
  <2>1. PICK k \in 1 .. Len(resultCh) : resultCh[k] = <<i, TRUE>>
    BY DEF InChannel
  <2>2. k # 1
    <3>1. <<i, TRUE>>[2] = TRUE
      OBVIOUS
    <3> QED
      BY <1>1, <2>1, <3>1
  <2>3. k - 1 \in 1 .. Len(resultCh') /\ resultCh'[k - 1] = resultCh[k]
    BY <1>1, <1>2, <2>2
  <2> QED
    BY <2>1, <2>3
<1> QED
  BY <1>1, <1>2, <1>3

LEMMA SendResult ==
  ASSUME HappyShape, NEW i \in Ips, NEW ok \in BOOLEAN, resultCh' = Append(resultCh, <<i, ok>>)
  PROVE  /\ resultCh' \in Seq(Results) /\ Len(resultCh') = Len(resultCh) + 1
         /\ Len(resultCh) \in Nat /\ resultCh'[Len(resultCh) + 1] = <<i, ok>>
         /\ \A k \in 1 .. Len(resultCh) : resultCh'[k] = resultCh[k]
<1>1. <<i, ok>> \in Results
  BY DEF Results, HappyShape, Ips
<1> QED
  BY <1>1 DEF HappyShape

LEMMA HappyStep == HappyIInv /\ [HappyNext]_happyVars => HappyIInv'
<1> SUFFICES ASSUME HappyIInv, [HappyNext]_happyVars
             PROVE  HappyIInv'
  OBVIOUS
<1> USE DEF HappyIInv
<1>0. CASE UNCHANGED happyVars
  BY <1>0 DEF happyVars, HappyShape, RaceOK, RaceExact, InChannel, Preferred, Fallback, Ips
<1> SUFFICES ASSUME HappyNext PROVE HappyIInv'
  BY <1>0
<1>1. Preferred' = Preferred /\ Fallback' = Fallback /\ Ips' = Ips
  BY DEF HappyNext, Preferred, Fallback, Ips
<1>2. ASSUME NEW n \in Int, todo' = n, inProgress' \in SUBSET Ips, resultCh' \in Seq(Results)
      PROVE  HappyShape'
  BY <1>1, <1>2 DEF HappyShape
<1>3. CASE StartPreferred
  <2>1. /\ inProgress = {} /\ resultCh = <<>> /\ opened = {} /\ Len(resultCh) = 0
        /\ inProgress' = Preferred /\ todo' = Cardinality(Preferred) /\ UNCHANGED <<resultCh, opened>>
        /\ race' = IF Ips = {} THEN "error" ELSE IF Fallback = {} THEN "wait" ELSE "head"
    BY <1>3 DEF StartPreferred, RaceOK
  <2>2. Cardinality(Preferred) \in Nat
    BY FiniteIps DEF HappyShape
  <2>3. HappyShape'
    BY <1>2, <2>1, <2>2 DEF HappyShape, Ips
  <2>4. RaceOK'
    BY <1>1, <2>1 DEF RaceOK, InChannel
  <2>5. RaceExact'
    BY <2>1, <2>2 DEF RaceExact, Ips
  <2> QED
    BY <2>3, <2>4, <2>5
<1>4. ASSUME NEW i \in Ips, HappyDialOk(i) \/ HappyDialFails(i) PROVE HappyIInv'
  <2>1. i \in inProgress /\ inProgress' = inProgress \ {i} /\ UNCHANGED <<race, todo>>
    BY <1>4 DEF HappyDialOk, HappyDialFails
  <2>2. /\ Cardinality(inProgress') = Cardinality(inProgress) - 1
        /\ Cardinality(inProgress) \in Nat /\ inProgress' \in SUBSET Ips
    BY <2>1, DialLess
  <2>3. race # "start" /\ race # "error"
    BY <2>1 DEF RaceOK, RaceExact
  <2>4. CASE Over /\ UNCHANGED resultCh
    <3>1. HappyShape'
      BY <1>2, <2>1, <2>2, <2>4 DEF HappyShape
    <3> QED
      BY <2>1, <2>3, <2>4, <3>1 DEF Over, RaceOK, RaceExact
  <2>5. ASSUME NEW ok \in BOOLEAN, resultCh' = Append(resultCh, <<i, ok>>),
               opened' = IF ok THEN opened \cup {i} ELSE opened
        PROVE  HappyIInv'
    <3>1. /\ resultCh' \in Seq(Results) /\ Len(resultCh') = Len(resultCh) + 1
          /\ Len(resultCh) \in Nat /\ resultCh'[Len(resultCh) + 1] = <<i, ok>>
          /\ \A k \in 1 .. Len(resultCh) : resultCh'[k] = resultCh[k]
      BY <2>5, SendResult
    <3>2. HappyShape'
      BY <1>2, <2>1, <2>2, <3>1 DEF HappyShape
    <3>3. InChannel => InChannel'
      <4> SUFFICES ASSUME InChannel, NEW j \in opened'
                   PROVE  \E k \in 1 .. Len(resultCh') : resultCh'[k] = <<j, TRUE>>
        BY DEF InChannel
      <4>1. \A k \in 1 .. Len(resultCh) + 1 : k \in 1 .. Len(resultCh')
        BY <3>1
      <4>2. Len(resultCh) + 1 \in 1 .. Len(resultCh) + 1 /\ 1 .. Len(resultCh) \subseteq 1 .. Len(resultCh) + 1
        BY <3>1
      <4>3. CASE j \in opened
        BY <3>1, <4>1, <4>2, <4>3 DEF InChannel
      <4>4. CASE j \notin opened
        <5>1. j = i /\ ok = TRUE
          BY <2>5, <4>4
        <5> QED
          BY <3>1, <4>1, <4>2, <5>1
      <4> QED
        BY <4>3, <4>4
    <3>4. RaceOK'
      BY <1>1, <2>1, <2>3, <3>3 DEF RaceOK
    <3>5. RaceExact'
      BY <2>1, <2>2, <2>3, <3>1 DEF RaceExact
    <3> QED
      BY <3>2, <3>4, <3>5
  <2> QED
    BY <1>4, <2>4, <2>5 DEF HappyDialOk, HappyDialFails
<1>5. CASE resultCh # <<>> /\ HappyWon /\ UNCHANGED <<todo, inProgress>>
  <2>1. race' = "won" /\ resultCh' \in Seq(Results)
    BY <1>5 DEF HappyWon, HappyShape
  <2>2. HappyShape'
    BY <1>2, <1>5, <2>1 DEF HappyShape
  <2> QED
    BY <2>1, <2>2 DEF RaceOK, RaceExact
<1>6. CASE HeadResult
  <2>1. race = "head" /\ resultCh # <<>> /\ opened' = opened
    BY <1>6 DEF HeadResult
  <2>2. CASE ~Head(resultCh)[2]
    <3>1. /\ resultCh' = Tail(resultCh) /\ inProgress' = inProgress \cup Fallback
          /\ todo' = todo - 1 + Cardinality(Fallback) /\ race' = "wait"
      BY <1>6, <2>2 DEF HeadResult
    <3>2. /\ resultCh' \in Seq(Results) /\ Len(resultCh') = Len(resultCh) - 1 /\ InChannel'
          /\ Len(resultCh) \in Nat
      BY <2>1, <2>2, <3>1, ReadFailure DEF RaceOK
    <3>3. /\ Cardinality(inProgress') = Cardinality(inProgress) + Cardinality(Fallback)
          /\ Cardinality(inProgress) \in Nat /\ Cardinality(Fallback) \in Nat
          /\ inProgress' \in SUBSET Ips
      BY <2>1, <3>1, FallbackJoins DEF RaceOK
    <3>4. todo = Cardinality(inProgress) + Len(resultCh)
      BY <2>1 DEF RaceExact
    <3>5. HappyShape'
      BY <1>2, <3>1, <3>2, <3>3 DEF HappyShape
    <3> QED
      BY <3>1, <3>2, <3>3, <3>4, <3>5 DEF RaceOK, RaceExact
  <2> QED
    BY <1>5, <1>6, <2>1, <2>2 DEF HeadResult
<1>7. CASE HeadTimeout
  <2>1. /\ race = "head" /\ inProgress' = inProgress \cup Fallback
        /\ todo' = todo + Cardinality(Fallback) /\ race' = "wait" /\ UNCHANGED <<resultCh, opened>>
    BY <1>7 DEF HeadTimeout
  <2>2. /\ Cardinality(inProgress') = Cardinality(inProgress) + Cardinality(Fallback)
        /\ Cardinality(inProgress) \in Nat /\ Cardinality(Fallback) \in Nat
        /\ inProgress' \in SUBSET Ips
    BY <2>1, FallbackJoins DEF RaceOK
  <2>3. todo = Cardinality(inProgress) + Len(resultCh) /\ Len(resultCh) \in Nat
    BY <2>1 DEF RaceExact, HappyShape
  <2>4. HappyShape'
    BY <1>2, <2>1, <2>2 DEF HappyShape
  <2> QED
    <3>1. InChannel'
      BY <2>1 DEF RaceOK, InChannel
    <3>2. RaceOK'
      BY <2>1, <3>1 DEF RaceOK
    <3>3. RaceExact'
      BY <2>1, <2>2, <2>3 DEF RaceExact
    <3> QED
      BY <2>4, <3>2, <3>3
<1>8. CASE WaitResult
  <2>1. race = "wait" /\ resultCh # <<>> /\ UNCHANGED <<inProgress, opened>>
    BY <1>8 DEF WaitResult
  <2>2. CASE ~Head(resultCh)[2]
    <3>1. resultCh' = Tail(resultCh) /\ todo' = todo - 1 /\ race' = race
      BY <1>8, <2>2 DEF WaitResult
    <3>2. /\ resultCh' \in Seq(Results) /\ Len(resultCh') = Len(resultCh) - 1 /\ InChannel'
          /\ Len(resultCh) \in Nat
      BY <2>1, <2>2, <3>1, ReadFailure DEF RaceOK
    <3>3. todo = Cardinality(inProgress) + Len(resultCh) /\ Cardinality(inProgress) \in Nat
      BY <2>1, FiniteIps DEF RaceExact, HappyShape, Ips
    <3>4. HappyShape'
      BY <1>2, <2>1, <3>1, <3>2 DEF HappyShape
    <3> QED
      BY <2>1, <3>1, <3>2, <3>3, <3>4 DEF RaceOK, RaceExact
  <2> QED
    BY <1>5, <1>8, <2>1, <2>2 DEF WaitResult
<1>9. CASE AllFailed
  <2>1. /\ race = "wait" /\ todo = 0 /\ race' = "error"
        /\ UNCHANGED <<todo, inProgress, resultCh, opened>>
    BY <1>9 DEF AllFailed
  <2>2. IsFiniteSet(inProgress) /\ Cardinality(inProgress) \in Nat /\ Len(resultCh) \in Nat
    BY FiniteIps DEF HappyShape, Ips
  <2>3. Cardinality(inProgress) = 0 /\ Len(resultCh) = 0
    BY <2>1, <2>2 DEF RaceExact
  <2>4. inProgress = {}
    BY <2>2, <2>3, FS_EmptySet
  <2>5. opened = {}
    BY <2>1, <2>3 DEF RaceOK, InChannel
  <2>6. HappyShape'
    BY <1>2, <2>1 DEF HappyShape
  <2> QED
    BY <2>1, <2>4, <2>5, <2>6 DEF RaceOK, RaceExact
<1>10. CASE HappyCtxDone
  <2>1. HappyShape'
    BY <1>2, <1>10 DEF HappyCtxDone, HappyShape
  <2> QED
    BY <1>10, <2>1 DEF HappyCtxDone, RaceOK, RaceExact
<1> QED
  BY <1>3, <1>4, <1>6, <1>7, <1>8, <1>9, <1>10 DEF HappyNext

\* The race over a host's addresses waits for exactly the results still to come,
\* and fails only when nothing is being dialled and nothing is connected, for
\* every number of addresses of either family and every order of the answers.
THEOREM RaceStaysExact == HappySpec => []RaceExact
<1>1. HappyIInv => RaceExact
  BY DEF HappyIInv
<1> QED
  BY <1>1, HappyInitOK, HappyStep, PTL DEF HappySpec

-----------------------------------------------------------------------------
(* UdpTunnels                                                              *)

TunnelShape ==
  /\ tunnel \in {"socks5", "masque"}
  /\ tstate \in [established: BOOLEAN, closed: BOOLEAN]
  /\ holder \in Users \cup {NoUser}
  /\ step \in {"none", "dial", "handshake", "listen", "associate", "settings", "connect", "failed",
               "general"}
  /\ control \in {"none", "open", "closed"} /\ relay \in {"none", "open", "closed"}

\* What Establish has opened when it is at a step, and that only a tunnel which
\* is neither established nor closed is at one.
EstablishOK ==
  /\ step = "none" <=> MuOpen
  /\ ~MuOpen => ~tstate.established /\ ~tstate.closed
  /\ step \in {"handshake", "listen", "associate", "settings", "connect"} => control = "open"
  /\ step = "associate" => relay = "open"
  /\ tunnel = "masque" =>
       /\ relay # "open"
       /\ step \in {"none", "dial", "settings", "connect"}
       /\ step = "dial" => control # "open"

TunnelIInv == TunnelShape /\ EstablishOK /\ TunnelReleased

LEMMA TunnelInitOK == TunnelInit => TunnelIInv
  BY TunnelAssumption
  DEF TunnelInit, TunnelIInv, TunnelShape, EstablishOK, TunnelReleased, MuOpen

LEMMA TunnelStep == TunnelIInv /\ [TunnelNext]_tunnelVars => TunnelIInv'
<1> SUFFICES ASSUME TunnelIInv, [TunnelNext]_tunnelVars
             PROVE  TunnelIInv'
  OBVIOUS
<1> USE TunnelAssumption DEF TunnelIInv, TunnelShape, EstablishOK, TunnelReleased, MuOpen
<1>1. CASE UNCHANGED <<tunnel, tstate, holder, step, control, relay>>
  BY <1>1
<1>2. CASE TryDial
  BY <1>2 DEF TryDial, Go
<1>3. CASE TryHandshake
  BY <1>3 DEF TryHandshake, Go
<1>4. CASE TryListen
  BY <1>4 DEF TryListen, Go
<1>5. CASE TryAssociate
  BY <1>5 DEF TryAssociate, Go, LeaveTunnel
<1>6. CASE RetrySocks
  BY <1>6 DEF RetrySocks, Discard
<1>7. CASE GiveUpSocks
  BY <1>7 DEF GiveUpSocks, Discard, LeaveTunnel
<1>8. CASE MasqueDial
  BY <1>8 DEF MasqueDial, Go, LeaveTunnel
<1>9. CASE MasqueSettings
  BY <1>9 DEF MasqueSettings, MasqueFails, Go, LeaveTunnel
<1>10. CASE MasqueConnect
  BY <1>10 DEF MasqueConnect, MasqueFails, LeaveTunnel
<1>11. CASE SocksClose
  BY <1>11 DEF SocksClose, CloseTunnel
<1>12. CASE MasqueClose
  BY <1>12 DEF MasqueClose, CloseTunnel
<1>13. CASE tcpKeepalive
  BY <1>13 DEF tcpKeepalive, CloseTunnel
<1>14. ASSUME NEW u \in Users, EstablishSocks(u) \/ EstablishMasque(u)
       PROVE  TunnelIInv'
  BY <1>14 DEF EstablishSocks, EstablishMasque, Establish
<1>15. CASE receiveDatagrams \/ receiveEnds \/ RelaySends
  BY <1>1, <1>15 DEF receiveDatagrams, receiveEnds, RelaySends
<1>16. ASSUME NEW u \in Users,
              \/ SocksReadFrom(u) \/ SocksWriteTo(u) \/ MasqueReadFrom(u) \/ MasqueWriteTo(u)
              \/ ReadDatagram(u) \/ UseEnds(u)
       PROVE  TunnelIInv'
  BY <1>1, <1>16
  DEF SocksReadFrom, SocksWriteTo, MasqueReadFrom, MasqueWriteTo, Use, ReadDatagram, UseEnds
<1>17. CASE UNCHANGED tunnelVars
  BY <1>1, <1>17 DEF tunnelVars
<1> QED
  BY <1>2, <1>3, <1>4, <1>5, <1>6, <1>7, <1>8, <1>9, <1>10, <1>11, <1>12, <1>13, <1>14, <1>15,
     <1>16, <1>17 DEF TunnelNext

\* Neither a failed or repeated Establish, nor the owner's Close, nor the end of
\* the control connection leaves a tunnel's connections open or an established
\* tunnel without them, for any number of goroutines and retries.
THEOREM TunnelNothingLeft == TunnelSpec => []TunnelReleased
<1>1. TunnelIInv => TunnelReleased
  BY DEF TunnelIInv
<1> QED
  BY <1>1, TunnelInitOK, TunnelStep, PTL DEF TunnelSpec

-----------------------------------------------------------------------------
(* The sum of the parts.  Its types are those of its parts: the suffix     *)
(* Rest is what they add to the parts' invariants above.                   *)

\* A request is tried Attempts3 times.
TriesBounded == \A c \in Trips : trip[c].n \in 0 .. Attempts3 - 1

Http3Rest ==
  /\ tunnelled \in BOOLEAN /\ muHolder \in {"none", "refresh"}
  /\ TriesBounded
  /\ socket \in {"open", "closed"}
  /\ refresh \in {"idle", "close", "socket", "assocs", "install"}
  /\ closing \in {"no", "transport", "socket", "assocs", "done"}

LEMMA Http3RestInit == Http3Init => Http3Rest
  BY Http3Assumption DEF Http3Init, Http3Rest, TriesBounded, NoTrip

\* The locals of one call change.
LEMMA TriesKept ==
  ASSUME trip \in [Trips -> TripType], TriesBounded, NEW c \in Trips, NEW r,
         r.n \in 0 .. Attempts3 - 1, trip' = [trip EXCEPT ![c] = r]
  PROVE  TriesBounded'
BY DEF TriesBounded

LEMMA TriesBoundedStep ==
  ASSUME Http3IInv, TriesBounded, Http3Next
  PROVE  TriesBounded'
<1>1. Attempts3 \in Nat \ {0} /\ 0 \in 0 .. Attempts3 - 1
  BY Http3Assumption
<1>2. trip \in [Trips -> TripType] /\ \A c \in Trips : trip[c].n \in 0 .. Attempts3 - 1
  BY DEF Http3IInv, Http3Shape, TriesBounded
<1>3. ASSUME UNCHANGED trip
      PROVE  TriesBounded'
  BY <1>3 DEF TriesBounded
<1>4. ASSUME NEW c \in Trips, NEW pc, Leave(c, pc)
      PROVE  TriesBounded'
  <2> DEFINE r == [NoTrip EXCEPT !.pc = pc]
  <2>1. r.n = 0 /\ trip' = [trip EXCEPT ![c] = r]
    BY <1>4 DEF Leave, NoTrip
  <2> HIDE DEF r
  <2> QED
    BY <1>1, <1>2, <2>1, TriesKept
<1>5. ASSUME NEW c \in Trips, NEW pc, Goto(c, pc)
      PROVE  TriesBounded'
  <2> DEFINE r == [trip[c] EXCEPT !.pc = pc]
  <2>1. trip[c] \in TripType
    BY <1>2
  <2>2. r.n = trip[c].n /\ trip' = [trip EXCEPT ![c] = r]
    BY <1>5, <2>1 DEF Goto, TripType
  <2> HIDE DEF r
  <2> QED
    BY <1>2, <2>2, TriesKept
<1>6. ASSUME NEW c \in Trips, Capture(c)
      PROVE  TriesBounded'
  <2> DEFINE r == [pc |-> "sent", t |-> current, n |-> 0]
  <2>1. r.n = 0 /\ trip' = [trip EXCEPT ![c] = r]
    BY <1>6 DEF Capture
  <2> HIDE DEF r
  <2> QED
    BY <1>1, <1>2, <2>1, TriesKept
<1>7. ASSUME NEW c \in Trips, Again(c)
      PROVE  TriesBounded'
  <2> DEFINE n == trip[c].n + 1
             r == [pc |-> "sent", t |-> current, n |-> n]
  <2>1. CASE n < Attempts3
    <3>1. trip' = [trip EXCEPT ![c] = r]
      BY <1>7, <2>1 DEF Again
    <3>2. n \in 0 .. Attempts3 - 1
      BY <1>1, <1>2, <2>1
    <3> HIDE DEF n
    <3>3. r.n = n
      OBVIOUS
    <3> HIDE DEF r
    <3> QED
      BY <1>2, <3>1, <3>2, <3>3, TriesKept
  <2>2. CASE ~(n < Attempts3)
    BY <1>4, <1>7, <2>2 DEF Again
  <2> QED
    BY <2>1, <2>2
<1>8. ASSUME NEW c \in Trips, Recreate(c)
      PROVE  TriesBounded'
  <2> DEFINE r == [trip[c] EXCEPT !.pc = "again", !.t = NoTransport]
  <2>1. trip[c] \in TripType
    BY <1>2
  <2>2. r.n = trip[c].n /\ trip' = [trip EXCEPT ![c] = r]
    BY <1>8, <2>1 DEF Recreate, TripType
  <2> HIDE DEF r
  <2> QED
    BY <1>2, <2>2, TriesKept
<1>9. ASSUME NEW c \in Trips, TripEnd(c)
      PROVE  TriesBounded'
  <2>1. NoTrip.n = 0 /\ trip' = [trip EXCEPT ![c] = NoTrip]
    BY <1>9 DEF TripEnd, NoTrip
  <2> QED
    BY <1>1, <1>2, <2>1, TriesKept
<1>10. ASSUME NEW c \in Trips, Exchange(c) \/ DialDirect(c) \/ TunnelDial(c) \/ HandshakeDone(c) \/ HandshakeFailed(c)
       PROVE  TriesBounded'
  BY <1>4, <1>10 DEF Exchange, DialDirect, TunnelDial, HandshakeDone, HandshakeFailed
<1>11. ASSUME NEW c \in Trips, Dial(c) \/ List(c) \/ Reject(c)
       PROVE  TriesBounded'
  BY <1>5, <1>11 DEF Dial, List, Reject
<1>12. ASSUME NEW c \in Trips, WatchEnd(c)
       PROVE  TriesBounded'
  BY <1>3, <1>12 DEF WatchEnd
<1>13. ASSUME RefreshLock \/ RefreshStep \/ CloseStart \/ CloseStep
       PROVE  TriesBounded'
  BY <1>3, <1>13 DEF RefreshLock, RefreshStep, CloseStart, CloseStep, RefreshClose, RefreshSocket,
                     RefreshTake, RefreshInstall, CloseTaken, CloseTake, CloseSocket
<1> QED
  BY <1>6, <1>7, <1>8, <1>9, <1>10, <1>11, <1>12, <1>13 DEF Http3Next, TripStep

LEMMA Http3RestStep ==
  Http3IInv /\ Http3Rest /\ [Http3Next /\ UNCHANGED tunnelled]_http3Vars => Http3Rest'
<1> SUFFICES ASSUME Http3IInv, Http3Rest, [Http3Next /\ UNCHANGED tunnelled]_http3Vars
             PROVE  Http3Rest'
  OBVIOUS
<1>1. CASE UNCHANGED http3Vars
  BY <1>1 DEF http3Vars, Http3Rest, TriesBounded
<1>2. CASE Http3Next /\ UNCHANGED tunnelled
  <2>1. TriesBounded'
    BY <1>2, TriesBoundedStep DEF Http3Rest
  <2> DEFINE Small == /\ muHolder \in {"none", "refresh"} /\ socket \in {"open", "closed"}
                      /\ refresh \in {"idle", "close", "socket", "assocs", "install"}
                      /\ closing \in {"no", "transport", "socket", "assocs", "done"}
  <2>2. Small
    BY DEF Http3Rest
  <2>3. ASSUME NEW c \in Trips, Capture(c) \/ Dial(c) \/ Reject(c) \/ TripStep(c) \/ TripEnd(c) \/ WatchEnd(c)
        PROVE  UNCHANGED <<muHolder, socket, refresh, closing>>
    BY <2>3 DEF Capture, Dial, Reject, TripStep, TripEnd, WatchEnd, Exchange, DialDirect, TunnelDial, List,
                HandshakeDone, HandshakeFailed, Recreate, Again
  <2>4. ASSUME RefreshLock \/ RefreshStep \/ CloseStart \/ CloseStep
        PROVE  Small'
    BY <2>2, <2>4 DEF RefreshLock, RefreshStep, CloseStart, CloseStep, RefreshClose, RefreshSocket,
                      RefreshTake, RefreshInstall, CloseTaken, CloseTake, CloseSocket
  <2>5. Small'
    BY <1>2, <2>2, <2>3, <2>4 DEF Http3Next
  <2> QED
    BY <1>2, <2>1, <2>5 DEF Http3Rest
<1> QED
  BY <1>1, <1>2

LEMMA Http3Types == Http3IInv /\ Http3Rest => Http3TypeOK
<1> SUFFICES ASSUME Http3IInv, Http3Rest
             PROVE  Http3TypeOK
  OBVIOUS
<1> DEFINE T == [pc: {"idle", "sent", "dial", "list", "handshake", "recreate", "again", "done"},
                 t: Transports \cup {NoTransport}, n: 0 .. Attempts3 - 1]
<1>1. trip \in [Trips -> TripType] /\ \A c \in Trips : trip[c].n \in 0 .. Attempts3 - 1
  BY DEF Http3IInv, Http3Shape, Http3Rest, TriesBounded
<1>2. \A c \in Trips : trip[c] \in T
  <2>1. \A r \in TripType : r.n \in 0 .. Attempts3 - 1 => r \in T
    BY DEF TripType
  <2> HIDE DEF T
  <2> QED
    BY <1>1, <2>1
<1>3. trip \in [Trips -> T]
  <2> HIDE DEF T
  <2> QED
    BY <1>1, <1>2
<1> QED
  BY <1>3 DEF Http3TypeOK, Http3IInv, Http3Shape, Http3Rest

LEMMA BodyTypes == BodyIInv => BodyTypeOK
BY DEF BodyIInv, BufferIInv, BodyShape, CopyRaced, ReaderType, BodyTypeOK

\* One request at a time dials for a transport, within the bound on dials.
QDialing(g) == qCall[g].pc = "dial"

QDialersOK ==
  \A g \in Callers :
    QDialing(g) =>
      /\ qDials[qCall[g].conn] < MaxDials
      /\ \A h \in Callers \ {g} : QDialing(h) => qCall[h].conn # qCall[g].conn

QuicRest ==
  /\ qClosed \in BOOLEAN
  /\ qAge \in [QConns -> {"fresh", "idle", "old"}]
  /\ qAlive \in [QConns -> BOOLEAN]
  /\ \A c \in QConns : qDials[c] <= MaxDials
  /\ \A g \in Callers : qCall[g].ips <= Addrs
  /\ QDialersOK

LEMMA QuicRestInit == QuicInit => QuicRest
<1> SUFFICES ASSUME QuicInit PROVE QuicRest
  OBVIOUS
<1>1. MaxDials \in Nat /\ Addrs \in Nat
  BY QuicPoolAssumption
<1>2. \A g \in Callers : qCall[g].ips = 0 /\ qCall[g].pc = "idle"
  BY DEF QuicInit, NoQCall
<1>3. \A c \in QConns : qDials[c] = 0
  BY DEF QuicInit
<1>4. QDialersOK
  BY <1>2 DEF QDialersOK, QDialing
<1>5. /\ qClosed \in BOOLEAN /\ qAge \in [QConns -> {"fresh", "idle", "old"}]
      /\ qAlive \in [QConns -> BOOLEAN]
  BY DEF QuicInit
<1> QED
  BY <1>1, <1>2, <1>3, <1>4, <1>5 DEF QuicRest

\* A call that is not about to dial changes its locals, and nothing is dialled.
LEMMA QNotDialing ==
  ASSUME QuicIInv, QuicRest, NEW g \in Callers, NEW r, qCall' = [qCall EXCEPT ![g] = r],
         r.ips <= Addrs, r.pc # "dial" \/ (QDialing(g) /\ r.pc = "dial" /\ r.conn = qCall[g].conn),
         UNCHANGED qDials
  PROVE  (\A h \in Callers : qCall'[h].ips <= Addrs) /\ QDialersOK'
<1>1. qCall'[g] = r /\ \A h \in Callers \ {g} : qCall'[h] = qCall[h]
  BY DEF QuicIInv, QShape
<1> QED
  BY <1>1 DEF QuicRest, QDialersOK, QDialing

LEMMA QuicRestStep == QuicIInv /\ QuicRest /\ [QuicNext]_quicVars => QuicRest'
<1> SUFFICES ASSUME QuicIInv, QuicRest, [QuicNext]_quicVars
             PROVE  QuicRest'
  OBVIOUS
<1>0. /\ MaxDials \in Nat /\ Addrs \in Nat
      /\ qCall \in [Callers -> QCallType] /\ qDials \in [QConns -> Nat]
      /\ \A g \in Callers : QCallOK(qCall[g]) /\ qCall[g].ips \in Nat /\ qCall[g].ips <= Addrs
  BY QuicPoolAssumption DEF QuicIInv, QShape, QuicRest, QCallType
<1>1. CASE UNCHANGED quicVars
  BY <1>1 DEF quicVars, qmgrVars, qconnVars, qdialVars, QuicRest, QDialersOK, QDialing
\* The three parts of the invariant.
<1> DEFINE Flags == /\ qClosed \in BOOLEAN /\ qAge \in [QConns -> {"fresh", "idle", "old"}]
                    /\ qAlive \in [QConns -> BOOLEAN]
           Calls == (\A g \in Callers : qCall[g].ips <= Addrs) /\ QDialersOK
           Counts == \A c \in QConns : qDials[c] <= MaxDials
<1>2. (Flags /\ Calls /\ Counts) /\ (Flags' /\ Calls' /\ Counts' => QuicRest')
  BY DEF QuicRest
<1>3. ASSUME UNCHANGED <<qCall, qDials>> PROVE Calls' /\ Counts'
  BY <1>2, <1>3 DEF QDialersOK, QDialing
<1>4. ASSUME NEW g \in Callers, QReturn(g), UNCHANGED qDials PROVE Calls' /\ Counts'
  <2>1. NoQCall.ips <= Addrs /\ NoQCall.pc # "dial" /\ qCall' = [qCall EXCEPT ![g] = NoQCall]
    BY <1>0, <1>4 DEF NoQCall, QReturn
  <2> QED
    BY <1>2, <1>4, <2>1, QNotDialing
\* What a step that neither dials nor returns makes of its call's locals.
<1>5. ASSUME NEW g \in Callers, NEW r \in QCallType, qCall' = [qCall EXCEPT ![g] = r],
             r.ips = qCall[g].ips, r.pc # "dial", UNCHANGED qDials
      PROVE  Calls' /\ Counts'
  BY <1>0, <1>2, <1>5, QNotDialing
<1>6. ASSUME NEW g \in Callers, NEW pc \in {"miss", "pool", "hit", "create", "append", "trip"},
             NEW p, NEW c, UNCHANGED qDials,
             \/ qCall' = [qCall EXCEPT ![g].pc = pc]
             \/ qCall' = [qCall EXCEPT ![g].pc = pc, ![g].pool = p]
             \/ qCall' = [qCall EXCEPT ![g].pc = pc, ![g].conn = c]
      PROVE  Calls' /\ Counts'
  <2>1. PICK r : /\ qCall' = [qCall EXCEPT ![g] = r] /\ r.ips = qCall[g].ips /\ r.pc = pc
    <3>1. CASE qCall' = [qCall EXCEPT ![g].pc = pc]
      <4> DEFINE r == [qCall[g] EXCEPT !.pc = pc]
      <4>1. r.ips = qCall[g].ips /\ r.pc = pc /\ qCall' = [qCall EXCEPT ![g] = r]
        BY <1>0, <3>1 DEF QCallType
      <4> HIDE DEF r
      <4> QED
        BY <4>1
    <3>2. CASE qCall' = [qCall EXCEPT ![g].pc = pc, ![g].pool = p]
      <4> DEFINE r == [qCall[g] EXCEPT !.pc = pc, !.pool = p]
      <4>1. r.ips = qCall[g].ips /\ r.pc = pc /\ qCall' = [qCall EXCEPT ![g] = r]
        BY <1>0, <3>2 DEF QCallType
      <4> HIDE DEF r
      <4> QED
        BY <4>1
    <3>3. CASE qCall' = [qCall EXCEPT ![g].pc = pc, ![g].conn = c]
      <4> DEFINE r == [qCall[g] EXCEPT !.pc = pc, !.conn = c]
      <4>1. r.ips = qCall[g].ips /\ r.pc = pc /\ qCall' = [qCall EXCEPT ![g] = r]
        BY <1>0, <3>3 DEF QCallType
      <4> HIDE DEF r
      <4> QED
        BY <4>1
    <3> QED
      BY <1>6, <3>1, <3>2, <3>3
  <2>2. r.ips <= Addrs /\ r.pc # "dial"
    BY <1>0, <2>1
  <2> QED
    BY <1>2, <1>6, <2>1, <2>2, QNotDialing
<1>7. ASSUME NEW g \in Callers, QGetPoolRead(g) \/ QGetPoolCreate(g) PROVE QuicRest'
  <2>1. UNCHANGED <<qDials, qClosed, qAge, qAlive>>
    BY <1>7 DEF QGetPoolRead, QGetPoolCreate, qmgrVars, qconnVars, qdialVars
  <2>2. CASE QReturn(g)
    BY <1>2, <1>4, <2>1, <2>2
  <2>3. CASE \E pc \in {"miss", "pool", "hit", "create", "append", "trip"}, p \in QPools \cup {NoQ} :
               qCall' = [qCall EXCEPT ![g].pc = pc, ![g].pool = p]
    BY <1>2, <1>6, <2>1, <2>3
  <2>4. qPool \in QPools \cup {NoQ}
    BY DEF QuicIInv, QShape
  <2> QED
    BY <1>7, <2>2, <2>3, <2>4 DEF QGetPoolRead, QGetPoolCreate
<1>8. ASSUME NEW g \in Callers, QReuse(g) \/ QMarkUsed(g) \/ QGetConnMiss(g) \/ QAppend(g) PROVE QuicRest'
  <2>1. UNCHANGED <<qDials, qClosed, qAlive>>
    BY <1>8 DEF QReuse, QMarkUsed, QGetConnMiss, QAppend, qmgrVars, qconnVars, qdialVars
  <2>2. qAge' \in [QConns -> {"fresh", "idle", "old"}]
    BY <1>2, <1>8 DEF QReuse, QMarkUsed, QGetConnMiss, QAppend, qmgrVars, qconnVars, qdialVars
  <2>3. Calls' /\ Counts'
    <3>1. CASE QReturn(g)
      BY <1>4, <2>1, <3>1
    <3>2. CASE \E pc \in {"miss", "pool", "hit", "create", "append", "trip"} : qCall' = [qCall EXCEPT ![g].pc = pc]
      BY <1>6, <2>1, <3>2
    <3>3. CASE \E pc \in {"miss", "pool", "hit", "create", "append", "trip"}, c \in qList[qCall[g].pool] :
                 qCall' = [qCall EXCEPT ![g].pc = pc, ![g].conn = c]
      BY <1>6, <2>1, <3>3
    <3> QED
      BY <1>8, <3>1, <3>2, <3>3 DEF QReuse, QMarkUsed, QGetConnMiss, QAppend
  <2> QED
    BY <1>2, <2>1, <2>2, <2>3
<1>9. ASSUME NEW g \in Callers, QCreateConn(g) \/ QTrip(g) \/ QDialFailed(g) PROVE QuicRest'
  <2>1. UNCHANGED <<qDials, qClosed, qAlive>>
    BY <1>9 DEF QCreateConn, QTrip, QDialFailed, qmgrVars, qconnVars, qdialVars
  <2>2. qAge' \in [QConns -> {"fresh", "idle", "old"}]
    BY <1>2, <1>9 DEF QCreateConn, QTrip, QDialFailed, qmgrVars, qconnVars, qdialVars
  <2>3. CASE QReturn(g)
    BY <1>2, <1>4, <2>1, <2>2, <2>3
  <2>4. CASE \E c \in QConns : qCall' = [qCall EXCEPT ![g].pc = "append", ![g].conn = c]
    BY <1>2, <1>6, <2>1, <2>2, <2>4
  <2> QED
    BY <1>9, <2>3, <2>4 DEF QCreateConn, QTrip, QDialFailed
<1>10. ASSUME NEW g \in Callers, QDialStart(g) PROVE QuicRest'
  <2>1. UNCHANGED <<qDials, qClosed, qAlive, qAge>>
    BY <1>10 DEF QDialStart, qmgrVars, qconnVars, qdialVars
  <2> DEFINE r == [qCall[g] EXCEPT !.pc = "dial", !.ips = Addrs]
  <2>2. r.ips = Addrs /\ r.conn = qCall[g].conn /\ qCall' = [qCall EXCEPT ![g] = r]
    BY <1>0, <1>10 DEF QDialStart, QCallType
  <2> HIDE DEF r
  <2>3. qCall'[g] = r /\ \A h \in Callers \ {g} : qCall'[h] = qCall[h]
    BY <1>0, <2>2
  <2>4. \A h \in Callers : qCall'[h].ips <= Addrs
    BY <1>0, <2>2, <2>3
  <2>5. QDialersOK'
    <3>1. /\ qDials[qCall[g].conn] < MaxDials
          /\ \A h \in Callers \ {g} : QDialing(h) => qCall[h].conn # qCall[g].conn
      BY <1>10 DEF QDialStart, QDialing
    <3>2. \A h \in Callers : qCall'[h].conn = qCall[h].conn /\ (h # g => (QDialing(h)' <=> QDialing(h)))
      BY <2>2, <2>3 DEF QDialing
    <3>3. QDialersOK /\ qDials' = qDials
      BY <1>2, <2>1
    <3> QED
      BY <3>1, <3>2, <3>3 DEF QDialersOK
  <2> QED
    BY <1>2, <2>1, <2>4, <2>5
<1>11. ASSUME NEW g \in Callers, QDialNext(g) PROVE QuicRest'
  <2>1. UNCHANGED <<qDials, qClosed, qAlive, qAge>> /\ QDialing(g) /\ qCall[g].ips > 0
    BY <1>11 DEF QDialNext, QDialing, qmgrVars, qconnVars, qdialVars
  <2> DEFINE r == [qCall[g] EXCEPT !.ips = @ - 1]
  <2>2. r.ips = qCall[g].ips - 1 /\ r.conn = qCall[g].conn /\ r.pc = "dial" /\ qCall' = [qCall EXCEPT ![g] = r]
    BY <1>0, <1>11 DEF QDialNext, QCallType
  <2> HIDE DEF r
  <2>3. r.ips <= Addrs
    BY <1>0, <2>1, <2>2
  <2> QED
    BY <1>2, <2>1, <2>2, <2>3, QNotDialing
<1>12. ASSUME NEW g \in Callers, QDialOk(g) PROVE QuicRest'
  <2> DEFINE c == qCall[g].conn
  <2>1. c \in QConns /\ QDialing(g)
    BY <1>0, <1>12 DEF QDialOk, QDialing, QCallOK
  <2>2. qDials[c] < MaxDials /\ \A h \in Callers \ {g} : QDialing(h) => qCall[h].conn # c
    BY <1>2, <2>1 DEF QDialersOK
  <2>3. qDials' = [qDials EXCEPT ![c] = qDials[c] + 1] /\ UNCHANGED <<qClosed, qAge>>
    BY <1>12 DEF QDialOk, qmgrVars, qconnVars
  <2>4. qAlive' \in [QConns -> BOOLEAN]
    BY <1>2, <1>12 DEF QDialOk
  <2>5. qCall' = [qCall EXCEPT ![g] = NoQCall]
    BY <1>12 DEF QDialOk, QReturn
  <2> HIDE DEF c
  <2>6. Counts' /\ \A e \in QConns \ {c} : qDials'[e] = qDials[e]
    BY <1>0, <1>2, <2>1, <2>2, <2>3
  <2>7. qCall'[g].pc = "idle" /\ qCall'[g].ips = 0 /\ \A h \in Callers \ {g} : qCall'[h] = qCall[h]
    BY <1>0, <2>5 DEF NoQCall
  <2>8. \A h \in Callers : qCall'[h].ips <= Addrs
    BY <1>0, <2>7
  <2>9. QDialersOK'
    <3>1. \A h \in Callers : QDialing(h)' => h # g /\ QDialing(h) /\ qCall'[h] = qCall[h]
      BY <2>7 DEF QDialing
    <3>2. \A h \in Callers : QDialing(h) /\ h # g => qCall[h].conn \in QConns \ {c}
      BY <1>0, <2>2 DEF QDialing, QCallOK
    <3> QED
      BY <1>2, <2>6, <3>1, <3>2 DEF QDialersOK
  <2> QED
    BY <1>2, <2>3, <2>4, <2>6, <2>8, <2>9
<1>13. ASSUME NEW c \in QConns, QDies(c) \/ QGrow(c) \/ QCloseConn(c) PROVE QuicRest'
  <2>1. UNCHANGED <<qCall, qDials, qClosed>>
    BY <1>13 DEF QDies, QGrow, QCloseConn, qmgrVars, qconnVars, qdialVars
  <2>2. qAge' \in [QConns -> {"fresh", "idle", "old"}]
    BY <1>2, <1>13 DEF QDies, QGrow, QCloseConn, qmgrVars, qconnVars, qdialVars
  <2>3. qAlive' \in [QConns -> BOOLEAN]
    BY <1>2, <1>13 DEF QDies, QGrow, QCloseConn, qmgrVars, qconnVars, qdialVars
  <2> QED
    BY <1>2, <1>3, <2>1, <2>2, <2>3
<1>14. CASE QCleanup \/ QCleanupStats \/ QCloseAllConnections \/ QCloseAllPools \/ QClose \/ QForget
  <2>1. UNCHANGED <<qCall, qDials, qAge, qAlive>> /\ qClosed' \in BOOLEAN
    BY <1>2, <1>14 DEF QCleanup, QCleanupStats, QCloseAllConnections, QCloseAllPools, QClose, QForget,
                       qmgrVars, qconnVars, qdialVars
  <2> QED
    BY <1>2, <1>3, <2>1
<1> QED
  BY <1>1, <1>7, <1>8, <1>9, <1>10, <1>11, <1>12, <1>13, <1>14 DEF QuicNext

LEMMA QuicTypes == QuicIInv /\ QuicRest => QuicTypeOK
<1> SUFFICES ASSUME QuicIInv, QuicRest PROVE QuicTypeOK
  OBVIOUS
<1> DEFINE T == [pc: {"idle", "miss", "pool", "hit", "create", "append", "trip", "dial"},
                 pool: QPools \cup {NoQ}, conn: QConns \cup {NoQ}, ips: 0 .. Addrs]
<1>1. qCall \in [Callers -> QCallType] /\ \A g \in Callers : qCall[g].ips <= Addrs
  BY DEF QuicIInv, QShape, QuicRest
<1>2. \A r \in QCallType : r.ips <= Addrs => r \in T
  BY QuicPoolAssumption DEF QCallType
<1>3. qCall \in [Callers -> T]
  <2> HIDE DEF T
  <2> QED
    BY <1>1, <1>2
<1>4. qDials \in [QConns -> 0 .. MaxDials] /\ qSockets \in [QConns -> 0 .. MaxDials]
  BY QuicPoolAssumption DEF QuicIInv, QShape, QuicRest, QuicOwned
<1> QED
  BY <1>3, <1>4 DEF QuicTypeOK, QuicIInv, QShape, QuicRest

\* What the TLS layer was given are the first of the target's records.
FirstRecords(got) == got \in Seq(1 .. Records) /\ IsPrefix(got, Tls)

\* Over the pool's tunnels the records follow at once, or what is left of the
\* proxy's answer is in front of them and the handshake stops there.
PoolStream(r) ==
  r.stack = "pool" =>
    /\ r.pc \notin {"spec", "strip"}
    /\ r.pc = "tls" =>
         /\ r.held = <<>>
         /\ \/ r.got \o r.wire = Tls
            \/ r.got = <<>> /\ Head(r.wire) \notin 1 .. Records

DialRest == \A d \in Dials : FirstRecords(dial[d].got) /\ PoolStream(dial[d])

\* Part of the records, from the first.
LEMMA FirstOfTls ==
  ASSUME NEW got \in Seq(Int), NEW s \in Seq(Int), got \o s = Tls
  PROVE  FirstRecords(got)
<1>1. Records \in Nat /\ Len(Tls) = Records /\ \A i \in 1 .. Records : Tls[i] = i
  BY ProxyDialAssumption DEF Tls
<1>2. Tls \in Seq(Int)
  BY <1>1 DEF Tls
<1>3. Len(got) \in Nat /\ Len(s) \in Nat /\ Len(got) + Len(s) = Records
      /\ \A i \in 1 .. Len(got) : Tls[i] = got[i]
  <2>1. Len(got \o s) = Len(got) + Len(s) /\ \A i \in 1 .. Len(got) : (got \o s)[i] = got[i]
    OBVIOUS
  <2> QED
    BY <1>1, <2>1, SMTT(60)
<1>4. \A i \in 1 .. Len(got) : i \in 1 .. Records /\ got[i] = i
  BY <1>1, <1>3
<1>5. got \in Seq(1 .. Records)
  <2>1. got = [i \in 1 .. Len(got) |-> got[i]]
    OBVIOUS
  <2>2. \A i \in 1 .. Len(got) : got[i] \in 1 .. Records
    BY <1>4
  <2>3. got \in [1 .. Len(got) -> 1 .. Records]
    BY <2>1, <2>2
  <2> QED
    BY <1>3, <2>3
<1>6. IsPrefix(got, Tls)
  <2> DEFINE a == SubSeq(got, 1, Len(got))
             b == SubSeq(Tls, 1, Len(got))
  <2>0. 1 .. Len(got) \subseteq 1 .. Len(Tls) /\ Len(got) <= Len(Tls)
    BY <1>1, <1>3
  <2>1. a \in Seq(Int) /\ Len(a) = Len(got) /\ \A i \in 1 .. Len(got) : a[i] = got[i]
    BY <1>3
  <2>2. b \in Seq(Int) /\ Len(b) = Len(got) /\ \A i \in 1 .. Len(got) : b[i] = Tls[i]
    <3> DEFINE t == Tls
               n == Len(got)
    <3>1. t \in Seq(Int) /\ n \in Nat /\ n <= Len(t)
      BY <1>2, <1>3, <2>0
    <3> HIDE DEF t, n
    <3>2. SubSeq(t, 1, n) \in Seq(Int) /\ Len(SubSeq(t, 1, n)) = n /\ \A i \in 1 .. n : SubSeq(t, 1, n)[i] = t[i]
      BY <3>1
    <3> QED
      BY <3>2 DEF t, n
  <2> HIDE DEF a, b
  <2>3. a = b
    <3>1. \A i \in 1 .. Len(a) : a[i] = b[i]
      BY <1>3, <2>1, <2>2
    <3> QED
      BY <2>1, <2>2, <3>1, SeqEqual
  <2> QED
    BY <2>0, <2>3 DEF IsPrefix, a, b
<1> QED
  BY <1>5, <1>6 DEF FirstRecords

LEMMA TlsSeq == Tls \in Seq(Int) /\ Len(Tls) = Records
BY ProxyDialAssumption DEF Tls

LEMMA NothingYet == FirstRecords(<<>>)
<1>1. <<>> \in Seq(Int) /\ Tls \in Seq(Int)
  BY TlsSeq
<1>2. <<>> \o Tls = Tls
  BY <1>1, ConcatEmptySeq
<1> QED
  BY <1>1, <1>2, FirstOfTls

LEMMA DialRestInit == DialInit => DialRest
<1> SUFFICES ASSUME DialInit, NEW d \in Dials
             PROVE  FirstRecords(dial[d].got) /\ PoolStream(dial[d])
  BY DEF DialRest
<1>1. dial[d] \in PoolDials \cup TransportDials
  BY DEF DialInit
<1>2. dial[d].got = <<>> /\ dial[d].pc = "idle"
  BY <1>1 DEF PoolDials, TransportDials, NewDial
<1> QED
  BY <1>2, NothingYet DEF PoolStream

\* One dial moved.
LEMMA OneDialRest ==
  ASSUME DialIInv, DialRest, NEW d \in Dials, NEW r, dial' = [dial EXCEPT ![d] = r],
         FirstRecords(r.got), PoolStream(r)
  PROVE  DialRest'
<1> SUFFICES ASSUME NEW e \in Dials PROVE FirstRecords(dial'[e].got) /\ PoolStream(dial'[e])
  BY DEF DialRest, FirstRecords, PoolStream, Tls
<1>1. dial'[e] = IF e = d THEN r ELSE dial[e]
  BY DEF DialIInv
<1> QED
  BY <1>1 DEF DialRest

\* ... and the TLS layer got nothing by it.
LEMMA NothingRead ==
  ASSUME DialIInv, DialRest, NEW d \in Dials, NEW r, dial' = [dial EXCEPT ![d] = r],
         r.got = dial[d].got \/ r.got = <<>>,
         r.stack = dial[d].stack, r.stack = "pool" => r.pc \notin {"spec", "strip", "tls"}
  PROVE  DialRest'
BY OneDialRest, NothingYet DEF DialRest, PoolStream

\* A piece is read.
LEMMA TlsReadRest ==
  ASSUME DialIInv, DialRest, NEW d \in Dials, TlsRead(d)
  PROVE  DialRest'
<1> DEFINE s == dial[d]
<1>1. s \in DialRecords /\ DialOK(s) /\ s.pc = "tls" /\ PoolStream(s)
  BY DEF DialIInv, DialRest, TlsRead, At
<1>2. s.got \in Seq(Int) /\ s.held \in Seq(Int) /\ s.wire \in Seq(Int)
  BY <1>1 DEF DialRecords
<1>3. CASE s.held # <<>> /\ Set(d, [s EXCEPT !.got = Append(@, Head(s.held)), !.held = Tail(@)])
  <2> DEFINE g == Append(s.got, Head(s.held))
             h == Tail(s.held)
             r == [s EXCEPT !.got = g, !.held = h]
  <2>1. g \in Seq(Int) /\ h \in Seq(Int) /\ g \o h = s.got \o s.held
    BY <1>2, <1>3, TakeFirst
  <2>2. dial' = [dial EXCEPT ![d] = r]
    BY <1>1, <1>3 DEF Set, DialRecords
  <2> HIDE DEF g, h
  <2>3. r.got = g /\ r.stack = s.stack
    BY <1>1 DEF DialRecords
  <2> HIDE DEF r
  <2>4. s.stack # "pool"
    BY <1>1, <1>3 DEF PoolStream
  <2>5. (g \o h) \o s.wire = Tls
    BY <1>1, <2>1, <2>4 DEF DialOK
  <2>6. g \o (h \o s.wire) = Tls /\ h \o s.wire \in Seq(Int)
    <3>1. (g \o h) \o s.wire = g \o (h \o s.wire)
      BY <1>2, <2>1, ConcatThree
    <3>2. h \o s.wire \in Seq(Int)
      BY <1>2, <2>1, ConcatProperties
    <3> QED
      BY <2>5, <3>1, <3>2
  <2>7. FirstRecords(r.got)
    BY <2>1, <2>3, <2>6, FirstOfTls
  <2>8. PoolStream(r)
    BY <2>3, <2>4 DEF PoolStream
  <2> QED
    BY <2>2, <2>7, <2>8, OneDialRest
<1>4. CASE s.held = <<>> /\ s.wire # <<>> /\ Head(s.wire) \in 1 .. Records
           /\ Set(d, [s EXCEPT !.got = Append(@, Head(s.wire)), !.wire = Tail(@)])
  <2> DEFINE g == Append(s.got, Head(s.wire))
             w == Tail(s.wire)
             r == [s EXCEPT !.got = g, !.wire = w]
  <2>1. g \in Seq(Int) /\ w \in Seq(Int) /\ g \o w = s.got \o s.wire
    BY <1>2, <1>4, TakeFirst
  <2>2. dial' = [dial EXCEPT ![d] = r]
    BY <1>1, <1>4 DEF Set, DialRecords
  <2> HIDE DEF g, w
  <2>3. r.got = g /\ r.stack = s.stack /\ r.wire = w /\ r.held = <<>> /\ r.pc = "tls"
    BY <1>1, <1>4 DEF DialRecords
  <2> HIDE DEF r
  <2>4. s.got \o s.wire = Tls
    <3>1. CASE s.stack = "pool"
      BY <1>1, <1>4, <3>1 DEF PoolStream
    <3>2. CASE s.stack # "pool"
      <4>1. s.got \o <<>> = s.got
        BY <1>2, ConcatEmptySeq
      <4>2. s.got \o s.held \o s.wire = Tls
        BY <1>1, <3>2 DEF DialOK
      <4> QED
        BY <1>4, <4>1, <4>2
    <3> QED
      BY <3>1, <3>2
  <2>5. g \o w = Tls
    BY <2>1, <2>4
  <2>6. FirstRecords(r.got)
    BY <2>1, <2>3, <2>5, FirstOfTls
  <2>7. PoolStream(r)
    BY <2>3, <2>5 DEF PoolStream
  <2> QED
    BY <2>2, <2>6, <2>7, OneDialRest
<1> QED
  BY <1>3, <1>4 DEF TlsRead

\* The pool's CONNECT and its SOCKS5 client leave a rest of the answer in front
\* of the records, or none.
LEMMA PoolOpens ==
  ASSUME DialIInv, DialRest, NEW d \in Dials, dial[d].pc \in {"connect", "greet"},
         dial[d].stack = "pool", NEW wire \in Seq(Int), wire = Tls \/ Head(wire) \notin 1 .. Records,
         Set(d, [dial[d] EXCEPT !.pc = "tls", !.wire = wire])
  PROVE  DialRest'
<1> DEFINE r == [dial[d] EXCEPT !.pc = "tls", !.wire = wire]
<1>1. dial[d] \in DialRecords /\ DialOK(dial[d])
  BY DEF DialIInv
<1>2. dial[d].got = <<>> /\ dial[d].held = <<>>
  BY <1>1 DEF DialOK
<1>3. r.pc = "tls" /\ r.stack = "pool" /\ r.got = <<>> /\ r.held = <<>> /\ r.wire = wire
  BY <1>1, <1>2 DEF DialRecords
<1>4. dial' = [dial EXCEPT ![d] = r]
  BY DEF Set
<1> HIDE DEF r
<1>5. <<>> \o wire = wire
  BY ConcatEmptySeq
<1>6. PoolStream(r)
  BY <1>3, <1>5 DEF PoolStream
<1> QED
  BY <1>3, <1>4, <1>6, NothingYet, OneDialRest

LEMMA PoolConnectRest ==
  ASSUME DialIInv, DialRest, NEW d \in Dials,
         NEW n \in 0 .. HeadParts, NEW k \in 1 .. n + 1,
         dial[d].pc = "connect", dial[d].stack = "pool",
         Set(d, [dial[d] EXCEPT !.pc = "tls", !.wire = SubSeq(Answer(n, TRUE), k + 1, n + 1 + Records)])
  PROVE  DialRest'
<1> DEFINE a == Answer(n, TRUE)
           L == n + 1 + Records
           wire == SubSeq(a, k + 1, L)
<1>1. n \in Nat /\ k \in Nat /\ Records \in Nat /\ L \in Nat /\ k + 1 <= n + 2 /\ k >= 1
  BY ProxyDialAssumption
<1>2. /\ a \in Seq(Int) /\ Len(a) = L /\ \A i \in 1 .. n : a[i] = 0
      /\ a[n + 1] = HeadEnd /\ \A i \in n + 2 .. L : a[i] = i - (n + 1)
  BY <1>1, AnswerFacts
<1>3. HeadEnd \notin 1 .. Records /\ 0 \notin 1 .. Records
  BY <1>1 DEF HeadEnd
<1> HIDE DEF a
<1>4. /\ wire \in Seq(Int) /\ Len(wire) = L - k
      /\ \A i \in 1 .. L - k : wire[i] = a[k + i]
  <2> HIDE DEF L
  <2>1. k <= L
    BY <1>1 DEF L
  <2> DEFINE m == k + 1
  <2>2. m \in 1 .. Len(a) + 1 /\ L \in m - 1 .. Len(a) /\ m \in Nat
    BY <1>1, <1>2, <2>1
  <2> HIDE DEF m
  <2>3. /\ SubSeq(a, m, L) \in Seq(Int) /\ Len(SubSeq(a, m, L)) = L - m + 1
        /\ \A i \in 1 .. L - m + 1 : SubSeq(a, m, L)[i] = a[m + i - 1]
    <3>1. \A i \in m .. L : a[i] \in Int
      BY <1>1, <1>2, <2>2
    <3>0. m \in Int /\ L \in Int
      BY <1>1, <2>2
    <3>2. /\ SubSeq(a, m, L) \in Seq(Int)
          /\ Len(SubSeq(a, m, L)) = IF m <= L THEN L - m + 1 ELSE 0
          /\ \A i \in 1 .. L - m + 1 : SubSeq(a, m, L)[i] = a[m + i - 1]
      BY <3>0, <3>1, SubSeqProperties
    <3>3. (IF m <= L THEN L - m + 1 ELSE 0) = L - m + 1
      BY <1>1, <1>2, <2>2
    <3> QED
      BY <3>2, <3>3
  <2>4. L - m + 1 = L - k /\ \A i \in 1 .. L - k : m + i - 1 = k + i
    BY <1>1 DEF m
  <2>5. /\ SubSeq(a, m, L) \in Seq(Int) /\ Len(SubSeq(a, m, L)) = L - k
        /\ \A i \in 1 .. L - k : SubSeq(a, m, L)[i] = a[k + i]
    BY <2>3, <2>4
  <2> QED
    BY <2>5 DEF m
<1>5. CASE k = n + 1
  <2>1. Tls \in Seq(Int) /\ Len(Tls) = Records /\ \A i \in 1 .. Records : Tls[i] = i
    BY TlsSeq DEF Tls
  <2>2. L - k = Records /\ \A i \in 1 .. Records : k + i \in n + 2 .. L /\ (k + i) - (n + 1) = i
    BY <1>1, <1>5
  <2>3. \A i \in 1 .. Records : wire[i] = Tls[i]
    BY <1>2, <1>4, <2>1, <2>2
  <2> HIDE DEF wire
  <2>4. wire = Tls
    BY <1>4, <2>1, <2>2, <2>3, SeqEqual
  <2> QED
    BY <1>4, <2>4, PoolOpens DEF wire, a
<1>6. CASE k <= n
  <2>1. L - k >= 1 /\ 1 \in 1 .. L - k /\ k + 1 \in 1 .. n + 1
    BY <1>1, <1>6
  <2>2. wire[1] = a[k + 1] /\ a[k + 1] \in {0, HeadEnd}
    <3>1. k + 1 \in 1 .. n \/ k + 1 = n + 1
      BY <1>1, <1>6
    <3> QED
      BY <1>2, <1>4, <2>1, <3>1
  <2> HIDE DEF wire
  <2>3. Head(wire) \notin 1 .. Records
    BY <1>3, <1>4, <2>1, <2>2
  <2> QED
    BY <1>4, <2>3, PoolOpens DEF wire, a
<1> QED
  BY <1>1, <1>5, <1>6

\* What a step does to the locals of the dial.
LEMMA NothingReadBy ==
  ASSUME DialIInv, DialRest, NEW d \in Dials,
         \/ Fail(d)
         \/ SpecError(d)
         \/ \E pc : Set(d, [dial[d] EXCEPT !.pc = pc]) /\ (dial[d].stack = "pool" => pc \notin {"spec", "strip", "tls"})
         \/ DialProxy(d, "connect") \/ DialProxy(d, "greet")
  PROVE  DialRest'
<1>1. dial[d] \in DialRecords
  BY DEF DialIInv
<1>2. CASE Fail(d)
  <2> DEFINE r == [dial[d] EXCEPT !.pc = "failed", !.socks = @ - 1]
  <2>1. r.got = dial[d].got /\ r.stack = dial[d].stack /\ r.pc = "failed"
    BY <1>1 DEF DialRecords
  <2>2. dial' = [dial EXCEPT ![d] = r]
    BY <1>2 DEF Fail, Set
  <2> HIDE DEF r
  <2> QED
    BY <2>1, <2>2, NothingRead
<1>3. CASE SpecError(d)
  <2> DEFINE r == [dial[d] EXCEPT !.pc = "mark", !.socks = @ - 1, !.wire = <<>>, !.held = <<>>]
  <2>1. r.got = dial[d].got /\ r.stack = dial[d].stack /\ r.pc = "mark"
    BY <1>1 DEF DialRecords
  <2>2. dial' = [dial EXCEPT ![d] = r]
    BY <1>3 DEF SpecError, Set
  <2> HIDE DEF r
  <2> QED
    BY <2>1, <2>2, NothingRead
<1>4. ASSUME NEW pc, Set(d, [dial[d] EXCEPT !.pc = pc]),
             dial[d].stack = "pool" => pc \notin {"spec", "strip", "tls"}
      PROVE  DialRest'
  <2> DEFINE r == [dial[d] EXCEPT !.pc = pc]
  <2>1. r.got = dial[d].got /\ r.stack = dial[d].stack /\ r.pc = pc
    BY <1>1 DEF DialRecords
  <2>2. dial' = [dial EXCEPT ![d] = r]
    BY <1>4 DEF Set
  <2> HIDE DEF r
  <2> QED
    BY <1>4, <2>1, <2>2, NothingRead
<1>5. ASSUME NEW next \in {"connect", "greet"}, DialProxy(d, next)
      PROVE  DialRest'
  <2>1. CASE Set(d, [dial[d] EXCEPT !.pc = next, !.socks = @ + 1])
    <3> DEFINE r == [dial[d] EXCEPT !.pc = next, !.socks = @ + 1]
    <3>1. r.got = dial[d].got /\ r.stack = dial[d].stack /\ r.pc = next
      BY <1>1 DEF DialRecords
    <3>2. dial' = [dial EXCEPT ![d] = r]
      BY <2>1 DEF Set
    <3> HIDE DEF r
    <3> QED
      BY <3>1, <3>2, NothingRead
  <2>2. CASE Set(d, [dial[d] EXCEPT !.pc = "failed"])
    BY <1>4, <2>2
  <2> QED
    BY <1>5, <2>1, <2>2 DEF DialProxy
<1> QED
  BY <1>2, <1>3, <1>4, <1>5

\* ... of a transport, which may also speculate, and opens its tunnels itself.
LEMMA TransportReads ==
  ASSUME DialIInv, DialRest, NEW d \in Dials, dial[d].stack # "pool",
         \/ DialProxy(d, "spec")
         \/ \E w, h : Set(d, [dial[d] EXCEPT !.pc = "tls", !.wire = w, !.held = h])
         \/ \E w : Set(d, [dial[d] EXCEPT !.pc = "tls", !.wire = w])
         \/ \E w, h : Set(d, [dial[d] EXCEPT !.held = h, !.wire = w])
         \/ \E w, s : Set(d, [dial[d] EXCEPT !.pc = "strip", !.status = s, !.wire = w])
  PROVE  DialRest'
<1>1. dial[d] \in DialRecords
  BY DEF DialIInv
<1>2. ASSUME NEW r, Set(d, r), r.got = dial[d].got, r.stack = dial[d].stack
      PROVE  DialRest'
  BY <1>2, NothingRead DEF Set
<1>3. ASSUME NEW w, NEW h, Set(d, [dial[d] EXCEPT !.pc = "tls", !.wire = w, !.held = h])
      PROVE  DialRest'
  <2> DEFINE r == [dial[d] EXCEPT !.pc = "tls", !.wire = w, !.held = h]
  <2>1. r.got = dial[d].got /\ r.stack = dial[d].stack
    BY <1>1 DEF DialRecords
  <2> QED
    BY <1>2, <1>3, <2>1
<1>4. ASSUME NEW w, Set(d, [dial[d] EXCEPT !.pc = "tls", !.wire = w])
      PROVE  DialRest'
  <2> DEFINE r == [dial[d] EXCEPT !.pc = "tls", !.wire = w]
  <2>1. r.got = dial[d].got /\ r.stack = dial[d].stack
    BY <1>1 DEF DialRecords
  <2> QED
    BY <1>2, <1>4, <2>1
<1>5. ASSUME NEW w, NEW h, Set(d, [dial[d] EXCEPT !.held = h, !.wire = w])
      PROVE  DialRest'
  <2> DEFINE r == [dial[d] EXCEPT !.held = h, !.wire = w]
  <2>1. r.got = dial[d].got /\ r.stack = dial[d].stack
    BY <1>1 DEF DialRecords
  <2> QED
    BY <1>2, <1>5, <2>1
<1>6. ASSUME NEW w, NEW s, Set(d, [dial[d] EXCEPT !.pc = "strip", !.status = s, !.wire = w])
      PROVE  DialRest'
  <2> DEFINE r == [dial[d] EXCEPT !.pc = "strip", !.status = s, !.wire = w]
  <2>1. r.got = dial[d].got /\ r.stack = dial[d].stack
    BY <1>1 DEF DialRecords
  <2> QED
    BY <1>2, <1>6, <2>1
<1>7. CASE DialProxy(d, "spec")
  <2>1. CASE Set(d, [dial[d] EXCEPT !.pc = "spec", !.socks = @ + 1])
    <3> DEFINE r == [dial[d] EXCEPT !.pc = "spec", !.socks = @ + 1]
    <3>1. r.got = dial[d].got /\ r.stack = dial[d].stack
      BY <1>1 DEF DialRecords
    <3> QED
      BY <1>2, <2>1, <3>1
  <2>2. CASE Set(d, [dial[d] EXCEPT !.pc = "failed"])
    <3>1. DialRest'
      BY <2>2, NothingReadBy
    <3> QED
      BY <3>1
  <2> QED
    BY <1>7, <2>1, <2>2 DEF DialProxy
<1> QED
  BY <1>3, <1>4, <1>5, <1>6, <1>7

LEMMA DialRestStep == DialIInv /\ DialRest /\ [DialNext]_dialVars => DialRest'
<1> SUFFICES ASSUME DialIInv, DialRest, [DialNext]_dialVars PROVE DialRest'
  OBVIOUS
<1>1. CASE UNCHANGED dialVars
  BY <1>1 DEF dialVars, DialRest, FirstRecords, PoolStream, Tls
<1>2. ASSUME NEW d \in Dials,
             \/ h1DialHTTPProxy(d) \/ h2DialHTTPProxy(d) \/ poolDialHTTPProxy(d)
             \/ h1BlockingFresh(d) \/ h2BlockingFresh(d) \/ DialSOCKS5(d) \/ poolDialSOCKS5(d)
      PROVE  DialRest'
  <2>1. \/ DialProxy(d, "connect") \/ DialProxy(d, "greet")
        \/ DialProxy(d, "spec") /\ dial[d].stack # "pool"
    BY <1>2 DEF h1DialHTTPProxy, h2DialHTTPProxy, poolDialHTTPProxy, h1BlockingFresh,
                h2BlockingFresh, DialSOCKS5, poolDialSOCKS5
  <2> QED
    BY <2>1, NothingReadBy, TransportReads
<1>3. ASSUME NEW d \in Dials, ConnectBlocking(d) \/ SocksGreet(d) \/ SocksConnect(d)
      PROVE  DialRest'
  <2>1. dial[d].stack # "pool"
    BY <1>3 DEF ConnectBlocking, SocksGreet, SocksConnect
  <2>2. CASE Fail(d)
    BY <2>2, NothingReadBy
  <2>3. CASE SocksGreet(d) /\ ~Fail(d)
    BY <2>1, <2>3, NothingReadBy DEF SocksGreet
  <2>4. CASE SocksConnect(d) /\ ~Fail(d)
    BY <2>1, <2>4, TransportReads DEF SocksConnect
  <2>5. CASE ConnectBlocking(d) /\ ~Fail(d)
    <3>1. \E w, h : Set(d, [dial[d] EXCEPT !.pc = "tls", !.wire = w, !.held = h])
      BY <2>5 DEF ConnectBlocking, AfterConnect
    <3> QED
      BY <2>1, <3>1, TransportReads
  <2> QED
    BY <1>3, <2>2, <2>3, <2>4, <2>5
<1>4. ASSUME NEW d \in Dials, PoolConnect(d)
      PROVE  DialRest'
  <2>1. dial[d].pc = "connect" /\ dial[d].stack = "pool"
    BY <1>4 DEF PoolConnect, At
  <2>2. CASE Fail(d)
    BY <2>2, NothingReadBy
  <2> DEFINE P(n, k) ==
        Set(d, [dial[d] EXCEPT !.pc = "tls", !.wire = SubSeq(Answer(n, TRUE), k + 1, n + 1 + Records)])
  <2>3. Fail(d) \/ \E n \in 0 .. HeadParts : \E k \in 1 .. n + 1 : P(n, k)
    BY <1>4 DEF PoolConnect
  <2>4. \A n \in 0 .. HeadParts : \A k \in 1 .. n + 1 : P(n, k) => DialRest'
    BY <2>1, PoolConnectRest
  <2> HIDE DEF P
  <2> QED
    BY <2>2, <2>3, <2>4
<1>5. ASSUME NEW d \in Dials, PoolSocks(d)
      PROVE  DialRest'
  <2>1. dial[d].pc = "greet" /\ dial[d].stack = "pool"
    BY <1>5 DEF PoolSocks, At
  <2>2. CASE Fail(d)
    BY <2>2, NothingReadBy
  <2>3. ASSUME NEW rest \in {<<>>, <<HeadPart>>},
               Set(d, [dial[d] EXCEPT !.pc = "tls", !.wire = rest \o Tls])
        PROVE  DialRest'
    <3>1. Tls \in Seq(Int) /\ Records \in Nat
      BY TlsSeq, ProxyDialAssumption
    <3>2. CASE rest = <<>>
      <4>1. rest \o Tls = Tls
        BY <3>1, <3>2, ConcatEmptySeq
      <4> QED
        BY <2>1, <2>3, <3>1, <4>1, PoolOpens
    <3>3. CASE rest = <<HeadPart>>
      <4> DEFINE t == Tls
      <4>1. t \in Seq(Int)
        BY <3>1
      <4> HIDE DEF t
      <4>2. <<0>> \o t \in Seq(Int) /\ Head(<<0>> \o t) = 0
        BY <4>1
      <4>3. rest \o Tls \in Seq(Int) /\ Head(rest \o Tls) \notin 1 .. Records
        BY <3>3, <4>2 DEF t, HeadPart
      <4> QED
        BY <2>1, <2>3, <4>3, PoolOpens
    <3> QED
      BY <3>2, <3>3
  <2> QED
    BY <1>5, <2>2, <2>3 DEF PoolSocks
<1>6. ASSUME NEW d \in Dials, SpecWrite(d) \/ Strip(d) \/ StripFails(d)
      PROVE  DialRest'
  <2>1. dial[d].stack # "pool"
    BY <1>6 DEF SpecWrite, Strip, StripFails, At, DialRest, PoolStream
  <2>2. CASE SpecError(d)
    BY <2>2, NothingReadBy
  <2>3. CASE SpecWrite(d) /\ ~SpecError(d)
    <3>1. \E w, s : Set(d, [dial[d] EXCEPT !.pc = "strip", !.status = s, !.wire = w])
      <4> DEFINE P(w, s) == Set(d, [dial[d] EXCEPT !.pc = "strip", !.status = s, !.wire = w])
      <4>1. PICK n \in 0 .. HeadParts, s \in {200, 407} : P(Answer(n, s = 200), s)
        BY <2>3 DEF SpecWrite
      <4> HIDE DEF P
      <4>2. \E w, t : P(w, t)
        BY <4>1
      <4> QED
        BY <4>2 DEF P
    <3> QED
      BY <2>1, <3>1, TransportReads
  <2>4. CASE Strip(d) /\ ~SpecError(d)
    <3>1. \/ \E w, h : Set(d, [dial[d] EXCEPT !.pc = "tls", !.held = h, !.wire = w])
          \/ \E w, h : Set(d, [dial[d] EXCEPT !.held = h, !.wire = w])
      BY <2>4 DEF Strip
    <3>2. \A w, h : [dial[d] EXCEPT !.pc = "tls", !.held = h, !.wire = w]
                      = [dial[d] EXCEPT !.pc = "tls", !.wire = w, !.held = h]
      BY DEF DialIInv, DialRecords
    <3>3. \/ \E w, h : Set(d, [dial[d] EXCEPT !.pc = "tls", !.wire = w, !.held = h])
          \/ \E w, h : Set(d, [dial[d] EXCEPT !.held = h, !.wire = w])
      BY <3>1, <3>2
    <3> QED
      BY <2>1, <3>3, TransportReads
  <2> QED
    BY <1>6, <2>2, <2>3, <2>4 DEF StripFails
<1>7. ASSUME NEW d \in Dials, TlsDone(d) \/ TlsFails(d)
      PROVE  DialRest'
  <2>1. Fail(d) \/ Set(d, [dial[d] EXCEPT !.pc = "done"])
    BY <1>7 DEF TlsDone, TlsFails
  <2>2. "done" \notin {"spec", "strip", "tls"}
    OBVIOUS
  <2> QED
    BY <2>1, <2>2, NothingReadBy
<1>8. ASSUME NEW d \in Dials, h1Fallback(d) \/ h2Fallback(d)
      PROVE  DialRest'
  <2> DEFINE r == [dial[d] EXCEPT !.pc = "idle", !.tried = TRUE, !.got = <<>>]
  <2>1. dial[d] \in DialRecords
    BY DEF DialIInv
  <2>2. r.got = <<>> /\ r.stack = dial[d].stack /\ r.pc = "idle"
    BY <2>1 DEF DialRecords
  <2>3. dial' = [dial EXCEPT ![d] = r]
    BY <1>8 DEF h1Fallback, h2Fallback, Mark, Set
  <2> HIDE DEF r
  <2> QED
    BY <2>2, <2>3, NothingRead
<1> QED
  BY <1>1, <1>2, <1>3, <1>4, <1>5, <1>6, <1>7, <1>8, TlsReadRest DEF DialNext

LEMMA DialTypes == DialIInv /\ DialRest => DialTypeOK
<1> SUFFICES ASSUME DialIInv, DialRest, NEW d \in Dials
             PROVE  /\ dial[d].pc \in {"idle", "connect", "greet", "request", "spec", "strip", "tls",
                                       "mark", "done", "failed"}
                    /\ dial[d].socks \in 0 .. 2
                    /\ dial[d].got \in Seq(1 .. Records)
                    /\ IsPrefix(dial[d].got, Tls)
  BY DEF DialTypeOK, DialIInv
<1>1. dial[d] \in DialRecords /\ DialOK(dial[d]) /\ FirstRecords(dial[d].got)
  BY DEF DialIInv, DialRest
<1>2. dial[d].socks \in 0 .. 2
  BY <1>1 DEF DialOK
<1> QED
  BY <1>1, <1>2 DEF DialRecords, FirstRecords

\* The results the race still reads, and what a connection in the channel is.
HappyRest ==
  /\ addrs \in [preferred: SUBSET (Ipv6 \cup Ipv4), fallback: SUBSET (Ipv6 \cup Ipv4)]
  /\ race \in {"start", "head", "wait", "won", "error", "cancelled"}
  /\ race = "head" => todo = Cardinality(Preferred)
  /\ todo \in 0 .. Cardinality(Ips)
  /\ resultCh \in Seq(Ips \X BOOLEAN)
  /\ \A k \in 1 .. Len(resultCh) : resultCh[k][2] => resultCh[k][1] \in opened
  /\ opened \subseteq Ips /\ winner \subseteq opened

LEMMA HappyRestInit == HappyInit => HappyRest
<1> SUFFICES ASSUME HappyInit PROVE HappyRest
  OBVIOUS
<1>1. \E a, b \in SUBSET (Ipv6 \cup Ipv4) : addrs = [preferred |-> a, fallback |-> b]
  <2>1. PICK six \in SUBSET Ipv6, four \in SUBSET Ipv4, local \in {0, 4, 6}, prefer4 \in BOOLEAN :
          LET a == IF local = 4 THEN {} ELSE six
              b == IF local = 6 THEN {} ELSE four
          IN addrs = [preferred |-> IF prefer4 THEN b ELSE a, fallback |-> IF prefer4 THEN a ELSE b]
    BY DEF HappyInit
  <2> DEFINE x == IF local = 4 THEN {} ELSE six
             y == IF local = 6 THEN {} ELSE four
             p == IF prefer4 THEN y ELSE x
             f == IF prefer4 THEN x ELSE y
  <2>2. x \in SUBSET (Ipv6 \cup Ipv4) /\ y \in SUBSET (Ipv6 \cup Ipv4)
    OBVIOUS
  <2>3. addrs = [preferred |-> p, fallback |-> f]
    BY <2>1
  <2> HIDE DEF x, y
  <2>4. p \in SUBSET (Ipv6 \cup Ipv4) /\ f \in SUBSET (Ipv6 \cup Ipv4)
    BY <2>2
  <2> HIDE DEF p, f
  <2> QED
    BY <2>3, <2>4
<1>2. addrs \in [preferred: SUBSET (Ipv6 \cup Ipv4), fallback: SUBSET (Ipv6 \cup Ipv4)]
  BY <1>1
<1>3. Cardinality(Ips) \in Nat
  BY <1>2, FiniteIps DEF Ips, Preferred, Fallback
<1>4. /\ race = "start" /\ todo = 0 /\ resultCh = <<>> /\ opened = {} /\ winner = {}
  BY DEF HappyInit
<1>5. resultCh \in Seq(Ips \X BOOLEAN) /\ Len(resultCh) = 0
  BY <1>4, EmptySeq
<1> QED
  BY <1>2, <1>3, <1>4, <1>5 DEF HappyRest

\* The addresses of the two families are apart.
LEMMA AllAddresses ==
  ASSUME HappyShape
  PROVE  /\ Cardinality(Ips) = Cardinality(Preferred) + Cardinality(Fallback)
         /\ Cardinality(Preferred) \in Nat /\ Cardinality(Fallback) \in Nat
<1>1. /\ IsFiniteSet(Preferred) /\ IsFiniteSet(Fallback)
      /\ Cardinality(Preferred) \in Nat /\ Cardinality(Fallback) \in Nat
  BY FiniteIps DEF HappyShape
<1>2. Cardinality(Preferred \cup Fallback) =
        Cardinality(Preferred) + Cardinality(Fallback) - Cardinality(Preferred \cap Fallback)
  BY <1>1, FS_Union
<1>3. Cardinality(Preferred \cap Fallback) = 0
  BY FS_EmptySet DEF HappyShape
<1> QED
  BY <1>1, <1>2, <1>3 DEF Ips

\* A result is taken from the channel.
LEMMA ResultRead ==
  ASSUME HappyRest, resultCh # <<>>, resultCh' = Tail(resultCh), Ips' = Ips, opened' = opened
  PROVE  /\ resultCh' \in Seq(Ips' \X BOOLEAN)
         /\ \A k \in 1 .. Len(resultCh') : resultCh'[k][2] => resultCh'[k][1] \in opened'
         /\ Head(resultCh)[2] => Head(resultCh)[1] \in opened
<1> DEFINE R == Ips \X BOOLEAN
<1>1. resultCh \in Seq(R)
  BY DEF HappyRest
<1>2. /\ resultCh' \in Seq(R) /\ Len(resultCh') = Len(resultCh) - 1 /\ Len(resultCh) \in Nat \ {0}
      /\ Head(resultCh) = resultCh[1] /\ \A k \in 1 .. Len(resultCh') : resultCh'[k] = resultCh[k + 1]
  <2> HIDE DEF R
  <2> QED
    BY <1>1
<1>3. \A k \in 1 .. Len(resultCh') : k + 1 \in 1 .. Len(resultCh)
  BY <1>2
<1>4. 1 \in 1 .. Len(resultCh)
  BY <1>2
<1> HIDE DEF R
<1> QED
  BY <1>2, <1>3, <1>4 DEF HappyRest, R

LEMMA HappyRestStep == HappyIInv /\ HappyRest /\ [HappyNext]_happyVars => HappyRest'
<1> SUFFICES ASSUME HappyIInv, HappyRest, [HappyNext]_happyVars
             PROVE  HappyRest'
  OBVIOUS
<1>0. CASE UNCHANGED happyVars
  BY <1>0 DEF happyVars, HappyRest, Preferred, Fallback, Ips
<1> SUFFICES ASSUME HappyNext PROVE HappyRest'
  BY <1>0
<1>1. Preferred' = Preferred /\ Fallback' = Fallback /\ Ips' = Ips /\ addrs' = addrs
  BY DEF HappyNext, Preferred, Fallback, Ips
<1>2. /\ Cardinality(Ips) = Cardinality(Preferred) + Cardinality(Fallback)
      /\ Cardinality(Preferred) \in Nat /\ Cardinality(Fallback) \in Nat
  BY AllAddresses DEF HappyIInv
<1>3. /\ race \in {"head", "wait"} => todo = Cardinality(inProgress) + Len(resultCh)
      /\ Cardinality(inProgress) \in Nat /\ inProgress \subseteq Ips
  <2>1. inProgress \in SUBSET (Ipv6 \cup Ipv4)
    BY DEF HappyIInv, HappyShape, Ips
  <2> QED
    BY <2>1, FiniteIps DEF HappyIInv, HappyShape, RaceExact
<1>4. Len(resultCh) \in Nat /\ (resultCh # <<>> => Len(resultCh) > 0) /\ todo \in Nat
  <2>1. resultCh \in Seq(Results)
    BY DEF HappyIInv, HappyShape
  <2> QED
    BY <1>2, <2>1, EmptySeq DEF HappyRest
\* What does not concern the channel.
<1>5. ASSUME race' \in {"start", "head", "wait", "won", "error", "cancelled"},
             race' = "head" => todo' = Cardinality(Preferred),
             todo' \in 0 .. Cardinality(Ips),
             resultCh' \in Seq(Ips' \X BOOLEAN),
             \A k \in 1 .. Len(resultCh') : resultCh'[k][2] => resultCh'[k][1] \in opened',
             opened' \subseteq Ips, winner' \subseteq opened'
      PROVE  HappyRest'
  BY <1>1, <1>5 DEF HappyRest
<1>6. ASSUME UNCHANGED <<resultCh, opened, winner>>,
             race' \in {"start", "head", "wait", "won", "error", "cancelled"},
             race' = "head" => todo' = Cardinality(Preferred),
             todo' \in 0 .. Cardinality(Ips)
      PROVE  HappyRest'
  BY <1>1, <1>5, <1>6 DEF HappyRest
<1>7. CASE StartPreferred
  <2>1. todo' = Cardinality(Preferred) /\ race' \in {"error", "wait", "head"}
        /\ UNCHANGED <<resultCh, opened, winner>>
    BY <1>7 DEF StartPreferred
  <2>2. todo' \in 0 .. Cardinality(Ips)
    BY <1>2, <2>1
  <2> QED
    BY <1>6, <2>1, <2>2
<1>8. CASE HeadTimeout
  <2>1. todo' = Cardinality(Preferred) + Cardinality(Fallback) /\ race' = "wait"
        /\ UNCHANGED <<resultCh, opened, winner>>
    BY <1>8 DEF HeadTimeout, HappyRest
  <2>2. todo' \in 0 .. Cardinality(Ips)
    BY <1>2, <2>1
  <2> QED
    BY <1>6, <2>1, <2>2
<1>9. CASE AllFailed \/ HappyCtxDone
  <2>1. race' \in {"error", "cancelled"} /\ UNCHANGED <<todo, resultCh, opened, winner>>
    BY <1>9 DEF AllFailed, HappyCtxDone
  <2>2. todo' \in 0 .. Cardinality(Ips)
    BY <2>1 DEF HappyRest
  <2> QED
    BY <1>6, <2>1, <2>2
<1>10. CASE resultCh # <<>> /\ Head(resultCh)[2] /\ HappyWon /\ UNCHANGED <<todo, opened>>
  <2>1. race' = "won" /\ winner' = {Head(resultCh)[1]} /\ resultCh' = Tail(resultCh)
    BY <1>10 DEF HappyWon
  <2>2. /\ resultCh' \in Seq(Ips' \X BOOLEAN)
        /\ \A k \in 1 .. Len(resultCh') : resultCh'[k][2] => resultCh'[k][1] \in opened'
        /\ Head(resultCh)[1] \in opened
    BY <1>1, <1>10, <2>1, ResultRead
  <2>3. todo' \in 0 .. Cardinality(Ips) /\ opened' \subseteq Ips
    BY <1>10 DEF HappyRest
  <2> QED
    BY <1>5, <1>10, <2>1, <2>2, <2>3
<1>11. CASE HeadResult \/ WaitResult
  <2>1. resultCh # <<>> /\ UNCHANGED opened
    BY <1>11 DEF HeadResult, WaitResult
  <2>2. CASE Head(resultCh)[2]
    BY <1>10, <1>11, <2>1, <2>2 DEF HeadResult, WaitResult
  <2>3. CASE ~Head(resultCh)[2]
    <3>1. race' = "wait" /\ resultCh' = Tail(resultCh) /\ winner' = winner
      BY <1>11, <2>3 DEF HeadResult, WaitResult
    <3>2. /\ resultCh' \in Seq(Ips' \X BOOLEAN)
          /\ \A k \in 1 .. Len(resultCh') : resultCh'[k][2] => resultCh'[k][1] \in opened'
      BY <1>1, <2>1, <3>1, ResultRead
    <3>3. todo > 0
      BY <1>3, <1>4, <1>11, <2>1 DEF HeadResult, WaitResult
    <3>4. todo' \in 0 .. Cardinality(Ips)
      <4>1. CASE HeadResult
        <5>1. todo' = todo - 1 + Cardinality(Fallback) /\ todo = Cardinality(Preferred)
          BY <2>3, <4>1 DEF HeadResult, HappyRest
        <5> QED
          BY <1>2, <3>3, <5>1
      <4>2. CASE WaitResult
        <5>1. todo' = todo - 1 /\ todo \in 0 .. Cardinality(Ips)
          BY <2>3, <4>2 DEF WaitResult, HappyRest
        <5> QED
          BY <1>2, <3>3, <5>1
      <4> QED
        BY <1>11, <4>1, <4>2
    <3>5. opened' \subseteq Ips /\ winner' \subseteq opened'
      BY <2>1, <3>1 DEF HappyRest
    <3> QED
      BY <1>5, <3>1, <3>2, <3>4, <3>5
  <2> QED
    BY <2>2, <2>3
<1>12. ASSUME NEW i \in Ips, HappyDialOk(i) \/ HappyDialFails(i) PROVE HappyRest'
  <2>1. UNCHANGED <<race, todo, winner>>
    BY <1>12 DEF HappyDialOk, HappyDialFails
  <2>2. CASE UNCHANGED <<resultCh, opened>>
    <3>1. /\ race' \in {"start", "head", "wait", "won", "error", "cancelled"}
          /\ race' = "head" => todo' = Cardinality(Preferred)
          /\ todo' \in 0 .. Cardinality(Ips)
      BY <2>1 DEF HappyRest
    <3> QED
      BY <1>6, <2>1, <2>2, <3>1
  <2>3. ASSUME NEW ok \in BOOLEAN, resultCh' = Append(resultCh, <<i, ok>>),
               opened' = IF ok THEN opened \cup {i} ELSE opened
        PROVE  HappyRest'
    <3> DEFINE R == Ips \X BOOLEAN
               e == <<i, ok>>
    <3>1. resultCh \in Seq(R) /\ e \in R /\ e[1] = i /\ e[2] = ok
      BY DEF HappyRest
    <3>2. /\ resultCh' \in Seq(R) /\ Len(resultCh') = Len(resultCh) + 1
          /\ resultCh'[Len(resultCh) + 1] = e
          /\ \A k \in 1 .. Len(resultCh) : resultCh'[k] = resultCh[k]
      <4> HIDE DEF R, e
      <4> QED
        BY <2>3, <3>1 DEF e
    <3>3. \A k \in 1 .. Len(resultCh') : resultCh'[k][2] => resultCh'[k][1] \in opened'
      <4> SUFFICES ASSUME NEW k \in 1 .. Len(resultCh'), resultCh'[k][2]
                   PROVE  resultCh'[k][1] \in opened'
        OBVIOUS
      <4>1. k \in 1 .. Len(resultCh) \/ k = Len(resultCh) + 1
        BY <1>4, <3>2
      <4>2. CASE k \in 1 .. Len(resultCh)
        BY <2>3, <3>2, <4>2 DEF HappyRest
      <4>3. CASE k = Len(resultCh) + 1
        <5> HIDE DEF e
        <5>1. resultCh'[k] = e
          BY <3>2, <4>3
        <5>2. ok
          BY <3>1, <5>1
        <5> QED
          BY <2>3, <3>1, <5>1, <5>2
      <4> QED
        BY <4>1, <4>2, <4>3
    <3>4. /\ race' \in {"start", "head", "wait", "won", "error", "cancelled"}
          /\ race' = "head" => todo' = Cardinality(Preferred)
          /\ todo' \in 0 .. Cardinality(Ips)
          /\ opened' \subseteq Ips /\ winner' \subseteq opened'
      BY <2>1, <2>3 DEF HappyRest
    <3>5. resultCh' \in Seq(Ips' \X BOOLEAN)
      BY <1>1, <3>2
    <3> QED
      BY <1>5, <3>3, <3>4, <3>5
  <2>4. CASE HappyDialOk(i)
    <3>1. UNCHANGED <<resultCh, opened>>
          \/ (resultCh' = Append(resultCh, <<i, TRUE>>) /\ opened' = opened \cup {i})
      BY <2>4 DEF HappyDialOk
    <3> QED
      BY <2>2, <2>3, <3>1
  <2>5. CASE HappyDialFails(i)
    <3>1. opened' = opened /\ (resultCh' = resultCh \/ resultCh' = Append(resultCh, <<i, FALSE>>))
      BY <2>5 DEF HappyDialFails
    <3> QED
      BY <2>2, <2>3, <3>1
  <2> QED
    BY <1>12, <2>4, <2>5
<1> QED
  BY <1>7, <1>8, <1>9, <1>11, <1>12 DEF HappyNext

LEMMA HappyTypes == HappyIInv /\ HappyRest => HappyTypeOK
BY DEF HappyIInv, HappyShape, HappyRest, HappyTypeOK

\* Received datagrams are numbered, and wait in a channel of limited capacity.
TunnelRest ==
  /\ attempt \in 0 .. MaxRetries /\ loop \in BOOLEAN
  /\ inbox \in Seq(1 .. MaxDatagrams) /\ Len(inbox) <= ChannelCap
  /\ seq \in 0 .. MaxDatagrams
  /\ user \in [Users -> [pc: {"idle", "read", "write"}, last: 0 .. MaxDatagrams]]

LEMMA TunnelRestInit == TunnelInit => TunnelRest
<1> SUFFICES ASSUME TunnelInit PROVE TunnelRest
  OBVIOUS
<1>1. /\ MaxRetries \in Nat /\ ChannelCap \in Nat /\ MaxDatagrams \in Nat
      /\ 0 \in 0 .. MaxRetries /\ 0 \in 0 .. MaxDatagrams
  BY TunnelAssumption
<1>2. [pc |-> "idle", last |-> 0] \in [pc: {"idle", "read", "write"}, last: 0 .. MaxDatagrams]
  BY <1>1
<1>3. user \in [Users -> [pc: {"idle", "read", "write"}, last: 0 .. MaxDatagrams]]
  BY <1>2 DEF TunnelInit
<1>4. inbox \in Seq(1 .. MaxDatagrams) /\ Len(inbox) <= ChannelCap
  BY <1>1, EmptySeq DEF TunnelInit
<1> QED
  BY <1>1, <1>3, <1>4 DEF TunnelInit, TunnelRest

\* One datagram more.
LEMMA Received ==
  ASSUME TunnelRest, seq < MaxDatagrams, seq' = seq + 1,
         inbox' = inbox \/ (Len(inbox) < ChannelCap /\ inbox' = Append(inbox, seq + 1)),
         UNCHANGED <<attempt, loop, user>>
  PROVE  TunnelRest'
<1>1. /\ inbox \in Seq(1 .. MaxDatagrams) /\ Len(inbox) <= ChannelCap /\ seq \in Nat
      /\ ChannelCap \in Nat /\ MaxDatagrams \in Nat
  BY TunnelAssumption DEF TunnelRest
<1>2. seq + 1 \in 1 .. MaxDatagrams
  BY <1>1
<1>3. inbox' \in Seq(1 .. MaxDatagrams) /\ Len(inbox') <= ChannelCap
  <2>1. CASE inbox' = inbox
    BY <1>1, <2>1
  <2>2. CASE Len(inbox) < ChannelCap /\ inbox' = Append(inbox, seq + 1)
    <3>1. /\ Append(inbox, seq + 1) \in Seq(1 .. MaxDatagrams)
          /\ Len(Append(inbox, seq + 1)) = Len(inbox) + 1 /\ Len(inbox) \in Nat
      BY <1>1, <1>2, AppendProperties
    <3> QED
      BY <1>1, <2>2, <3>1
  <2> QED
    BY <2>1, <2>2
<1> QED
  BY <1>2, <1>3 DEF TunnelRest

LEMMA TunnelRestStep == TunnelIInv /\ TunnelRest /\ [TunnelNext]_tunnelVars => TunnelRest'
<1> SUFFICES ASSUME TunnelIInv, TunnelRest, [TunnelNext]_tunnelVars
             PROVE  TunnelRest'
  OBVIOUS
<1> DEFINE U == [pc: {"idle", "read", "write"}, last: 0 .. MaxDatagrams]
<1>1. /\ MaxRetries \in Nat \ {0} /\ attempt \in 0 .. MaxRetries /\ user \in [Users -> U]
      /\ inbox \in Seq(1 .. MaxDatagrams) /\ Len(inbox) <= ChannelCap
      /\ ChannelCap \in Nat /\ MaxDatagrams \in Nat
  BY TunnelAssumption DEF TunnelRest
<1>2. ASSUME UNCHANGED dataVars, attempt' \in 0 .. MaxRetries, loop' \in BOOLEAN
      PROVE  TunnelRest'
  BY <1>2 DEF dataVars, TunnelRest
<1>3. CASE \/ TryDial \/ TryHandshake \/ TryListen \/ TryAssociate \/ RetrySocks \/ GiveUpSocks
           \/ MasqueDial \/ MasqueSettings \/ MasqueConnect
           \/ SocksClose \/ MasqueClose \/ tcpKeepalive \/ receiveEnds
           \/ \E u \in Users : EstablishSocks(u) \/ EstablishMasque(u)
  <2>1. UNCHANGED dataVars
    BY <1>3 DEF TryDial, TryHandshake, TryListen, TryAssociate, RetrySocks, GiveUpSocks, MasqueDial,
       MasqueSettings, MasqueConnect, MasqueFails, SocksClose, MasqueClose, tcpKeepalive, receiveEnds,
       EstablishSocks, EstablishMasque, Establish, Go, CloseTunnel
  <2>2. loop' \in BOOLEAN
    BY <1>3 DEF TunnelRest, TryDial, TryHandshake, TryListen, TryAssociate, RetrySocks, GiveUpSocks, MasqueDial,
       MasqueSettings, MasqueConnect, MasqueFails, SocksClose, MasqueClose, tcpKeepalive, receiveEnds,
       EstablishSocks, EstablishMasque, Establish, Go, CloseTunnel
  <2>3. attempt' \in {attempt, 0, 1} \/ (attempt < MaxRetries /\ attempt' = attempt + 1)
    BY <1>3 DEF TryDial, TryHandshake, TryListen, TryAssociate, RetrySocks, GiveUpSocks, MasqueDial,
       MasqueSettings, MasqueConnect, MasqueFails, SocksClose, MasqueClose, tcpKeepalive, receiveEnds,
       EstablishSocks, EstablishMasque, Establish, Go, CloseTunnel, LeaveTunnel
  <2>4. attempt' \in 0 .. MaxRetries
    BY <1>1, <2>3
  <2> QED
    BY <1>2, <2>1, <2>2, <2>4
<1>4. CASE receiveDatagrams \/ RelaySends
  BY <1>4, Received DEF receiveDatagrams, RelaySends
<1>5. ASSUME NEW u \in Users, NEW r \in U, user' = [user EXCEPT ![u] = r],
             inbox' \in Seq(1 .. MaxDatagrams), Len(inbox') <= ChannelCap,
             UNCHANGED <<attempt, loop, seq>>
      PROVE  TunnelRest'
  BY <1>1, <1>5 DEF TunnelRest
<1>6. ASSUME NEW u \in Users, NEW pc \in {"idle", "read", "write"}
      PROVE  /\ [user EXCEPT ![u].pc = pc] = [user EXCEPT ![u] = [user[u] EXCEPT !.pc = pc]]
             /\ [user[u] EXCEPT !.pc = pc] \in U
  BY <1>1
<1> HIDE DEF U
<1>7. ASSUME NEW u \in Users,
             SocksReadFrom(u) \/ SocksWriteTo(u) \/ MasqueReadFrom(u) \/ MasqueWriteTo(u) \/ UseEnds(u)
      PROVE  TunnelRest'
  <2>1. PICK pc \in {"idle", "read", "write"} :
          user' = [user EXCEPT ![u].pc = pc] /\ UNCHANGED <<attempt, loop, seq, inbox>>
    BY <1>7 DEF SocksReadFrom, SocksWriteTo, MasqueReadFrom, MasqueWriteTo, Use, UseEnds
  <2> DEFINE r == [user[u] EXCEPT !.pc = pc]
  <2>2. r \in U /\ user' = [user EXCEPT ![u] = r]
    BY <1>6, <2>1
  <2> HIDE DEF r
  <2> QED
    BY <1>1, <1>5, <2>1, <2>2
<1>8. ASSUME NEW u \in Users, ReadDatagram(u)
      PROVE  TunnelRest'
  <2>1. inbox # <<>> /\ inbox' = Tail(inbox) /\ UNCHANGED <<attempt, loop, seq>>
    BY <1>8 DEF ReadDatagram
  <2>2. Head(inbox) \in 1 .. MaxDatagrams /\ Tail(inbox) \in Seq(1 .. MaxDatagrams)
        /\ Len(Tail(inbox)) = Len(inbox) - 1
    BY <1>1, <2>1, HeadTailProperties
  <2>3. inbox' \in Seq(1 .. MaxDatagrams) /\ Len(inbox') <= ChannelCap
    BY <1>1, <2>1, <2>2
  <2>4. \E r \in U : user' = [user EXCEPT ![u] = r]
    <3>1. CASE user' = [user EXCEPT ![u] = [pc |-> "idle", last |-> Head(inbox)]]
      <4>1. [pc |-> "idle", last |-> Head(inbox)] \in U
        BY <1>1, <2>2 DEF U
      <4> QED
        BY <3>1, <4>1
    <3>2. CASE user' = [user EXCEPT ![u].pc = "idle"]
      BY <1>6, <3>2
    <3> QED
      BY <1>8, <3>1, <3>2 DEF ReadDatagram
  <2> QED
    BY <1>5, <2>1, <2>3, <2>4
<1>9. CASE UNCHANGED tunnelVars
  BY <1>9 DEF tunnelVars, TunnelRest
<1> QED
  BY <1>3, <1>4, <1>7, <1>8, <1>9 DEF TunnelNext

LEMMA TunnelTypes == TunnelIInv /\ TunnelRest => TunnelTypeOK
BY DEF TunnelIInv, TunnelShape, TunnelRest, TunnelTypeOK

\* Every part's invariant.
NetIInv ==
  /\ LRUInv
  /\ Http3IInv /\ Http3Rest
  /\ BodyIInv
  /\ QuicIInv /\ QuicRest
  /\ DialIInv /\ DialRest
  /\ HappyIInv /\ HappyRest
  /\ TunnelIInv /\ TunnelRest

LEMMA NetInitOK == NetInit => NetIInv
BY LRUInvInit, Http3InitOK, Http3RestInit, BodyInitOK, QuicInitOK, QuicRestInit, DialIInvInit,
   DialRestInit, HappyInitOK, HappyRestInit, TunnelInitOK, TunnelRestInit
DEF NetInit, NetIInv

\* Of each part a step of the sum is a step, or nothing.
LEMMA NetStepOfParts ==
  ASSUME [NetNext]_netVars
  PROVE  /\ [Next]_vars /\ [Http3Next /\ UNCHANGED tunnelled]_http3Vars /\ [BodyNext]_poolVars
         /\ [QuicNext]_quicVars /\ [DialNext]_dialVars /\ [HappyNext]_happyVars
         /\ [TunnelNext]_tunnelVars
<1>1. CASE NetNext
  BY <1>1 DEF NetNext, TLSPart, Http3Part, BodyPart, QuicPart, DialPart, HappyPart, UdpPart
<1>2. CASE UNCHANGED netVars
  BY <1>2 DEF netVars
<1> QED
  BY <1>1, <1>2

LEMMA NetStep == NetIInv /\ [NetNext]_netVars => NetIInv'
<1> SUFFICES ASSUME NetIInv, [NetNext]_netVars PROVE NetIInv'
  OBVIOUS
<1>1. /\ [Next]_vars /\ [Http3Next /\ UNCHANGED tunnelled]_http3Vars /\ [BodyNext]_poolVars
      /\ [QuicNext]_quicVars /\ [DialNext]_dialVars /\ [HappyNext]_happyVars
      /\ [TunnelNext]_tunnelVars
  BY NetStepOfParts
<1> QED
  BY <1>1, LRUInvStep, Http3Step, Http3RestStep, BodyStep, QuicStep, QuicRestStep, DialIInvStep,
     DialRestStep, HappyStep, HappyRestStep, TunnelStep, TunnelRestStep
  DEF NetIInv

LEMMA NetTypes == NetIInv => NetTypeOK
<1>1. BodyIInv => SliceFits
  BY DEF BodyIInv, BufferIInv
<1> QED
  BY <1>1, LRUInvGives, Http3Types, BodyTypes, QuicTypes, DialTypes, HappyTypes, TunnelTypes
  DEF NetIInv, NetTypeOK

\* In the network layer's parts, run side by side, every part keeps the types of
\* its state, a request its bound on retries, the TLS cache the bound LRUSafe
\* gives and a body its buffer: for every number of keys, callers, dials,
\* addresses and datagrams.
THEOREM NetPartsTyped == NetSpec => []NetTypeOK
BY NetInitOK, NetStep, NetTypes, PTL DEF NetSpec
=============================================================================
