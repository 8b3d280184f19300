------------------------------ MODULE TLSCache ------------------------------
(***************************************************************************)
(* PersistableSessionCache (src/transport/tls_cache.go): the LRU cache of  *)
(* TLS session tickets that a transport and its forks share, and the       *)
(* optional distributed backend it writes to in the background.            *)
(*                                                                         *)
(* Every method holds c.mu from begin to end and is one action, except the *)
(* backend write of Put: `go c.putToBackend' is a pending record that a    *)
(* later action performs, and that reads c.sessionId only then.  A ticket  *)
(* is reduced to the session identifier it was obtained under and whether  *)
(* it has passed TLSSessionMaxAge.  A backend call that fails changes      *)
(* nothing: for Get that is the stuttering step, for Put a dropped record. *)
(***************************************************************************)
EXTENDS Integers, Sequences, FiniteSets, SequencesExt, SeqFilter

CONSTANTS
  Keys,          \* session keys (host:port)
  Ids,           \* session identifiers, the empty one included
  MaxSize,       \* TLSSessionCacheMaxSize
  MaxPending,    \* bound on concurrent putToBackend goroutines
  None

ASSUME TLSCacheAssumption ==
  /\ IsFiniteSet(Keys)
  /\ MaxSize \in Nat \ {0}
  /\ MaxPending \in Nat

Ticket == [id: Ids, old: BOOLEAN]

ASSUME NoneNotTicket == None \notin Ticket

VARIABLES
  sessions,    \* c.sessions: key -> ticket or None
  accessOrder, \* c.accessOrder
  sessionId,   \* c.sessionId
  backend,     \* the distributed cache: <<identifier, key>> -> ticket or None
  pending,     \* records of the running putToBackend goroutines
  saved,       \* what the last Export returned (a saved session)
  recent       \* history: all keys, least recently used first

vars == <<sessions, accessOrder, sessionId, backend, pending, saved, recent>>

Cached == {k \in Keys : sessions[k] # None}

\* Types; and every cached key has a place in accessOrder, without which
\* evictIfNeeded could never remove it.
TypeOK ==
  /\ sessions \in [Keys -> Ticket \cup {None}]
  /\ accessOrder \in Seq(Keys)
  /\ sessionId \in Ids
  /\ backend \in [Ids \X Keys -> Ticket \cup {None}]
  /\ pending \subseteq [key: Keys, ticket: Ticket]
  /\ saved \in [Keys -> Ticket \cup {None}]
  /\ recent \in Seq(Keys)
  /\ Cached \subseteq ToSet(accessOrder)

Init ==
  /\ sessions = [k \in Keys |-> None]
  /\ accessOrder = <<>>
  /\ sessionId \in Ids
  /\ backend = [x \in Ids \X Keys |-> None]
  /\ pending = {}
  /\ saved = [k \in Keys |-> None]
  /\ recent = SetToSeq(Keys)

-----------------------------------------------------------------------------

Touch(k) == recent' = Append(RemoveFirst(recent, k), k)

\* Mutant: a hit leaves the key where it is.
stayPut(k, order) == order

\* The first occurrence moves to the back; an absent key stays absent.
moveToEnd(k, order) ==
  IF Contains(order, k) THEN Append(RemoveFirst(order, k), k) ELSE order

\* Mutant: the loop condition is off by one.
EvictCountLoose(S, order) ==
  CHOOSE n \in 0 .. Len(order) :
    /\ n = Len(order) \/ Cardinality(S \ ToSet(SubSeq(order, 1, n))) <= MaxSize + 1
    /\ \A m \in 0 .. n - 1 :
         Cardinality(S \ ToSet(SubSeq(order, 1, m))) > MaxSize + 1

\* evictIfNeeded's loop: how many keys it pops off the front of order, until
\* at most MaxSize of the cached keys S are left or order is empty.
EvictCount(S, order) ==
  CHOOSE n \in 0 .. Len(order) :
    /\ n = Len(order) \/ Cardinality(S \ ToSet(SubSeq(order, 1, n))) <= MaxSize
    /\ \A m \in 0 .. n - 1 :
         Cardinality(S \ ToSet(SubSeq(order, 1, m))) > MaxSize

\* Every popped key is deleted, wherever else it may still occur in order.
Evicted(cache, order) ==
  LET S == {k \in Keys : cache[k] # None}
      popped == ToSet(SubSeq(order, 1, EvictCount(S, order)))
  IN [k \in Keys |-> IF k \in popped THEN None ELSE cache[k]]

EvictedOrder(cache, order) ==
  LET S == {k \in Keys : cache[k] # None}
  IN SubSeq(order, EvictCount(S, order) + 1, Len(order))

-----------------------------------------------------------------------------

\* Get on a cached key, however old.
GetHit(k) ==
  /\ sessions[k] # None
  /\ accessOrder' = moveToEnd(k, accessOrder)
  /\ Touch(k)
  /\ UNCHANGED <<sessions, sessionId, backend, pending, saved>>

\* Get on a missing key that the backend has and that is young enough: the
\* cache grows first and is cut down to MaxSize afterwards.
GetFromBackend(k) ==
  /\ sessions[k] = None
  /\ LET t == backend[<<sessionId, k>>] IN
       /\ t # None /\ ~t.old
       /\ LET cache == [sessions EXCEPT ![k] = t]
              order == Append(accessOrder, k)
          IN /\ sessions' = Evicted(cache, order)
             /\ accessOrder' = EvictedOrder(cache, order)
  /\ Touch(k)
  /\ UNCHANGED <<sessionId, backend, pending, saved>>

\* Mutant: a new key is not appended to accessOrder.
PutNoAppend(k) ==
  LET t == [id |-> sessionId, old |-> FALSE] IN
    /\ sessions' = [Evicted(sessions, accessOrder) EXCEPT ![k] = t]
    /\ accessOrder' = EvictedOrder(sessions, accessOrder)
    /\ Cardinality(pending) < MaxPending
    /\ pending' = pending \cup {[key |-> k, ticket |-> t]}
    /\ Touch(k)
    /\ UNCHANGED <<sessionId, backend, saved>>

\* Put replaces in place, or evicts BEFORE it inserts: the cache may end up
\* with MaxSize + 1 entries.  The backend write is left to a goroutine.
Put(k) ==
  LET t == [id |-> sessionId, old |-> FALSE] IN
    /\ IF sessions[k] # None
         THEN /\ sessions' = [sessions EXCEPT ![k] = t]
              /\ accessOrder' = moveToEnd(k, accessOrder)
         ELSE /\ sessions' = [Evicted(sessions, accessOrder) EXCEPT ![k] = t]
              /\ accessOrder' = Append(EvictedOrder(sessions, accessOrder), k)
    /\ Cardinality(pending) < MaxPending
    /\ pending' = pending \cup {[key |-> k, ticket |-> t]}
    /\ Touch(k)
    /\ UNCHANGED <<sessionId, backend, saved>>

\* putToBackend: the backend key is formed from c.sessionId as it is NOW.
PutToBackend(w) ==
  /\ w \in pending
  /\ pending' = pending \ {w}
  /\ backend' = [backend EXCEPT ![<<sessionId, w.key>>] = w.ticket]
  /\ UNCHANGED <<sessions, accessOrder, sessionId, saved, recent>>

\* Serialising the ticket or the backend call fails; only the callback hears.
PutToBackendError(w) ==
  /\ w \in pending
  /\ pending' = pending \ {w}
  /\ UNCHANGED <<sessions, accessOrder, sessionId, backend, saved, recent>>

SetSessionIdentifier(id) ==
  /\ sessionId' = id
  /\ UNCHANGED <<sessions, accessOrder, backend, pending, saved, recent>>

Export ==
  /\ saved' = sessions
  /\ UNCHANGED <<sessions, accessOrder, sessionId, backend, pending, recent>>

\* Import: the young tickets of a saved session, in the order of a Go map
\* range.  The repository calls it once, on the fresh cache of a session that
\* is being loaded (session.go, importTLSSessions).
Import ==
  /\ Cached = {}
  /\ \E ks \in SetToSeqs({k \in Keys : saved[k] # None /\ ~saved[k].old}) :
       LET cache == [k \in Keys |-> IF Contains(ks, k) THEN saved[k] ELSE sessions[k]]
           order == accessOrder \o ks
       IN /\ sessions' = Evicted(cache, order)
          /\ accessOrder' = EvictedOrder(cache, order)
          /\ recent' = FilterSeq(recent, Keys \ ToSet(ks)) \o ks
  /\ UNCHANGED <<sessionId, backend, pending, saved>>

Clear ==
  /\ sessions' = [k \in Keys |-> None]
  /\ accessOrder' = <<>>
  /\ UNCHANGED <<sessionId, backend, pending, saved, recent>>

\* TLSSessionMaxAge goes by: everything stored so far is too old.
Grow(t) == IF t = None THEN None ELSE [t EXCEPT !.old = TRUE]

Expire ==
  /\ sessions' = [k \in Keys |-> Grow(sessions[k])]
  /\ saved' = [k \in Keys |-> Grow(saved[k])]
  /\ backend' = [x \in Ids \X Keys |-> Grow(backend[x])]
  /\ UNCHANGED <<accessOrder, sessionId, pending, recent>>

Next ==
  \/ \E k \in Keys : GetHit(k) \/ GetFromBackend(k) \/ Put(k)
  \/ \E w \in pending : PutToBackend(w) \/ PutToBackendError(w)
  \/ \E id \in Ids : SetSessionIdentifier(id)
  \/ Export \/ Import \/ Clear \/ Expire

Spec == Init /\ [][Next]_vars

-----------------------------------------------------------------------------
(* Properties *)

\* accessOrder is the "LRU order: oldest at front, newest at back" of the
\* cached keys, each exactly once, through hits, replacements, backend loads,
\* evictions, imports and clears.
LRUOrder == accessOrder = FilterSeq(recent, Cached)

\* The cache never outgrows its limit by more than the one entry that Put
\* inserts after it has evicted.
SizeBound == Cardinality(Cached) <= MaxSize + 1

\* Tickets are isolated by session identifier: what is stored under an
\* identifier was obtained under it.
TicketIsolation ==
  \A id \in Ids, k \in Keys :
    backend[<<id, k>>] # None => backend[<<id, k>>].id = id
=============================================================================
