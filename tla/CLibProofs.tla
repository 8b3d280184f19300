----------------------------- MODULE CLibProofs -----------------------------
(***************************************************************************)
(* Proofs about what stands between the library and its hosts: the handle  *)
(* tables, the local proxy, and, in the composition MCCLib, asynchronous   *)
(* requests, uploads and the host's session cache.                         *)
(***************************************************************************)
EXTENDS CLibHandles, LocalProxy, MCCLib, SeqLemmas, FiniteSetTheorems

-----------------------------------------------------------------------------
(* CLibHandles                                                             *)

CallNames == JsonCalls \cup {"none", "fork", "get", "post", "request", "timed", "free", "finalize"}

ThreadType ==
  [pc: {"idle", "request", "issue", "free", "close"}, call: CallNames, t: Tables,
   h: 0 .. MaxHandles, o: 0 .. MaxHandles]

\* A thread knows the session it uses, the handle it frees, the object it has.
ThreadOK(r) ==
  /\ r.t \in {"session", other}
  /\ r.pc \in {"request", "issue", "close"} => r.o \in Handles
  /\ r.pc = "free" => r.h \in Handles

HandlesShape ==
  /\ other \in Tables \ {"session"}
  /\ counters \in [Tables -> 0 .. MaxHandles]
  /\ entries \in [Tables -> [Handles -> 0 .. MaxHandles]]
  /\ object \in [Tables -> [Handles -> {"none", "open", "closed"}]]
  /\ closes \in [Tables -> [Handles -> 0 .. 1]]
  /\ thread \in [Threads -> ThreadType]
  /\ \A p \in Threads : ThreadOK(thread[p])

\* The object is in the hands of a call: not yet in its table, or out of it.
InHand(p, t, o) == thread[p].pc \in {"issue", "close"} /\ thread[p].t = t /\ thread[p].o = o

\* What a call has in its hands is open, and neither a handle leads to it nor
\* does another call have it; and an object was closed as often as its state says.
HandOK ==
  \A t \in Tables, o \in Handles :
    /\ closes[t][o] = IF object[t][o] = "closed" THEN 1 ELSE 0
    /\ \A p \in Threads : InHand(p, t, o) =>
         /\ object[t][o] = "open"
         /\ \A h \in Handles : entries[t][h] # o
         /\ \A q \in Threads : InHand(q, t, o) => p = q

\* A table holds nothing under a number it has not issued.
IssuedOnly == \A t \in Tables, h \in Handles : entries[t][h] # 0 => h <= counters[t]

HandlesIInv == HandlesShape /\ HandOK /\ IssuedOnly /\ NothingLost /\ HandleExact

LEMMA HandlesIInvSound == HandlesIInv => HandlesSound
<1> SUFFICES ASSUME HandlesIInv PROVE HandlesSound
  OBVIOUS
<1> USE HandlesAssumption DEF HandlesIInv, HandlesShape
<1>1. closes \in [Tables -> [Handles -> 0 .. 2]] /\ ClosedOnce
  BY SMTT(30) DEF ClosedOnce
<1>2. HandlesTypeOK
  BY <1>1 DEF HandlesTypeOK, ThreadType, ThreadOK
<1> QED
  BY <1>1, <1>2 DEF HandlesSound

LEMMA IdleThreadType ==
  IdleThread \in ThreadType /\ IdleThread.pc = "idle" /\ ThreadOK(IdleThread)
<1>1. 0 \in 0 .. MaxHandles
  BY HandlesAssumption
<1> QED
  BY <1>1 DEF IdleThread, ThreadType, ThreadOK, Tables, CallNames

LEMMA HandlesInitOK == HandlesInit => HandlesIInv
<1> SUFFICES ASSUME HandlesInit PROVE HandlesIInv
  OBVIOUS
<1> USE HandlesAssumption DEF HandlesInit
<1>1. HandlesShape
  BY IdleThreadType DEF HandlesShape, ThreadOK
<1>2. HandOK
  BY IdleThreadType DEF HandOK, InHand
<1>3. IssuedOnly /\ NothingLost /\ HandleExact
  BY DEF IssuedOnly, NothingLost, HandleExact
<1> QED
  BY <1>1, <1>2, <1>3 DEF HandlesIInv

\* An entry that is not empty is an object's number.
LEMMA EntryHandles ==
  ASSUME HandlesShape
  PROVE  \A t \in Tables, h \in Handles : entries[t][h] # 0 => entries[t][h] \in Handles
<1> SUFFICES ASSUME NEW t \in Tables, NEW h \in Handles, entries[t][h] # 0
             PROVE  entries[t][h] \in Handles
  OBVIOUS
<1>1. entries[t][h] \in 0 .. MaxHandles
  BY DEF HandlesShape
<1> QED
  BY <1>1, HandlesAssumption DEF Handles

\* One call goes on.
LEMMA OneThread ==
  ASSUME HandlesShape, NEW p \in Threads, NEW r \in ThreadType, ThreadOK(r),
         thread' = [thread EXCEPT ![p] = r], other' = other
  PROVE  /\ thread' \in [Threads -> ThreadType]
         /\ thread'[p] = r /\ \A q \in Threads \ {p} : thread'[q] = thread[q]
         /\ \A q \in Threads : ThreadOK(thread[q])'
  BY DEF HandlesShape, ThreadOK

\* A step that neither takes an object into a call's hands nor out of them.
LEMMA HandsStay ==
  ASSUME HandlesIInv, NEW p \in Threads, NEW r \in ThreadType, ThreadOK(r),
         thread' = [thread EXCEPT ![p] = r],
         thread[p].pc \notin {"issue", "close"}, r.pc \notin {"issue", "close"},
         UNCHANGED <<other, counters, entries, object, closes>>
  PROVE  HandlesIInv'
<1> USE DEF HandlesIInv
<1>1. /\ thread' \in [Threads -> ThreadType]
      /\ thread'[p] = r /\ \A q \in Threads \ {p} : thread'[q] = thread[q]
      /\ \A q \in Threads : ThreadOK(thread[q])'
  BY OneThread
<1>2. HandlesShape'
  BY <1>1 DEF HandlesShape
<1>3. \A q \in Threads, t \in Tables, o \in Handles : InHand(q, t, o)' <=> InHand(q, t, o)
  BY <1>1 DEF InHand
<1>4. HandOK'
  BY <1>3 DEF HandOK
<1>5. NothingLost'
  BY <1>1 DEF NothingLost
<1>6. IssuedOnly' /\ HandleExact'
  BY DEF IssuedOnly, HandleExact
<1> QED
  BY <1>2, <1>4, <1>5, <1>6

LEMMA CreateStep ==
  ASSUME HandlesIInv, NEW p \in Threads, thread[p].pc \in {"idle", "request"},
         NEW t \in {"session", other}, Create(p, t), UNCHANGED <<other, counters, entries, closes>>
  PROVE  HandlesIInv'
<1> USE DEF HandlesIInv
<1>1. t \in Tables
  BY DEF HandlesShape, Tables
<1>2. PICK o \in Handles : /\ object[t][o] = "none"
                           /\ object' = [object EXCEPT ![t][o] = "open"]
                           /\ thread' = [thread EXCEPT ![p] = [IdleThread EXCEPT !.pc = "issue", !.t = t, !.o = o]]
  <2>1. Fresh(t) \in SUBSET Nat /\ Fresh(t) # {}
    BY DEF Fresh, Handles, Create
  <2>2. \E o \in Fresh(t) : \A x \in Fresh(t) : o <= x
    BY <2>1, LeastNat
  <2> QED
    BY <2>2 DEF Create, Fresh
<1> DEFINE r == [IdleThread EXCEPT !.pc = "issue", !.t = t, !.o = o]
<1>3. r \in ThreadType /\ ThreadOK(r) /\ r.pc = "issue" /\ r.t = t /\ r.o = o
  <2>1. o \in 0 .. MaxHandles
    BY DEF Handles
  <2>2. r \in ThreadType /\ r.pc = "issue" /\ r.t = t /\ r.o = o
    BY <1>1, <2>1, IdleThreadType DEF ThreadType
  <2> HIDE DEF r
  <2> QED
    BY <2>2 DEF ThreadOK
<1> HIDE DEF r
<1>4. /\ thread' \in [Threads -> ThreadType]
      /\ thread'[p] = r /\ \A q \in Threads \ {p} : thread'[q] = thread[q]
      /\ \A q \in Threads : ThreadOK(thread[q])'
  BY <1>2, <1>3, OneThread DEF r
<1>5. /\ object' \in [Tables -> [Handles -> {"none", "open", "closed"}]]
      /\ object'[t][o] = "open"
      /\ \A u \in Tables, x \in Handles : ~(u = t /\ x = o) => object'[u][x] = object[u][x]
  BY <1>1, <1>2 DEF HandlesShape
<1>6. HandlesShape'
  BY <1>4, <1>5 DEF HandlesShape
<1>7. /\ \A q \in Threads : ~InHand(q, t, o)
      /\ \A h \in Handles : entries[t][h] # o
  BY <1>1, <1>2 DEF HandOK, HandleExact, Handles
<1>8. /\ \A q \in Threads, u \in Tables, x \in Handles :
           InHand(q, u, x)' <=> (q = p /\ u = t /\ x = o) \/ InHand(q, u, x)
  BY <1>3, <1>4 DEF InHand
<1>9. HandOK'
  <2> SUFFICES ASSUME NEW u \in Tables, NEW x \in Handles
               PROVE  /\ closes'[u][x] = IF object'[u][x] = "closed" THEN 1 ELSE 0
                      /\ \A q \in Threads : InHand(q, u, x)' =>
                           /\ object'[u][x] = "open"
                           /\ \A h \in Handles : entries'[u][h] # x
                           /\ \A z \in Threads : InHand(z, u, x)' => q = z
    BY DEF HandOK
  <2>1. CASE u = t /\ x = o
    BY <1>1, <1>2, <1>5, <1>7, <1>8, <2>1 DEF HandOK
  <2>2. CASE ~(u = t /\ x = o)
    BY <1>5, <1>8, <2>2 DEF HandOK
  <2> QED
    BY <2>1, <2>2
<1>10. NothingLost'
  <2> SUFFICES ASSUME NEW u \in Tables, NEW x \in Handles, object'[u][x] = "open"
               PROVE  \/ \E h \in Handles : entries'[u][h] = x
                      \/ \E q \in Threads : InHand(q, u, x)'
    BY DEF NothingLost, InHand
  <2>1. (u = t /\ x = o) \/ object[u][x] = "open"
    BY <1>5
  <2>2. object[u][x] = "open" => \/ \E h \in Handles : entries[u][h] = x
                                 \/ \E q \in Threads : InHand(q, u, x)
    BY DEF NothingLost, InHand
  <2> QED
    BY <1>8, <2>1, <2>2
<1>11. IssuedOnly'
  BY DEF IssuedOnly
<1>12. HandleExact'
  BY <1>5, <1>7, EntryHandles DEF HandleExact
<1> QED
  BY <1>6, <1>9, <1>10, <1>11, <1>12

LEMMA IssueStep ==
  ASSUME HandlesIInv, NEW p \in Threads, NEW t \in Tables, Issue(p, t)
  PROVE  HandlesIInv'
<1> USE DEF HandlesIInv
<1>1. PICK n \in Handles : n = counters[t] + 1 /\ counters[t] \in Nat
  <2>1. counters[t] \in 0 .. MaxHandles /\ counters[t] < MaxHandles
    BY DEF HandlesShape, Issue
  <2>2. counters[t] + 1 \in Handles /\ counters[t] \in Nat
    BY <2>1, HandlesAssumption DEF Handles
  <2> QED
    BY <2>2
<1>2. PICK o \in Handles : thread[p].o = o /\ thread[p].t = t /\ thread[p].pc = "issue"
  BY DEF HandlesShape, ThreadOK, Issue
<1>3. /\ counters' = [counters EXCEPT ![t] = n]
      /\ entries' = [entries EXCEPT ![t][n] = o]
      /\ thread' = [thread EXCEPT ![p] = IdleThread] /\ UNCHANGED <<other, object, closes>>
  BY <1>1, <1>2 DEF Issue, NextHandle
<1>4. /\ thread' \in [Threads -> ThreadType]
      /\ thread'[p].pc = "idle" /\ \A q \in Threads \ {p} : thread'[q] = thread[q]
      /\ \A q \in Threads : ThreadOK(thread[q])'
  BY <1>3, IdleThreadType, OneThread
<1>5. o \in 0 .. MaxHandles /\ n \in 0 .. MaxHandles /\ o # 0
  BY HandlesAssumption DEF Handles
<1>6. /\ counters' \in [Tables -> 0 .. MaxHandles] /\ entries' \in [Tables -> [Handles -> 0 .. MaxHandles]]
      /\ counters'[t] = n /\ \A u \in Tables \ {t} : counters'[u] = counters[u]
      /\ entries'[t][n] = o
      /\ \A u \in Tables, h \in Handles : ~(u = t /\ h = n) => entries'[u][h] = entries[u][h]
  BY <1>3, <1>5 DEF HandlesShape
<1>7. HandlesShape'
  BY <1>3, <1>4, <1>6 DEF HandlesShape
<1>8. InHand(p, t, o) /\ object[t][o] = "open" /\ \A h \in Handles : entries[t][h] # o
  BY <1>2 DEF HandOK, InHand
<1>9. \A q \in Threads, u \in Tables, x \in Handles :
        InHand(q, u, x)' <=> InHand(q, u, x) /\ ~(u = t /\ x = o)
  <2> SUFFICES ASSUME NEW q \in Threads, NEW u \in Tables, NEW x \in Handles
               PROVE  InHand(q, u, x)' <=> InHand(q, u, x) /\ ~(u = t /\ x = o)
    OBVIOUS
  <2>1. CASE q = p
    BY <1>2, <1>4, <2>1 DEF InHand
  <2>2. CASE q # p
    <3>1. InHand(q, u, x)' <=> InHand(q, u, x)
      BY <1>4, <2>2 DEF InHand
    <3>2. ~InHand(q, t, o)
      BY <1>8, <2>2 DEF HandOK
    <3> QED
      BY <3>1, <3>2
  <2> QED
    BY <2>1, <2>2
<1>10. HandOK'
  <2> SUFFICES ASSUME NEW u \in Tables, NEW x \in Handles
               PROVE  /\ closes'[u][x] = IF object'[u][x] = "closed" THEN 1 ELSE 0
                      /\ \A q \in Threads : InHand(q, u, x)' =>
                           /\ object'[u][x] = "open"
                           /\ \A h \in Handles : entries'[u][h] # x
                           /\ \A z \in Threads : InHand(z, u, x)' => q = z
    BY DEF HandOK
  <2> QED
    BY <1>3, <1>6, <1>9 DEF HandOK
<1>11. NothingLost'
  <2> SUFFICES ASSUME NEW u \in Tables, NEW x \in Handles, object'[u][x] = "open"
               PROVE  \/ \E h \in Handles : entries'[u][h] = x
                      \/ \E q \in Threads : InHand(q, u, x)'
    BY DEF NothingLost, InHand
  <2>1. \/ \E h \in Handles : entries[u][h] = x
        \/ \E q \in Threads : InHand(q, u, x)
    BY <1>3 DEF NothingLost, InHand
  <2>2. entries[t][n] = 0
    <3>1. ~(n <= counters[t])
      BY <1>1
    <3> QED
      BY <3>1 DEF IssuedOnly
  <2>3. x # 0
    BY HandlesAssumption DEF Handles
  <2> QED
    BY <1>6, <1>9, <2>1, <2>2, <2>3
<1>12. IssuedOnly'
  <2> SUFFICES ASSUME NEW u \in Tables, NEW h \in Handles, entries'[u][h] # 0
               PROVE  h <= counters'[u]
    BY DEF IssuedOnly
  <2>1. h \in Nat /\ n \in Nat
    BY HandlesAssumption DEF Handles
  <2>2. CASE u = t /\ h = n
    BY <1>6, <2>1, <2>2
  <2>3. CASE u = t /\ h # n
    <3>1. h <= counters[t]
      BY <1>6, <2>3 DEF IssuedOnly
    <3> QED
      BY <1>1, <1>6, <2>1, <2>3, <3>1
  <2>4. CASE u # t
    BY <1>6, <2>4 DEF IssuedOnly
  <2> QED
    BY <2>2, <2>3, <2>4
<1>13. HandleExact'
  <2> SUFFICES ASSUME NEW u \in Tables, NEW h \in Handles, entries'[u][h] # 0
               PROVE  /\ object'[u][entries'[u][h]] = "open"
                      /\ \A g \in Handles : entries'[u][g] = entries'[u][h] => g = h
    BY DEF HandleExact
  <2>1. CASE u = t /\ h = n
    BY <1>3, <1>6, <1>8, <2>1
  <2>2. CASE ~(u = t /\ h = n)
    BY <1>3, <1>6, <1>8, <2>2 DEF HandleExact
  <2> QED
    BY <2>1, <2>2
<1> QED
  BY <1>7, <1>10, <1>11, <1>12, <1>13

\* An object leaves its table into the hands of the call that will close it.
LEMMA TakeOut ==
  ASSUME HandlesIInv, NEW p \in Threads, NEW t \in Tables, NEW h \in Handles, NEW o \in Handles,
         entries[t][h] = o, thread[p].pc = "free",
         entries' = [entries EXCEPT ![t][h] = 0],
         NEW r \in ThreadType, ThreadOK(r), r.pc = "close", r.t = t, r.o = o,
         thread' = [thread EXCEPT ![p] = r], UNCHANGED <<other, counters, object, closes>>
  PROVE  HandlesIInv'
<1> USE DEF HandlesIInv
<1>1. /\ thread' \in [Threads -> ThreadType]
      /\ thread'[p] = r /\ \A q \in Threads \ {p} : thread'[q] = thread[q]
      /\ \A q \in Threads : ThreadOK(thread[q])'
  BY OneThread
<1>2. o # 0 /\ 0 \in 0 .. MaxHandles
  BY HandlesAssumption DEF Handles
<1>3. /\ entries' \in [Tables -> [Handles -> 0 .. MaxHandles]] /\ entries'[t][h] = 0
      /\ \A u \in Tables, g \in Handles : ~(u = t /\ g = h) => entries'[u][g] = entries[u][g]
  BY <1>2 DEF HandlesShape
<1>4. HandlesShape'
  BY <1>1, <1>3 DEF HandlesShape
<1>5. object[t][o] = "open" /\ \A g \in Handles : entries[t][g] = o => g = h
  BY <1>2 DEF HandleExact
<1>6. \A q \in Threads : ~InHand(q, t, o)
  BY DEF HandOK
<1>7. \A q \in Threads, u \in Tables, x \in Handles :
        InHand(q, u, x)' <=> (q = p /\ u = t /\ x = o) \/ InHand(q, u, x)
  BY <1>1 DEF InHand
<1>8. HandOK'
  <2> SUFFICES ASSUME NEW u \in Tables, NEW x \in Handles
               PROVE  /\ closes'[u][x] = IF object'[u][x] = "closed" THEN 1 ELSE 0
                      /\ \A q \in Threads : InHand(q, u, x)' =>
                           /\ object'[u][x] = "open"
                           /\ \A g \in Handles : entries'[u][g] # x
                           /\ \A z \in Threads : InHand(z, u, x)' => q = z
    BY DEF HandOK
  <2>1. x # 0
    BY HandlesAssumption DEF Handles
  <2>2. CASE u = t /\ x = o
    BY <1>2, <1>3, <1>5, <1>6, <1>7, <2>2 DEF HandOK
  <2>3. CASE ~(u = t /\ x = o)
    <3>1. \A q \in Threads : InHand(q, u, x)' <=> InHand(q, u, x)
      BY <1>7, <2>3
    <3>2. \A g \in Handles : entries[u][g] # x => entries'[u][g] # x
      BY <1>3, <2>1
    <3> QED
      BY <3>1, <3>2 DEF HandOK
  <2> QED
    BY <2>2, <2>3
<1>9. NothingLost'
  <2> SUFFICES ASSUME NEW u \in Tables, NEW x \in Handles, object'[u][x] = "open"
               PROVE  \/ \E g \in Handles : entries'[u][g] = x
                      \/ \E q \in Threads : InHand(q, u, x)'
    BY DEF NothingLost, InHand
  <2>1. \/ \E g \in Handles : entries[u][g] = x
        \/ \E q \in Threads : InHand(q, u, x)
    BY DEF NothingLost, InHand
  <2> QED
    BY <1>3, <1>7, <2>1
<1>10. IssuedOnly' /\ HandleExact'
  BY <1>3 DEF IssuedOnly, HandleExact
<1> QED
  BY <1>4, <1>8, <1>9, <1>10

\* An object is closed that no handle leads to any more, by the only call that
\* has it or by the one that takes it out of its table.
LEMMA CloseObject ==
  ASSUME HandlesIInv, NEW p \in Threads, NEW t \in Tables, NEW o \in Handles, object[t][o] = "open",
         \A q \in Threads : InHand(q, t, o) => q = p,
         \A u \in Tables, x \in Handles : ~(u = t /\ x = o) => ~InHand(p, u, x),
         Closed(t, o), thread' = [thread EXCEPT ![p] = IdleThread],
         entries' \in [Tables -> [Handles -> 0 .. MaxHandles]],
         \A h \in Handles : entries'[t][h] # o,
         \A u \in Tables, h \in Handles :
            entries'[u][h] = entries[u][h] \/ (u = t /\ entries[u][h] = o /\ entries'[u][h] = 0),
         UNCHANGED <<other, counters>>
  PROVE  HandlesIInv'
<1> USE DEF HandlesIInv
<1>1. /\ thread' \in [Threads -> ThreadType]
      /\ thread'[p].pc = "idle" /\ \A q \in Threads \ {p} : thread'[q] = thread[q]
      /\ \A q \in Threads : ThreadOK(thread[q])'
  BY IdleThreadType, OneThread
<1>2. /\ object' \in [Tables -> [Handles -> {"none", "open", "closed"}]] /\ object'[t][o] = "closed"
      /\ \A u \in Tables, x \in Handles : ~(u = t /\ x = o) => object'[u][x] = object[u][x]
  BY DEF HandlesShape, Closed
<1>3. closes[t][o] = 0
  BY DEF HandOK
<1>4. /\ closes' \in [Tables -> [Handles -> 0 .. 1]] /\ closes'[t][o] = 1
      /\ \A u \in Tables, x \in Handles : ~(u = t /\ x = o) => closes'[u][x] = closes[u][x]
  <2>1. closes' = [closes EXCEPT ![t][o] = 1]
    BY <1>3 DEF Closed, HandlesShape
  <2> QED
    BY <2>1 DEF HandlesShape
<1>5. HandlesShape'
  BY <1>1, <1>2, <1>4 DEF HandlesShape
<1>6. \A q \in Threads, u \in Tables, x \in Handles :
        InHand(q, u, x)' <=> InHand(q, u, x) /\ ~(u = t /\ x = o)
  BY <1>1 DEF InHand
<1>7. HandOK'
  <2> SUFFICES ASSUME NEW u \in Tables, NEW x \in Handles
               PROVE  /\ closes'[u][x] = IF object'[u][x] = "closed" THEN 1 ELSE 0
                      /\ \A q \in Threads : InHand(q, u, x)' =>
                           /\ object'[u][x] = "open"
                           /\ \A g \in Handles : entries'[u][g] # x
                           /\ \A z \in Threads : InHand(z, u, x)' => q = z
    BY DEF HandOK
  <2>1. x # 0
    BY HandlesAssumption DEF Handles
  <2>2. CASE u = t /\ x = o
    BY <1>2, <1>4, <1>6, <2>2
  <2>3. CASE ~(u = t /\ x = o)
    <3>1. \A g \in Handles : entries[u][g] # x => entries'[u][g] # x
      BY <2>1
    <3>2. closes'[u][x] = closes[u][x] /\ object'[u][x] = object[u][x]
      BY <1>2, <1>4, <2>3
    <3> QED
      BY <1>6, <3>1, <3>2 DEF HandOK
  <2> QED
    BY <2>2, <2>3
<1>8. NothingLost'
  <2> SUFFICES ASSUME NEW u \in Tables, NEW x \in Handles, object'[u][x] = "open"
               PROVE  \/ \E g \in Handles : entries'[u][g] = x
                      \/ \E q \in Threads : InHand(q, u, x)'
    BY DEF NothingLost, InHand
  <2>1. ~(u = t /\ x = o) /\ object[u][x] = "open"
    BY <1>2
  <2>2. \/ \E g \in Handles : entries[u][g] = x
        \/ \E q \in Threads : InHand(q, u, x)
    BY <2>1 DEF NothingLost, InHand
  <2> QED
    BY <1>6, <2>1, <2>2
<1>9. IssuedOnly'
  BY DEF IssuedOnly
<1>10. HandleExact'
  <2> SUFFICES ASSUME NEW u \in Tables, NEW h \in Handles, entries'[u][h] # 0
               PROVE  /\ object'[u][entries'[u][h]] = "open"
                      /\ \A g \in Handles : entries'[u][g] = entries'[u][h] => g = h
    BY DEF HandleExact
  <2>1. entries'[u][h] = entries[u][h] /\ entries[u][h] \in Handles
    BY EntryHandles
  <2>2. ~(u = t /\ entries[u][h] = o)
    BY <2>1
  <2>3. object'[u][entries[u][h]] = "open"
    BY <1>2, <2>1, <2>2 DEF HandleExact
  <2>4. \A g \in Handles : entries'[u][g] = entries[u][h] => entries[u][g] = entries[u][h]
    BY <2>1
  <2> QED
    BY <2>1, <2>3, <2>4 DEF HandleExact
<1> QED
  BY <1>5, <1>7, <1>8, <1>9, <1>10

LEMMA RemoveStep ==
  ASSUME HandlesIInv, NEW p \in Threads, RemoveEntry(p)
  PROVE  HandlesIInv'
<1>1. PICK t \in Tables : t = thread[p].t /\ t \in {"session", other}
  BY DEF HandlesIInv, HandlesShape, ThreadType, ThreadOK
<1>2. PICK h \in Handles : h = thread[p].h
  BY DEF HandlesIInv, HandlesShape, ThreadOK, RemoveEntry
<1>3. PICK o \in 0 .. MaxHandles : o = entries[t][h]
  BY DEF HandlesIInv, HandlesShape
<1>4. /\ thread[p].pc = "free" /\ entries' = [entries EXCEPT ![t][h] = 0]
      /\ IF t \in AtOnce /\ o # 0 THEN Closed(t, o) ELSE UNCHANGED <<object, closes>>
      /\ thread' = [thread EXCEPT ![p] =
           IF o = 0 \/ t \in AtOnce THEN IdleThread ELSE [thread[p] EXCEPT !.pc = "close", !.o = o]]
      /\ UNCHANGED <<other, counters>>
  BY <1>1, <1>2, <1>3 DEF RemoveEntry
<1>5. CASE o = 0
  <2>1. entries' = entries
    BY <1>3, <1>4, <1>5, ZenonT(60) DEF HandlesIInv, HandlesShape
  <2> QED
    BY <1>4, <1>5, <2>1, IdleThreadType, HandsStay
<1>6. CASE o # 0 /\ t \notin AtOnce
  <2> DEFINE r == [thread[p] EXCEPT !.pc = "close", !.o = o]
  <2>1. o \in Handles
    BY <1>3, <1>6, HandlesAssumption DEF Handles
  <2>2. thread[p] \in ThreadType
    BY DEF HandlesIInv, HandlesShape
  <2>3. r \in ThreadType /\ r.pc = "close" /\ r.t = t /\ r.o = o
    BY <1>1, <2>2 DEF ThreadType
  <2>4. thread' = [thread EXCEPT ![p] = r]
    BY <1>4, <1>6
  <2> HIDE DEF r
  <2>5. ThreadOK(r)
    BY <1>1, <2>1, <2>3 DEF ThreadOK
  <2>6. entries[t][h] = o /\ thread[p].pc = "free" /\ entries' = [entries EXCEPT ![t][h] = 0]
    BY <1>3, <1>4
  <2>7. UNCHANGED <<other, counters, object, closes>>
    BY <1>4, <1>6
  <2> QED
    BY ONLY HandlesIInv, p \in Threads, t \in Tables, h \in Handles, <2>1, <2>3, <2>4, <2>5, <2>6, <2>7,
            TakeOut
<1>7. CASE o # 0 /\ t \in AtOnce
  <2>1. o \in Handles
    BY <1>3, <1>7, HandlesAssumption DEF Handles
  <2>2. /\ object[t][o] = "open" /\ \A g \in Handles : entries[t][g] = o => g = h
    BY <1>3, <1>7 DEF HandlesIInv, HandleExact
  <2>3. \A q \in Threads : ~InHand(q, t, o)
    BY <1>3, <2>1 DEF HandlesIInv, HandOK
  <2>4. \A u \in Tables, x \in Handles : ~InHand(p, u, x)
    BY <1>4 DEF InHand
  <2>5. Closed(t, o) /\ thread' = [thread EXCEPT ![p] = IdleThread]
    BY <1>4, <1>7
  <2>6. 0 \in 0 .. MaxHandles /\ o # 0
    BY <1>7, HandlesAssumption
  <2>7. /\ entries' \in [Tables -> [Handles -> 0 .. MaxHandles]] /\ entries'[t][h] = 0
        /\ \A u \in Tables, g \in Handles : ~(u = t /\ g = h) => entries'[u][g] = entries[u][g]
    BY <1>4, <2>6 DEF HandlesIInv, HandlesShape
  <2>8. \A g \in Handles : entries'[t][g] # o
    BY <2>2, <2>6, <2>7
  <2>9. \A u \in Tables, g \in Handles :
          entries'[u][g] = entries[u][g] \/ (u = t /\ entries[u][g] = o /\ entries'[u][g] = 0)
    BY <1>3, <2>7
  <2>10. /\ \A q \in Threads : InHand(q, t, o) => q = p
         /\ \A u \in Tables, x \in Handles : ~(u = t /\ x = o) => ~InHand(p, u, x)
         /\ UNCHANGED <<other, counters>>
    BY <1>4, <2>3, <2>4
  <2> QED
    BY ONLY HandlesIInv, p \in Threads, t \in Tables, <2>1, <2>2, <2>5, <2>7, <2>8, <2>9, <2>10,
            CloseObject
<1> QED
  BY <1>5, <1>6, <1>7

LEMMA CloseRemovedStep ==
  ASSUME HandlesIInv, NEW p \in Threads, CloseRemoved(p)
  PROVE  HandlesIInv'
<1>1. PICK t \in Tables, o \in Handles : t = thread[p].t /\ o = thread[p].o
  BY DEF HandlesIInv, HandlesShape, ThreadType, ThreadOK, CloseRemoved
<1>2. InHand(p, t, o) /\ \A u \in Tables, x \in Handles : ~(u = t /\ x = o) => ~InHand(p, u, x)
  BY <1>1 DEF CloseRemoved, InHand
<1>3. /\ object[t][o] = "open" /\ \A h \in Handles : entries[t][h] # o
      /\ \A q \in Threads : InHand(q, t, o) => q = p
  BY <1>2 DEF HandlesIInv, HandOK
<1>4. /\ Closed(t, o) /\ thread' = [thread EXCEPT ![p] = IdleThread]
      /\ UNCHANGED <<other, counters, entries>>
  BY <1>1 DEF CloseRemoved
<1>5. entries' \in [Tables -> [Handles -> 0 .. MaxHandles]]
  BY <1>4 DEF HandlesIInv, HandlesShape
<1> QED
  BY <1>2, <1>3, <1>4, <1>5, CloseObject, ZenonT(60)

\* A lookup: the call remembers the handle and the object it found.
LEMMA LookUpStep ==
  ASSUME HandlesIInv, NEW p \in Threads, NEW h \in Handles, NEW fn \in CallNames,
         NEW t \in Tables
  PROVE  GetSession(p, fn, t, h) \/ Free(p, fn, t, h) => HandlesIInv'
<1> SUFFICES ASSUME GetSession(p, fn, t, h) \/ Free(p, fn, t, h) PROVE HandlesIInv'
  OBVIOUS
<1>1. "session" \in Tables /\ h \in 0 .. MaxHandles /\ HandlesShape
  BY HandlesAssumption DEF Tables, Handles, HandlesIInv
<1>2. PICK pc \in {"request", "free"}, u \in {"session", t} :
        /\ thread[p].pc = "idle" /\ t \in {"session", other} /\ entries[u][h] # 0
        /\ thread' = [thread EXCEPT ![p] = [pc |-> pc, call |-> fn, t |-> t, h |-> h, o |-> entries[u][h]]]
        /\ UNCHANGED <<other, counters, entries, object, closes>>
  BY DEF GetSession, Free
<1>3. PICK o \in Handles : o = entries[u][h]
  BY <1>1, <1>2, EntryHandles
<1>4. o \in 0 .. MaxHandles
  BY <1>1, <1>3 DEF HandlesShape
<1> DEFINE r == [pc |-> pc, call |-> fn, t |-> t, h |-> h, o |-> o]
<1>5. r \in ThreadType /\ ThreadOK(r) /\ r.pc \notin {"issue", "close"}
  BY <1>1, <1>2, <1>4 DEF ThreadType, ThreadOK
<1>6. thread' = [thread EXCEPT ![p] = r]
  BY <1>2, <1>3
<1> HIDE DEF r
<1> QED
  BY <1>2, <1>5, <1>6, HandsStay

LEMMA HandlesStep == HandlesIInv /\ [HandlesNext]_handleVars => HandlesIInv'
<1> SUFFICES ASSUME HandlesIInv, [HandlesNext]_handleVars
             PROVE  HandlesIInv'
  OBVIOUS
<1>1. CASE UNCHANGED handleVars
  <2>1. UNCHANGED <<other, counters, entries, object, closes, thread>>
    BY <1>1 DEF handleVars
  <2> QED
    BY <2>1 DEF HandlesIInv, HandlesShape, ThreadOK, HandOK, InHand, IssuedOnly, NothingLost, HandleExact
<1>2. ASSUME NEW p \in Threads, NewSession(p) \/ LocalProxyStart(p) \/ PoolLoad(p)
      PROVE  HandlesIInv'
  BY <1>2, CreateStep DEF NewSession, LocalProxyStart, PoolLoad, BuildObject
<1>3. ASSUME NEW p \in Threads, RequestDone(p) PROVE HandlesIInv'
  <2>1. thread[p].pc = "request" /\ thread[p].t \in {"session", other}
    BY <1>3 DEF RequestDone, HandlesIInv, HandlesShape, ThreadOK
  <2>2. CASE Create(p, thread[p].t)
    BY <1>3, <2>1, <2>2, CreateStep DEF RequestDone
  <2>3. CASE thread' = [thread EXCEPT ![p] = IdleThread] /\ UNCHANGED object
    BY <1>3, <2>1, <2>3, IdleThreadType, HandsStay DEF RequestDone
  <2> QED
    BY <1>3, <2>2, <2>3 DEF RequestDone
<1>4. ASSUME NEW p \in Threads,
             \/ IssueSession(p) \/ IssueStream(p) \/ MakeRawResponse(p) \/ GetFastFinish(p)
             \/ IssueProxy(p) \/ IssuePool(p)
      PROVE  HandlesIInv'
  BY <1>4, IssueStep
  DEF IssueSession, IssueStream, MakeRawResponse, GetFastFinish, IssueProxy, IssuePool, Tables
<1>5. ASSUME NEW p \in Threads, NEW h \in Handles,
             \/ SessionFork(p, h) \/ StreamGet(p, h) \/ StreamPost(p, h) \/ StreamRequest(p, h)
             \/ GetRaw(p, h) \/ PostRaw(p, h) \/ RequestRaw(p, h)
             \/ GetFast(p, h) \/ GetFastTimed(p, h)
             \/ JsonGet(p, h) \/ JsonPost(p, h) \/ JsonRequest(p, h)
      PROVE  HandlesIInv'
  BY <1>5, LookUpStep
  DEF SessionFork, StreamGet, StreamPost, StreamRequest, GetRaw, PostRaw, RequestRaw, GetFast,
      GetFastTimed, JsonGet, JsonPost, JsonRequest, Tables, CallNames, JsonCalls
<1>6. ASSUME NEW p \in Threads, NEW h \in Handles,
             \/ SessionFree(p, h) \/ StreamClose(p, h) \/ ResponseFree(p, h)
             \/ ResponseFinalize(p, h) \/ FastFree(p, h) \/ LocalProxyStop(p, h) \/ PoolFree(p, h)
      PROVE  HandlesIInv'
  BY <1>6, LookUpStep
  DEF SessionFree, StreamClose, ResponseFree, ResponseFinalize, FastFree, LocalProxyStop, PoolFree,
      Tables, CallNames
<1> QED
  BY <1>1, <1>2, <1>3, <1>4, <1>5, <1>6, RemoveStep, CloseRemovedStep DEF HandlesNext

\* Whatever the host's threads do with the handles at the same time, an object
\* of any of the six tables is reachable by one handle until it is freed and is
\* closed exactly once, for any number of threads and handles.
THEOREM HandlesStaySound == HandlesSpec => []HandlesSound
  BY HandlesIInvSound, HandlesInitOK, HandlesStep, PTL DEF HandlesSpec

-----------------------------------------------------------------------------
(* LocalProxy                                                              *)

ClientType ==
  [pc: {"out", "backlog", "accepted", "closed"} \cup Handling, req: ProxyRequests,
   via: {"none", "direct", "upstream", "override"}, by: SessionIds \cup {NoId, "client", "default"}]

Handlers == {c \in Clients : client[c].pc \in Handling}

OwnSessionOf(r) ==
  r.pc = "serve" /\ r.req.kind = "https" /\ r.req.session # NoId => r.by = r.req.session

\* The accept loop does not end with a connection in its hands, so a wait that
\* found no loop and no handler stays true until the session is closed.
StopOK ==
  /\ ~accepting => Unadmitted = {}
  /\ ~sessionOpen => stop = "done"
  /\ stop \in {"close", "done"} /\ ~hurried => ~accepting /\ Handlers = {}

ProxyIInv == ProxyTypeOK /\ ActiveExact /\ OwnSession /\ StopOK

LEMMA ProxyIInvSound == ProxyIInv => LocalProxySound
  BY DEF ProxyIInv, LocalProxySound, StopWaitsForHandlers, StopOK, Handlers

LEMMA NewClientType ==
  /\ NewClient \in ClientType /\ NewClient.pc = "out"
  /\ [NewClient EXCEPT !.pc = "closed"] \in ClientType
  /\ [NewClient EXCEPT !.pc = "closed"].pc = "closed"
  BY DEF NewClient, NoRequest, ClientType, ProxyRequests

LEMMA ProxyInitOK == ProxyInit => ProxyIInv
<1> SUFFICES ASSUME ProxyInit PROVE ProxyIInv
  OBVIOUS
<1>1. client \in [Clients -> ClientType] /\ \A c \in Clients : client[c].pc = "out"
  BY NewClientType DEF ProxyInit
<1>2. 0 \in 0 .. MaxConnections /\ 0 <= MaxConnections
  BY LocalProxyAssumption
<1>3. ProxyTypeOK
  BY <1>1, <1>2 DEF ProxyInit, ProxyTypeOK, ClientType
<1>4. Handlers = {} /\ Unadmitted = {}
  BY <1>1 DEF Handlers, Unadmitted, Handling
<1>5. ActiveExact
  BY <1>2, <1>4, FS_EmptySet DEF ActiveExact, Handlers, ProxyInit
<1>6. OwnSession /\ StopOK
  BY <1>1 DEF OwnSession, StopOK, ProxyInit
<1> QED
  BY <1>3, <1>5, <1>6 DEF ProxyIInv

LEMMA HandlersFinite == IsFiniteSet(Handlers) /\ Cardinality(Handlers) \in Nat
<1>1. Handlers \in SUBSET Clients /\ IsFiniteSet(Clients)
  BY LocalProxyAssumption DEF Handlers
<1>2. IsFiniteSet(Handlers)
  BY <1>1, FS_Subset
<1> QED
  BY <1>2, FS_CardinalityType

\* One connection's handler goes on, begins or ends, and activeConns with it.
LEMMA OneClient ==
  ASSUME ProxyIInv, NEW c \in Clients, NEW r \in ClientType, OwnSessionOf(r),
         client' = [client EXCEPT ![c] = r],
         \/ (c \in Handlers <=> r.pc \in Handling) /\ activeConns' = activeConns
         \/ c \notin Handlers /\ r.pc \in Handling /\ Room /\ activeConns' = activeConns + 1
         \/ c \in Handlers /\ r.pc \notin Handling /\ activeConns' = activeConns - 1
  PROVE  /\ client' \in [Clients -> ClientType] /\ client'[c] = r
         /\ \A d \in Clients \ {c} : client'[d] = client[d]
         /\ Handlers' = IF r.pc \in Handling THEN Handlers \cup {c} ELSE Handlers \ {c}
         /\ activeConns' \in 0 .. MaxConnections /\ ActiveExact' /\ OwnSession'
<1> USE LocalProxyAssumption
<1>1. client \in [Clients -> ClientType] /\ activeConns \in 0 .. MaxConnections
  BY DEF ProxyIInv, ProxyTypeOK, ClientType
<1>2. /\ client' \in [Clients -> ClientType] /\ client'[c] = r
      /\ \A d \in Clients \ {c} : client'[d] = client[d]
  BY <1>1
<1>3. Handlers' = IF r.pc \in Handling THEN Handlers \cup {c} ELSE Handlers \ {c}
  BY <1>2 DEF Handlers
<1>4. OwnSession'
  BY <1>2 DEF ProxyIInv, OwnSession, OwnSessionOf
<1>5. /\ IsFiniteSet(Handlers) /\ Cardinality(Handlers) \in Nat /\ activeConns = Cardinality(Handlers)
      /\ activeConns <= MaxConnections
  BY HandlersFinite DEF ProxyIInv, ActiveExact, Handlers
<1>6. /\ Cardinality(Handlers \cup {c}) = IF c \in Handlers THEN Cardinality(Handlers) ELSE Cardinality(Handlers) + 1
      /\ Cardinality(Handlers \ {c}) = IF c \in Handlers THEN Cardinality(Handlers) - 1 ELSE Cardinality(Handlers)
  BY <1>5, FS_AddElement, FS_RemoveElement
<1>7. activeConns' = Cardinality(Handlers')
  BY <1>3, <1>5, <1>6
<1>8. activeConns' \in 0 .. MaxConnections
  <2>1. c \in Handlers => Cardinality(Handlers) # 0
    BY <1>5, FS_EmptySet
  <2> QED
    BY <1>1, <1>5, <2>1 DEF Room
<1>9. ActiveExact'
  BY <1>7, <1>8 DEF ActiveExact, Handlers
<1> QED
  BY <1>2, <1>3, <1>4, <1>8, <1>9

LEMMA HandlerStep ==
  ASSUME ProxyIInv, NEW c \in Clients, NEW r \in ClientType, OwnSessionOf(r),
         client' = [client EXCEPT ![c] = r],
         \/ (c \in Handlers <=> r.pc \in Handling) /\ activeConns' = activeConns
         \/ c \notin Handlers /\ r.pc \in Handling /\ Room /\ activeConns' = activeConns + 1
         \/ c \in Handlers /\ r.pc \notin Handling /\ activeConns' = activeConns - 1,
         r.pc = "accepted" => accepting,
         r.pc \in Handling => c \in Handlers \/ c \in Unadmitted,
         UNCHANGED <<tcpProxy, accepting, listener, shuttingDown, running, registry, sessionOpen, stop,
                     hurried>>
  PROVE  ProxyIInv'
<1>1. /\ client' \in [Clients -> ClientType] /\ client'[c] = r
      /\ \A d \in Clients \ {c} : client'[d] = client[d]
      /\ Handlers' = IF r.pc \in Handling THEN Handlers \cup {c} ELSE Handlers \ {c}
      /\ activeConns' \in 0 .. MaxConnections /\ ActiveExact' /\ OwnSession'
  BY OneClient
<1>2. ProxyTypeOK'
  BY <1>1 DEF ProxyIInv, ProxyTypeOK, ClientType
<1>3. StopOK'
  <2>1. ~accepting => Unadmitted' = {}
    BY <1>1 DEF ProxyIInv, StopOK, Unadmitted
  <2>2. stop \in {"close", "done"} /\ ~hurried => ~accepting /\ Handlers' = {}
    BY <1>1 DEF ProxyIInv, StopOK
  <2> QED
    BY <2>1, <2>2 DEF ProxyIInv, StopOK
<1> QED
  BY <1>1, <1>2, <1>3 DEF ProxyIInv

\* A handler ends, from wherever it was.
LEMMA EndStep ==
  ASSUME ProxyIInv, NEW c \in Clients, client[c].pc \in Handling, Ends(c),
         UNCHANGED <<tcpProxy, accepting, listener, shuttingDown, running, registry, sessionOpen, stop,
                     hurried>>
  PROVE  ProxyIInv'
<1> DEFINE r == [NewClient EXCEPT !.pc = "closed"]
<1>1. r \in ClientType /\ r.pc = "closed" /\ client' = [client EXCEPT ![c] = r] /\ activeConns' = activeConns - 1
  BY NewClientType DEF Ends
<1> HIDE DEF r
<1>2. c \in Handlers /\ r.pc \notin Handling /\ OwnSessionOf(r)
  BY <1>1 DEF Handlers, Handling, OwnSessionOf
<1> QED
  BY <1>1, <1>2, HandlerStep

\* A routed request is sent on.
LEMMA ServeStep ==
  ASSUME ProxyIInv, NEW c \in Clients, client[c].pc = "route",
         NEW via \in {"none", "direct", "upstream", "override"},
         NEW by \in SessionIds \cup {NoId, "client", "default"}, Serve(c, via, by),
         client[c].req.kind = "https" /\ client[c].req.session # NoId => by = client[c].req.session,
         UNCHANGED <<tcpProxy, accepting, listener, shuttingDown, running, registry, sessionOpen, stop,
                     hurried>>
  PROVE  ProxyIInv'
<1> DEFINE r == [client[c] EXCEPT !.pc = "serve", !.via = via, !.by = by]
<1>0. client \in [Clients -> ClientType]
  BY DEF ProxyIInv, ProxyTypeOK, ClientType
<1>1. r \in ClientType /\ r.pc = "serve" /\ r.by = by /\ r.req = client[c].req
  BY <1>0 DEF ClientType, Handling
<1>2. client' = [client EXCEPT ![c] = r] /\ activeConns' = activeConns
  BY <1>0 DEF Serve, ClientType
<1> HIDE DEF r
<1>3. c \in Handlers /\ r.pc \in Handling /\ OwnSessionOf(r)
  BY <1>1 DEF Handlers, Handling, OwnSessionOf
<1> QED
  BY <1>1, <1>2, <1>3, HandlerStep

LEMMA ProxyStep == ProxyIInv /\ [ProxyNext]_proxyVars => ProxyIInv'
<1> SUFFICES ASSUME ProxyIInv, [ProxyNext]_proxyVars
             PROVE  ProxyIInv'
  OBVIOUS
<1>0. client \in [Clients -> ClientType]
  BY DEF ProxyIInv, ProxyTypeOK, ClientType
<1>1. CASE UNCHANGED proxyVars
  BY <1>1 DEF proxyVars, ProxyIInv, ProxyTypeOK, ActiveExact, OwnSession, StopOK, Handlers, Unadmitted
<1>2. CASE AcceptFails
  BY <1>2 DEF AcceptFails, ProxyIInv, ProxyTypeOK, ActiveExact, OwnSession, StopOK, Handlers, Unadmitted
<1>3. CASE StopBegins
  <2>1. \A c \in Clients :
          /\ client'[c] \in ClientType /\ client'[c].req = client[c].req /\ client'[c].by = client[c].by
          /\ client'[c].pc = IF client[c].pc = "backlog" THEN "closed" ELSE client[c].pc
    BY <1>0, <1>3 DEF StopBegins, ClientType
  <2>2. client' \in [Clients -> ClientType]
    BY <1>3, <2>1 DEF StopBegins
  <2>3. ProxyTypeOK'
    BY <1>3, <2>2 DEF StopBegins, ProxyIInv, ProxyTypeOK, ClientType
  <2>4. Handlers' = Handlers /\ Unadmitted' = Unadmitted
    BY <2>1 DEF Handlers, Unadmitted, Handling
  <2>5. ActiveExact'
    BY <1>3, <2>4 DEF StopBegins, ProxyIInv, ActiveExact, Handlers
  <2>6. OwnSession'
    BY <2>1 DEF ProxyIInv, OwnSession
  <2>7. StopOK'
    BY <1>3, <2>4 DEF StopBegins, ProxyIInv, StopOK
  <2> QED
    BY <2>3, <2>5, <2>6, <2>7 DEF ProxyIInv
<1>4. CASE StopWaits \/ StopCloses
  <2>1. UNCHANGED <<tcpProxy, accepting, listener, shuttingDown, activeConns, client, registry>>
    BY <1>4 DEF StopWaits, StopCloses
  <2>2. ActiveExact' /\ OwnSession' /\ Handlers' = Handlers /\ Unadmitted' = Unadmitted
    BY <2>1 DEF ProxyIInv, ActiveExact, OwnSession, Handlers, Unadmitted
  <2>3. CASE StopWaits
    <3>1. hurried' \in BOOLEAN /\ (~hurried' => ~accepting /\ Handlers = {})
      BY <2>3 DEF StopWaits, Waited, Handlers
    <3>2. stop' = "close" /\ sessionOpen' = sessionOpen /\ running' = running /\ stop = "wait"
      BY <2>3 DEF StopWaits
    <3>3. ProxyTypeOK'
      BY <2>1, <3>1, <3>2 DEF ProxyIInv, ProxyTypeOK
    <3>4. StopOK'
      BY <2>1, <2>2, <3>1, <3>2 DEF ProxyIInv, StopOK
    <3> QED
      BY <2>2, <3>3, <3>4 DEF ProxyIInv
  <2>4. CASE StopCloses
    <3>1. ProxyTypeOK'
      BY <2>1, <2>4 DEF StopCloses, ProxyIInv, ProxyTypeOK
    <3>2. StopOK'
      BY <2>1, <2>2, <2>4 DEF StopCloses, ProxyIInv, StopOK
    <3> QED
      BY <2>2, <3>1, <3>2 DEF ProxyIInv
  <2> QED
    BY <1>4, <2>3, <2>4
<1>5. ASSUME NEW i \in SessionIds, RegisterSession(i) \/ UnregisterSession(i) PROVE ProxyIInv'
  <2>1. UNCHANGED <<tcpProxy, accepting, listener, shuttingDown, running, activeConns, client,
                    sessionOpen, stop, hurried>>
    BY <1>5 DEF RegisterSession, UnregisterSession
  <2>2. registry' \subseteq SessionIds
    BY <1>5 DEF RegisterSession, UnregisterSession, ProxyIInv, ProxyTypeOK
  <2>3. ProxyTypeOK'
    BY <2>1, <2>2 DEF ProxyIInv, ProxyTypeOK
  <2>4. ActiveExact' /\ OwnSession' /\ StopOK'
    BY <2>1 DEF ProxyIInv, ActiveExact, OwnSession, StopOK, Handlers, Unadmitted
  <2> QED
    BY <2>3, <2>4 DEF ProxyIInv
<1>6. ASSUME NEW c \in Clients, NEW pc \in {"out", "backlog", "accepted", "closed"} \cup Handling
      PROVE  /\ [client[c] EXCEPT !.pc = pc] \in ClientType /\ [client[c] EXCEPT !.pc = pc].pc = pc
             /\ [client EXCEPT ![c].pc = pc] = [client EXCEPT ![c] = [client[c] EXCEPT !.pc = pc]]
  BY <1>0 DEF ClientType
<1>7. ASSUME NEW c \in Clients, NEW pc \in {"backlog", "accepted", "closed"},
             client[c].pc \in {"out", "backlog", "accepted"}, pc = "accepted" => accepting,
             client' = [client EXCEPT ![c].pc = pc], activeConns' = activeConns,
             UNCHANGED <<tcpProxy, accepting, listener, shuttingDown, running, registry, sessionOpen,
                         stop, hurried>>
      PROVE  ProxyIInv'
  <2> DEFINE r == [client[c] EXCEPT !.pc = pc]
  <2>1. r \in ClientType /\ r.pc = pc /\ client' = [client EXCEPT ![c] = r]
    BY <1>6, <1>7
  <2> HIDE DEF r
  <2>2. c \notin Handlers /\ r.pc \notin Handling /\ OwnSessionOf(r)
    BY <1>7, <2>1 DEF Handlers, Handling, OwnSessionOf
  <2> QED
    BY <1>7, <2>1, <2>2, HandlerStep
<1>8. ASSUME NEW c \in Clients, ClientDials(c) \/ Accept(c) PROVE ProxyIInv'
  BY <1>7, <1>8 DEF ClientDials, Accept
<1>9. ASSUME NEW c \in Clients, Admit(c) PROVE ProxyIInv'
  <2>1. CASE ~Room
    BY <1>7, <1>9, <2>1 DEF Admit
  <2>2. CASE Room
    <3> DEFINE r == [client[c] EXCEPT !.pc = "read"]
    <3>1. "read" \in Handling
      BY DEF Handling
    <3>2. r \in ClientType /\ r.pc = "read" /\ client' = [client EXCEPT ![c] = r]
      BY <1>6, <1>9, <2>2, <3>1 DEF Admit
    <3> HIDE DEF r
    <3>3. c \notin Handlers /\ c \in Unadmitted /\ OwnSessionOf(r)
      BY <1>9, <3>2 DEF Admit, Handlers, Handling, Unadmitted, OwnSessionOf
    <3>4. /\ activeConns' = activeConns + 1
          /\ UNCHANGED <<tcpProxy, accepting, listener, shuttingDown, running, registry, sessionOpen,
                         stop, hurried>>
      BY <1>9, <2>2 DEF Admit
    <3> QED
      BY <2>2, <3>1, <3>2, <3>3, <3>4, HandlerStep
  <2> QED
    BY <2>1, <2>2
<1>10. ASSUME NEW c \in Clients, NEW req \in ProxyRequests, ReadRequest(c, req) PROVE ProxyIInv'
  <2>1. CASE Ends(c)
    BY <1>10, <2>1, EndStep DEF ReadRequest, Handling
  <2>2. CASE client' = [client EXCEPT ![c].pc = "route", ![c].req = req] /\ UNCHANGED activeConns
    <3> DEFINE r == [client[c] EXCEPT !.pc = "route", !.req = req]
    <3>1. r \in ClientType /\ r.pc = "route"
      BY <1>0 DEF ClientType, Handling
    <3>2. client' = [client EXCEPT ![c] = r]
      BY <1>0, <2>2 DEF ClientType
    <3> HIDE DEF r
    <3>3. c \in Handlers /\ r.pc \in Handling /\ OwnSessionOf(r)
      BY <1>10, <3>1 DEF ReadRequest, Handlers, Handling, OwnSessionOf
    <3>4. UNCHANGED <<tcpProxy, accepting, listener, shuttingDown, running, registry, sessionOpen,
                      stop, hurried>>
      BY <1>10 DEF ReadRequest
    <3> QED
      BY <2>2, <3>1, <3>2, <3>3, <3>4, HandlerStep
  <2> QED
    BY <1>10, <2>1, <2>2 DEF ReadRequest
<1>11. ASSUME NEW c \in Clients, Route(c) PROVE ProxyIInv'
  <2>1. /\ client[c].pc = "route" /\ client[c].pc \in Handling
        /\ UNCHANGED <<tcpProxy, accepting, listener, shuttingDown, running, registry, sessionOpen,
                       stop, hurried>>
    BY <1>11 DEF Route, Handling
  <2>2. CASE Ends(c)
    BY <2>1, <2>2, EndStep
  <2>3. CASE HandleCONNECT(c)
    BY <2>1, <2>2, <2>3, ServeStep DEF HandleCONNECT, DialTarget
  <2>4. CASE HandleHTTPWithSession(c)
    <3>1. PICK by : by = SessionFor(client[c].req)
      OBVIOUS
    <3>2. CASE by = NoId
      BY <2>2, <2>4, <3>1, <3>2 DEF HandleHTTPWithSession
    <3>3. CASE by # NoId
      <4>1. registry \subseteq SessionIds
        BY DEF ProxyIInv, ProxyTypeOK
      <4>2. /\ by \in SessionIds \cup {NoId, "client", "default"}
            /\ client[c].req.session # NoId => by = client[c].req.session
        BY <3>1, <3>3, <4>1 DEF SessionFor
      <4> QED
        BY <2>1, <2>4, <3>1, <3>3, <4>2, ServeStep DEF HandleHTTPWithSession
    <3> QED
      BY <3>2, <3>3
  <2>5. CASE HandleHTTPDirect(c)
    BY <2>1, <2>5, ServeStep DEF HandleHTTPDirect
  <2> QED
    BY <1>11, <2>3, <2>4, <2>5 DEF Route
<1>12. ASSUME NEW c \in Clients, TunnelEnds(c) \/ SessionAnswers(c) \/ ClientAnswers(c) PROVE ProxyIInv'
  BY <1>12, EndStep DEF TunnelEnds, SessionAnswers, ClientAnswers, Finish, Handling
<1> QED
  BY <1>1, <1>2, <1>3, <1>4, <1>5, <1>8, <1>9, <1>10, <1>11, <1>12 DEF ProxyNext

\* The local proxy's limit counts exactly its handlers, Stop closes the default
\* session under none of them unless its ten seconds ran out, and a request that
\* names a session is sent through no other, for any number of connections.
THEOREM ProxyStaysSound == ProxySpec => []LocalProxySound
  BY ProxyIInvSound, ProxyInitOK, ProxyStep, PTL DEF ProxySpec

-----------------------------------------------------------------------------
(* CLibAsync                                                               *)

AsyncCallType ==
  [pc: AsyncSteps, id: CallbackIds \cup {0}, ready: BOOLEAN,
   ctx: {"live", "cancelled"}, out: {"none", "resp", "err"}]

\* What the tables and the calls in flight say of an id: it was issued, whoever
\* has taken its callback has taken it alone, and its cancel function belongs
\* to a request with that id.
AsyncIInv ==
  /\ AsyncTypeOK
  /\ 1 .. counter \subseteq CallbackIds
  /\ \A c \in AsyncCalls : call[c].id \in 0 .. counter /\ (call[c].pc = "idle" <=> call[c].id = 0)
  /\ \A i \in CallbackIds : invoked[i] \in {0, 1} /\ (invoked[i] = 1 => i \in 1 .. counter \ callbacks)
  /\ \A c \in AsyncCalls : call[c].pc = "invoke" =>
       /\ call[c].id \notin callbacks /\ invoked[call[c].id] = 0
       /\ \A d \in AsyncCalls \ {c} : call[d].pc = "invoke" => call[d].id # call[c].id
  /\ \A i \in CallbackIds : cancelFuncs[i] # NoCall =>
       call[cancelFuncs[i]].id = i /\ call[cancelFuncs[i]].pc \in {"run", "do", "take"}
  /\ RunningCancellable

LEMMA AsyncIInvSound ==
  AsyncIInv => AsyncTypeOK /\ CallbackOnce /\ CancelFuncsDrain /\ RunningCancellable
BY DEF AsyncIInv, CallbackOnce, CancelFuncsDrain

LEMMA NewCallType ==
  /\ NewCall \in AsyncCallType /\ NewCall.pc = "idle" /\ NewCall.id = 0
BY DEF NewCall, AsyncCallType, AsyncSteps

LEMMA AsyncInitOK == AsyncInit => AsyncIInv
<1> SUFFICES ASSUME AsyncInit PROVE AsyncIInv
  OBVIOUS
<1> USE AsyncAssumption DEF AsyncInit
<1>1. Cardinality(AsyncCalls) \in Nat
  BY FS_CardinalityType
<1>2. 0 \in 0 .. Cardinality(AsyncCalls)
  BY <1>1
<1>3. invoked \in [CallbackIds -> 0 .. Cardinality(AsyncCalls)]
  BY <1>2
<1>4. call \in [AsyncCalls -> AsyncCallType]
  BY NewCallType
<1>5. 1 .. counter = {}
  OBVIOUS
<1>6. AsyncTypeOK
  BY <1>3, <1>4, <1>5 DEF AsyncTypeOK, AsyncCallType
<1> QED
  BY <1>5, <1>6, NewCallType DEF AsyncIInv, RunningCancellable

\* One call goes on; its id stays, no table changes.  It was not about to call
\* back and is not now.
LEMMA OneAsyncCall ==
  ASSUME AsyncIInv, NEW c \in AsyncCalls, NEW r \in AsyncCallType,
         call' = [call EXCEPT ![c] = r], r.id = call[c].id,
         UNCHANGED <<counter, callbacks, cancelFuncs, invoked, dropped>>,
         inTable' \in BOOLEAN, live' \in BOOLEAN,
         r.pc # "idle", r.pc # "invoke", call[c].pc # "idle",
         r.pc \in {"run", "do"} => call[c].pc \in {"run", "do"},
         call[c].pc \in {"run", "do", "take"} => r.pc \in {"run", "do", "take"}
  PROVE  AsyncIInv'
<1> USE DEF AsyncIInv
<1>1. call \in [AsyncCalls -> AsyncCallType] /\ call' \in [AsyncCalls -> AsyncCallType]
      /\ call'[c] = r /\ \A d \in AsyncCalls \ {c} : call'[d] = call[d]
  BY DEF AsyncTypeOK, AsyncCallType
<1>2. AsyncTypeOK'
  BY <1>1 DEF AsyncTypeOK, AsyncCallType
<1>3. RunningCancellable'
  BY <1>1 DEF RunningCancellable
<1>4. \A i \in CallbackIds : cancelFuncs[i] \in AsyncCalls \cup {NoCall}
  BY DEF AsyncTypeOK
<1> QED
  BY <1>1, <1>2, <1>3, <1>4

LEMMA AsyncStep == AsyncIInv /\ [AsyncNext]_asyncVars => AsyncIInv'
<1> SUFFICES ASSUME AsyncIInv, [AsyncNext]_asyncVars
             PROVE  AsyncIInv'
  OBVIOUS
<1> USE AsyncAssumption
<1>1. call \in [AsyncCalls -> AsyncCallType] /\ AsyncTypeOK
      /\ counter \in Nat /\ 1 .. counter \subseteq CallbackIds
  BY DEF AsyncIInv, AsyncTypeOK, AsyncCallType
<1>2. CASE UNCHANGED asyncVars
  BY <1>2 DEF asyncVars, AsyncIInv, AsyncTypeOK, RunningCancellable
<1>3. CASE Register
  <2>1. counter' = counter + 1 /\ counter' \in CallbackIds /\ callbacks' = callbacks \cup {counter'}
        /\ UNCHANGED <<inTable, live, cancelFuncs, call, invoked, dropped>>
    BY <1>3 DEF Register
  <2>2. 1 .. counter' = 1 .. counter \cup {counter'} /\ counter' \notin 0 .. counter
        /\ 0 .. counter \subseteq 0 .. counter'
    BY <1>1, <2>1
  <2>3. AsyncTypeOK'
    BY <1>1, <2>1, <2>2 DEF AsyncTypeOK
  <2>4. RunningCancellable'
    BY <2>1, <2>2 DEF AsyncIInv, RunningCancellable
  <2> QED
    BY <1>1, <2>1, <2>2, <2>3, <2>4 DEF AsyncIInv
<1>4. CASE FreeSession \/ CloseSession
  <2>1. inTable' \in BOOLEAN /\ live' \in BOOLEAN
        /\ UNCHANGED <<counter, callbacks, cancelFuncs, call, invoked, dropped>>
    BY <1>1, <1>4 DEF FreeSession, CloseSession, AsyncTypeOK
  <2> QED
    BY <2>1 DEF AsyncIInv, AsyncTypeOK, RunningCancellable
<1>5. ASSUME NEW i \in CallbackIds, Unregister(i) PROVE AsyncIInv'
  BY <1>5 DEF Unregister, AsyncIInv, AsyncTypeOK, RunningCancellable
<1>6. ASSUME NEW i \in CallbackIds, CancelRequest(i) PROVE AsyncIInv'
  <2> DEFINE c == cancelFuncs[i]
             r == [call[c] EXCEPT !.ctx = "cancelled"]
  <2>1. c \in AsyncCalls /\ call[c].pc \in {"run", "do", "take"}
    BY <1>6 DEF CancelRequest, AsyncIInv, AsyncTypeOK
  <2>2. call' = [call EXCEPT ![c] = r]
        /\ UNCHANGED <<inTable, live, counter, callbacks, cancelFuncs, invoked, dropped>>
    BY <1>6 DEF CancelRequest
  <2>3. r \in AsyncCallType /\ r.pc = call[c].pc /\ r.id = call[c].id
    BY <1>1, <2>1 DEF AsyncCallType
  <2>4. inTable' \in BOOLEAN /\ live' \in BOOLEAN
    BY <1>1, <2>2 DEF AsyncTypeOK
  <2> HIDE DEF r, c
  <2> QED
    BY <2>1, <2>2, <2>3, <2>4, OneAsyncCall
<1>7. ASSUME NEW c \in AsyncCalls, NEW i \in CallbackIds, NEW d \in BOOLEAN, Start(c, i, d)
      PROVE  AsyncIInv'
  <2> DEFINE r == [NewCall EXCEPT !.pc = "store", !.id = i, !.ready = inTable /\ d]
  <2>1. call' = [call EXCEPT ![c] = r] /\ call[c].pc = "idle" /\ i \in 1 .. counter
        /\ UNCHANGED <<inTable, live, counter, callbacks, cancelFuncs, invoked, dropped>>
    BY <1>7 DEF Start
  <2>2. r \in AsyncCallType /\ r.pc = "store" /\ r.id = i
    BY <1>1, NewCallType DEF AsyncCallType, AsyncSteps, AsyncTypeOK
  <2> HIDE DEF r
  <2>3. call' \in [AsyncCalls -> AsyncCallType] /\ call'[c] = r
        /\ \A e \in AsyncCalls \ {c} : call'[e] = call[e]
    BY <1>1, <2>1, <2>2
  <2>4. AsyncTypeOK'
    BY <1>1, <2>1, <2>3 DEF AsyncTypeOK, AsyncCallType
  <2>5. RunningCancellable'
    BY <2>1, <2>2, <2>3 DEF AsyncIInv, RunningCancellable
  <2>6. i \in 0 .. counter /\ i # 0
    BY <1>1, <2>1
  <2>7. \A j \in CallbackIds : cancelFuncs[j] \in AsyncCalls \cup {NoCall}
    BY <1>1 DEF AsyncTypeOK
  <2> QED
    BY <2>1, <2>2, <2>3, <2>4, <2>5, <2>6, <2>7 DEF AsyncIInv
<1>8. ASSUME NEW c \in AsyncCalls, Store(c) PROVE AsyncIInv'
  <2> DEFINE r == [call[c] EXCEPT !.pc = "run"]
             i == call[c].id
  <2>1. call' = [call EXCEPT ![c] = r] /\ call[c].pc = "store"
        /\ cancelFuncs' = [cancelFuncs EXCEPT ![i] = c]
        /\ UNCHANGED <<inTable, live, counter, callbacks, invoked, dropped>>
    BY <1>8 DEF Store
  <2>2. r \in AsyncCallType /\ r.pc = "run" /\ r.id = i
    BY <1>1 DEF AsyncCallType, AsyncSteps
  <2>3. i \in 1 .. counter /\ i \in CallbackIds
    BY <1>1, <2>1 DEF AsyncIInv
  <2> HIDE DEF r
  <2>4. call' \in [AsyncCalls -> AsyncCallType] /\ call'[c] = r
        /\ \A e \in AsyncCalls \ {c} : call'[e] = call[e]
    BY <1>1, <2>1, <2>2
  <2>5. AsyncTypeOK'
    BY <1>1, <2>1, <2>3, <2>4 DEF AsyncTypeOK, AsyncCallType
  <2>6. \A j \in CallbackIds : cancelFuncs[j] \in AsyncCalls \cup {NoCall}
        /\ cancelFuncs'[j] = IF j = i THEN c ELSE cancelFuncs[j]
    BY <1>1, <2>1, <2>3 DEF AsyncTypeOK
  <2>7. RunningCancellable'
    BY <1>1, <2>1, <2>2, <2>3, <2>4, <2>6 DEF AsyncIInv, RunningCancellable
  <2>8. \A j \in CallbackIds : cancelFuncs'[j] # NoCall =>
          call'[cancelFuncs'[j]].id = j /\ call'[cancelFuncs'[j]].pc \in {"run", "do", "take"}
    BY <2>1, <2>2, <2>3, <2>4, <2>6 DEF AsyncIInv
  <2> QED
    BY <2>1, <2>2, <2>3, <2>4, <2>5, <2>7, <2>8 DEF AsyncIInv
<1>9. ASSUME NEW c \in AsyncCalls, Run(c) \/ DoEnds(c) PROVE AsyncIInv'
  <2>1. /\ call[c].pc \in {"run", "do"}
        /\ UNCHANGED <<inTable, live, counter, callbacks, cancelFuncs, invoked, dropped>>
    BY <1>9 DEF Run, DoEnds
  <2>2. inTable' \in BOOLEAN /\ live' \in BOOLEAN
    BY <1>1, <2>1 DEF AsyncTypeOK
  <2>3. ASSUME NEW out \in {"none", "resp", "err"}, NEW pc \in {"do", "take"}
        PROVE  /\ [call[c] EXCEPT !.pc = pc, !.out = out] \in AsyncCallType
               /\ [call[c] EXCEPT !.pc = pc, !.out = out].pc = pc
               /\ [call[c] EXCEPT !.pc = pc, !.out = out].id = call[c].id
               /\ [call EXCEPT ![c].pc = pc, ![c].out = out]
                    = [call EXCEPT ![c] = [call[c] EXCEPT !.pc = pc, !.out = out]]
               /\ [call[c] EXCEPT !.pc = pc] \in AsyncCallType
               /\ [call[c] EXCEPT !.pc = pc].pc = pc
               /\ [call[c] EXCEPT !.pc = pc].id = call[c].id
               /\ [call EXCEPT ![c].pc = pc] = [call EXCEPT ![c] = [call[c] EXCEPT !.pc = pc]]
    BY <1>1 DEF AsyncCallType, AsyncSteps
  <2>4. PICK r \in AsyncCallType : call' = [call EXCEPT ![c] = r] /\ r.id = call[c].id
                                   /\ r.pc \in {"do", "take"}
    <3>1. CASE Run(c)
      BY <3>1, <2>3, ZenonT(60) DEF Run
    <3>2. CASE DoEnds(c)
      <4>1. PICK out \in {"resp", "err"} : call' = [call EXCEPT ![c].pc = "take", ![c].out = out]
        BY <3>2 DEF DoEnds
      <4> QED
        BY <4>1, <2>3, ZenonT(60)
    <3> QED
      BY <1>9, <3>1, <3>2
  <2> QED
    BY <2>1, <2>2, <2>4, OneAsyncCall
<1>10. ASSUME NEW c \in AsyncCalls, Take(c) PROVE AsyncIInv'
  <2> DEFINE i == call[c].id
             pc == IF i \in callbacks THEN "invoke" ELSE "done"
             r == [call[c] EXCEPT !.pc = pc]
  <2>1. call' = [call EXCEPT ![c] = r] /\ call[c].pc = "take" /\ callbacks' = callbacks \ {i}
        /\ cancelFuncs' = [cancelFuncs EXCEPT ![i] = NoCall]
        /\ UNCHANGED <<inTable, live, counter, invoked, dropped>>
    BY <1>10 DEF Take, Taken
  <2>2. r \in AsyncCallType /\ r.pc = pc /\ r.id = i
    BY <1>1 DEF AsyncCallType, AsyncSteps
  <2>3. i \in 1 .. counter /\ i \in CallbackIds
    BY <1>1, <2>1 DEF AsyncIInv
  <2> HIDE DEF r
  <2>4. call' \in [AsyncCalls -> AsyncCallType] /\ call'[c] = r
        /\ \A e \in AsyncCalls \ {c} : call'[e] = call[e]
    BY <1>1, <2>1, <2>2
  <2>5. AsyncTypeOK'
    BY <1>1, <2>1, <2>3, <2>4 DEF AsyncTypeOK, AsyncCallType
  <2>6. \A j \in CallbackIds : cancelFuncs[j] \in AsyncCalls \cup {NoCall}
        /\ cancelFuncs'[j] = IF j = i THEN NoCall ELSE cancelFuncs[j]
    BY <1>1, <2>1, <2>3 DEF AsyncTypeOK
  <2>7. RunningCancellable'
    BY <1>1, <2>1, <2>2, <2>3, <2>4, <2>6 DEF AsyncIInv, RunningCancellable
  <2>8. \A j \in CallbackIds : cancelFuncs'[j] # NoCall =>
          call'[cancelFuncs'[j]].id = j /\ call'[cancelFuncs'[j]].pc \in {"run", "do", "take"}
    BY <2>1, <2>2, <2>3, <2>4, <2>6 DEF AsyncIInv
  <2>9. \A e \in AsyncCalls : call'[e].pc = "invoke" =>
          /\ call'[e].id \notin callbacks' /\ invoked'[call'[e].id] = 0
          /\ \A d \in AsyncCalls \ {e} : call'[d].pc = "invoke" => call'[d].id # call'[e].id
    <3>1. i \in callbacks => invoked[i] = 0
      BY <2>3 DEF AsyncIInv
    <3>2. \A e \in AsyncCalls \ {c} : call[e].pc = "invoke" => call[e].id \notin callbacks
      BY DEF AsyncIInv
    <3>3. r.pc = "invoke" => i \in callbacks
      BY <2>2
    <3> QED
      BY <2>1, <2>2, <2>4, <3>1, <3>2, <3>3 DEF AsyncIInv
  <2> QED
    BY <2>1, <2>2, <2>3, <2>4, <2>5, <2>7, <2>8, <2>9 DEF AsyncIInv
<1>11. ASSUME NEW c \in AsyncCalls, Invoke(c) PROVE AsyncIInv'
  <2> DEFINE i == call[c].id
             r == [call[c] EXCEPT !.pc = "done"]
  <2>1. call' = [call EXCEPT ![c] = r] /\ call[c].pc = "invoke"
        /\ invoked' = [invoked EXCEPT ![i] = invoked[i] + 1]
        /\ UNCHANGED <<inTable, live, counter, callbacks, cancelFuncs, dropped>>
    BY <1>11 DEF Invoke
  <2>2. r \in AsyncCallType /\ r.pc = "done" /\ r.id = i
    BY <1>1 DEF AsyncCallType, AsyncSteps
  <2>3. i \in 1 .. counter /\ i \in CallbackIds /\ i \notin callbacks /\ invoked[i] = 0
    BY <1>1, <2>1 DEF AsyncIInv
  <2> HIDE DEF r
  <2>4. call' \in [AsyncCalls -> AsyncCallType] /\ call'[c] = r
        /\ \A e \in AsyncCalls \ {c} : call'[e] = call[e]
    BY <1>1, <2>1, <2>2
  <2>5. 1 \in 0 .. Cardinality(AsyncCalls)
    <3>1. Cardinality(AsyncCalls) \in Nat /\ Cardinality(AsyncCalls) # 0
      BY FS_CardinalityType, FS_EmptySet
    <3> QED
      BY <3>1
  <2>6. \A j \in CallbackIds : invoked'[j] = IF j = i THEN 1 ELSE invoked[j]
    BY <1>1, <2>1, <2>3 DEF AsyncTypeOK
  <2>7. invoked' \in [CallbackIds -> 0 .. Cardinality(AsyncCalls)]
    BY <1>1, <2>1, <2>3, <2>5 DEF AsyncTypeOK
  <2>8. AsyncTypeOK'
    BY <1>1, <2>1, <2>4, <2>7 DEF AsyncTypeOK, AsyncCallType
  <2>9. RunningCancellable'
    BY <1>1, <2>1, <2>2, <2>3, <2>4 DEF AsyncIInv, RunningCancellable
  <2>10. \A j \in CallbackIds : cancelFuncs'[j] # NoCall =>
          call'[cancelFuncs'[j]].id = j /\ call'[cancelFuncs'[j]].pc \in {"run", "do", "take"}
    BY <1>1, <2>1, <2>2, <2>4 DEF AsyncIInv, AsyncTypeOK
  <2>11. \A e \in AsyncCalls : call'[e].pc = "invoke" =>
          /\ call'[e].id \notin callbacks' /\ invoked'[call'[e].id] = 0
          /\ \A d \in AsyncCalls \ {e} : call'[d].pc = "invoke" => call'[d].id # call'[e].id
    <3> SUFFICES ASSUME NEW e \in AsyncCalls \ {c}, call[e].pc = "invoke"
                 PROVE  /\ call[e].id \notin callbacks /\ invoked'[call[e].id] = 0
                        /\ \A d \in AsyncCalls \ {e} : call'[d].pc = "invoke" => call'[d].id # call[e].id
      BY <2>1, <2>2, <2>4
    <3>1. call[e].id # i /\ call[e].id \notin callbacks /\ invoked[call[e].id] = 0
          /\ call[e].id \in 1 .. counter
      BY <1>1, <2>1 DEF AsyncIInv
    <3>2. \A d \in AsyncCalls \ {e} : call[d].pc = "invoke" => call[d].id # call[e].id
      BY DEF AsyncIInv
    <3> QED
      BY <1>1, <2>2, <2>4, <2>6, <3>1, <3>2
  <2> QED
    BY <2>1, <2>2, <2>3, <2>4, <2>6, <2>8, <2>9, <2>10, <2>11 DEF AsyncIInv
<1> QED
  BY <1>2, <1>3, <1>4, <1>5, <1>6, <1>7, <1>8, <1>9, <1>10, <1>11
     DEF AsyncNext, Goroutine, GetAsync, PostAsync, RequestAsync

-----------------------------------------------------------------------------
(* CLibUpload                                                              *)

\* Only an attempt that never touched the body leaves the pipe open for the
\* next, so as long as it is open this attempt has read all that was accepted;
\* and the pipe ends with EOF only after finish.
UploadIInv ==
  /\ UploadTypeOK
  /\ (writeEnd = "eof" \/ \E h \in Hosts : host[h].pc = "close") => finished
  /\ readEnd = "open" /\ request.pc # "done" => request.read = accepted
  /\ readEnd = "open" /\ request.pc \in {"none", "dial"} => request.read = 0
  /\ UploadWhole

LEMMA UploadInitOK == UploadInit => UploadIInv
<1> SUFFICES ASSUME UploadInit PROVE UploadIInv
  OBVIOUS
<1> USE UploadAssumption DEF UploadInit
<1>1. host \in [Hosts -> [op: Ops, pc: HostSteps]]
  BY DEF Ops, HostSteps
<1>2. 1 \in 1 .. Tries
  OBVIOUS
<1>3. request \in [pc: {"none", "dial", "sending", "whole", "done"}, try: 1 .. Tries, read: Nat]
  BY <1>2
<1> QED
  BY <1>1, <1>3 DEF UploadIInv, UploadTypeOK, UploadWhole

LEMMA UploadStep == UploadIInv /\ [UploadNext]_uploadVars => UploadIInv'
<1> SUFFICES ASSUME UploadIInv, [UploadNext]_uploadVars
             PROVE  UploadIInv'
  OBVIOUS
<1> USE UploadAssumption DEF UploadIInv, UploadTypeOK
<1>1. ASSUME NEW h \in Hosts, NEW op \in Ops, NEW pc \in HostSteps
      PROVE  /\ [host EXCEPT ![h].pc = pc] \in [Hosts -> [op: Ops, pc: HostSteps]]
             /\ [host EXCEPT ![h] = [op |-> op, pc |-> pc]] \in [Hosts -> [op: Ops, pc: HostSteps]]
             /\ \A g \in Hosts : /\ [host EXCEPT ![h].pc = pc][g].pc = IF g = h THEN pc ELSE host[g].pc
                                 /\ [host EXCEPT ![h] = [op |-> op, pc |-> pc]][g].pc
                                      = IF g = h THEN pc ELSE host[g].pc
  OBVIOUS
<1>2. \A p \in {"none", "dial", "sending", "whole", "done"} :
        /\ [request EXCEPT !.pc = p]
             \in [pc: {"none", "dial", "sending", "whole", "done"}, try: 1 .. Tries, read: Nat]
        /\ [request EXCEPT !.pc = p].pc = p /\ [request EXCEPT !.pc = p].read = request.read
  OBVIOUS
<1>3. ASSUME NEW h \in Hosts, NEW op \in Ops \ {"none"}, Enter(h, op) PROVE UploadIInv'
  <2>1. PICK pc \in {"lock", "done"} : host' = [host EXCEPT ![h] = [op |-> op, pc |-> pc]]
    BY <1>3 DEF Enter
  <2>2. handle' \in BOOLEAN
        /\ UNCHANGED <<mu, finished, writeEnd, readEnd, accepted, request, responseCh, touched>>
    BY <1>3 DEF Enter
  <2>3. pc \in HostSteps /\ pc # "close"
    BY DEF HostSteps
  <2> QED
    BY <1>1, <2>1, <2>2, <2>3 DEF UploadWhole
<1>4. ASSUME NEW h \in Hosts, WriteLock(h) \/ WriteFails(h) \/ FinishReturns(h) PROVE UploadIInv'
  <2>1. PICK pc \in {"pipe", "done"} : host' = [host EXCEPT ![h].pc = pc]
    BY <1>4 DEF WriteLock, WriteFails, FinishReturns, HostGoes
  <2>2. mu' \in Hosts \cup {NoHost} /\ responseCh' \in {"empty", "resp", "err"}
        /\ UNCHANGED <<handle, finished, writeEnd, readEnd, accepted, request, touched>>
    BY <1>4 DEF WriteLock, WriteFails, FinishReturns
  <2>3. pc \in HostSteps /\ pc # "close"
    BY DEF HostSteps
  <2> QED
    BY <1>1, <2>1, <2>2, <2>3 DEF UploadWhole
<1>5. ASSUME NEW h \in Hosts, FinishLock(h) PROVE UploadIInv'
  <2>1. PICK pc \in {"close", "done"} : host' = [host EXCEPT ![h].pc = pc]
    BY <1>5 DEF FinishLock, HostGoes
  <2>2. finished' = TRUE
        /\ UNCHANGED <<handle, mu, writeEnd, readEnd, accepted, request, responseCh, touched>>
    BY <1>5 DEF FinishLock
  <2>3. pc \in HostSteps
    BY DEF HostSteps
  <2> QED
    BY <1>1, <2>1, <2>2, <2>3 DEF UploadWhole
<1>6. ASSUME NEW h \in Hosts, FinishClose(h) PROVE UploadIInv'
  <2>1. host' = [host EXCEPT ![h].pc = "wait"] /\ host[h].pc = "close"
    BY <1>6 DEF FinishClose, HostGoes
  <2>2. finished /\ writeEnd' \in {"open", "eof", "error"}
        /\ UNCHANGED <<handle, mu, finished, readEnd, accepted, request, responseCh, touched>>
    BY <1>6, <2>1 DEF FinishClose
  <2>3. "wait" \in HostSteps
    BY DEF HostSteps
  <2> QED
    BY <1>1, <2>1, <2>2, <2>3 DEF UploadWhole
<1>7. ASSUME NEW h \in Hosts, CancelLock(h) PROVE UploadIInv'
  <2>1. host' = [host EXCEPT ![h].pc = "done"]
    BY <1>7 DEF CancelLock, HostGoes
  <2>2. writeEnd' = (IF finished THEN writeEnd ELSE "error")
        /\ UNCHANGED <<handle, mu, finished, readEnd, accepted, request, responseCh, touched>>
    BY <1>7 DEF CancelLock
  <2>3. "done" \in HostSteps
    BY DEF HostSteps
  <2> QED
    BY <1>1, <2>1, <2>2, <2>3 DEF UploadWhole
<1>8. CASE UploadStart
  BY <1>2, <1>8 DEF UploadStart, UploadWhole
<1>9. CASE Dialled
  BY <1>2, <1>9 DEF Dialled, UploadWhole
<1>10. CASE ReadEOF
  BY <1>2, <1>10 DEF ReadEOF, UploadWhole
<1>11. ASSUME NEW h \in Hosts, ReadChunk(h) PROVE UploadIInv'
  <2>1. host' = [host EXCEPT ![h].pc = "done"] /\ mu' = NoHost
    BY <1>11 DEF ReadChunk, HostGoes
  <2>2. request.pc = "sending" /\ readEnd = "open"
        /\ request' = [request EXCEPT !.read = request.read + 1] /\ accepted' = accepted + 1
        /\ UNCHANGED <<handle, finished, writeEnd, readEnd, responseCh, touched>>
    BY <1>11 DEF ReadChunk
  <2>3. request' \in [pc: {"none", "dial", "sending", "whole", "done"}, try: 1 .. Tries, read: Nat]
        /\ request'.pc = "sending" /\ request'.read = request.read + 1
    BY <2>2
  <2>4. "done" \in HostSteps
    BY DEF HostSteps
  <2> QED
    BY <1>1, <2>1, <2>2, <2>3, <2>4 DEF UploadWhole
<1>12. ASSUME DialFails \/ SendFails \/ Responds PROVE UploadIInv'
  <2>1. UNCHANGED <<handle, mu, finished, writeEnd, host, accepted, touched>>
        /\ readEnd' \in {readEnd, "closed"}
    BY <1>12 DEF DialFails, SendFails, Responds
  <2>2. \/ request'.pc = "done"
           /\ request' \in [pc: {"none", "dial", "sending", "whole", "done"}, try: 1 .. Tries, read: Nat]
           /\ responseCh' \in {"empty", "resp", "err"}
        \/ request.try < Tries /\ request' = [pc |-> "dial", try |-> request.try + 1, read |-> 0]
           /\ UNCHANGED responseCh
    BY <1>2, <1>12 DEF DialFails, SendFails, Responds, FailsOrRetries, Answer
  <2>3. CASE request'.pc = "done"
           /\ request' \in [pc: {"none", "dial", "sending", "whole", "done"}, try: 1 .. Tries, read: Nat]
           /\ responseCh' \in {"empty", "resp", "err"}
    BY <2>1, <2>3 DEF UploadWhole
  <2>4. CASE request.try < Tries /\ request' = [pc |-> "dial", try |-> request.try + 1, read |-> 0]
             /\ UNCHANGED responseCh
    <3>1. request.try + 1 \in 1 .. Tries
      BY <2>4
    <3>2. request' \in [pc: {"none", "dial", "sending", "whole", "done"}, try: 1 .. Tries, read: Nat]
          /\ request'.pc = "dial" /\ request'.read = 0
      BY <2>4, <3>1
    <3>3. readEnd' = "open" => readEnd = "open" /\ request.pc = "dial"
      BY <1>12, <2>4 DEF DialFails, SendFails, Responds, Answer
    <3> QED
      BY <2>1, <2>4, <3>2, <3>3 DEF UploadWhole
  <2> QED
    BY <2>2, <2>3, <2>4
<1>13. CASE UNCHANGED uploadVars
  BY <1>13 DEF uploadVars, UploadWhole
<1> QED
  BY <1>3, <1>4, <1>5, <1>6, <1>7, <1>8, <1>9, <1>10, <1>11, <1>12, <1>13
     DEF UploadNext, RequestStep, HostStep

-----------------------------------------------------------------------------
(* CLibCache                                                               *)

LookupType ==
  [pc: {"idle", "wait", "cleanup", "done"}, kind: CacheKinds,
   id: RequestIds \cup {0}, got: Values \cup {NoValue}]

AnswerType ==
  [pc: {"idle", "send", "done"}, kind: CacheKinds, id: RequestIds \cup {0},
   value: Values \cup {NoValue}]

Asked == {l \in Lookups : lookup[l].pc # "idle"}

\* Every call that has started has an id of its own, as many as the counter has
\* issued; while a call waits, its channel is what first reached it, and nothing
\* reaches the channel of an id that was not issued.
CacheIInv ==
  /\ CacheTypeOK
  /\ requestID = Cardinality(Asked)
  /\ \A l \in Lookups : lookup[l].id \in 0 .. requestID /\ (lookup[l].pc = "idle" <=> lookup[l].id = 0)
  /\ \A l \in Lookups : lookup[l].got # NoValue => lookup[l].pc \in {"cleanup", "done"}
  /\ \A l, m \in Lookups : l # m /\ lookup[l].id # 0 => lookup[m].id # lookup[l].id
  /\ \A l \in Lookups : lookup[l].pc = "wait" => channel[lookup[l].id] = first[lookup[l].id]
  /\ \A l \in Lookups : lookup[l].got # NoValue => lookup[l].got = first[lookup[l].id]
  /\ \A a \in Answers : answer[a].id <= requestID /\ (answer[a].pc = "send" => answer[a].id \in RequestIds)
  /\ \A i \in RequestIds : i > requestID => channel[i] = NoValue /\ first[i] = NoValue
  /\ \A k \in CacheKinds : \A i \in table[k] : i <= requestID
  /\ RequestsCleanedUp

LEMMA CacheIInvSound == CacheIInv => CacheTypeOK /\ FirstOwnAnswer /\ RequestsCleanedUp
<1> SUFFICES ASSUME CacheIInv PROVE FirstOwnAnswer
  BY DEF CacheIInv
<1>1. \A l \in Lookups : lookup[l].got # NoValue => lookup[l].id # 0
  BY DEF CacheIInv
<1> QED
  BY <1>1 DEF CacheIInv, FirstOwnAnswer

LEMMA LookupsFinite == IsFiniteSet(Lookups) /\ Cardinality(Lookups) \in Nat
BY CacheAssumption, FS_CardinalityType

LEMMA CacheInitOK == CacheInit => CacheIInv
<1> SUFFICES ASSUME CacheInit PROVE CacheIInv
  OBVIOUS
<1> USE CacheAssumption DEF CacheInit
<1>1. \A l \in Lookups : lookup[l] \in LookupType /\ lookup[l].pc = "idle" /\ lookup[l].id = 0
                         /\ lookup[l].got = NoValue
  BY DEF LookupType, CacheKinds
<1>2. \A a \in Answers : answer[a] \in AnswerType /\ answer[a].pc = "idle" /\ answer[a].id = 0
  BY DEF AnswerType, CacheKinds
<1>3. lookup \in [Lookups -> LookupType] /\ answer \in [Answers -> AnswerType]
  BY <1>1, <1>2
<1>4. 0 \in 0 .. Cardinality(Lookups)
  BY LookupsFinite
<1>5. CacheTypeOK
  BY <1>3, <1>4 DEF CacheTypeOK, LookupType, AnswerType
<1>6. Asked = {} /\ Cardinality({}) = 0
  BY <1>1, FS_EmptySet DEF Asked
<1>7. RequestsCleanedUp
  BY DEF RequestsCleanedUp
<1> QED
  BY <1>1, <1>2, <1>5, <1>6, <1>7 DEF CacheIInv

\* A call is started: it takes the next id.
LEMMA AskStep ==
  ASSUME CacheIInv, NEW l \in Lookups, NEW k \in CacheKinds, Ask(l, k)
  PROVE  CacheIInv'
<1> USE CacheAssumption
<1> DEFINE n == requestID + 1
           r == [pc |-> "wait", kind |-> k, id |-> n, got |-> NoValue]
<1>1. lookup[l].pc = "idle" /\ requestID' = n /\ lookup' = [lookup EXCEPT ![l] = r]
      /\ table' = [table EXCEPT ![k] = table[k] \cup {n}] /\ UNCHANGED <<channel, answer, first>>
  BY DEF Ask, NextId
<1>2. lookup \in [Lookups -> LookupType] /\ table \in [CacheKinds -> SUBSET RequestIds]
      /\ answer \in [Answers -> AnswerType] /\ requestID \in Nat
      /\ channel \in [RequestIds -> Values \cup {NoValue}]
      /\ first \in [RequestIds -> Values \cup {NoValue}]
  BY LookupsFinite DEF CacheIInv, CacheTypeOK, LookupType, AnswerType
<1>3. l \notin Asked /\ Asked \cup {l} \subseteq Lookups /\ IsFiniteSet(Asked)
  BY <1>1, LookupsFinite, FS_Subset DEF Asked
<1>4. Cardinality(Asked \cup {l}) = Cardinality(Asked) + 1
  BY <1>3, FS_AddElement
<1>5. Cardinality(Asked \cup {l}) <= Cardinality(Lookups)
  BY <1>3, LookupsFinite, FS_Subset
<1>6. n = Cardinality(Asked \cup {l}) /\ n \in RequestIds /\ n \in 0 .. Cardinality(Lookups)
  BY <1>2, <1>4, <1>5, LookupsFinite DEF CacheIInv, RequestIds
<1>7. r \in LookupType /\ r.pc = "wait" /\ r.id = n /\ r.got = NoValue /\ r.kind = k
  BY <1>6 DEF LookupType
<1> HIDE DEF r
<1>8. lookup' \in [Lookups -> LookupType] /\ lookup'[l] = r
      /\ \A m \in Lookups \ {l} : lookup'[m] = lookup[m]
  BY <1>1, <1>2, <1>7
<1>9. Asked' = Asked \cup {l}
  BY <1>7, <1>8 DEF Asked
<1>10. table' \in [CacheKinds -> SUBSET RequestIds]
       /\ \A j \in CacheKinds : table'[j] = IF j = k THEN table[j] \cup {n} ELSE table[j]
  BY <1>1, <1>2, <1>6
<1>11. CacheTypeOK'
  BY <1>1, <1>2, <1>6, <1>8, <1>10 DEF CacheTypeOK, LookupType, AnswerType
<1>12. channel[n] = NoValue /\ first[n] = NoValue
  BY <1>2, <1>6 DEF CacheIInv
<1>13. RequestsCleanedUp'
  <2> SUFFICES ASSUME NEW j \in CacheKinds, NEW i \in table'[j]
               PROVE  \E m \in Lookups : lookup'[m].id = i /\ lookup'[m].kind = j
                                         /\ lookup'[m].pc \in {"wait", "cleanup"}
    BY DEF RequestsCleanedUp
  <2>1. CASE j = k /\ i = n
    BY <2>1, <1>7, <1>8
  <2>2. CASE i \in table[j]
    <3>1. PICK m \in Lookups : lookup[m].id = i /\ lookup[m].kind = j
                               /\ lookup[m].pc \in {"wait", "cleanup"}
      BY <2>2 DEF CacheIInv, RequestsCleanedUp
    <3> QED
      BY <1>1, <1>8, <3>1
  <2> QED
    BY <1>10, <2>1, <2>2
<1>14. \A m \in Lookups : lookup[m].id \in 0 .. requestID /\ lookup[m].id # n
  BY <1>2 DEF CacheIInv
<1>15. \A m \in Lookups : lookup'[m].id \in 0 .. requestID' /\ (lookup'[m].pc = "idle" <=> lookup'[m].id = 0)
  BY <1>1, <1>2, <1>7, <1>8 DEF CacheIInv
<1>16. \A i, m \in Lookups : i # m /\ lookup'[i].id # 0 => lookup'[m].id # lookup'[i].id
  BY <1>7, <1>8, <1>14 DEF CacheIInv
<1>17. \A m \in Lookups :
         /\ lookup'[m].pc = "wait" => channel'[lookup'[m].id] = first'[lookup'[m].id]
         /\ lookup'[m].got # NoValue =>
              lookup'[m].got = first'[lookup'[m].id] /\ lookup'[m].pc \in {"cleanup", "done"}
  BY <1>1, <1>7, <1>8, <1>12 DEF CacheIInv
<1>18. \A a \in Answers : answer'[a].id <= requestID' /\ (answer'[a].pc = "send" => answer'[a].id \in RequestIds)
  <2>1. \A a \in Answers : answer[a].id \in Nat
    BY <1>2, LookupsFinite DEF AnswerType, RequestIds
  <2> QED
    BY <1>1, <1>2, <2>1 DEF CacheIInv
<1>19. \A i \in RequestIds : i > requestID' => channel'[i] = NoValue /\ first'[i] = NoValue
  BY <1>1, <1>2, LookupsFinite DEF CacheIInv, RequestIds
<1>20. \A j \in CacheKinds : \A i \in table'[j] : i <= requestID'
  <2>1. \A j \in CacheKinds : \A i \in table[j] : i \in Nat /\ i <= requestID
    BY <1>2, LookupsFinite DEF CacheIInv, RequestIds
  <2> QED
    BY <1>1, <1>2, <1>10, <2>1
<1> QED
  BY <1>1, <1>6, <1>9, <1>11, <1>13, <1>15, <1>16, <1>17, <1>18, <1>19, <1>20 DEF CacheIInv

LEMMA CacheStep == CacheIInv /\ [CacheNext]_cacheVars => CacheIInv'
<1> SUFFICES ASSUME CacheIInv, [CacheNext]_cacheVars
             PROVE  CacheIInv'
  OBVIOUS
<1> USE CacheAssumption
<1>1. lookup \in [Lookups -> LookupType] /\ table \in [CacheKinds -> SUBSET RequestIds]
      /\ answer \in [Answers -> AnswerType] /\ requestID \in Nat
      /\ channel \in [RequestIds -> Values \cup {NoValue}]
      /\ first \in [RequestIds -> Values \cup {NoValue}] /\ CacheTypeOK
  BY LookupsFinite DEF CacheIInv, CacheTypeOK, LookupType, AnswerType
<1>2. ASSUME NEW l \in Lookups, Receive(l) \/ TimeOut(l) PROVE CacheIInv'
  <2> DEFINE i == lookup[l].id
  <2>1. i \in RequestIds /\ lookup[l].pc = "wait" /\ lookup[l].got = NoValue /\ channel[i] = first[i]
    BY <1>1, <1>2 DEF Receive, TimeOut, CacheIInv, LookupType
  <2>2. PICK r \in LookupType :
          /\ lookup' = [lookup EXCEPT ![l] = r]
          /\ r.pc = "cleanup" /\ r.id = i /\ r.kind = lookup[l].kind
          /\ r.got # NoValue => r.got = first[i]
    <3>1. CASE Receive(l)
      <4> DEFINE r == [lookup[l] EXCEPT !.pc = "cleanup", !.got = channel[i]]
      <4>1. lookup' = [lookup EXCEPT ![l] = r]
        BY <3>1 DEF Receive
      <4>2. r \in LookupType /\ r.pc = "cleanup" /\ r.id = i /\ r.kind = lookup[l].kind
            /\ r.got = channel[i]
        BY <1>1, <2>1 DEF LookupType
      <4> HIDE DEF r
      <4> QED
        BY <2>1, <4>1, <4>2
    <3>2. CASE TimeOut(l)
      <4> DEFINE r == [lookup[l] EXCEPT !.pc = "cleanup"]
      <4>1. lookup' = [lookup EXCEPT ![l] = r]
        BY <3>2 DEF TimeOut
      <4>2. r \in LookupType /\ r.pc = "cleanup" /\ r.id = i /\ r.kind = lookup[l].kind
            /\ r.got = NoValue
        BY <1>1, <2>1 DEF LookupType
      <4> HIDE DEF r
      <4> QED
        BY <4>1, <4>2
    <3> QED
      BY <1>2, <3>1, <3>2
  <2>3. lookup' \in [Lookups -> LookupType] /\ lookup'[l] = r
        /\ \A m \in Lookups \ {l} : lookup'[m] = lookup[m]
    BY <1>1, <2>2
  <2>4. UNCHANGED <<requestID, table, answer, first>>
        /\ channel' \in [RequestIds -> Values \cup {NoValue}]
        /\ \A j \in RequestIds : j # i => channel'[j] = channel[j]
    BY <1>1, <1>2, <2>1 DEF Receive, TimeOut
  <2>5. Asked' = Asked
    BY <2>1, <2>2, <2>3 DEF Asked
  <2>6. CacheTypeOK'
    BY <1>1, <2>3, <2>4 DEF CacheTypeOK, LookupType, AnswerType
  <2>7. RequestsCleanedUp'
    BY <2>1, <2>2, <2>3, <2>4 DEF CacheIInv, RequestsCleanedUp
  <2>8. \A m \in Lookups : lookup'[m].id = lookup[m].id /\ (lookup'[m].pc = "idle" <=> lookup[m].pc = "idle")
    BY <2>1, <2>2, <2>3
  <2>9. \A m \in Lookups :
          /\ lookup'[m].pc = "wait" => channel'[lookup'[m].id] = first'[lookup'[m].id]
          /\ lookup'[m].got # NoValue =>
               lookup'[m].got = first'[lookup'[m].id] /\ lookup'[m].pc \in {"cleanup", "done"}
    <3> SUFFICES ASSUME NEW m \in Lookups \ {l}
                 PROVE  /\ lookup[m].pc = "wait" => channel'[lookup[m].id] = first[lookup[m].id]
                        /\ lookup[m].got # NoValue =>
                             lookup[m].got = first[lookup[m].id] /\ lookup[m].pc \in {"cleanup", "done"}
      BY <2>2, <2>3, <2>4
    <3>1. lookup[m].pc = "wait" => lookup[m].id \in RequestIds /\ lookup[m].id # i
      BY <1>1, <2>1 DEF CacheIInv, LookupType
    <3> QED
      BY <2>4, <3>1 DEF CacheIInv
  <2>10. \A j \in RequestIds : j > requestID' => channel'[j] = NoValue /\ first'[j] = NoValue
    <3>1. i <= requestID
      BY <1>1 DEF CacheIInv
    <3>2. \A j \in RequestIds : j > requestID => j # i
      BY <1>1, <3>1, <2>1, LookupsFinite DEF RequestIds
    <3> QED
      BY <2>4, <3>2 DEF CacheIInv
  <2> QED
    BY <2>4, <2>5, <2>6, <2>7, <2>8, <2>9, <2>10 DEF CacheIInv
<1>3. ASSUME NEW l \in Lookups, CleanUp(l) PROVE CacheIInv'
  <2> DEFINE k == lookup[l].kind
             r == [lookup[l] EXCEPT !.pc = "done"]
  <2>1. lookup[l].pc = "cleanup" /\ lookup' = [lookup EXCEPT ![l] = r]
        /\ table' = [table EXCEPT ![k] = table[k] \ {lookup[l].id}]
        /\ UNCHANGED <<requestID, channel, answer, first>>
    BY <1>3 DEF CleanUp
  <2>2. r \in LookupType /\ r.pc = "done" /\ r.id = lookup[l].id /\ r.kind = k /\ r.got = lookup[l].got
        /\ k \in CacheKinds
    BY <1>1 DEF LookupType
  <2> HIDE DEF r
  <2>3. lookup' \in [Lookups -> LookupType] /\ lookup'[l] = r
        /\ \A m \in Lookups \ {l} : lookup'[m] = lookup[m]
    BY <1>1, <2>1, <2>2
  <2>4. table' \in [CacheKinds -> SUBSET RequestIds]
        /\ \A j \in CacheKinds : table'[j] = IF j = k THEN table[j] \ {lookup[l].id} ELSE table[j]
    BY <1>1, <2>1, <2>2
  <2>5. Asked' = Asked
    BY <2>1, <2>2, <2>3 DEF Asked
  <2>6. CacheTypeOK'
    BY <1>1, <2>1, <2>3, <2>4 DEF CacheTypeOK, LookupType, AnswerType
  <2>7. RequestsCleanedUp'
    <3> SUFFICES ASSUME NEW j \in CacheKinds, NEW i \in table'[j]
                 PROVE  \E m \in Lookups : lookup'[m].id = i /\ lookup'[m].kind = j
                                           /\ lookup'[m].pc \in {"wait", "cleanup"}
      BY DEF RequestsCleanedUp
    <3>1. i \in table[j] /\ ~(j = k /\ i = lookup[l].id)
      BY <2>4
    <3>2. PICK m \in Lookups : lookup[m].id = i /\ lookup[m].kind = j
                               /\ lookup[m].pc \in {"wait", "cleanup"}
      BY <3>1 DEF CacheIInv, RequestsCleanedUp
    <3> QED
      BY <2>3, <3>1, <3>2
  <2>8. \A m \in Lookups : /\ lookup'[m].id = lookup[m].id /\ lookup'[m].got = lookup[m].got
                           /\ lookup'[m].pc = "idle" <=> lookup[m].pc = "idle"
                           /\ lookup'[m].pc = "wait" => lookup[m].pc = "wait"
                           /\ lookup[m].pc \in {"cleanup", "done"} => lookup'[m].pc \in {"cleanup", "done"}
    BY <2>1, <2>2, <2>3
  <2>9. \A j \in CacheKinds : table'[j] \subseteq table[j]
    BY <2>4
  <2> QED
    BY <2>1, <2>5, <2>6, <2>7, <2>8, <2>9 DEF CacheIInv
<1>4. ASSUME NEW a \in Answers, NEW k \in CacheKinds, NEW i \in RequestIds, NEW v \in Values,
             AnswerFinds(a, k, i, v)
      PROVE  CacheIInv'
  <2> DEFINE r == [pc |-> IF i \in table[k] THEN "send" ELSE "done", kind |-> k, id |-> i, value |-> v]
  <2>1. answer' = [answer EXCEPT ![a] = r] /\ i <= requestID
        /\ UNCHANGED <<requestID, table, channel, lookup, first>>
    BY <1>4 DEF AnswerFinds
  <2>2. r \in AnswerType /\ r.id = i
    BY DEF AnswerType
  <2> HIDE DEF r
  <2>3. answer' \in [Answers -> AnswerType] /\ answer'[a] = r
        /\ \A b \in Answers \ {a} : answer'[b] = answer[b]
    BY <1>1, <2>1, <2>2
  <2>4. CacheTypeOK' /\ Asked' = Asked /\ RequestsCleanedUp'
    BY <1>1, <2>1, <2>3 DEF CacheTypeOK, LookupType, AnswerType, Asked, CacheIInv, RequestsCleanedUp
  <2> QED
    BY <2>1, <2>2, <2>3, <2>4 DEF CacheIInv
<1>5. ASSUME NEW a \in Answers, AnswerSends(a) PROVE CacheIInv'
  <2> DEFINE i == answer[a].id
             v == answer[a].value
             r == [answer[a] EXCEPT !.pc = "done"]
  <2>1. answer[a].pc = "send" /\ answer' = [answer EXCEPT ![a] = r]
        /\ channel' = [channel EXCEPT ![i] = IF channel[i] = NoValue THEN v ELSE channel[i]]
        /\ first' = [first EXCEPT ![i] = IF first[i] = NoValue THEN v ELSE first[i]]
        /\ UNCHANGED <<requestID, table, lookup>>
    BY <1>5 DEF AnswerSends
  <2>2. r \in AnswerType /\ r.id = i /\ r.pc = "done" /\ i \in RequestIds /\ i <= requestID
        /\ v \in Values \cup {NoValue}
    BY <1>1, <2>1 DEF AnswerType, CacheIInv
  <2> HIDE DEF r
  <2>3. answer' \in [Answers -> AnswerType] /\ answer'[a] = r
        /\ \A b \in Answers \ {a} : answer'[b] = answer[b]
    BY <1>1, <2>1, <2>2
  <2>4. channel' \in [RequestIds -> Values \cup {NoValue}] /\ first' \in [RequestIds -> Values \cup {NoValue}]
        /\ \A j \in RequestIds :
             /\ j # i => channel'[j] = channel[j] /\ first'[j] = first[j]
             /\ first[j] # NoValue => first'[j] = first[j]
             /\ channel[j] = first[j] => channel'[j] = first'[j]
    BY <1>1, <2>1, <2>2
  <2>5. CacheTypeOK'
    BY <1>1, <2>1, <2>3, <2>4 DEF CacheTypeOK, LookupType, AnswerType
  <2>6. Asked' = Asked /\ RequestsCleanedUp'
    BY <2>1 DEF Asked, CacheIInv, RequestsCleanedUp
  <2>7. \A l \in Lookups : lookup[l].pc # "idle" => lookup[l].id \in RequestIds
    BY <1>1 DEF CacheIInv, LookupType
  <2>8. \A l \in Lookups :
          /\ lookup'[l].pc = "wait" => channel'[lookup'[l].id] = first'[lookup'[l].id]
          /\ lookup'[l].got # NoValue => lookup'[l].got = first'[lookup'[l].id]
    BY <2>1, <2>4, <2>7 DEF CacheIInv
  <2>9. \A j \in RequestIds : j > requestID' => channel'[j] = NoValue /\ first'[j] = NoValue
    <3>1. \A j \in RequestIds : j > requestID => j # i
      BY <1>1, <2>2, LookupsFinite DEF RequestIds
    <3> QED
      BY <2>1, <2>4, <3>1 DEF CacheIInv
  <2> QED
    BY <2>1, <2>2, <2>3, <2>5, <2>6, <2>8, <2>9 DEF CacheIInv
<1>6. CASE UNCHANGED cacheVars
  BY <1>6 DEF cacheVars, CacheIInv, CacheTypeOK, Asked, RequestsCleanedUp
<1>7. "get" \in CacheKinds /\ "op" \in CacheKinds
  BY DEF CacheKinds
<1> QED
  BY <1>2, <1>3, <1>4, <1>5, <1>6, <1>7, AskStep
     DEF CacheNext, LookupStep, CacheGet, CacheGetECHConfig, CachePut, CacheDelete, CachePutECHConfig

-----------------------------------------------------------------------------
\* A callback runs at most once and a running request can be cancelled; what a
\* server took for a whole upload is whole; a lookup in the host's cache gets
\* the first answer to its own request and leaves nothing behind: for any number
\* of requests, ids, host threads, attempts, lookups and answers.
THEOREM HostsServedExactly == CLibSpec => []CLibInv
<1> DEFINE I == AsyncIInv /\ UploadIInv /\ CacheIInv
<1>1. CLibInit => I
  BY AsyncInitOK, UploadInitOK, CacheInitOK DEF CLibInit
<1>2. I /\ [CLibNext]_clibVars => I'
  <2>1. [CLibNext]_clibVars => [AsyncNext]_asyncVars /\ [UploadNext]_uploadVars /\ [CacheNext]_cacheVars
    BY DEF CLibNext, AsyncPart, UploadPart, CachePart, clibVars
  <2> QED
    BY <2>1, AsyncStep, UploadStep, CacheStep
<1>3. I => CLibInv
  BY AsyncIInvSound, CacheIInvSound DEF CLibInv, UploadIInv
<1> QED
  BY <1>1, <1>2, <1>3, PTL DEF CLibSpec
=============================================================================
