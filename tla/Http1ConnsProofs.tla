-------------------------- MODULE Http1ConnsProofs --------------------------
(***************************************************************************)
(* Proofs about Http1Conns, for any number of requests, connections and    *)
(* keys and any limits.                                                    *)
(***************************************************************************)
EXTENDS Http1Conns, SeqLemmas

\* What is on a stack: each connection once, on one stack, open, and nobody's.
StackOK ==
  /\ \A k \in Keys : IsInjective(idleConns[k]) /\ Len(idleConns[k]) <= MaxPerHost
  /\ \A k, l \in Keys, c \in Conns :
       c \in ToSet(idleConns[k]) /\ c \in ToSet(idleConns[l]) => k = l
  /\ \A k \in Keys : \A c \in ToSet(idleConns[k]) :
       c \in Conns /\ status[c] = "open" /\ c \notin closing

\* What a request owns: an open connection that nobody else has.
OwnerOK ==
  \A r \in Requests : Owns(r, cur[r]) =>
    /\ status[cur[r]] = "open" /\ cur[r] \notin closing
    /\ \A k \in Keys : cur[r] \notin ToSet(idleConns[k])
    /\ \A q \in Requests : q # r => ~Owns(q, cur[r])

EmptyAfterClose == closed /\ "Close" \notin sweeps => \A k \in Keys : ToSet(idleConns[k]) = {}

Http1IInv == TypeOK /\ StackOK /\ OwnerOK /\ EmptyAfterClose

LEMMA ListedIff == \A c : c \in Listed <=> \E k \in Keys : c \in ToSet(idleConns[k])
BY DEF Listed

\* The inductive invariant says what the run checks.
LEMMA Http1Suffices == Http1IInv => Http1Inv
<1> SUFFICES ASSUME Http1IInv
             PROVE  Http1Inv
  OBVIOUS
<1>1. \A k \in Keys : ToSet(idleConns[k]) \subseteq Conns
  BY DEF Http1IInv, StackOK
<1>2. ExclusiveUse
  BY <1>1, ListedIff DEF Http1IInv, StackOK, OwnerOK, ExclusiveUse
<1>3. StackBound
  BY DEF Http1IInv, StackOK, StackBound
<1>4. NothingIdleAfterClose
  BY ListedIff DEF Http1IInv, EmptyAfterClose, NothingIdleAfterClose
<1> QED
  BY <1>2, <1>3, <1>4 DEF Http1IInv, Http1Inv

LEMMA Http1Init == Init => Http1IInv
<1> SUFFICES ASSUME Init
             PROVE  Http1IInv
  OBVIOUS
<1> USE Http1Assumption DEF Init
<1>1. TypeOK
  <2>1. idleConns \in [Keys -> Seq(Conns)] /\ idle \in [Conns -> 0 .. MaxIdle + 1]
    BY EmptyFacts
  <2>2. sweeps \in SUBSET {"Close", "Refresh"} /\ closing \in SUBSET Conns
    OBVIOUS
  <2> QED
    BY <2>1, <2>2 DEF TypeOK, Steps
<1>2. StackOK
  BY EmptyFacts DEF StackOK
<1>3. OwnerOK /\ EmptyAfterClose
  BY DEF OwnerOK, Owns, EmptyAfterClose
<1> QED
  BY <1>1, <1>2, <1>3 DEF Http1IInv

\* Steps that leave the stacks alone.
LEMMA Http1Quiet ==
  ASSUME Http1IInv,
         \/ \E r \in Requests, k \in Keys :
              RoundTrip(r, k) \/ StreamRoundTrip(r, k) \/ RoundTripWithTLSConn(r, k)
         \/ \E r \in Requests :
              \/ GetNone(r) \/ ReuseFail(r) \/ DialOk(r) \/ DialFail(r) \/ FreshFail(r)
              \/ Respond(r) \/ CloseBodyAfterEOF(r)
         \/ \E c \in Conns : CloseConn(c)
         \/ Tick \/ RefreshCheck \/ CloseSet
  PROVE  Http1IInv'
<1> USE Http1Assumption DEF Http1IInv, TypeOK, StackOK, OwnerOK, Owns, EmptyAfterClose, Steps,
        tVars, cVars, reqVars
<1>1. ASSUME NEW r \in Requests, NEW k \in Keys, RoundTrip(r, k) \/ StreamRoundTrip(r, k)
      PROVE  Http1IInv'
  <2>1. CASE RoundTrip(r, k)
    BY <2>1 DEF RoundTrip, Begin
  <2>2. CASE StreamRoundTrip(r, k)
    BY <2>2 DEF StreamRoundTrip, Begin
  <2> QED
    BY <1>1, <2>1, <2>2
<1>2. ASSUME NEW r \in Requests, NEW k \in Keys, RoundTripWithTLSConn(r, k)
      PROVE  Http1IInv'
  <2>1. PICK c \in Conns : Open(c) /\ Begin(r, k, "fresh", c, FALSE)
    BY <1>2 DEF RoundTripWithTLSConn
  <2>2. \A l \in Keys : c \notin ToSet(idleConns[l])
    BY <2>1, ListedIff DEF Open, Unreferenced
  <2> QED
    BY <1>2, <2>1, <2>2 DEF RoundTripWithTLSConn, Open, Unreferenced, Begin
<1>3. ASSUME NEW r \in Requests, GetNone(r) \/ DialFail(r)
      PROVE  Http1IInv'
  <2>1. CASE GetNone(r)
    BY <2>1 DEF GetNone, Goto
  <2>2. CASE DialFail(r)
    BY <2>2 DEF DialFail, Return
  <2> QED
    BY <1>3, <2>1, <2>2
<1>4. ASSUME NEW r \in Requests, ReuseFail(r) \/ FreshFail(r)
      PROVE  Http1IInv'
  <2>1. CASE ReuseFail(r)
    BY <2>1 DEF ReuseFail, close, Goto
  <2>2. CASE FreshFail(r)
    BY <2>2 DEF FreshFail, close, Return
  <2> QED
    BY <1>4, <2>1, <2>2
<1>5. ASSUME NEW r \in Requests, DialOk(r)
      PROVE  Http1IInv'
  <2>1. PICK c \in Conns : Open(c) /\ Goto(r, "fresh", c)
    BY <1>5 DEF DialOk
  <2>2. \A l \in Keys : c \notin ToSet(idleConns[l])
    BY <2>1, ListedIff DEF Open, Unreferenced
  <2> QED
    BY <1>5, <2>1, <2>2 DEF DialOk, Open, Unreferenced, Goto
<1>6. ASSUME NEW r \in Requests, Respond(r)
      PROVE  Http1IInv'
  BY <1>6 DEF Respond, Goto
<1>7. ASSUME NEW r \in Requests, CloseBodyAfterEOF(r)
      PROVE  Http1IInv'
  <2>1. CASE pooled[r]
    BY <1>7, <2>1 DEF CloseBodyAfterEOF, Return
  <2>2. CASE ~pooled[r]
    <3>1. Owns(r, cur[r]) /\ cur[r] \in Conns /\ status' = [status EXCEPT ![cur[r]] = "closed"]
      BY <1>7, <2>2 DEF CloseBodyAfterEOF, close
    <3>2. TypeOK'
      BY <1>7, <3>1 DEF CloseBodyAfterEOF, Return
    <3>3. StackOK' /\ EmptyAfterClose'
      BY <1>7, <3>1 DEF CloseBodyAfterEOF
    <3>4. OwnerOK'
      BY <1>7, <3>1 DEF CloseBodyAfterEOF, Return
    <3> QED
      BY <3>2, <3>3, <3>4
  <2> QED
    BY <2>1, <2>2
<1>8. ASSUME NEW c \in Conns, CloseConn(c)
      PROVE  Http1IInv'
  BY <1>8 DEF CloseConn, close
<1>9. CASE Tick
  BY <1>9 DEF Tick
<1>10. CASE RefreshCheck
  <2>1. sweeps' \in SUBSET {"Close", "Refresh"}
    BY <1>10 DEF RefreshCheck
  <2> QED
    BY <1>10, <2>1 DEF RefreshCheck
<1>11. CASE CloseSet
  <2>1. sweeps' \in SUBSET {"Close", "Refresh"} /\ "Close" \in sweeps'
    BY <1>11 DEF CloseSet
  <2> QED
    BY <1>11, <2>1 DEF CloseSet
<1> QED
  BY <1>1, <1>2, <1>3, <1>4, <1>5, <1>6, <1>7, <1>8, <1>9, <1>10, <1>11

\* getIdleConn takes the newest connection off its stack: it is nobody's then.
LEMMA Http1Pop ==
  ASSUME Http1IInv, NEW r \in Requests, GetStale(r) \/ GetIdle(r)
  PROVE  Http1IInv'
<1> DEFINE k == key[r]
           c == Last(idleConns[k])
<1>1. k \in Keys /\ idleConns[k] \in Seq(Conns) /\ idleConns[k] # <<>> /\ IsInjective(idleConns[k])
      /\ Len(idleConns[k]) \in Nat /\ Len(idleConns[k]) <= MaxPerHost
  BY DEF GetStale, GetIdle, Http1IInv, TypeOK, StackOK
<1>2. /\ c \in Conns /\ c \in ToSet(idleConns[k])
      /\ Front(idleConns[k]) \in Seq(Conns)
      /\ Len(Front(idleConns[k])) = Len(idleConns[k]) - 1
      /\ IsInjective(Front(idleConns[k]))
      /\ ToSet(Front(idleConns[k])) = ToSet(idleConns[k]) \ {c}
  BY <1>1, FrontFacts
<1>3. idleConns' = [idleConns EXCEPT ![k] = Front(idleConns[k])]
  BY DEF GetStale, GetIdle, Pop
<1> HIDE DEF c
<1>4. idleConns' \in [Keys -> Seq(Conns)] /\ idleConns \in [Keys -> Seq(Conns)]
      /\ idleConns'[k] = Front(idleConns[k])
      /\ \A l \in Keys : l # k => idleConns'[l] = idleConns[l]
  BY <1>1, <1>2, <1>3 DEF Http1IInv, TypeOK
<1>5. /\ \A l \in Keys : ToSet(idleConns'[l]) \subseteq ToSet(idleConns[l]) /\ c \notin ToSet(idleConns'[l])
      /\ \A l \in Keys : IsInjective(idleConns'[l]) /\ Len(idleConns'[l]) <= MaxPerHost
      /\ \A q \in Requests : Owns(q, cur[q]) => cur[q] # c
      /\ status[c] = "open" /\ c \notin closing
  <2>1. status[c] = "open" /\ c \notin closing /\ \A q \in Requests : Owns(q, cur[q]) => cur[q] # c
    BY <1>1, <1>2 DEF Http1IInv, StackOK, OwnerOK
  <2>2. \A l \in Keys : ToSet(idleConns'[l]) \subseteq ToSet(idleConns[l]) /\ c \notin ToSet(idleConns'[l])
    BY <1>1, <1>2, <1>4 DEF Http1IInv, StackOK
  <2>3. Len(Front(idleConns[k])) <= MaxPerHost
    BY <1>1, <1>2, Http1Assumption
  <2>4. \A l \in Keys : IsInjective(idleConns'[l]) /\ Len(idleConns'[l]) <= MaxPerHost
    BY <1>2, <1>4, <2>3 DEF Http1IInv, StackOK
  <2> QED
    BY <2>1, <2>2, <2>4
<1> USE DEF Http1IInv, TypeOK, StackOK, OwnerOK, Owns, EmptyAfterClose, Steps
<1>6. CASE GetStale(r)
  <2>1. status' = [status EXCEPT ![c] = "closed"] /\ closing' = closing
    BY <1>6 DEF GetStale, close, c
  <2>2. TypeOK'
    BY <1>2, <1>4, <1>6, <2>1, Http1Assumption DEF GetStale, Goto
  <2>3. StackOK' /\ EmptyAfterClose'
    BY <1>2, <1>4, <1>5, <1>6, <2>1 DEF GetStale
  <2>4. OwnerOK'
    BY <1>2, <1>4, <1>5, <1>6, <2>1 DEF GetStale, Goto
  <2> QED
    BY <2>2, <2>3, <2>4
<1>7. CASE GetIdle(r)
  <2>1. Goto(r, "reused", c) /\ status' = status /\ closing' = closing
    BY <1>7 DEF GetIdle, cVars, c
  <2>2. TypeOK'
    BY <1>2, <1>4, <1>7, <2>1, Http1Assumption DEF GetIdle, Goto, cVars
  <2>3. StackOK' /\ EmptyAfterClose'
    BY <1>2, <1>4, <1>5, <1>7, <2>1 DEF GetIdle
  <2>4. OwnerOK'
    BY <1>2, <1>4, <1>5, <1>7, <2>1 DEF GetIdle, Goto
  <2> QED
    BY <2>2, <2>3, <2>4
<1> QED
  BY <1>6, <1>7

\* putIdleConn, by the owner of c: c is on the stack of k, the oldest one is
\* about to be closed if the stack was full, and a closed transport keeps
\* nothing.
LEMMA PutFacts ==
  ASSUME Http1IInv, NEW k \in Keys, NEW c \in Conns, putIdleConn(k, c),
         status[c] = "open", c \notin closing, \A l \in Keys : c \notin ToSet(idleConns[l])
  PROVE  /\ idleConns' \in [Keys -> Seq(Conns)] /\ closing' \in SUBSET Conns
         /\ status' \in [Conns -> {"free", "open", "closed"}]
         /\ idle' \in [Conns -> 0 .. MaxIdle + 1]
         /\ closed' = closed /\ sweeps' = sweeps => StackOK' /\ EmptyAfterClose'
         /\ \A d \in Conns : d # c =>
              /\ status'[d] = status[d]
              /\ d \in closing' => d \in closing \/ \E l \in Keys : d \in ToSet(idleConns[l])
              /\ \A l \in Keys : d \in ToSet(idleConns'[l]) => d \in ToSet(idleConns[l])
<1> DEFINE s == idleConns[k]
<1>1. s \in Seq(Conns) /\ IsInjective(s) /\ Len(s) \in Nat /\ Len(s) <= MaxPerHost /\ c \notin ToSet(s)
      /\ idleConns \in [Keys -> Seq(Conns)] /\ MaxPerHost \in Nat \ {0}
  BY Http1Assumption DEF Http1IInv, TypeOK, StackOK
<1>2. CASE closed
  <2>1. status' = [status EXCEPT ![c] = "closed"] /\ UNCHANGED <<idleConns, idle, closing>>
    BY <1>2 DEF putIdleConn, close
  <2>2. StackOK'
    BY <2>1 DEF Http1IInv, TypeOK, StackOK
  <2>3. closed' = closed /\ sweeps' = sweeps => EmptyAfterClose'
    BY <2>1 DEF Http1IInv, EmptyAfterClose
  <2> QED
    BY <2>1, <2>2, <2>3 DEF Http1IInv, TypeOK
<1>3. CASE ~closed
  <2>1. PICK t \in Seq(Conns), out \in SUBSET Conns :
          /\ idleConns' = [idleConns EXCEPT ![k] = Append(t, c)] /\ closing' = closing \cup out
          /\ IsInjective(t) /\ Len(t) < MaxPerHost /\ Len(t) \in Nat
          /\ out \subseteq ToSet(s) /\ ToSet(t) = ToSet(s) \ out
    <3>1. CASE Len(s) >= MaxPerHost
      <4>1. s # <<>> /\ Len(s) = MaxPerHost
        BY <1>1, <3>1
      <4>2. Head(s) \in Conns /\ Head(s) \in ToSet(s) /\ Tail(s) \in Seq(Conns)
            /\ Len(Tail(s)) = Len(s) - 1 /\ IsInjective(Tail(s)) /\ ToSet(Tail(s)) = ToSet(s) \ {Head(s)}
        BY <1>1, <4>1, TailFacts
      <4>3. idleConns' = [idleConns EXCEPT ![k] = Append(Tail(s), c)] /\ closing' = closing \cup {Head(s)}
        BY <1>3, <3>1 DEF putIdleConn
      <4>4. Len(Tail(s)) < MaxPerHost /\ Len(Tail(s)) \in Nat /\ {Head(s)} \in SUBSET Conns
        BY <1>1, <4>1, <4>2
      <4> QED
        BY <4>2, <4>3, <4>4
    <3>2. CASE ~(Len(s) >= MaxPerHost)
      <4>1. idleConns' = [idleConns EXCEPT ![k] = Append(s, c)] /\ closing' = closing \cup {}
        BY <1>3, <3>2 DEF putIdleConn
      <4>2. Len(s) < MaxPerHost /\ {} \in SUBSET Conns /\ ToSet(s) = ToSet(s) \ {}
        BY <1>1, <3>2
      <4> QED
        BY <1>1, <4>1, <4>2
    <3> QED
      BY <3>1, <3>2
  <2>2. /\ Append(t, c) \in Seq(Conns) /\ Len(Append(t, c)) <= MaxPerHost
        /\ IsInjective(Append(t, c)) /\ ToSet(Append(t, c)) = ToSet(t) \cup {c}
    <3>1. c \notin ToSet(t)
      BY <1>1, <2>1
    <3>2. /\ Append(t, c) \in Seq(Conns) /\ Len(Append(t, c)) = Len(t) + 1
          /\ IsInjective(Append(t, c)) /\ ToSet(Append(t, c)) = ToSet(t) \cup {c}
      BY <2>1, <3>1, AppendFacts
    <3> QED
      BY <1>1, <2>1, <3>2
  <2>3. idleConns'[k] = Append(t, c) /\ (\A l \in Keys : l # k => idleConns'[l] = idleConns[l])
        /\ idleConns' \in [Keys -> Seq(Conns)]
    BY <1>1, <2>1, <2>2
  <2>4. closing' \in SUBSET Conns /\ status' = status /\ idle' \in [Conns -> 0 .. MaxIdle + 1]
    BY <1>3, <2>1, Http1Assumption DEF putIdleConn, Http1IInv, TypeOK
  <2>5. \A l \in Keys : \A d : d \in ToSet(idleConns'[l]) =>
          \/ d = c /\ l = k
          \/ d # c /\ d \notin out /\ d \in ToSet(idleConns[l])
    <3> SUFFICES ASSUME NEW l \in Keys, NEW d, d \in ToSet(idleConns'[l])
                 PROVE  \/ d = c /\ l = k
                        \/ d # c /\ d \notin out /\ d \in ToSet(idleConns[l])
      OBVIOUS
    <3>1. CASE l = k
      BY <1>1, <2>1, <2>2, <2>3, <3>1
    <3>2. CASE l # k
      BY <1>1, <2>1, <2>3, <3>2 DEF Http1IInv, StackOK
    <3> QED
      BY <3>1, <3>2
  <2>6. closed' = closed /\ sweeps' = sweeps => StackOK' /\ EmptyAfterClose'
    <3>1. \A l \in Keys : IsInjective(idleConns'[l]) /\ Len(idleConns'[l]) <= MaxPerHost
      BY <2>2, <2>3 DEF Http1IInv, StackOK
    <3>2. \A l, m \in Keys, d \in Conns :
            d \in ToSet(idleConns'[l]) /\ d \in ToSet(idleConns'[m]) => l = m
      BY <2>5 DEF Http1IInv, StackOK
    <3>3. \A l \in Keys : \A d \in ToSet(idleConns'[l]) :
            d \in Conns /\ status'[d] = "open" /\ d \notin closing'
      BY <1>1, <2>1, <2>4, <2>5 DEF Http1IInv, StackOK
    <3> QED
      BY <1>3, <3>1, <3>2, <3>3 DEF StackOK, EmptyAfterClose
  <2> QED
    BY <1>1, <2>1, <2>3, <2>4, <2>5, <2>6 DEF Http1IInv, TypeOK
<1> QED
  BY <1>2, <1>3

\* The body ends or is closed: its connection goes back or is closed, and the
\* request owns it no more.
LEMMA Http1Body ==
  ASSUME Http1IInv, NEW r \in Requests, ReadEOF(r) \/ CloseBodyEarly(r)
  PROVE  Http1IInv'
<1> DEFINE c == cur[r]
           k == key[r]
<1>1. k \in Keys /\ c \in Conns /\ Owns(r, c) /\ pc[r] = "body" /\ closed' = closed /\ sweeps' = sweeps
  BY DEF ReadEOF, CloseBodyEarly, Http1IInv, TypeOK, Owns
<1>2. status[c] = "open" /\ c \notin closing /\ (\A l \in Keys : c \notin ToSet(idleConns[l]))
      /\ \A q \in Requests : q # r => ~Owns(q, c)
  BY <1>1 DEF Http1IInv, OwnerOK
<1>3. CASE ReadEOF(r) /\ ~pooled[r]
  <2>1. UNCHANGED <<closed, sweeps, idleConns, status, idle, closing>> /\ Goto(r, "eof", c)
    BY <1>3 DEF ReadEOF, cVars
  <2>2. TypeOK'
    BY <1>1, <2>1, Http1Assumption DEF Http1IInv, TypeOK, Goto, Steps
  <2>3. \A q \in Requests : cur'[q] = cur[q] /\ (Owns(q, cur[q])' => Owns(q, cur[q]))
    BY <1>1, <1>3, <2>1 DEF Http1IInv, TypeOK, Goto, Owns
  <2>4. \A q \in Requests, d \in Conns : Owns(q, d)' => Owns(q, d)
    BY <1>1, <1>3, <2>1 DEF Http1IInv, TypeOK, Goto, Owns
  <2>5. OwnerOK'
    BY <2>1, <2>3, <2>4 DEF Http1IInv, TypeOK, OwnerOK, Goto, Owns
  <2> QED
    BY <2>1, <2>2, <2>5 DEF Http1IInv, StackOK, EmptyAfterClose
<1>4. CASE \/ handleClose(r) /\ pooled[r]
           \/ close(c) /\ UNCHANGED <<idleConns, idle, closing>> /\ CloseBodyEarly(r)
  <2>1. /\ idleConns' \in [Keys -> Seq(Conns)] /\ closing' \in SUBSET Conns
        /\ status' \in [Conns -> {"free", "open", "closed"}]
        /\ idle' \in [Conns -> 0 .. MaxIdle + 1]
        /\ StackOK' /\ EmptyAfterClose'
        /\ \A d \in Conns : d # c =>
             /\ status'[d] = status[d]
             /\ d \in closing' => d \in closing \/ \E l \in Keys : d \in ToSet(idleConns[l])
             /\ \A l \in Keys : d \in ToSet(idleConns'[l]) => d \in ToSet(idleConns[l])
    <3>1. CASE putIdleConn(k, c)
      BY <1>1, <1>2, <3>1, PutFacts
    <3>2. CASE close(c) /\ UNCHANGED <<idleConns, idle, closing>>
      <4>1. status' = [status EXCEPT ![c] = "closed"]
        BY <3>2 DEF close
      <4>2. StackOK' /\ EmptyAfterClose'
        BY <1>1, <1>2, <3>2, <4>1 DEF Http1IInv, TypeOK, StackOK, EmptyAfterClose
      <4> QED
        BY <3>2, <4>1, <4>2 DEF Http1IInv, TypeOK
    <3> QED
      BY <1>4, <3>1, <3>2 DEF handleClose
  <2>2. \A q \in Requests : Owns(q, cur[q])' => q # r /\ cur'[q] = cur[q] /\ Owns(q, cur[q])
    BY <1>1, <1>4 DEF ReadEOF, CloseBodyEarly, Goto, Return, Http1IInv, TypeOK, Owns
  <2>3. \A q \in Requests, d \in Conns : Owns(q, d)' => Owns(q, d)
    BY <1>1, <1>4 DEF ReadEOF, CloseBodyEarly, Goto, Return, Http1IInv, TypeOK, Owns
  <2>4. TypeOK'
    <3>1. CASE ReadEOF(r)
      BY <1>1, <2>1, <3>1, Http1Assumption DEF ReadEOF, Goto, Http1IInv, TypeOK, Steps
    <3>2. CASE CloseBodyEarly(r)
      BY <1>1, <2>1, <3>2, Http1Assumption DEF CloseBodyEarly, Return, Http1IInv, TypeOK, Steps
    <3> QED
      BY <3>1, <3>2
  <2>5. OwnerOK'
    <3> SUFFICES ASSUME NEW q \in Requests, Owns(q, cur[q])'
                 PROVE  /\ status'[cur'[q]] = "open" /\ cur'[q] \notin closing'
                        /\ \A l \in Keys : cur'[q] \notin ToSet(idleConns'[l])
                        /\ \A p \in Requests : p # q => ~Owns(p, cur[q])'
      BY DEF OwnerOK
    <3>1. q # r /\ cur'[q] = cur[q] /\ Owns(q, cur[q]) /\ cur[q] \in Conns /\ cur[q] # c
      BY <1>2, <2>2 DEF Http1IInv, TypeOK, Owns
    <3>2. \A p \in Requests : p # q => ~Owns(p, cur[q])
      BY <3>1 DEF Http1IInv, OwnerOK
    <3>3. \A p \in Requests : p # q => ~Owns(p, cur[q])'
      BY <2>3, <3>1, <3>2 DEF Owns
    <3> QED
      BY <2>1, <3>1, <3>3 DEF Http1IInv, OwnerOK
  <2> QED
    BY <2>1, <2>4, <2>5 DEF Http1IInv
<1>5. CASE ReadEOF(r) /\ pooled[r]
  <2>1. handleClose(r)
    BY <1>5 DEF ReadEOF
  <2> QED
    BY <1>4, <1>5, <2>1
<1>6. CASE CloseBodyEarly(r)
  <2>1. \/ handleClose(r) /\ pooled[r]
        \/ close(c) /\ UNCHANGED <<idleConns, idle, closing>>
    BY <1>6 DEF CloseBodyEarly
  <2> QED
    BY <1>4, <1>6, <2>1
<1> QED
  BY <1>3, <1>5, <1>6

\* Cleanup, SetProxy, and the second section of Refresh and Close: what leaves
\* the stacks is about to be closed.
LEMMA Http1Drop ==
  ASSUME Http1IInv, Cleanup \/ SetProxy \/ \E a \in {"Close", "Refresh"} : Sweep(a)
  PROVE  Http1IInv'
<1> DEFINE K == {c \in Conns : idle[c] <= MaxIdle}
<1>1. /\ \A k \in Keys : idleConns[k] \in Seq(Conns) /\ IsInjective(idleConns[k])
                         /\ Len(idleConns[k]) \in Nat /\ Len(idleConns[k]) <= MaxPerHost
      /\ MaxPerHost \in Nat \ {0}
  BY Http1Assumption DEF Http1IInv, TypeOK, StackOK
<1>2. /\ idleConns' \in [Keys -> Seq(Conns)]
      /\ \A k \in Keys : IsInjective(idleConns'[k]) /\ Len(idleConns'[k]) <= MaxPerHost
      /\ \A k \in Keys : ToSet(idleConns'[k]) \subseteq ToSet(idleConns[k])
      /\ \A k \in Keys : \A c \in ToSet(idleConns'[k]) : c \notin closing'
      /\ \A c : c \in closing' => c \in closing \/ \E k \in Keys : c \in ToSet(idleConns[k])
      /\ UNCHANGED <<status, idle, reqVars, closed>>
      /\ sweeps' \in SUBSET {"Close", "Refresh"}
      /\ "Close" \in sweeps /\ "Close" \notin sweeps' => \A k \in Keys : ToSet(idleConns'[k]) = {}
  <2>1. CASE Cleanup
    <3>1. /\ idleConns' = [k \in Keys |-> FilterSeq(idleConns[k], K)]
          /\ \A k \in Keys : idleConns'[k] = FilterSeq(idleConns[k], K)
          /\ UNCHANGED <<closed, sweeps, status, idle, reqVars>>
      BY <2>1 DEF Cleanup
    <3>2. \A c : c \in closing' <=> c \in closing \/ (c \in Listed /\ idle[c] > MaxIdle)
      BY <2>1 DEF Cleanup
    <3>3. \A c \in K : ~(idle[c] > MaxIdle)
      BY Http1Assumption DEF Http1IInv, TypeOK
    <3> HIDE DEF K
    <3>4. \A k \in Keys : /\ idleConns'[k] \in Seq(Conns)
                          /\ Len(idleConns'[k]) <= Len(idleConns[k])
                          /\ IsInjective(idleConns'[k])
                          /\ ToSet(idleConns'[k]) = ToSet(idleConns[k]) \cap K
      BY <1>1, <3>1, FilterFacts
    <3>5. \A k \in Keys : Len(idleConns'[k]) <= MaxPerHost
      <4> SUFFICES ASSUME NEW k \in Keys
                   PROVE  Len(idleConns'[k]) <= MaxPerHost
        OBVIOUS
      <4>1. Len(idleConns'[k]) \in Nat /\ Len(idleConns'[k]) <= Len(idleConns[k])
        BY <3>4
      <4> QED
        BY <1>1, <4>1
    <3>6. \A k \in Keys : \A c \in ToSet(idleConns'[k]) : c \notin closing'
      <4>1. \A k \in Keys : \A c \in ToSet(idleConns'[k]) : c \in K /\ c \notin closing
        BY <3>4 DEF Http1IInv, StackOK
      <4> QED
        BY <3>2, <3>3, <4>1
    <3>7. \A c : c \in closing' => c \in closing \/ \E k \in Keys : c \in ToSet(idleConns[k])
      BY <3>2, ListedIff
    <3>8. idleConns' \in [Keys -> Seq(Conns)]
      BY <3>1, <3>4
    <3>9. sweeps \in SUBSET {"Close", "Refresh"}
      BY DEF Http1IInv, TypeOK
    <3> QED
      BY <3>1, <3>4, <3>5, <3>6, <3>7, <3>8, <3>9
  <2>2. CASE SetProxy \/ \E a \in {"Close", "Refresh"} : Sweep(a)
    <3>1. DropAll /\ closed' = closed /\ sweeps' \in SUBSET {"Close", "Refresh"}
      BY <2>2 DEF SetProxy, Sweep, Http1IInv, TypeOK
    <3>2. \A k \in Keys : idleConns'[k] = <<>>
      BY <3>1 DEF DropAll
    <3>3. idleConns' \in [Keys -> Seq(Conns)]
      BY <3>1, EmptyFacts DEF DropAll
    <3>4. \A c : c \in closing' => c \in closing \/ \E k \in Keys : c \in ToSet(idleConns[k])
      BY <3>1, ListedIff DEF DropAll
    <3> QED
      BY <1>1, <3>1, <3>2, <3>3, <3>4, EmptyFacts DEF DropAll
  <2> QED
    BY <2>1, <2>2
<1>3. closing' \in SUBSET Conns
  BY <1>2 DEF Http1IInv, TypeOK, StackOK
<1>4. TypeOK'
  BY <1>2, <1>3 DEF Http1IInv, TypeOK, reqVars
<1>5. StackOK'
  BY <1>2 DEF Http1IInv, StackOK
<1>6. OwnerOK'
  BY <1>2 DEF Http1IInv, OwnerOK, Owns, reqVars
<1>7. EmptyAfterClose'
  BY <1>2 DEF Http1IInv, EmptyAfterClose
<1> QED
  BY <1>4, <1>5, <1>6, <1>7 DEF Http1IInv

\* Every section keeps the invariant.
LEMMA Http1Step == Http1IInv /\ [Next]_vars => Http1IInv'
<1> SUFFICES ASSUME Http1IInv, [Next]_vars
             PROVE  Http1IInv'
  OBVIOUS
<1>1. CASE UNCHANGED vars
  BY <1>1 DEF Http1IInv, TypeOK, StackOK, OwnerOK, Owns, EmptyAfterClose, vars, tVars, cVars, reqVars
<1> QED
  BY <1>1, Http1Quiet, Http1Pop, Http1Body, Http1Drop DEF Next, RequestStep

\* However body reads, closes, evictions, cleanup, Refresh and Close interleave:
\* one owner per connection, bounded stacks, and stacks that stay empty after
\* Close.
THEOREM OneOwnerPerConn == Spec => []Http1Inv
<1>1. Spec => []Http1IInv
  BY Http1Init, Http1Step, PTL DEF Spec
<1> QED
  BY <1>1, Http1Suffices, PTL

=============================================================================
