-------------------------- MODULE TransportProofs --------------------------
(***************************************************************************)
(* Proofs about the unified transport, for any number of concurrent calls  *)
(* of Do and DoStream, any hosts, any proxy configurations and any number  *)
(* of changes of them, with its refinement of ProtocolChoice.              *)
(***************************************************************************)
EXTENDS Transport, TLAPS

\* Attempt a is still to be made in list s.
Has(s, a) == \E i \in 1 .. Len(s) : s[i] = a

LocalsType ==
  [pc: {"idle", "race", "try", "done"},
   req: [stream: BOOLEAN, https: BOOLEAN], host: Hosts \cup {None},
   todo: Seq(Attempts), learn: BOOLEAN, reuse: BOOLEAN, after: Seq(Attempts),
   ctx: BOOLEAN, tried: SUBSET Attempts,
   res: {"idle", "pending", "failed"} \cup Protocols,
   calm: BOOLEAN, direct: BOOLEAN, dropped: BOOLEAN]

RaceType == [h3: {"off", "run", "end"}, h2: {"off", "run", "end"},
             win: {"none", "h3", "h2"}, mis: {"none", "in", "late"}]

ConfType ==
  /\ proxy \in Proxies
  /\ proto \in Protocols \cup {"auto"}
  /\ preset3 \in BOOLEAN
  /\ sub \in [up: BOOLEAN, quic: Kinds, preset: BOOLEAN]
  /\ h3err \in BOOLEAN
  /\ setter \in {"none", "proxy", "preset", "clear"}
  /\ sets \in 0 .. MaxSets

\* The locals r of Do and the race w that belongs to them: a call is pending
\* while it races or tries, there is something left to try, and one that may
\* fall back to HTTP/1.1 has done so or still has it ahead.
LocalsOK(r, w) ==
  /\ w.mis = "in" => r.pc = "race"
  /\ r.dropped => ~r.reuse
  /\ r.res = "failed" /\ r.reuse => r.tried \cap {"h1", "h1tls"} # {}
  /\ r.pc = "idle" <=> r.res = "idle"
  /\ r.pc \in {"race", "try"} <=> r.res = "pending"
  /\ r.pc = "try" => r.todo # <<>>
  /\ r.pc # "idle" => r.host \in Hosts
  /\ r.pc = "try" /\ r.reuse /\ r.tried \cap {"h1", "h1tls"} = {} =>
       Has(r.todo, "h1") \/ Has(r.todo, "h1tls")

CallInv ==
  /\ ConfType
  /\ support \in [Hosts -> Protocols \cup {None}]
  /\ call \in [Calls -> LocalsType]
  /\ race \in [Calls -> RaceType]
  /\ \A c \in Calls : LocalsOK(call[c], race[c])

-----------------------------------------------------------------------------
(* Lists of attempts.                                                      *)

\* What is left of a list after its first attempt.
LEMMA HasTail ==
  ASSUME NEW s \in Seq(Attempts), s # <<>>, NEW a
  PROVE  /\ Head(s) \in Attempts
         /\ Tail(s) \in Seq(Attempts)
         /\ Has(s, a) <=> Head(s) = a \/ Has(Tail(s), a)
<1>1. Head(s) \in Attempts /\ Tail(s) \in Seq(Attempts) /\ Head(s) = s[1]
  OBVIOUS
<1>2. Len(s) \in Nat /\ Len(s) >= 1 /\ Len(Tail(s)) = Len(s) - 1
  OBVIOUS
<1>3. \A i \in 1 .. Len(s) - 1 : Tail(s)[i] = s[i + 1]
  OBVIOUS
<1>4. ASSUME Has(s, a), Head(s) # a
      PROVE  Has(Tail(s), a)
  <2>1. PICK i \in 1 .. Len(s) : s[i] = a
    BY <1>4 DEF Has
  <2>2. i # 1 /\ i - 1 \in 1 .. Len(s) - 1
    BY <1>1, <1>2, <1>4, <2>1
  <2>3. Tail(s)[i - 1] = a
    BY <1>3, <2>1, <2>2
  <2> QED
    BY <1>2, <2>2, <2>3 DEF Has
<1>5. ASSUME Has(Tail(s), a)
      PROVE  Has(s, a)
  <2>1. PICK i \in 1 .. Len(s) - 1 : Tail(s)[i] = a
    BY <1>2, <1>5 DEF Has
  <2>2. i + 1 \in 1 .. Len(s) /\ s[i + 1] = a
    BY <1>2, <1>3, <2>1
  <2> QED
    BY <2>2 DEF Has
<1>6. ASSUME Head(s) = a
      PROVE  Has(s, a)
  BY <1>1, <1>2, <1>6 DEF Has
<1> QED
  BY <1>1, <1>4, <1>5, <1>6

\* A connection of a mismatch is tried before what follows.
LEMMA HasConcat ==
  ASSUME NEW s \in Seq(Attempts), NEW t \in Seq(Attempts), NEW a, Has(s \o t, a)
  PROVE  Has(s, a) \/ Has(t, a)
<1>1. PICK i \in 1 .. Len(s \o t) : (s \o t)[i] = a
  BY DEF Has
<1>2. Len(s \o t) = Len(s) + Len(t) /\ Len(s) \in Nat /\ Len(t) \in Nat
  OBVIOUS
<1>3. CASE i <= Len(s)
  <2>1. i \in 1 .. Len(s) /\ (s \o t)[i] = s[i]
    BY <1>2, <1>3
  <2> QED
    BY <1>1, <2>1 DEF Has
<1>4. CASE i > Len(s)
  <2>1. i - Len(s) \in 1 .. Len(t) /\ (s \o t)[i] = t[i - Len(s)]
    BY <1>1, <1>2, <1>4
  <2> QED
    BY <1>1, <2>1 DEF Has
<1> QED
  BY <1>2, <1>3, <1>4

\* The lists Do and DoStream start with.
LEMMA HasLists ==
  /\ \A a : ~Has(<<>>, a)
  /\ \A a, b : Has(<<a>>, b) <=> a = b
  /\ \A a, b, d : Has(<<a, b>>, d) <=> d \in {a, b}
  /\ \A a, b, d, e : Has(<<a, b, d>>, e) <=> e \in {a, b, d}
<1>1. \A a : ~Has(<<>>, a)
  BY DEF Has
<1>2. \A a, b : Has(<<a>>, b) <=> a = b
  BY DEF Has
<1>3. \A a, b, d : Has(<<a, b>>, d) <=> d \in {a, b}
  <2> SUFFICES ASSUME NEW a, NEW b, NEW d
               PROVE  Has(<<a, b>>, d) <=> d \in {a, b}
    OBVIOUS
  <2> DEFINE s == <<a, b>>
  <2>1. Len(s) = 2 /\ s[1] = a /\ s[2] = b
    OBVIOUS
  <2>2. 1 .. 2 = {1, 2}
    OBVIOUS
  <2> HIDE DEF s
  <2> QED
    BY <2>1, <2>2 DEF Has, s
<1>4. \A a, b, d, e : Has(<<a, b, d>>, e) <=> e \in {a, b, d}
  <2> SUFFICES ASSUME NEW a, NEW b, NEW d, NEW e
               PROVE  Has(<<a, b, d>>, e) <=> e \in {a, b, d}
    OBVIOUS
  <2> DEFINE s == <<a, b, d>>
  <2>1. Len(s) = 3 /\ s[1] = a /\ s[2] = b /\ s[3] = d
    OBVIOUS
  <2>2. 1 .. 3 = {1, 2, 3}
    OBVIOUS
  <2> HIDE DEF s
  <2> QED
    BY <2>1, <2>2 DEF Has, s
<1> QED
  BY <1>1, <1>2, <1>3, <1>4

-----------------------------------------------------------------------------
(* The calls: which protocols are tried, and what is left behind.          *)

\* The invariant says what the runs check.
LEMMA CallInvSuffices == CallInv => TransportInv
BY DEF CallInv, TransportInv, TransportTypeOK, EarlyMismatchReleased, LastResort,
       LocalsOK, LocalsType, RaceType, ConfType

\* What building an HTTP/3 transport leaves in sub.quic and h3ProxyError.
LEMMA H3ForType ==
  \A k \in Kinds, ok \in BOOLEAN :
    /\ H3For(k, ok).quic \in Kinds
    /\ H3For(k, ok).err \in BOOLEAN
    /\ H3For(k, ok).quic = "none" /\ k # "none" => H3For(k, ok).err
BY DEF H3For, SupportsQUIC, Kinds

LEMMA UdpProxyType == \A p \in Proxies : p.url \in Kinds /\ UdpProxy(p) \in Kinds
BY TransportAssumption DEF UdpProxy

\* A step that gives one call new locals r and a new race w.
LEMMA OneCall ==
  ASSUME NEW c \in Calls, NEW r \in LocalsType, NEW w \in RaceType, CallInv, LocalsOK(r, w),
         call' = [call EXCEPT ![c] = r], race' = [race EXCEPT ![c] = w],
         UNCHANGED confVars, support' \in [Hosts -> Protocols \cup {None}]
  PROVE  CallInv'
<1>1. call' \in [Calls -> LocalsType] /\ race' \in [Calls -> RaceType]
  BY DEF CallInv
<1>2. \A d \in Calls : LocalsOK(call'[d], race'[d])
  BY DEF CallInv
<1>3. ConfType'
  BY DEF CallInv, ConfType, confVars
<1> QED
  BY <1>1, <1>2, <1>3 DEF CallInv

\* NewTransportWithConfig.
LEMMA CallInit == TransportInit => CallInv
<1> SUFFICES ASSUME TransportInit
             PROVE  CallInv
  OBVIOUS
<1> USE TransportAssumption DEF TransportInit
<1>1. ConfType
  <2>1. PICK ok \in BOOLEAN :
          /\ sub = [up |-> TRUE, quic |-> H3For(UdpProxy(proxy), ok).quic, preset |-> FALSE]
          /\ h3err = H3For(UdpProxy(proxy), ok).err
    OBVIOUS
  <2> QED
    BY <2>1, H3ForType, UdpProxyType DEF ConfType
<1>2. NoCall \in LocalsType /\ NoRace \in RaceType /\ LocalsOK(NoCall, NoRace)
  BY DEF NoCall, NoRace, LocalsType, RaceType, LocalsOK
<1> QED
  BY <1>1, <1>2 DEF CallInv

\* The attempt at the head of the list is made.
LEMMA AttemptedOK ==
  ASSUME NEW c \in Calls, CallInv, call[c].pc = "try"
  PROVE  /\ Attempted(c) \in LocalsType
         /\ Attempted(c).todo = Tail(call[c].todo)
         /\ Attempted(c).tried = call[c].tried \cup {Head(call[c].todo)}
         /\ Attempted(c) = [call[c] EXCEPT !.todo = Attempted(c).todo,
                              !.tried = Attempted(c).tried, !.direct = Attempted(c).direct]
         /\ Attempted(c).direct <=> call[c].direct \/ Bypass(Head(call[c].todo))
         /\ Head(call[c].todo) \in Attempts
<1> DEFINE r == call[c]
<1>1. r \in LocalsType /\ r.todo # <<>>
  BY DEF CallInv, LocalsOK
<1>2. r.todo \in Seq(Attempts) /\ r.tried \in SUBSET Attempts /\ r.direct \in BOOLEAN
  BY <1>1 DEF LocalsType
<1>3. Head(r.todo) \in Attempts /\ Tail(r.todo) \in Seq(Attempts)
  BY <1>1, <1>2, HasTail
<1>4. Bypass(Head(r.todo)) \in BOOLEAN
  BY DEF Bypass, CallInv, ConfType
<1> QED
  BY <1>1, <1>2, <1>3, <1>4 DEF Attempted, LocalsType

\* An answer ends the call with the protocol that gave it, and is remembered.
LEMMA AnsweredStep ==
  ASSUME NEW c \in Calls, CallInv, call[c].pc = "try", Answered(c)
  PROVE  CallInv'
<1> DEFINE a == Head(call[c].todo)
           r == [Attempted(c) EXCEPT !.pc = "done", !.res = ProtocolOf(a)]
<1>1. a \in Attempts /\ Attempted(c) \in LocalsType
  BY AttemptedOK
<1>2. ProtocolOf(a) \in Protocols
  BY <1>1 DEF ProtocolOf, Attempts, Protocols
<1>3. r \in LocalsType /\ call' = [call EXCEPT ![c] = r] /\ race' = [race EXCEPT ![c] = race[c]]
  BY <1>1, <1>2 DEF Answered, LocalsType, CallInv
<1>4. r.pc = "done" /\ r.res = ProtocolOf(a) /\ r.dropped = call[c].dropped
      /\ r.reuse = call[c].reuse /\ r.host = call[c].host
  BY DEF Attempted, CallInv, LocalsType
<1>5. support' \in [Hosts -> Protocols \cup {None}]
  BY <1>2 DEF Answered, Learn, CallInv, LocalsOK
<1>6. race[c] \in RaceType /\ LocalsOK(call[c], race[c]) /\ UNCHANGED confVars
  BY DEF CallInv, Answered
<1> HIDE DEF r
<1>7. LocalsOK(r, race[c])
  BY <1>2, <1>4, <1>6 DEF LocalsOK, Protocols
<1> QED
  BY <1>3, <1>5, <1>6, <1>7, OneCall

\* After a failure the next attempt, or the end: then nothing was left, so the
\* fall-back has been used.
LEMMA GoOnOK ==
  ASSUME NEW c \in Calls, CallInv, call[c].pc = "try", NEW d \in BOOLEAN, d => ~call[c].reuse
  PROVE  /\ GoOn([Attempted(c) EXCEPT !.dropped = d]) \in LocalsType
         /\ LocalsOK(GoOn([Attempted(c) EXCEPT !.dropped = d]), race[c])
<1> DEFINE s == call[c].todo
           q == Attempted(c)
           b == [q EXCEPT !.dropped = d]
<1>1. q \in LocalsType /\ Head(s) \in Attempts /\ q.todo = Tail(s)
      /\ q.tried = call[c].tried \cup {Head(s)} /\ q.reuse = call[c].reuse
      /\ q.pc = "try" /\ q.res = call[c].res /\ q.host = call[c].host
  BY AttemptedOK, ZenonT(60) DEF CallInv, LocalsType
<1>2. s \in Seq(Attempts) /\ s # <<>> /\ LocalsOK(call[c], race[c]) /\ call[c] \in LocalsType
  BY DEF CallInv, LocalsOK, LocalsType
<1>3. (Has(s, "h1") <=> Head(s) = "h1" \/ Has(Tail(s), "h1"))
      /\ (Has(s, "h1tls") <=> Head(s) = "h1tls" \/ Has(Tail(s), "h1tls"))
  BY <1>2, HasTail
<1>4. b \in LocalsType /\ b.todo = Tail(s) /\ b.tried = q.tried /\ b.reuse = call[c].reuse
      /\ b.pc = "try" /\ b.res = "pending" /\ b.host = call[c].host /\ b.dropped = d
  BY <1>1, <1>2 DEF LocalsType, LocalsOK
<1>5. b.host \in Hosts /\ race[c].mis # "in"
  BY <1>2, <1>4 DEF LocalsOK
<1>6. b.reuse /\ b.tried \cap {"h1", "h1tls"} = {} => Has(b.todo, "h1") \/ Has(b.todo, "h1tls")
  BY <1>1, <1>2, <1>3, <1>4 DEF LocalsOK
<1> HIDE DEF b
<1>7. CASE b.todo = <<>>
  <2>1. GoOn(b) = [b EXCEPT !.pc = "done", !.res = "failed"]
    BY <1>7 DEF GoOn
  <2>2. b.reuse => b.tried \cap {"h1", "h1tls"} # {}
    BY <1>6, <1>7, HasLists
  <2> QED
    BY <1>4, <1>5, <2>1, <2>2, ZenonT(60) DEF LocalsType, LocalsOK, b
<1>8. CASE b.todo # <<>>
  <2>1. GoOn(b) = b
    BY <1>8 DEF GoOn
  <2> QED
    BY <1>4, <1>5, <1>6, <1>8, <2>1 DEF LocalsOK, b
<1> QED
  BY <1>7, <1>8

LEMMA FailedStep ==
  ASSUME NEW c \in Calls, CallInv, call[c].pc = "try", Failed(c)
  PROVE  CallInv'
<1> DEFINE d == call[c].dropped
           b == [Attempted(c) EXCEPT !.dropped = d]
<1>1. d \in BOOLEAN /\ (d => ~call[c].reuse)
  BY DEF CallInv, LocalsType, LocalsOK
<1>2. Attempted(c) = b
  BY DEF Attempted, CallInv, LocalsType
<1>3. GoOn(b) \in LocalsType /\ LocalsOK(GoOn(b), race[c])
  BY <1>1, GoOnOK
<1>4. call' = [call EXCEPT ![c] = GoOn(b)] /\ race' = [race EXCEPT ![c] = race[c]]
  BY <1>2 DEF Failed, CallInv
<1>5. race[c] \in RaceType /\ UNCHANGED confVars /\ support' \in [Hosts -> Protocols \cup {None}]
  BY DEF CallInv, Failed
<1> HIDE DEF b
<1> QED
  BY <1>3, <1>4, <1>5, OneCall

\* A mismatch either continues on the connection it carries, with HTTP/1.1
\* ahead, or is dropped by a call that has no such fall-back.
LEMMA MismatchStep ==
  ASSUME NEW c \in Calls, CallInv, call[c].pc = "try", Mismatch(c)
  PROVE  CallInv'
<1>1. race' = [race EXCEPT ![c] = race[c]] /\ race[c] \in RaceType
      /\ UNCHANGED confVars /\ support' \in [Hosts -> Protocols \cup {None}]
  BY DEF Mismatch, CallInv
<1>2. CASE ~call[c].reuse
  <2> DEFINE b == GoOn([Attempted(c) EXCEPT !.dropped = TRUE])
  <2>1. b \in LocalsType /\ LocalsOK(b, race[c])
    BY <1>2, GoOnOK
  <2>2. call' = [call EXCEPT ![c] = b]
    BY <1>2 DEF Mismatch
  <2> HIDE DEF b
  <2> QED
    BY <1>1, <2>1, <2>2, OneCall
<1>3. CASE call[c].reuse
  <2> DEFINE s == <<"h1tls">> \o call[c].after
             r == [Attempted(c) EXCEPT !.todo = s]
  <2>1. call[c].after \in Seq(Attempts) /\ "h1tls" \in Attempts /\ call[c] \in LocalsType
    BY DEF CallInv, LocalsType, Attempts
  <2>2. s \in Seq(Attempts) /\ s # <<>> /\ Has(s, "h1tls")
    BY <2>1 DEF Has
  <2>3. Attempted(c) \in LocalsType /\ r \in LocalsType
    BY <2>2, AttemptedOK, ZenonT(60) DEF LocalsType
  <2>4. r.pc = "try" /\ r.res = call[c].res /\ r.host = call[c].host /\ r.todo = s
        /\ r.dropped = call[c].dropped /\ r.reuse = call[c].reuse
    BY <2>1, <2>2 DEF Attempted, LocalsType
  <2>5. LocalsOK(call[c], race[c])
    BY DEF CallInv
  <2> HIDE DEF s, r
  <2>6. LocalsOK(r, race[c])
    BY <2>2, <2>4, <2>5 DEF LocalsOK
  <2>7. call' = [call EXCEPT ![c] = r]
    BY <1>3 DEF Mismatch, r, s
  <2> QED
    BY <1>1, <2>3, <2>6, <2>7, OneCall
<1> QED
  BY <1>2, <1>3

\* Every decision of the race leaves HTTP/1.1 ahead, and no mismatch it knew of.
LEMMA DecideStep ==
  ASSUME NEW c \in Calls, CallInv, NEW s \in Seq(Attempts), Has(s, "h1"), Decide(c, s),
         NEW w \in RaceType, race' = [race EXCEPT ![c] = w], w.mis # "in"
  PROVE  CallInv'
<1> DEFINE r == [call[c] EXCEPT !.pc = "try", !.todo = s]
<1>1. call[c] \in LocalsType /\ LocalsOK(call[c], race[c]) /\ call[c].pc = "race"
      /\ UNCHANGED confVars /\ support' \in [Hosts -> Protocols \cup {None}]
  BY DEF CallInv, Decide
<1>2. call' = [call EXCEPT ![c] = r] /\ r \in LocalsType
  BY <1>1 DEF Decide, CallInv, LocalsType
<1>3. s # <<>>
  BY HasLists
<1>4. r.pc = "try" /\ r.todo = s /\ r.res = call[c].res /\ r.host = call[c].host
      /\ r.dropped = call[c].dropped /\ r.reuse = call[c].reuse
  BY <1>1 DEF LocalsType
<1> HIDE DEF r
<1>5. LocalsOK(r, w)
  BY <1>1, <1>3, <1>4 DEF LocalsOK
<1> QED
  BY <1>1, <1>2, <1>5, OneCall

LEMMA RaceLists ==
  /\ <<"h3", "h1">> \in Seq(Attempts) /\ Has(<<"h3", "h1">>, "h1")
  /\ <<"h2", "h1", "h1">> \in Seq(Attempts) /\ Has(<<"h2", "h1", "h1">>, "h1")
  /\ <<"h1tls", "h1">> \in Seq(Attempts) /\ Has(<<"h1tls", "h1">>, "h1")
  /\ <<"h2", "h1">> \in Seq(Attempts) /\ Has(<<"h2", "h1">>, "h1")
  /\ <<"h1">> \in Seq(Attempts) /\ Has(<<"h1">>, "h1")
BY HasLists DEF Attempts, Protocols

LEMMA RaceStep ==
  ASSUME NEW c \in Calls, CallInv,
         RaceWon(c) \/ RaceMismatch(c) \/ RaceTimeout(c) \/ RaceCancelled(c)
  PROVE  CallInv'
<1> DEFINE w == [race[c] EXCEPT !.mis = "none"]
           v == [race[c] EXCEPT !.win = "none", !.mis = "none"]
<1>1. race[c] \in RaceType /\ race \in [Calls -> RaceType]
  BY DEF CallInv
<1>2. w \in RaceType /\ w.mis = "none" /\ v \in RaceType /\ v.mis = "none"
  BY <1>1 DEF RaceType
<1>3. CASE RaceWon(c)
  <2>1. race' = [race EXCEPT ![c] = v]
    BY <1>1, <1>3 DEF RaceWon
  <2>2. PICK s \in {<<"h3", "h1">>, <<"h2", "h1", "h1">>} : Decide(c, s)
    BY <1>3 DEF RaceWon
  <2> HIDE DEF v
  <2> QED
    BY <1>2, <2>1, <2>2, RaceLists, DecideStep
<1>4. CASE RaceMismatch(c) \/ RaceTimeout(c) \/ RaceCancelled(c)
  <2>1. race' = [race EXCEPT ![c] = w]
    BY <1>1, <1>4 DEF RaceMismatch, RaceTimeout, RaceCancelled
  <2>2. PICK s \in {<<"h1tls", "h1">>, <<"h2", "h1", "h1">>, <<"h1">>} : Decide(c, s)
    BY <1>4 DEF RaceMismatch, RaceTimeout, RaceCancelled
  <2> HIDE DEF w
  <2> QED
    BY <1>2, <2>1, <2>2, RaceLists, DecideStep
<1> QED
  BY <1>3, <1>4

\* The goroutines of the race: a mismatch is known to it only while it runs.
LEMMA ConnectStep ==
  ASSUME NEW c \in Calls, CallInv, ConnectH3(c) \/ ConnectH2(c)
  PROVE  CallInv'
<1>1. call[c] \in LocalsType /\ LocalsOK(call[c], race[c]) /\ race[c] \in RaceType
      /\ race \in [Calls -> RaceType]
  BY DEF CallInv
<1> DEFINE w1 == [race[c] EXCEPT !.h3 = "end"]
           w2 == [w1 EXCEPT !.win = IF race[c].win = "none" THEN "h3" ELSE race[c].win]
           w3 == [race[c] EXCEPT !.h2 = "end"]
           w4 == [w3 EXCEPT !.win = IF race[c].win = "none" THEN "h2" ELSE race[c].win]
           w5 == [w3 EXCEPT !.mis = IF call[c].pc = "race" THEN "in" ELSE "late"]
<1>2. PICK w \in {w1, w2, w3, w4, w5} : race' = [race EXCEPT ![c] = w]
  BY <1>1 DEF ConnectH3, ConnectH2, RaceType
<1>3. w \in RaceType /\ (w.mis = "in" => call[c].pc = "race")
  BY <1>1, <1>2, ZenonT(60) DEF RaceType, LocalsOK
<1> HIDE DEF w1, w2, w3, w4, w5
<1>4. LocalsOK(call[c], w) /\ call' = [call EXCEPT ![c] = call[c]]
      /\ UNCHANGED confVars /\ support' \in [Hosts -> Protocols \cup {None}]
  BY <1>1, <1>3 DEF LocalsOK, CallInv, ConnectH3, ConnectH2
<1> QED
  BY <1>1, <1>2, <1>3, <1>4, OneCall

\* Cancelling a call, and forgetting one that is over.
LEMMA CancelReturnStep ==
  ASSUME NEW c \in Calls, CallInv, Cancel(c) \/ Return(c)
  PROVE  CallInv'
<1>1. call[c] \in LocalsType /\ LocalsOK(call[c], race[c]) /\ race[c] \in RaceType
      /\ UNCHANGED confVars /\ support' \in [Hosts -> Protocols \cup {None}]
  BY DEF CallInv, Cancel, Return
<1>2. CASE Cancel(c)
  <2> DEFINE r == [call[c] EXCEPT !.ctx = FALSE]
  <2>1. call' = [call EXCEPT ![c] = r] /\ r \in LocalsType /\ race' = [race EXCEPT ![c] = race[c]]
    BY <1>1, <1>2 DEF Cancel, CallInv, LocalsType
  <2>2. LocalsOK(r, race[c])
    BY <1>1 DEF LocalsOK, LocalsType
  <2> HIDE DEF r
  <2> QED
    BY <1>1, <2>1, <2>2, OneCall
<1>3. CASE Return(c)
  <2>1. NoCall \in LocalsType /\ NoRace \in RaceType /\ LocalsOK(NoCall, NoRace)
    BY DEF NoCall, NoRace, LocalsType, RaceType, LocalsOK
  <2> QED
    BY <1>1, <1>3, <2>1, OneCall DEF Return
<1> QED
  BY <1>2, <1>3

\* The start of a call with a list of attempts: with a fall-back it is on the
\* list.
LEMMA StartStep ==
  ASSUME NEW c \in Calls, CallInv, NEW rq \in Requests, NEW h \in Hosts,
         NEW s \in Seq(Attempts), NEW learn \in BOOLEAN, NEW reuse \in BOOLEAN,
         reuse => Has(s, "h1"), call[c].pc = "idle",
         Start(c, rq, h, s, learn, reuse), UNCHANGED <<confVars, support>>
  PROVE  CallInv'
<1> DEFINE pc == IF s = <<>> THEN "done" ELSE "try"
           res == IF s = <<>> THEN "failed" ELSE "pending"
           calm == setter = "none" /\ ~sub.preset
           r == [NoCall EXCEPT !.pc = pc, !.req = rq, !.host = h, !.todo = s, !.learn = learn,
                               !.reuse = reuse, !.res = res, !.calm = calm]
<1>1. race[c] \in RaceType /\ LocalsOK(call[c], race[c]) /\ race' = [race EXCEPT ![c] = race[c]]
      /\ UNCHANGED confVars /\ support' \in [Hosts -> Protocols \cup {None}]
  BY DEF CallInv, Start
<1>2. call' = [call EXCEPT ![c] = r]
  BY DEF Start
<1>3. rq \in [stream: BOOLEAN, https: BOOLEAN] /\ calm \in BOOLEAN
  BY TransportAssumption DEF CallInv, ConfType
<1>4. pc \in {"done", "try"} /\ (pc = "done" => ~reuse /\ res = "failed")
      /\ (pc = "try" => s # <<>> /\ res = "pending") /\ res \in {"failed", "pending"}
  BY HasLists
<1> HIDE DEF pc, res, calm
<1>5. NoCall \in LocalsType
  BY DEF NoCall, LocalsType
<1>6. r \in LocalsType /\ r.pc = pc /\ r.todo = s /\ r.res = res /\ r.host = h /\ r.reuse = reuse
      /\ r.dropped = NoCall.dropped
  BY <1>3, <1>4, <1>5, ZenonT(60) DEF LocalsType
<1>7. ~NoCall.dropped
  BY DEF NoCall
<1> HIDE DEF r
<1>8. LocalsOK(r, race[c])
  BY <1>1, <1>4, <1>6, <1>7 DEF LocalsOK
<1> QED
  BY <1>1, <1>2, <1>6, <1>8, OneCall

\* The lists of Do with a proxy, of DoStream and of a single protocol.
LEMMA RouteLists ==
  ASSUME CallInv
  PROVE  /\ DoProxied \in Seq(Attempts) /\ (proto = "auto" => Has(DoProxied, "h1"))
         /\ StreamProxied \in Seq(Attempts) /\ StreamDirect \in Seq(Attempts)
         /\ \A p \in Protocols : <<p>> \in Seq(Attempts) /\ DoKnown(p) \in Seq(Attempts)
         /\ Has(DoKnown("h2"), "h1")
<1>1. proto \in Protocols \cup {"auto"}
  BY DEF CallInv, ConfType
<1>2. DoProxied \in {<<"h3">>, <<>>, <<"h3", "h2", "h1">>, <<"h2", "h1">>, <<proto>>}
      /\ (proto = "auto" => DoProxied \in {<<"h3", "h2", "h1">>, <<"h2", "h1">>})
      /\ (DoProxied = <<proto>> => proto \in Protocols)
  BY <1>1 DEF DoProxied, Protocols
<1>3. <<>> \in Seq(Attempts) /\ <<"h3", "h2", "h1">> \in Seq(Attempts) /\ <<"h3", "h2">> \in Seq(Attempts)
      /\ \A p \in Protocols : <<p>> \in Seq(Attempts)
  BY DEF Attempts, Protocols
<1>4. Has(<<"h3", "h2", "h1">>, "h1")
  BY HasLists
<1>5. StreamProxied \in Seq(Attempts) /\ StreamDirect \in Seq(Attempts)
  BY <1>1, <1>3 DEF StreamProxied, StreamDirect, Attempts, Protocols
<1>6. (\A p \in Protocols : DoKnown(p) \in Seq(Attempts)) /\ Has(DoKnown("h2"), "h1")
  BY <1>3, RaceLists DEF DoKnown
<1> QED
  BY <1>2, <1>3, <1>4, <1>5, <1>6, RaceLists DEF Protocols

\* Do and DoStream up to the first attempt.
LEMMA BeginStep ==
  ASSUME NEW c \in Calls, CallInv, NEW rq \in Requests, NEW h \in Hosts, Begin(c, rq, h)
  PROVE  CallInv'
<1>1. call[c].pc = "idle" /\ UNCHANGED <<confVars, support>> /\ rq \in [stream: BOOLEAN, https: BOOLEAN]
  BY TransportAssumption DEF Begin
<1>2. proto \in Protocols \cup {"auto"} /\ support[h] \in Protocols \cup {None}
      /\ TRUE \in BOOLEAN /\ FALSE \in BOOLEAN
      /\ (proto = "auto") \in BOOLEAN /\ (support[h] = "h2") \in BOOLEAN
  BY DEF CallInv, ConfType
<1>3. CASE ~rq.https
  BY <1>1, <1>2, <1>3, StartStep, RaceLists DEF Begin
<1>4. CASE rq.https /\ rq.stream
  BY <1>1, <1>2, <1>4, StartStep, RouteLists DEF Begin
<1>5. CASE rq.https /\ ~rq.stream /\ Proxied(proxy)
  BY <1>1, <1>2, <1>5, StartStep, RouteLists DEF Begin
<1>6. CASE rq.https /\ ~rq.stream /\ ~Proxied(proxy) /\ proto # "auto"
  BY <1>1, <1>2, <1>6, StartStep, RouteLists DEF Begin
<1>7. CASE rq.https /\ ~rq.stream /\ ~Proxied(proxy) /\ proto = "auto" /\ support[h] # None
  BY <1>1, <1>2, <1>7, StartStep, RouteLists DEF Begin
<1>8. CASE rq.https /\ ~rq.stream /\ ~Proxied(proxy) /\ proto = "auto" /\ support[h] = None /\ ~preset3
  BY <1>1, <1>2, <1>8, StartStep, RaceLists DEF Begin
<1>9. CASE rq.https /\ ~rq.stream /\ ~Proxied(proxy) /\ proto = "auto" /\ support[h] = None /\ preset3
  <2> DEFINE calm == setter = "none" /\ ~sub.preset
             r == [NoCall EXCEPT !.pc = "race", !.req = rq, !.host = h, !.learn = TRUE,
                              !.reuse = TRUE, !.after = <<"h1">>, !.res = "pending",
                              !.calm = calm]
             w == [NoRace EXCEPT !.h3 = "run", !.h2 = "run"]
  <2>1. call' = [call EXCEPT ![c] = r] /\ race' = [race EXCEPT ![c] = w]
    BY <1>1, <1>9 DEF Begin
  <2>2. calm \in BOOLEAN
    BY DEF CallInv, ConfType
  <2> HIDE DEF calm
  <2>3. w \in RaceType /\ w.mis = "none" /\ NoCall \in LocalsType /\ ~NoCall.dropped
    <3>1. NoRace \in RaceType /\ NoRace.mis = "none"
      BY DEF NoRace, RaceType
    <3>2. w \in RaceType /\ w.mis = "none"
      BY <3>1 DEF RaceType
    <3>3. NoCall \in LocalsType /\ ~NoCall.dropped
      BY DEF NoCall, LocalsType
    <3> QED
      BY <3>2, <3>3
  <2>4. r \in LocalsType /\ r.pc = "race" /\ r.host = h /\ r.res = "pending"
        /\ r.dropped = NoCall.dropped
    BY <1>1, <2>2, <2>3, RaceLists DEF LocalsType
  <2>5. LocalsOK(r, w)
    BY <2>3, <2>4 DEF LocalsOK
  <2>6. UNCHANGED confVars /\ support' \in [Hosts -> Protocols \cup {None}]
    BY <1>1 DEF CallInv
  <2> HIDE DEF r, w
  <2> QED
    BY <2>1, <2>3, <2>4, <2>5, <2>6, OneCall
<1> QED
  BY <1>3, <1>4, <1>5, <1>6, <1>7, <1>8, <1>9

\* A change of the configuration only marks the calls in progress.
LEMMA DisturbedOK ==
  ASSUME CallInv, call' = Disturbed, race' = race, support' = support, ConfType'
  PROVE  CallInv'
<1>1. \A c \in Calls : call[c] \in LocalsType /\ LocalsOK(call[c], race[c])
  BY DEF CallInv
<1>2. \A c \in Calls : [call[c] EXCEPT !.calm = call[c].calm /\ call[c].pc \in {"idle", "done"}] \in LocalsType
  BY <1>1, ZenonT(60) DEF LocalsType
<1>3. \A c \in Calls :
        LocalsOK([call[c] EXCEPT !.calm = call[c].calm /\ call[c].pc \in {"idle", "done"}], race[c])
  BY <1>1 DEF LocalsType, LocalsOK
<1> QED
  BY <1>2, <1>3 DEF CallInv, Disturbed

LEMMA ConfStep ==
  ASSUME CallInv,
         \/ \E p \in Proxies : SetProxyClose(p)
         \/ \E b \in BOOLEAN : SetPresetClose(b)
         \/ \E p \in Protocols \cup {"auto"} : RefreshWithProtocol(p)
         \/ SetterStep
         \/ CloseTransport
  PROVE  CallInv'
<1>1. CASE \/ \E p \in Proxies : SetProxyClose(p)
           \/ \E b \in BOOLEAN : SetPresetClose(b)
           \/ \E p \in Protocols \cup {"auto"} : RefreshWithProtocol(p)
           \/ CloseTransport
  <2>1. call' = Disturbed /\ race' = race /\ support' = support
    BY <1>1 DEF SetProxyClose, SetPresetClose, RefreshWithProtocol, CloseTransport, BeginSet
  <2>2. ConfType'
    <3>1. ConfType /\ sets < MaxSets /\ sets' = sets + 1 /\ MaxSets \in Nat
      BY <1>1, TransportAssumption DEF CallInv, SetProxyClose, SetPresetClose,
         RefreshWithProtocol, CloseTransport, BeginSet
    <3>2. sub' = sub \/ sub' = [sub EXCEPT !.up = FALSE]
      BY <1>1 DEF SetProxyClose, SetPresetClose, RefreshWithProtocol, CloseTransport
    <3>3. sets' \in 0 .. MaxSets
      BY <3>1 DEF ConfType
    <3>4. sub' \in [up: BOOLEAN, quic: Kinds, preset: BOOLEAN]
      BY <3>1, <3>2 DEF ConfType
    <3> QED
      BY <1>1, <3>1, <3>3, <3>4
      DEF ConfType, SetProxyClose, SetPresetClose, RefreshWithProtocol, CloseTransport, BeginSet
  <2> QED
    BY <2>1, <2>2, DisturbedOK
<1>2. CASE SetProxyBuild \/ SetPresetBuild
  <2>1. proxy.url \in Kinds /\ UdpProxy(proxy) \in Kinds /\ ConfType
    BY UdpProxyType DEF CallInv, ConfType
  <2>2. CASE SetProxyBuild
    <3>1. PICK ok \in BOOLEAN :
            /\ sub' = [up |-> TRUE, quic |-> H3For(UdpProxy(proxy), ok).quic, preset |-> FALSE]
            /\ h3err' = H3For(UdpProxy(proxy), ok).err
      BY <2>2 DEF SetProxyBuild
    <3>2. ConfType'
      BY <2>1, <2>2, <3>1, H3ForType DEF ConfType, SetProxyBuild
    <3> QED
      BY <2>2, <3>2 DEF CallInv, SetProxyBuild
  <2>3. CASE SetPresetBuild
    <3>1. PICK ok \in BOOLEAN :
            sub' = [up |-> TRUE, quic |-> H3For(proxy.url, ok).quic, preset |-> TRUE]
      BY <2>3 DEF SetPresetBuild
    <3>2. ConfType'
      BY <2>1, <2>3, <3>1, H3ForType DEF ConfType, SetPresetBuild
    <3> QED
      BY <2>3, <3>2 DEF CallInv, SetPresetBuild
  <2> QED
    BY <1>2, <2>2, <2>3
<1>3. CASE ClearProtocolCache
  BY <1>3 DEF CallInv, ConfType, ClearProtocolCache
<1> QED
  BY <1>1, <1>2, <1>3 DEF SetterStep

\* Every step of a call, of its goroutines and of the configuration keeps the
\* invariant.
LEMMA CallInvStep == CallInv /\ [TransportNext]_transportVars => CallInv'
<1> SUFFICES ASSUME CallInv, [TransportNext]_transportVars
             PROVE  CallInv'
  OBVIOUS
<1>1. ASSUME NEW c \in Calls, CallStep(c)
      PROVE  CallInv'
  <2>1. CASE RaceWon(c) \/ RaceMismatch(c) \/ RaceTimeout(c) \/ RaceCancelled(c)
    BY <2>1, RaceStep
  <2>2. CASE ~(RaceWon(c) \/ RaceMismatch(c) \/ RaceTimeout(c) \/ RaceCancelled(c))
    <3>1. call[c].pc = "try" /\ (Answered(c) \/ Failed(c) \/ Mismatch(c))
      BY <1>1, <2>2 DEF CallStep, At, doHTTP1, doHTTP1WithTLSConn, doHTTP2, doHTTP3,
                        doStreamHTTP1, doStreamHTTP2, doStreamHTTP3
    <3> QED
      BY <3>1, AnsweredStep, FailedStep, MismatchStep
  <2> QED
    BY <2>1, <2>2
<1>2. CASE UNCHANGED transportVars
  BY <1>2 DEF CallInv, ConfType, transportVars
<1> QED
  BY <1>1, <1>2, ConfStep, BeginStep, CancelReturnStep, ConnectStep DEF TransportNext

\* Whatever the servers answer, whichever attempt of the race comes first, and
\* whenever the proxy, the preset or the protocol is changed: a mismatch the
\* race knew of is closed or reused, and a call with a fall-back to HTTP/1.1
\* does not fail before it was tried.
THEOREM FallbacksUsedUp == TransportSpec => []TransportInv
<1>1. TransportSpec => []CallInv
  BY CallInit, CallInvStep, PTL DEF TransportSpec
<1> QED
  BY <1>1, CallInvSuffices, PTL

-----------------------------------------------------------------------------
(* What a step does to the locals of its call.                             *)

\* The attempt is made: the call goes on with what was left, ends in failure or
\* is answered, and only an answer is remembered.
TriedTo(c, r) ==
  /\ r \in LocalsType
  /\ call' = [call EXCEPT ![c] = r]
  /\ r.pc \in {"try", "done"}
  /\ r.req = call[c].req /\ r.calm = call[c].calm /\ r.after = call[c].after
  /\ r.direct <=> call[c].direct \/ Bypass(Head(call[c].todo))
  /\ r.pc = "try" => \/ r.todo = Tail(call[c].todo)
                     \/ r.todo = <<"h1tls">> \o call[c].after
  /\ \/ r.res \in {"pending", "failed"} /\ support' = support
     \/ /\ r.res \in Protocols
        /\ support' = support \/ \E h \in Hosts : support' = [support EXCEPT ![h] = r.res]

LEMMA AttemptResult ==
  ASSUME NEW c \in Calls, CallInv, call[c].pc = "try", Answered(c) \/ Failed(c) \/ Mismatch(c)
  PROVE  \E r : TriedTo(c, r)
<1> DEFINE q == Attempted(c)
           a == Head(call[c].todo)
<1>1. call[c] \in LocalsType /\ call[c].res = "pending" /\ call[c].host \in Hosts
      /\ call \in [Calls -> LocalsType]
  BY DEF CallInv, LocalsOK
<1>2. q \in LocalsType /\ a \in Attempts /\ q.todo = Tail(call[c].todo)
      /\ (q.direct <=> call[c].direct \/ Bypass(a))
  BY AttemptedOK
<1>3. q.pc = "try" /\ q.req = call[c].req /\ q.calm = call[c].calm /\ q.after = call[c].after
      /\ q.res = "pending"
  BY <1>1 DEF Attempted, LocalsType
<1> HIDE DEF q, a
<1>4. CASE Answered(c)
  <2> DEFINE r == [q EXCEPT !.pc = "done", !.res = ProtocolOf(a)]
  <2>1. ProtocolOf(a) \in Protocols
    BY <1>2 DEF ProtocolOf, Attempts, Protocols
  <2>2. r \in LocalsType /\ r.pc = "done" /\ r.res = ProtocolOf(a) /\ r.req = q.req
        /\ r.calm = q.calm /\ r.after = q.after /\ r.direct = q.direct
    BY <1>2, <2>1 DEF LocalsType
  <2>3. call' = [call EXCEPT ![c] = r]
    BY <1>4 DEF Answered, q, a
  <2>4. support' = support \/ \E h \in Hosts : support' = [support EXCEPT ![h] = ProtocolOf(a)]
    BY <1>1, <1>4 DEF Answered, Learn, a
  <2> HIDE DEF r
  <2>5. r.res \in Protocols
        /\ (support' = support \/ \E h \in Hosts : support' = [support EXCEPT ![h] = r.res])
    BY <2>1, <2>2, <2>4
  <2>6. TriedTo(c, r)
    BY <1>2, <1>3, <2>2, <2>3, <2>5 DEF TriedTo, a
  <2> QED
    BY <2>6
<1>5. ASSUME NEW d \in BOOLEAN, call' = [call EXCEPT ![c] = GoOn([q EXCEPT !.dropped = d])],
             support' = support
      PROVE  \E r : TriedTo(c, r)
  <2> DEFINE b == [q EXCEPT !.dropped = d]
  <2>1. b \in LocalsType /\ b.pc = "try" /\ b.res = "pending" /\ b.req = q.req
        /\ b.calm = q.calm /\ b.after = q.after /\ b.direct = q.direct /\ b.todo = q.todo
    BY <1>2, <1>3 DEF LocalsType
  <2> HIDE DEF b
  <2> DEFINE r == GoOn(b)
  <2>2. r \in LocalsType /\ r.req = q.req /\ r.calm = q.calm /\ r.after = q.after
        /\ r.direct = q.direct /\ r.todo = q.todo /\ r.pc \in {"try", "done"}
        /\ r.res \in {"pending", "failed"}
    BY <2>1, ZenonT(60) DEF GoOn, LocalsType
  <2>3. call' = [call EXCEPT ![c] = r]
    BY <1>5 DEF b
  <2> HIDE DEF r
  <2> QED
    BY <1>2, <1>3, <1>5, <2>2, <2>3 DEF TriedTo, a
<1>6. CASE Failed(c)
  <2>1. q = [q EXCEPT !.dropped = q.dropped] /\ q.dropped \in BOOLEAN
    BY <1>2 DEF LocalsType
  <2>2. call' = [call EXCEPT ![c] = GoOn(q)] /\ support' = support
    BY <1>6 DEF Failed, q
  <2> QED
    BY <1>5, <2>1, <2>2
<1>7. CASE Mismatch(c) /\ ~call[c].reuse
  BY <1>5, <1>7 DEF Mismatch, q
<1>8. CASE Mismatch(c) /\ call[c].reuse
  <2> DEFINE s == <<"h1tls">> \o call[c].after
             r == [q EXCEPT !.todo = s]
  <2>1. s \in Seq(Attempts)
    BY <1>1 DEF LocalsType, Attempts
  <2>2. r \in LocalsType /\ r.pc = "try" /\ r.res = "pending" /\ r.req = q.req
        /\ r.calm = q.calm /\ r.after = q.after /\ r.direct = q.direct /\ r.todo = s
    BY <1>2, <1>3, <2>1 DEF LocalsType
  <2>3. call' = [call EXCEPT ![c] = r] /\ support' = support
    BY <1>8 DEF Mismatch, q
  <2> HIDE DEF r
  <2> QED
    BY <1>2, <1>3, <2>2, <2>3 DEF TriedTo, a
<1> QED
  BY <1>4, <1>6, <1>7, <1>8

\* Do and DoStream have begun.  A call of Do goes over HTTP/3 under a proxy
\* for QUIC only while no error is on record.
BegunAs(c, rq, r) ==
  /\ r \in LocalsType
  /\ call' = [call EXCEPT ![c] = r]
  /\ r.pc # "idle" /\ r.res \in {"pending", "failed"}
  /\ r.req = rq
  /\ r.calm <=> setter = "none" /\ ~sub.preset
  /\ ~r.direct /\ r.after \in {<<>>, <<"h1">>}
  /\ ~rq.stream => \/ UdpProxy(proxy) = "none"
                   \/ r.pc # "race" /\ (~h3err \/ ~Has(r.todo, "h3"))

LEMMA StartResult ==
  ASSUME NEW c \in Calls, CallInv, NEW rq \in Requests, NEW h \in Hosts,
         NEW s \in Seq(Attempts), NEW learn \in BOOLEAN, NEW reuse \in BOOLEAN,
         ~rq.stream => UdpProxy(proxy) = "none" \/ ~h3err \/ ~Has(s, "h3"),
         Start(c, rq, h, s, learn, reuse)
  PROVE  \E r : BegunAs(c, rq, r)
<1> DEFINE pc == IF s = <<>> THEN "done" ELSE "try"
           res == IF s = <<>> THEN "failed" ELSE "pending"
           calm == setter = "none" /\ ~sub.preset
           r == [NoCall EXCEPT !.pc = pc, !.req = rq, !.host = h, !.todo = s, !.learn = learn,
                               !.reuse = reuse, !.res = res, !.calm = calm]
<1>1. call' = [call EXCEPT ![c] = r]
  BY DEF Start
<1>2. rq \in [stream: BOOLEAN, https: BOOLEAN] /\ calm \in BOOLEAN /\ pc \in {"done", "try"}
      /\ res \in {"failed", "pending"} /\ (calm <=> setter = "none" /\ ~sub.preset)
  BY TransportAssumption DEF CallInv, ConfType
<1>3. NoCall \in LocalsType /\ ~NoCall.direct /\ NoCall.after = <<>>
  BY DEF NoCall, LocalsType
<1> HIDE DEF pc, res, calm
<1>4. r.pc = pc /\ r.todo = s /\ r.res = res /\ r.req = rq /\ r.calm = calm
      /\ r.direct = NoCall.direct /\ r.after = NoCall.after
  BY <1>3 DEF LocalsType
<1>5. r \in LocalsType
  BY <1>2, <1>3 DEF LocalsType
<1> HIDE DEF r
<1>6. BegunAs(c, rq, r)
  BY <1>1, <1>2, <1>3, <1>4, <1>5 DEF BegunAs
<1> QED
  BY <1>6

LEMMA BeginResult ==
  ASSUME NEW c \in Calls, CallInv, NEW rq \in Requests, NEW h \in Hosts, Begin(c, rq, h)
  PROVE  \E r : BegunAs(c, rq, r)
<1>1. proto \in Protocols \cup {"auto"} /\ support[h] \in Protocols \cup {None}
      /\ rq \in [stream: BOOLEAN, https: BOOLEAN] /\ TRUE \in BOOLEAN /\ FALSE \in BOOLEAN
      /\ (proto = "auto") \in BOOLEAN /\ (support[h] = "h2") \in BOOLEAN
      /\ proxy \in Proxies /\ h3err \in BOOLEAN
  BY TransportAssumption DEF CallInv, ConfType
<1>2. ~Proxied(proxy) => UdpProxy(proxy) = "none"
  BY DEF Proxied, UdpProxy
<1>3. CASE ~rq.https
  <2>1. ~Has(<<"h1">>, "h3")
    BY HasLists
  <2> QED
    BY <1>1, <1>3, <2>1, StartResult, RaceLists DEF Begin
<1>4. CASE rq.https /\ rq.stream
  BY <1>1, <1>4, StartResult, RouteLists DEF Begin
<1>5. CASE rq.https /\ ~rq.stream /\ Proxied(proxy)
  <2>1. h3err => DoProxied \in {<<>>, <<"h2", "h1">>, <<"h1">>, <<"h2">>}
    BY <1>1 DEF DoProxied, Protocols
  <2>2. ~Has(<<>>, "h3") /\ ~Has(<<"h2", "h1">>, "h3") /\ ~Has(<<"h1">>, "h3") /\ ~Has(<<"h2">>, "h3")
    BY HasLists
  <2>3. ~h3err \/ ~Has(DoProxied, "h3")
    BY <2>1, <2>2
  <2> QED
    BY <1>1, <1>5, <2>3, StartResult, RouteLists DEF Begin
<1>6. CASE rq.https /\ ~rq.stream /\ ~Proxied(proxy) /\ proto # "auto"
  BY <1>1, <1>2, <1>6, StartResult, RouteLists DEF Begin
<1>7. CASE rq.https /\ ~rq.stream /\ ~Proxied(proxy) /\ proto = "auto" /\ support[h] # None
  BY <1>1, <1>2, <1>7, StartResult, RouteLists DEF Begin
<1>8. CASE rq.https /\ ~rq.stream /\ ~Proxied(proxy) /\ proto = "auto" /\ support[h] = None /\ ~preset3
  BY <1>1, <1>2, <1>8, StartResult, RaceLists DEF Begin
<1>9. CASE rq.https /\ ~rq.stream /\ ~Proxied(proxy) /\ proto = "auto" /\ support[h] = None /\ preset3
  <2> DEFINE calm == setter = "none" /\ ~sub.preset
             r == [NoCall EXCEPT !.pc = "race", !.req = rq, !.host = h, !.learn = TRUE,
                              !.reuse = TRUE, !.after = <<"h1">>, !.res = "pending",
                              !.calm = calm]
  <2>1. call' = [call EXCEPT ![c] = r]
    BY <1>1, <1>9 DEF Begin
  <2>2. calm \in BOOLEAN /\ (calm <=> setter = "none" /\ ~sub.preset)
    BY DEF CallInv, ConfType
  <2>3. NoCall \in LocalsType /\ ~NoCall.direct
    BY DEF NoCall, LocalsType
  <2> HIDE DEF calm
  <2>4. r \in LocalsType /\ r.pc = "race" /\ r.res = "pending" /\ r.req = rq /\ r.calm = calm
        /\ r.direct = NoCall.direct /\ r.after = <<"h1">>
    BY <1>1, <2>2, <2>3, RaceLists DEF LocalsType
  <2> HIDE DEF r
  <2>5. BegunAs(c, rq, r)
    BY <1>2, <1>9, <2>1, <2>2, <2>3, <2>4 DEF BegunAs
  <2> QED
    BY <2>5
<1> QED
  BY <1>3, <1>4, <1>5, <1>6, <1>7, <1>8, <1>9

-----------------------------------------------------------------------------
(* QUIC and the proxy.                                                     *)

\* The transports are the ones SetProxy or NewTransportWithConfig built for the
\* present proxy: without a tunnel for QUIC the error is on record.
ErrorOnRecord ==
  setter \in {"none", "clear"} /\ ~sub.preset /\ sub.quic = "none" /\ UdpProxy(proxy) # "none"
    => h3err

\* A call of Do that nobody disturbed was planned for the present configuration.
Planned(r) ==
  r.pc \in {"race", "try"} /\ r.calm =>
    /\ setter = "none" /\ ~sub.preset
    /\ ~r.req.stream =>
         \/ UdpProxy(proxy) = "none"
         \/ r.pc = "try" /\ (~h3err \/ ~Has(r.todo, "h3"))

\* The locals of a call as far as the proxy goes.
ProxyOK(r) ==
  /\ Planned(r)
  /\ r.after \in {<<>>, <<"h1">>}
  /\ ~r.req.stream /\ r.calm => ~r.direct

QuicInv == CallInv /\ ErrorOnRecord /\ \A c \in Calls : ProxyOK(call[c])

LEMMA QuicInit == TransportInit => QuicInv
<1> SUFFICES ASSUME TransportInit
             PROVE  QuicInv
  OBVIOUS
<1>1. CallInv
  BY CallInit
<1>2. PICK ok \in BOOLEAN :
        /\ sub = [up |-> TRUE, quic |-> H3For(UdpProxy(proxy), ok).quic, preset |-> FALSE]
        /\ h3err = H3For(UdpProxy(proxy), ok).err
  BY DEF TransportInit
<1>3. ErrorOnRecord
  BY <1>2, H3ForType, UdpProxyType DEF ErrorOnRecord, TransportInit
<1>4. ProxyOK(NoCall)
  BY DEF ProxyOK, Planned, NoCall
<1> QED
  BY <1>1, <1>3, <1>4 DEF QuicInv, TransportInit

\* A step that gives one call new locals and leaves the configuration alone.
LEMMA QuicOneCall ==
  ASSUME QuicInv, CallInv', NEW c \in Calls, NEW r, ProxyOK(r), UNCHANGED confVars,
         call' = [call EXCEPT ![c] = r]
  PROVE  QuicInv'
<1>1. \A d \in Calls : ProxyOK(call'[d])
  BY DEF QuicInv, CallInv
<1>2. \A d \in Calls : ProxyOK(call[d])'
  BY <1>1 DEF ProxyOK, Planned, confVars
<1>3. ErrorOnRecord'
  BY DEF QuicInv, ErrorOnRecord, confVars
<1> QED
  BY <1>2, <1>3 DEF QuicInv

\* No attempt of a call nobody disturbed goes past the proxy: HTTP/3 is on its
\* list only if no error is on record, and then the tunnel exists.
LEMMA AttemptUsesProxy ==
  ASSUME QuicInv, CallInv', NEW c \in Calls, NEW r, call[c].pc = "try", TriedTo(c, r),
         UNCHANGED confVars
  PROVE  QuicInv'
<1> DEFINE s == call[c].todo
<1>1. s \in Seq(Attempts) /\ s # <<>> /\ ProxyOK(call[c]) /\ call[c] \in LocalsType
  BY DEF QuicInv, CallInv, LocalsOK, LocalsType
<1>2. Has(s, "h3") <=> Head(s) = "h3" \/ Has(Tail(s), "h3")
  BY <1>1, HasTail
<1>3. ~Has(<<"h1tls">> \o call[c].after, "h3")
  <2>1. <<"h1tls">> \in Seq(Attempts) /\ call[c].after \in Seq(Attempts)
    BY <1>1 DEF LocalsType, Attempts
  <2>2. ~Has(<<"h1tls">>, "h3") /\ ~Has(<<>>, "h3") /\ ~Has(<<"h1">>, "h3")
    BY HasLists
  <2>3. ~Has(call[c].after, "h3")
    BY <1>1, <2>2 DEF ProxyOK
  <2> QED
    BY <2>1, <2>2, <2>3, HasConcat
<1>4. r.pc = "try" /\ Has(r.todo, "h3") => Has(s, "h3")
  BY <1>2, <1>3 DEF TriedTo
<1>5. Planned(r) /\ r.after \in {<<>>, <<"h1">>}
  BY <1>1, <1>4 DEF TriedTo, ProxyOK, Planned
<1>6. ~call[c].req.stream /\ call[c].calm => ~Bypass(Head(s))
  BY <1>1, <1>2 DEF ProxyOK, Planned, Bypass, QuicInv, ErrorOnRecord
<1>7. ProxyOK(r)
  BY <1>1, <1>5, <1>6 DEF ProxyOK, TriedTo
<1> QED
  BY <1>7, QuicOneCall DEF TriedTo

\* Changing the configuration disturbs the calls in progress; building the new
\* transports happens while no undisturbed call is in progress.
LEMMA ConfUsesProxy ==
  ASSUME QuicInv, CallInv',
         \/ \E p \in Proxies : SetProxyClose(p)
         \/ \E b \in BOOLEAN : SetPresetClose(b)
         \/ \E p \in Protocols \cup {"auto"} : RefreshWithProtocol(p)
         \/ SetterStep
         \/ CloseTransport
  PROVE  QuicInv'
<1>1. /\ ConfType
      /\ \A c \in Calls : call[c] \in LocalsType /\ ProxyOK(call[c])
      /\ ErrorOnRecord
  BY DEF QuicInv, CallInv
<1>2. CASE \/ \E p \in Proxies : SetProxyClose(p)
           \/ \E b \in BOOLEAN : SetPresetClose(b)
           \/ \E p \in Protocols \cup {"auto"} : RefreshWithProtocol(p)
           \/ CloseTransport
  <2>1. call' = Disturbed
    BY <1>2 DEF SetProxyClose, SetPresetClose, RefreshWithProtocol, CloseTransport, BeginSet
  <2>2. \A c \in Calls :
          /\ call'[c].calm => call[c].calm /\ call[c].pc \in {"idle", "done"}
          /\ call'[c].pc = call[c].pc /\ call'[c].direct = call[c].direct
          /\ call'[c].req = call[c].req /\ call'[c].after = call[c].after
    BY <1>1, <2>1 DEF Disturbed, LocalsType
  <2>3. \A c \in Calls : ProxyOK(call[c])'
    BY <1>1, <2>2 DEF ProxyOK, Planned
  <2>4. ErrorOnRecord'
    BY <1>1, <1>2 DEF ErrorOnRecord, ConfType, SetProxyClose, SetPresetClose,
                      RefreshWithProtocol, CloseTransport, BeginSet
  <2> QED
    BY <2>3, <2>4 DEF QuicInv
<1>3. CASE SetterStep
  <2>1. setter # "none" /\ call' = call
    BY <1>3 DEF SetterStep, SetProxyBuild, SetPresetBuild, ClearProtocolCache
  <2>2. \A c \in Calls : ProxyOK(call[c])'
    BY <1>1, <2>1 DEF ProxyOK, Planned
  <2>3. ErrorOnRecord'
    <3>1. CASE SetProxyBuild
      <4>1. PICK ok \in BOOLEAN :
              /\ sub' = [up |-> TRUE, quic |-> H3For(UdpProxy(proxy), ok).quic, preset |-> FALSE]
              /\ h3err' = H3For(UdpProxy(proxy), ok).err
        BY <3>1 DEF SetProxyBuild
      <4>2. UdpProxy(proxy) \in Kinds /\ proxy' = proxy
        BY <1>1, <3>1, UdpProxyType DEF ConfType, SetProxyBuild
      <4>3. sub'.quic = H3For(UdpProxy(proxy), ok).quic
        BY <4>1
      <4> QED
        BY <4>1, <4>2, <4>3, H3ForType DEF ErrorOnRecord
    <3>2. CASE SetPresetBuild
      <4>1. sub'.preset
        BY <3>2 DEF SetPresetBuild
      <4> QED
        BY <4>1 DEF ErrorOnRecord
    <3>3. CASE ClearProtocolCache
      BY <1>1, <3>3 DEF ErrorOnRecord, ClearProtocolCache
    <3> QED
      BY <1>3, <3>1, <3>2, <3>3 DEF SetterStep
  <2> QED
    BY <2>2, <2>3 DEF QuicInv
<1> QED
  BY <1>2, <1>3

LEMMA QuicStep == QuicInv /\ [TransportNext]_transportVars => QuicInv'
<1> SUFFICES ASSUME QuicInv, [TransportNext]_transportVars
             PROVE  QuicInv'
  OBVIOUS
<1>1. CallInv /\ CallInv'
  BY CallInvStep DEF QuicInv
<1>2. \A c \in Calls : ProxyOK(call[c]) /\ call[c] \in LocalsType
  BY <1>1 DEF QuicInv, CallInv
<1>3. ASSUME NEW c \in Calls, NEW rq \in Requests, NEW h \in Hosts, Begin(c, rq, h)
      PROVE  QuicInv'
  <2>1. PICK r : BegunAs(c, rq, r)
    BY <1>1, <1>3, BeginResult
  <2>2. r.pc \in {"race", "try", "done"}
    BY <2>1 DEF BegunAs, LocalsType
  <2>3. ProxyOK(r)
    BY <2>1, <2>2 DEF BegunAs, ProxyOK, Planned
  <2>4. call' = [call EXCEPT ![c] = r] /\ UNCHANGED confVars
    BY <1>3, <2>1 DEF BegunAs, Begin
  <2> QED
    BY <1>1, <2>3, <2>4, QuicOneCall
<1>4. ASSUME NEW c \in Calls, Cancel(c) \/ Return(c) \/ ConnectH3(c) \/ ConnectH2(c)
      PROVE  QuicInv'
  <2>1. UNCHANGED confVars
    BY <1>4 DEF Cancel, Return, ConnectH3, ConnectH2
  <2>2. CASE Cancel(c)
    <3>1. ProxyOK([call[c] EXCEPT !.ctx = FALSE])
      BY <1>2 DEF LocalsType, ProxyOK, Planned
    <3>2. call' = [call EXCEPT ![c] = [call[c] EXCEPT !.ctx = FALSE]]
      BY <2>2 DEF Cancel
    <3> QED
      BY <1>1, <2>1, <3>1, <3>2, QuicOneCall
  <2>3. CASE Return(c)
    <3>1. ProxyOK(NoCall)
      BY DEF ProxyOK, Planned, NoCall
    <3> QED
      BY <1>1, <2>1, <2>3, <3>1, QuicOneCall DEF Return
  <2>4. CASE ConnectH3(c) \/ ConnectH2(c)
    <3>1. call' = [call EXCEPT ![c] = call[c]]
      BY <1>1, <2>4 DEF CallInv, ConnectH3, ConnectH2
    <3> QED
      BY <1>1, <1>2, <2>1, <3>1, QuicOneCall
  <2> QED
    BY <1>4, <2>2, <2>3, <2>4
<1>5. ASSUME NEW c \in Calls, CallStep(c)
      PROVE  QuicInv'
  <2>1. CASE RaceWon(c) \/ RaceMismatch(c) \/ RaceTimeout(c) \/ RaceCancelled(c)
    <3>1. PICK s : Decide(c, s)
      BY <2>1 DEF RaceWon, RaceMismatch, RaceTimeout, RaceCancelled
    <3> DEFINE r == [call[c] EXCEPT !.pc = "try", !.todo = s]
    <3>2. call[c].pc = "race" /\ call' = [call EXCEPT ![c] = r] /\ UNCHANGED confVars
      BY <3>1 DEF Decide
    <3>3. r.pc = "try" /\ r.calm = call[c].calm /\ r.req = call[c].req
          /\ r.direct = call[c].direct /\ r.after = call[c].after
      BY <1>2 DEF LocalsType
    <3> HIDE DEF r
    <3>4. ProxyOK(r)
      BY <1>2, <3>2, <3>3 DEF ProxyOK, Planned
    <3> QED
      BY <1>1, <3>2, <3>4, QuicOneCall
  <2>2. CASE ~(RaceWon(c) \/ RaceMismatch(c) \/ RaceTimeout(c) \/ RaceCancelled(c))
    <3>1. call[c].pc = "try" /\ (Answered(c) \/ Failed(c) \/ Mismatch(c))
      BY <1>5, <2>2 DEF CallStep, At, doHTTP1, doHTTP1WithTLSConn, doHTTP2, doHTTP3,
                        doStreamHTTP1, doStreamHTTP2, doStreamHTTP3
    <3>2. PICK r : TriedTo(c, r)
      BY <1>1, <3>1, AttemptResult
    <3>3. UNCHANGED confVars
      BY <3>1 DEF Answered, Failed, Mismatch
    <3> QED
      BY <1>1, <3>1, <3>2, <3>3, AttemptUsesProxy
  <2> QED
    BY <2>1, <2>2
<1>6. CASE UNCHANGED transportVars
  BY <1>1, <1>6 DEF transportVars, QuicInv, ErrorOnRecord, ProxyOK, Planned
<1> QED
  BY <1>1, <1>3, <1>4, <1>5, <1>6, ConfUsesProxy DEF TransportNext

\* A call of Do that no SetProxy, SetPreset, RefreshWithProtocol or Close
\* disturbs never sends its request over QUIC past the proxy configured for it.
THEOREM DoNeverBypassesProxy == TransportSpec => []QuicUsesProxy
<1>1. TransportSpec => []QuicInv
  BY QuicInit, QuicStep, PTL DEF TransportSpec
<1>2. QuicInv => QuicUsesProxy
  BY DEF QuicInv, ProxyOK, QuicUsesProxy
<1> QED
  BY <1>1, <1>2, PTL

-----------------------------------------------------------------------------
(* The choice of a protocol.                                               *)

\* The new outcome of one call is the new outcome of the abstract one.
LEMMA OutcomeOf ==
  ASSUME CallInv, NEW c \in Calls, NEW r, call' = [call EXCEPT ![c] = r]
  PROVE  [d \in Calls |-> call[d].res]' = [[d \in Calls |-> call[d].res] EXCEPT ![c] = r.res]
BY DEF CallInv

\* Every step of Do and DoStream is a step of the abstract choice or none.
LEMMA ChoiceStep ==
  CallInv /\ [TransportNext]_transportVars => [Choice!ChoiceNext]_(Choice!choiceVars)
<1> SUFFICES ASSUME CallInv, [TransportNext]_transportVars
             PROVE  Choice!ChoiceNext \/ UNCHANGED Choice!choiceVars
  OBVIOUS
<1> DEFINE out == [d \in Calls |-> call[d].res]
<1>1. \A c \in Calls : call[c] \in LocalsType /\ LocalsOK(call[c], race[c]) /\ out[c] = call[c].res
  BY DEF CallInv
<1>2. CASE \/ \E p \in Proxies : SetProxyClose(p)
           \/ \E b \in BOOLEAN : SetPresetClose(b)
           \/ \E p \in Protocols \cup {"auto"} : RefreshWithProtocol(p)
           \/ CloseTransport
  <2>1. call' = Disturbed /\ support' = support
    BY <1>2 DEF SetProxyClose, SetPresetClose, RefreshWithProtocol, CloseTransport, BeginSet
  <2>2. \A c \in Calls : call'[c].res = call[c].res
    BY <1>1, <2>1 DEF Disturbed, LocalsType
  <2> QED
    BY <2>1, <2>2 DEF Choice!choiceVars
<1>3. CASE SetterStep
  <2>1. call' = call
    BY <1>3 DEF SetterStep, SetProxyBuild, SetPresetBuild, ClearProtocolCache
  <2>2. CASE ClearProtocolCache
    BY <2>1, <2>2 DEF ClearProtocolCache, Choice!ChoiceNext, Choice!Forget
  <2>3. CASE SetProxyBuild \/ SetPresetBuild
    BY <2>1, <2>3 DEF SetProxyBuild, SetPresetBuild, Choice!choiceVars
  <2> QED
    BY <1>3, <2>2, <2>3 DEF SetterStep
<1>4. ASSUME NEW c \in Calls, NEW rq \in Requests, NEW h \in Hosts, Begin(c, rq, h)
      PROVE  Choice!ChoiceNext
  <2>1. PICK r : BegunAs(c, rq, r)
    BY <1>4, BeginResult
  <2>2. out' = [out EXCEPT ![c] = r.res] /\ r.res \in {"pending", "failed"}
    BY <2>1, OutcomeOf DEF BegunAs
  <2>3. out[c] = "idle" /\ support' = support
    BY <1>1, <1>4 DEF Begin, LocalsOK
  <2> QED
    BY <2>2, <2>3 DEF Choice!ChoiceNext, Choice!Ask, Choice!Refuse
<1>5. ASSUME NEW c \in Calls, Cancel(c) \/ ConnectH3(c) \/ ConnectH2(c)
      PROVE  UNCHANGED Choice!choiceVars
  <2>1. \A d \in Calls : call'[d].res = call[d].res
    <3>1. CASE Cancel(c)
      BY <1>1, <3>1 DEF CallInv, Cancel, LocalsType
    <3>2. CASE ConnectH3(c) \/ ConnectH2(c)
      BY <3>2 DEF ConnectH3, ConnectH2
    <3> QED
      BY <1>5, <3>1, <3>2
  <2> QED
    BY <1>5, <2>1 DEF Cancel, ConnectH3, ConnectH2, Choice!choiceVars
<1>6. ASSUME NEW c \in Calls, Return(c)
      PROVE  Choice!ChoiceNext
  <2>1. out' = [out EXCEPT ![c] = "idle"]
    <3>1. call' = [call EXCEPT ![c] = NoCall] /\ NoCall.res = "idle"
      BY <1>6 DEF Return, NoCall
    <3> QED
      BY <3>1, OutcomeOf
  <2>2. out[c] # "pending" /\ support' = support
    BY <1>1, <1>6 DEF Return, LocalsOK
  <2> QED
    BY <2>1, <2>2 DEF Choice!ChoiceNext, Choice!Reset
<1>7. ASSUME NEW c \in Calls, CallStep(c)
      PROVE  Choice!ChoiceNext \/ UNCHANGED Choice!choiceVars
  <2>1. CASE RaceWon(c) \/ RaceMismatch(c) \/ RaceTimeout(c) \/ RaceCancelled(c)
    <3>1. PICK s : Decide(c, s)
      BY <2>1 DEF RaceWon, RaceMismatch, RaceTimeout, RaceCancelled
    <3>2. support' = support /\ \A d \in Calls : call'[d].res = call[d].res
      BY <1>1, <3>1 DEF Decide, CallInv, LocalsType
    <3> QED
      BY <3>2 DEF Choice!choiceVars
  <2>2. CASE ~(RaceWon(c) \/ RaceMismatch(c) \/ RaceTimeout(c) \/ RaceCancelled(c))
    <3>1. call[c].pc = "try" /\ (Answered(c) \/ Failed(c) \/ Mismatch(c))
      BY <1>7, <2>2 DEF CallStep, At, doHTTP1, doHTTP1WithTLSConn, doHTTP2, doHTTP3,
                        doStreamHTTP1, doStreamHTTP2, doStreamHTTP3
    <3>2. PICK r : TriedTo(c, r)
      BY <3>1, AttemptResult
    <3>3. out' = [out EXCEPT ![c] = r.res] /\ out[c] = "pending"
      BY <1>1, <3>1, <3>2, OutcomeOf, ZenonT(60) DEF TriedTo, LocalsOK
    <3>4. CASE r.res = "pending" /\ support' = support
      BY <3>3, <3>4 DEF Choice!choiceVars
    <3>5. CASE r.res = "failed" /\ support' = support
      BY <3>3, <3>5 DEF Choice!ChoiceNext, Choice!Fail
    <3>6. CASE /\ r.res \in Protocols
               /\ support' = support \/ \E h \in Hosts : support' = [support EXCEPT ![h] = r.res]
      BY <3>3, <3>6 DEF Choice!ChoiceNext, Choice!Answer
    <3> QED
      BY <3>2, <3>4, <3>5, <3>6 DEF TriedTo
  <2> QED
    BY <2>1, <2>2
<1>8. CASE UNCHANGED transportVars
  BY <1>8 DEF transportVars, Choice!choiceVars
<1> QED
  BY <1>2, <1>3, <1>4, <1>5, <1>6, <1>7, <1>8 DEF TransportNext

\* Transport implements ProtocolChoice, but for its fairness: a call is answered
\* once, by one protocol, or fails, and the protocol remembered for a host is
\* always one that has just answered.
THEOREM TransportImplementsChoice == TransportSpec => Choice!ChoiceSafety
<1>1. TransportInit => Choice!ChoiceInit
  <2> SUFFICES ASSUME TransportInit
               PROVE  Choice!ChoiceInit
    OBVIOUS
  <2>1. NoCall.res = "idle"
    BY DEF NoCall
  <2> QED
    BY <2>1 DEF TransportInit, Choice!ChoiceInit
<1>2. TransportSpec => []CallInv
  BY CallInit, CallInvStep, PTL DEF TransportSpec
<1> QED
  BY <1>1, <1>2, ChoiceStep, PTL DEF TransportSpec, Choice!ChoiceSafety

=============================================================================
