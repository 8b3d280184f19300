---------------------------- MODULE ClientProofs ----------------------------
(***************************************************************************)
(* Proofs about Client, for any number of concurrent calls of Do and       *)
(* DoStream, any hosts, requests and credentials, any limits, and any      *)
(* number of changes of the proxies; and about Http2Conns, the connections *)
(* below it, for any finite number of requests, any number of connections  *)
(* and keys and any limits.                                                *)
(***************************************************************************)
EXTENDS Client, Http2Conns, FiniteSetTheorems, TLAPS

Headers == [auth: Owners, cookie: Hosts \cup {None}]

CallType ==
  [pc: {"idle", "start", "try", "wait", "done"}, req: Asked \cup {NoCall.req},
   from: Hosts \cup {None}, host: Hosts \cup {None},
   n: 0 .. MaxRetries, hops: 0 .. MaxRedirects, chal: BOOLEAN,
   force: Protocols \cup {"auto"}, h3: BOOLEAN,
   todo: Seq(Protocols), tried: Seq(Protocols), auth: AuthKinds,
   hdr: Headers, base: Headers, given: Headers, sent: Headers, expired: BOOLEAN, kept: BOOLEAN,
   res: {"none", "response", "error", "panic"}, calm: BOOLEAN]

\* HTTP/3 is not in the list of protocols still to try.
NoHTTP3(s) == \A i \in 1 .. Len(s) : s[i] # "h3"

Running(r) == r.pc \in {"start", "try", "wait"}

\* What a call may use before a redirect: cookies of the host it is made for, and
\* what was in the caller's map when that is passed again.
OwnCookie(r, x) == x \in {None, r.from} \/ (r.req.again /\ x = r.given.cookie)

\* What survives from one attempt of a call to the next: the caller's header
\* map never gets a cookie of another host, and a stream keeps no response.
CoreOK(r) ==
  /\ r.req \in Asked /\ r.from \in Hosts /\ r.host \in Hosts
  /\ OwnCookie(r, r.base.cookie)
  /\ r.base.auth = "old" => r.req.again
  /\ r.res = "none"
  /\ r.req.stream => ~r.kept

\* What the next hop will carry: the request's credentials only go to the
\* origin it was made for, and a redirect is the only way to another one.
CarryOK(r) ==
  /\ r.hops = 0 => r.host = r.from /\ OwnCookie(r, r.hdr.cookie)
  /\ r.auth # "none" => r.host = r.from
  /\ r.hdr.auth \in {"req", "old"} => r.host = r.from
  /\ r.hdr.auth = "old" => r.req.again

SentOK(r) ==
  /\ r.todo # <<>>
  /\ r.sent.auth \in {"req", "old"} => r.host = r.from
  /\ r.sent.auth = "old" => r.req.again
  /\ r.hops = 0 => r.host = r.from /\ OwnCookie(r, r.sent.cookie)

ResultOK(r) ==
  /\ r.res = "error" => ~r.kept
  /\ r.res = "panic" => ~r.calm

CallOK(r) ==
  /\ Running(r) => CoreOK(r)
  /\ r.pc \in {"start", "try"} => CarryOK(r)
  /\ r.pc = "try" => SentOK(r)
  /\ r.pc = "wait" => r.n < MaxRetries
  /\ ResultOK(r)

\* While no setter disturbs the call, HTTP/3 is only on its list when there is
\* something to serve it.
Served(r, q) == r.pc = "try" /\ r.calm /\ q = "none" => NoHTTP3(r.todo)

ConfOK ==
  /\ proxies \in [all: Kinds, tcp: Kinds, udp: Kinds]
  /\ quic \in {"direct", "masque", "socks", "none"}
  /\ building \in BOOLEAN /\ changes \in 0 .. MaxChanges /\ auth \in AuthKinds
  /\ nonce \subseteq {"req", "client"}
  /\ jar \subseteq Hosts /\ h2f \subseteq Hosts /\ h3f \subseteq Hosts
  /\ UdpProxyRespected

CallsOK ==
  /\ call \in [Calls -> CallType]
  /\ \A c \in Calls : CallOK(call[c]) /\ Served(call[c], quic)

ClientIInv == ConfOK /\ CallsOK

\* The inductive invariant says what the run checks.
LEMMA ClientSuffices ==
  ClientIInv => ClientInv /\ CredentialsConfined /\ KeptReturned
<1> SUFFICES ASSUME ClientIInv
             PROVE  ClientInv /\ CredentialsConfined /\ KeptReturned
  OBVIOUS
<1> USE DEF ClientIInv, ConfOK, CallsOK, CallOK
<1>1. ClientTypeOK
  BY DEF ClientTypeOK, CallType, Headers
<1>2. NoNilManager /\ UdpProxyRespected /\ KeptReturned
  BY DEF NoNilManager, KeptReturned, ResultOK
<1>3. ReqAuthConfined /\ CookieConfined
  BY DEF ReqAuthConfined, CookieConfined, SentOK, OwnCookie
<1> QED
  BY <1>1, <1>2, <1>3 DEF ClientInv, CredentialsConfined

-----------------------------------------------------------------------------
(* Records of calls.                                                       *)

\* A call that is not at an attempt and is as it should be.
Settled(r) == r \in CallType /\ CallOK(r) /\ r.pc # "try"

LEMMA HeadersEmpty == NoHeaders \in Headers /\ NoHeaders.auth = None /\ NoHeaders.cookie = None
BY DEF NoHeaders, Headers, Owners

LEMMA NoCallFacts ==
  NoCall \in CallType /\ NoCall.res = "none" /\ NoCall.pc = "idle" /\ ~NoCall.kept
<1>1. <<>> \in Seq(Protocols)
  OBVIOUS
<1>2. 0 \in 0 .. MaxRetries /\ 0 \in 0 .. MaxRedirects
  BY ClientAssumption
<1> QED
  BY <1>1, <1>2, HeadersEmpty DEF NoCall, CallType, Protocols, AuthKinds

\* A call that returns.
LEMMA EndedOK ==
  ASSUME NEW r \in CallType, NEW res \in {"response", "error", "panic"},
         res = "error" => ~r.kept, res = "panic" => ~r.calm
  PROVE  Settled(Ended(r, res))
<1> DEFINE e == Ended(r, res)
<1>1. e \in CallType
  BY NoCallFacts, ZenonT(60) DEF Ended, CallType
<1>2. e.pc = "done" /\ e.res = res /\ e.kept = r.kept /\ e.calm = r.calm
  BY NoCallFacts DEF Ended, CallType
<1> HIDE DEF e
<1>3. CallOK(e)
  BY <1>2 DEF CallOK, Running, ResultOK
<1> QED
  BY <1>1, <1>2, <1>3 DEF Settled, e

\* A call that goes on with another attempt or another hop.
LEMMA AgainOK ==
  ASSUME NEW r \in CallType, CoreOK(r), NEW p \in {"wait", "start"},
         p = "start" => CarryOK(r), p = "wait" => r.n < MaxRetries
  PROVE  Settled(Again(r, p))
<1> DEFINE e == Again(r, p)
<1>1. e \in CallType
  <2>1. <<>> \in Seq(Protocols)
    OBVIOUS
  <2> QED
    BY <2>1, HeadersEmpty DEF Again, CallType
<1>2. /\ e.pc = p /\ e.res = r.res /\ e.kept = r.kept /\ e.req = r.req /\ e.from = r.from
      /\ e.host = r.host /\ e.base = r.base /\ e.given = r.given /\ e.hops = r.hops
      /\ e.hdr = r.hdr /\ e.auth = r.auth
      /\ e.n = r.n
  BY DEF Again, CallType
<1> HIDE DEF e
<1>3. CallOK(e)
  BY <1>2 DEF CallOK, Running, CoreOK, CarryOK, ResultOK, OwnCookie
<1> QED
  BY <1>1, <1>2, <1>3 DEF Settled, e

LEMMA AttemptFailedOK ==
  ASSUME NEW r \in CallType, CoreOK(r)
  PROVE  Settled(AttemptFailed(r))
<1>1. CASE Retries(r) /\ r.n < MaxRetries
  <2>1. AttemptFailed(r) = Again(r, "wait")
    BY <1>1 DEF AttemptFailed
  <2> QED
    BY <1>1, <2>1, AgainOK
<1>2. CASE ~(Retries(r) /\ r.n < MaxRetries) /\ Retries(r) /\ r.kept
  BY <1>2, EndedOK DEF AttemptFailed
<1>3. CASE ~(Retries(r) /\ r.n < MaxRetries) /\ ~(Retries(r) /\ r.kept)
  <2>1. ~r.kept
    BY <1>3 DEF Retries, CoreOK, OwnCookie
  <2> QED
    BY <1>3, <2>1, EndedOK DEF AttemptFailed
<1> QED
  BY <1>1, <1>2, <1>3

LEMMA JudgedOK ==
  ASSUME NEW r \in CallType, CoreOK(r), NEW code, NEW cookie
  PROVE  Settled(Judged(r, code, cookie))
<1>1. [r EXCEPT !.chal = TRUE] \in CallType /\ CoreOK([r EXCEPT !.chal = TRUE])
  BY DEF CallType, CoreOK, OwnCookie
<1>2. ASSUME Retries(r)
      PROVE  [r EXCEPT !.kept = TRUE] \in CallType /\ CoreOK([r EXCEPT !.kept = TRUE])
  BY <1>2 DEF CallType, CoreOK, Retries, OwnCookie
<1>3. CASE ~Retries(r)
  BY <1>3, EndedOK DEF Judged
<1>4. CASE Retries(r)
  <2>1. CASE code \in {403, 429} /\ cookie /\ ~r.chal /\ r.req.force = "auto"
    BY <1>1, <1>4, <2>1, AttemptFailedOK DEF Judged
  <2>2. CASE /\ ~(code \in {403, 429} /\ cookie /\ ~r.chal /\ r.req.force = "auto")
             /\ code \in {429, 503} /\ r.n < MaxRetries
    <3>1. Judged(r, code, cookie) = Again([r EXCEPT !.kept = TRUE], "wait")
      BY <1>4, <2>2 DEF Judged
    <3> DEFINE k == [r EXCEPT !.kept = TRUE]
    <3>2. k.n = r.n /\ k \in CallType /\ CoreOK(k)
      BY <1>2, <1>4 DEF CallType
    <3> HIDE DEF k
    <3>3. Settled(Again(k, "wait"))
      BY <2>2, <3>2, AgainOK
    <3> QED
      BY <3>1, <3>3 DEF k
  <2>3. CASE /\ ~(code \in {403, 429} /\ cookie /\ ~r.chal /\ r.req.force = "auto")
             /\ ~(code \in {429, 503} /\ r.n < MaxRetries)
    BY <1>4, <2>3, EndedOK DEF Judged
  <2> QED
    BY <2>1, <2>2, <2>3
<1> QED
  BY <1>3, <1>4

\* A step of one call that leaves the configuration alone.
LEMMA OneCall ==
  ASSUME CallsOK, NEW c \in Calls, NEW r \in CallType, CallOK(r), Served(r, quic),
         call' = [call EXCEPT ![c] = r], quic' = quic
  PROVE  CallsOK'
BY DEF CallsOK

LEMMA SettledCall ==
  ASSUME CallsOK, NEW c \in Calls, NEW r, Settled(r),
         call' = [call EXCEPT ![c] = r], quic' = quic
  PROVE  CallsOK'
BY OneCall DEF Settled, Served

LEMMA ConfSame ==
  ASSUME ConfOK, UNCHANGED <<proxies, quic, building, changes, auth>>,
         nonce' \subseteq {"req", "client"}, jar' \subseteq Hosts,
         h2f' \subseteq Hosts, h3f' \subseteq Hosts
  PROVE  ConfOK'
BY DEF ConfOK, UdpProxyRespected

-----------------------------------------------------------------------------
(* The setters.                                                            *)

LEMMA DisturbedOK ==
  ASSUME CallsOK, call' = Disturbed
  PROVE  CallsOK'
<1>1. ASSUME NEW c \in Calls
      PROVE  call'[c] \in CallType /\ CallOK(call'[c]) /\ Served(call'[c], quic')
  <2> DEFINE r == call[c]
             e == call'[c]
  <2>1. r \in CallType /\ CallOK(r) /\ e = [r EXCEPT !.calm = @ /\ r.pc \in {"idle", "done"}]
    BY DEF CallsOK, Disturbed
  <2>2. e \in CallType
    BY <2>1, ZenonT(60) DEF CallType
  <2>3. /\ e.pc = r.pc /\ e.res = r.res /\ e.kept = r.kept /\ e.req = r.req /\ e.from = r.from
        /\ e.host = r.host /\ e.base = r.base /\ e.given = r.given /\ e.hops = r.hops /\ e.hdr = r.hdr
        /\ e.auth = r.auth /\ e.sent = r.sent /\ e.todo = r.todo /\ e.n = r.n
    BY <2>1 DEF CallType
  <2>4. e.calm = (r.calm /\ r.pc \in {"idle", "done"})
    BY <2>1 DEF CallType
  <2> HIDE DEF r, e
  <2>a. CoreOK(r) => CoreOK(e)
    BY <2>3 DEF CoreOK, OwnCookie
  <2>b. CarryOK(r) => CarryOK(e)
    BY <2>3 DEF CarryOK, OwnCookie
  <2>c. SentOK(r) => SentOK(e)
    BY <2>3 DEF SentOK, OwnCookie
  <2>d. ResultOK(r) => ResultOK(e)
    BY <2>3, <2>4 DEF ResultOK
  <2>5. CallOK(e)
    BY <2>1, <2>3, <2>a, <2>b, <2>c, <2>d DEF CallOK, Running
  <2>6. Served(e, quic')
    BY <2>3, <2>4 DEF Served
  <2> QED
    BY <2>2, <2>5, <2>6 DEF e
<1>2. DOMAIN call' = Calls /\ call' = [c \in Calls |-> call'[c]]
  BY DEF Disturbed
<1> QED
  BY <1>1, <1>2 DEF CallsOK

LEMMA SettersOK ==
  ASSUME ClientIInv,
         (\E k \in Settable : SetTCPProxy(k) \/ SetUDPProxyClose(k)) \/ SetUDPProxyBuild
  PROVE  ClientIInv'
<1> USE ClientAssumption DEF ClientIInv
<1>1. ASSUME NEW k \in Settable, SetTCPProxy(k)
      PROVE  ClientIInv'
  <2>1. ConfOK'
    BY <1>1 DEF SetTCPProxy, ConfOK, UdpProxyRespected
  <2> QED
    BY <1>1, <2>1, DisturbedOK DEF SetTCPProxy
<1>2. ASSUME NEW k \in Settable, SetUDPProxyClose(k)
      PROVE  ClientIInv'
  <2>1. ConfOK'
    BY <1>2 DEF SetUDPProxyClose, ConfOK, UdpProxyRespected
  <2> QED
    BY <1>2, <2>1, DisturbedOK DEF SetUDPProxyClose
<1>3. ASSUME SetUDPProxyBuild
      PROVE  ClientIInv'
  <2>1. quic' \in QuicFor(proxies.udp) /\ proxies.udp \in Kinds /\ proxies' = proxies
    BY <1>3 DEF SetUDPProxyBuild, ConfOK
  <2>2. quic' \in {"direct", "masque", "socks", "none"} /\ UdpProxyRespected'
    BY <2>1 DEF QuicFor, SupportsQUIC, Kinds, UdpProxyRespected
  <2>3. ConfOK'
    BY <1>3, <2>2 DEF SetUDPProxyBuild, ConfOK
  <2> QED
    BY <1>3, <2>3, DisturbedOK DEF SetUDPProxyBuild
<1> QED
  BY <1>1, <1>2, <1>3

-----------------------------------------------------------------------------
(* The steps of a call.                                                    *)

LEMMA DoOK ==
  ASSUME ClientIInv, NEW c \in Calls, NEW q \in Asked, NEW h \in Hosts, Do(c, q, h)
  PROVE  ClientIInv'
<1> DEFINE map == IF q.again THEN Aged(call[c].base) ELSE NoHeaders
           r == [NoCall EXCEPT !.pc = "start", !.req = q, !.from = h, !.host = h,
                   !.force = q.force, !.auth = q.auth, !.hdr = map, !.base = map, !.given = map,
                   !.calm = ~building]
<1>a. map \in Headers /\ map.auth # "req" /\ (~q.again => map = NoHeaders)
  <2>1. CASE q.again
    <3>1. call[c].base \in Headers
      BY DEF ClientIInv, CallsOK, CallType
    <3> QED
      BY <2>1, <3>1 DEF Aged, Headers, Owners
  <2>2. CASE ~q.again
    BY <2>2, HeadersEmpty, ClientAssumption
  <2> QED
    BY <2>1, <2>2
<1> HIDE DEF map
<1>1. q.force \in Protocols \cup {"auto"} /\ q.auth \in AuthKinds /\ building \in BOOLEAN
  BY ClientAssumption DEF ClientIInv, ConfOK
<1>2. r \in CallType
  BY <1>1, <1>a, NoCallFacts, ZenonT(60) DEF CallType
<1>3. /\ r.pc = "start" /\ r.req = q /\ r.from = h /\ r.host = h
      /\ r.res = "none" /\ r.kept = FALSE /\ r.base = map /\ r.hdr = map /\ r.given = map
  BY DEF NoCall
<1> HIDE DEF r
<1>4. Settled(r)
  BY <1>2, <1>3, <1>a, HeadersEmpty, ClientAssumption
     DEF Settled, CallOK, Running, CoreOK, CarryOK, ResultOK, OwnCookie
<1>5. CallsOK'
  BY <1>4, SettledCall DEF Do, ClientIInv, r, map
<1>6. ConfOK'
  BY ConfSame DEF Do, ClientIInv, ConfOK
<1> QED
  BY <1>5, <1>6 DEF ClientIInv

LEMMA BackoffOK ==
  ASSUME ClientIInv, NEW c \in Calls, Backoff(c) \/ BackoffCancelled(c)
  PROVE  ClientIInv'
<1> DEFINE o == call[c]
<1>1. o \in CallType /\ CallOK(o) /\ o.pc = "wait" /\ CallsOK
  BY DEF ClientIInv, CallsOK, Backoff, BackoffCancelled
<1>2. CoreOK(o) /\ o.req \in Asked /\ o.n < MaxRetries
  BY <1>1 DEF CallOK, Running, CoreOK, OwnCookie
<1>3. ConfOK'
  BY ConfSame DEF Backoff, BackoffCancelled, ClientIInv, ConfOK
<1>4. CASE Backoff(c)
  <2> DEFINE f == IF o.chal /\ o.req.force = "auto" /\ quic \in {"direct", "masque"}
                  THEN "h3" ELSE o.req.force
             r == [o EXCEPT !.pc = "start", !.n = @ + 1, !.host = o.from, !.hops = 0,
                     !.auth = o.req.auth, !.hdr = o.base, !.expired = FALSE, !.force = f]
  <2>1. o.n \in 0 .. MaxRetries /\ o.n + 1 \in 0 .. MaxRetries /\ 0 \in 0 .. MaxRedirects
    BY <1>1, <1>2, ClientAssumption DEF CallType
  <2>2. f \in Protocols \cup {"auto"} /\ o.req.auth \in AuthKinds
    BY <1>2, ClientAssumption DEF Protocols
  <2>3. call' = [call EXCEPT ![c] = r]
    BY <1>4 DEF Backoff
  <2>7. quic' = quic
    BY <1>4 DEF Backoff
  <2> HIDE DEF f
  <2>4. r \in CallType
    BY <1>1, <2>1, <2>2 DEF CallType
  <2>5. /\ r.pc = "start" /\ r.req = o.req /\ r.from = o.from /\ r.host = o.from /\ r.hops = 0
        /\ r.res = o.res /\ r.kept = o.kept /\ r.base = o.base /\ r.given = o.given /\ r.hdr = o.base
    BY <1>1 DEF CallType
  <2> HIDE DEF r
  <2>6. Settled(r)
    BY <1>2, <2>4, <2>5 DEF Settled, CallOK, Running, CoreOK, CarryOK, ResultOK, OwnCookie
  <2> QED
    BY <1>1, <1>3, <2>3, <2>6, <2>7, SettledCall DEF ClientIInv
<1>5. CASE BackoffCancelled(c)
  <2> DEFINE r == [o EXCEPT !.kept = FALSE]
  <2>1. r \in CallType /\ ~r.kept
    BY <1>1 DEF CallType
  <2>2. call' = [call EXCEPT ![c] = Ended(r, "error")] /\ quic' = quic
    BY <1>5 DEF BackoffCancelled
  <2> HIDE DEF r
  <2>3. Settled(Ended(r, "error"))
    BY <2>1, EndedOK
  <2> QED
    BY <1>1, <1>3, <2>2, <2>3, SettledCall DEF ClientIInv
<1> QED
  BY <1>4, <1>5

\* The list of protocols has HTTP/3 on it only if something serves it.
LEMMA WaysOK ==
  ASSUME NEW r, NEW f \in Protocols \cup {"auto"}, NEW h3 \in BOOLEAN, h3 => quic # "none"
  PROVE  /\ \A w \in {StreamWay(f, h3), DefaultWay(r, h3)} :
              w \in Seq(Protocols) /\ (quic = "none" => NoHTTP3(w))
         /\ f # "auto" => /\ Forced(f) \in Seq(Protocols)
                          /\ quic = "none" => NoHTTP3(Forced(f))
<1>1. \A p, q \in Protocols : /\ <<p>> \in Seq(Protocols)
                              /\ <<p, q>> \in Seq(Protocols)
                              /\ \A u \in Protocols : <<p, q, u>> \in Seq(Protocols)
  OBVIOUS
<1>2. <<>> \in Seq(Protocols) /\ NoHTTP3(<<>>)
  BY DEF NoHTTP3
<1>3. \A p : p # "h3" => NoHTTP3(<<p>>)
  BY DEF NoHTTP3
<1>4. NoHTTP3(<<"h2", "h1">>)
  <2> DEFINE s == <<"h2", "h1">>
  <2>1. Len(s) = 2 /\ s[1] = "h2" /\ s[2] = "h1"
    OBVIOUS
  <2> HIDE DEF s
  <2> QED
    BY <2>1 DEF NoHTTP3, s
<1>5. {"h1", "h2", "h3"} = Protocols
  BY DEF Protocols
<1>6. DefaultWay(r, h3) \in Seq(Protocols) /\ (quic = "none" => NoHTTP3(DefaultWay(r, h3)))
  <2>1. DefaultWay(r, h3) \in {<<"h3", "h2", "h1">>, <<"h1">>, <<"h2", "h3", "h1">>, <<"h2", "h1">>}
    BY DEF DefaultWay
  <2>2. ~h3 => DefaultWay(r, h3) \in {<<"h1">>, <<"h2", "h1">>}
    BY DEF DefaultWay
  <2> QED
    BY <1>1, <1>3, <1>4, <1>5, <2>1, <2>2
<1>7. StreamWay(f, h3) \in Seq(Protocols) /\ (quic = "none" => NoHTTP3(StreamWay(f, h3)))
  <2>1. CASE f = "auto"
    BY <1>1, <1>3, <1>5, <2>1 DEF StreamWay
  <2>2. CASE f = "h3"
    BY <1>1, <1>2, <1>5, <2>2 DEF StreamWay
  <2>3. CASE f \notin {"auto", "h3"}
    BY <1>1, <1>3, <1>5, <2>3 DEF StreamWay
  <2> QED
    BY <2>1, <2>2, <2>3
<1>8. f # "auto" => Forced(f) \in Seq(Protocols) /\ (quic = "none" => NoHTTP3(Forced(f)))
  BY <1>1, <1>2, <1>3, <1>5 DEF Forced
<1> QED
  BY <1>6, <1>7, <1>8

LEMMA PrepareOK ==
  ASSUME ClientIInv, NEW c \in Calls, Prepare(c)
  PROVE  ClientIInv'
<1> DEFINE o == call[c]
           h3 == ShouldTryHTTP3(o.host)
           snt == [auth   |-> IF Applies(o) THEN Owner(o) ELSE o.hdr.auth,
                   cookie |-> IF o.host \in jar THEN o.host ELSE o.hdr.cookie]
           hdr == [auth |-> Or(o.hdr.auth, snt.auth), cookie |-> Or(o.hdr.cookie, snt.cookie)]
           way == IF o.req.stream THEN StreamWay(o.force, h3)
                  ELSE IF o.force = "auto" THEN DefaultWay(o, h3) ELSE Forced(o.force)
           base == IF o.req.own /\ o.hops = 0 /\ ~o.req.stream THEN hdr ELSE o.base
           new == [o EXCEPT !.sent = snt, !.hdr = hdr, !.h3 = h3, !.todo = way,
                            !.tried = <<>>, !.base = base]
           try == [new EXCEPT !.pc = "try"]
<1>1. o \in CallType /\ CallOK(o) /\ o.pc = "start" /\ CallsOK
  BY DEF ClientIInv, CallsOK, Prepare
<1>2. CoreOK(o) /\ CarryOK(o)
  BY <1>1 DEF CallOK, Running
<1>3. call' = [call EXCEPT ![c] = IF way = <<>> THEN AttemptFailed(new) ELSE try]
  BY DEF Prepare
<1>4. ConfOK' /\ quic' = quic
  BY ConfSame DEF Prepare, ClientIInv, ConfOK
<1>5. h3 \in BOOLEAN /\ (h3 => quic # "none")
  BY DEF ShouldTryHTTP3
<1>6. way \in Seq(Protocols) /\ (quic = "none" => NoHTTP3(way))
  <2>1. o.force \in Protocols \cup {"auto"}
    BY <1>1 DEF CallType
  <2> HIDE DEF h3
  <2> QED
    BY <1>5, <2>1, WaysOK
<1>7. o.hdr \in Headers /\ o.base \in Headers /\ o.host \in Hosts
  BY <1>1, <1>2 DEF CallType, CoreOK, OwnCookie
<1>8. snt \in Headers /\ hdr \in Headers /\ base \in Headers
  BY <1>7 DEF Headers, Owners, Owner, Or
<1>9. /\ snt.auth \in {"req", "old"} => o.host = o.from
      /\ hdr.auth \in {"req", "old"} => o.host = o.from
      /\ snt.auth = "old" => o.req.again
      /\ hdr.auth = "old" => o.req.again
  BY <1>2, <1>7, ClientAssumption DEF CarryOK, Owner, Or, Headers
<1>10. o.hops = 0 => o.host = o.from /\ OwnCookie(o, snt.cookie) /\ OwnCookie(o, hdr.cookie)
  BY <1>2 DEF CarryOK, Or, OwnCookie
<1>11. OwnCookie(o, base.cookie) /\ (base.auth = "old" => o.req.again)
  BY <1>2, <1>9, <1>10 DEF CoreOK
<1> HIDE DEF h3, snt, hdr, way, base
<1>12. <<>> \in Seq(Protocols)
  OBVIOUS
<1>13. new \in CallType /\ try \in CallType
  BY <1>1, <1>5, <1>6, <1>8, <1>12, ZenonT(60) DEF CallType
<1>14. \A r \in {new, try} :
         /\ r.req = o.req /\ r.from = o.from /\ r.host = o.host /\ r.base = base /\ r.hdr = hdr
         /\ r.given = o.given
         /\ r.res = o.res /\ r.kept = o.kept /\ r.hops = o.hops /\ r.auth = o.auth
         /\ r.sent = snt /\ r.todo = way
  BY <1>1, ZenonT(60) DEF CallType
<1>15. try.pc = "try"
  BY <1>1 DEF CallType
<1> HIDE DEF new, try
<1>16. CoreOK(new) /\ CoreOK(try)
  BY <1>2, <1>11, <1>14 DEF CoreOK, OwnCookie
<1>17. CASE way = <<>>
  BY <1>1, <1>3, <1>4, <1>13, <1>16, <1>17, AttemptFailedOK, SettledCall DEF ClientIInv
<1>18. CASE way # <<>>
  <2>1. CarryOK(try)
    BY <1>2, <1>9, <1>10, <1>14 DEF CarryOK, OwnCookie
  <2>2. SentOK(try)
    BY <1>9, <1>10, <1>14, <1>18 DEF SentOK, OwnCookie
  <2>3. CallOK(try)
    BY <1>15, <1>16, <2>1, <2>2 DEF CallOK, ResultOK, CoreOK, OwnCookie
  <2>4. Served(try, quic)
    BY <1>6, <1>14 DEF Served
  <2> QED
    BY <1>1, <1>3, <1>4, <1>13, <1>18, <2>3, <2>4, OneCall DEF ClientIInv
<1> QED
  BY <1>17, <1>18

\* Whatever makes an attempt fail before or after the protocols.
LEMMA FailsOK ==
  ASSUME ClientIInv, NEW c \in Calls,
         PrepareFails(c) \/ \E sc \in BOOLEAN : ResponseUnusable(c, sc)
  PROVE  ClientIInv'
<1>1. /\ call[c] \in CallType /\ CoreOK(call[c]) /\ CallsOK
      /\ call' = [call EXCEPT ![c] = AttemptFailed(call[c])] /\ quic' = quic
  BY DEF ClientIInv, CallsOK, CallOK, Running, PrepareFails, ResponseUnusable, Responds
<1>2. ConfOK'
  <2>1. jar' \subseteq Hosts
    BY <1>1 DEF PrepareFails, ResponseUnusable, Store, CoreOK, ClientIInv, ConfOK
  <2> QED
    BY <2>1, ConfSame DEF PrepareFails, ResponseUnusable, ClientIInv, ConfOK
<1> QED
  BY <1>1, <1>2, AttemptFailedOK, SettledCall DEF ClientIInv

\* A call that finds no transport for HTTP/3 was disturbed.
LEMMA NilManagerOK ==
  ASSUME ClientIInv, NEW c \in Calls, NilManager(c)
  PROVE  ClientIInv'
<1> DEFINE o == call[c]
<1>1. /\ o \in CallType /\ CallOK(o) /\ Served(o, quic) /\ CallsOK
      /\ o.pc = "try" /\ quic = "none" /\ Head(o.todo) = "h3" /\ o.todo \in Seq(Protocols)
  BY DEF ClientIInv, CallsOK, NilManager, Trying, CallType
<1>2. o.todo # <<>>
  BY <1>1 DEF CallOK, SentOK, OwnCookie
<1> HIDE DEF o
<1>3. 1 \in 1 .. Len(o.todo) /\ o.todo[1] = "h3"
  BY <1>1, <1>2
<1>4. ~o.calm
  BY <1>1, <1>3 DEF Served, NoHTTP3
<1>5. call' = [call EXCEPT ![c] = Ended(o, "panic")] /\ quic' = quic
  BY DEF NilManager, o
<1>6. ConfOK'
  BY ConfSame DEF NilManager, ClientIInv, ConfOK
<1> QED
  BY <1>1, <1>4, <1>5, <1>6, EndedOK, SettledCall DEF ClientIInv

\* The rest of a list has HTTP/3 on it only if the list has.
LEMMA TailLists ==
  ASSUME NEW s \in Seq(Protocols), s # <<>>
  PROVE  /\ Tail(s) \in Seq(Protocols) /\ Head(s) \in Protocols
         /\ NoHTTP3(s) => NoHTTP3(Tail(s))
<1>1. Tail(s) \in Seq(Protocols) /\ Head(s) \in Protocols
  OBVIOUS
<1>2. /\ Len(s) \in Nat /\ Len(Tail(s)) = Len(s) - 1
      /\ \A i \in 1 .. Len(s) - 1 : Tail(s)[i] = s[i + 1]
  OBVIOUS
<1>3. \A i \in 1 .. Len(s) - 1 : i + 1 \in 1 .. Len(s)
  BY <1>2
<1> QED
  BY <1>1, <1>2, <1>3 DEF NoHTTP3

LEMMA AttemptFailsOK ==
  ASSUME ClientIInv, NEW c \in Calls, AttemptFails(c)
  PROVE  ClientIInv'
<1> DEFINE o == call[c]
           p == Head(o.todo)
           todo == IF StreamToHTTP1(o) THEN <<"h1">> ELSE Tail(o.todo)
           tried == Append(o.tried, p)
           new == [o EXCEPT !.todo = todo, !.tried = tried]
<1>1. /\ o \in CallType /\ CallOK(o) /\ Served(o, quic) /\ CallsOK /\ o.pc = "try"
      /\ o.todo \in Seq(Protocols) /\ o.tried \in Seq(Protocols)
  BY DEF ClientIInv, CallsOK, AttemptFails, CallType
<1>2. o.todo # <<>> /\ CoreOK(o) /\ CarryOK(o) /\ SentOK(o)
  BY <1>1 DEF CallOK, SentOK, Running, OwnCookie
<1>3. call' = [call EXCEPT ![c] = IF new.todo = <<>> THEN AttemptFailed(new) ELSE new]
  BY DEF AttemptFails
<1>4. ConfOK' /\ quic' = quic
  <2>1. /\ h3f' \subseteq Hosts /\ h2f' \subseteq Hosts
        /\ UNCHANGED <<proxies, quic, building, changes, auth, nonce, jar>>
    BY <1>2 DEF AttemptFails, CoreOK, ClientIInv, ConfOK, OwnCookie
  <2> QED
    BY <2>1, ConfSame DEF ClientIInv, ConfOK
<1>5. /\ todo \in Seq(Protocols) /\ tried \in Seq(Protocols)
      /\ NoHTTP3(o.todo) => NoHTTP3(todo)
  <2>1. <<"h1">> \in Seq(Protocols) /\ NoHTTP3(<<"h1">>)
    BY DEF Protocols, NoHTTP3
  <2>2. /\ p \in Protocols /\ Tail(o.todo) \in Seq(Protocols)
        /\ NoHTTP3(o.todo) => NoHTTP3(Tail(o.todo))
    BY <1>1, <1>2, TailLists
  <2>3. tried \in Seq(Protocols)
    BY <1>1, <2>2
  <2> QED
    BY <2>1, <2>2, <2>3
<1> HIDE DEF todo, tried
<1>6. new \in CallType
  BY <1>1, <1>5 DEF CallType
<1>7. /\ new.pc = "try" /\ new.req = o.req /\ new.from = o.from /\ new.host = o.host
      /\ new.base = o.base /\ new.given = o.given /\ new.hdr = o.hdr /\ new.res = o.res /\ new.kept = o.kept
      /\ new.hops = o.hops /\ new.auth = o.auth /\ new.sent = o.sent /\ new.todo = todo
      /\ new.calm = o.calm
  BY <1>1 DEF CallType
<1> HIDE DEF new
<1>8. CoreOK(new) /\ CarryOK(new)
  BY <1>2, <1>7 DEF CoreOK, CarryOK, OwnCookie
<1>9. CASE new.todo = <<>>
  BY <1>1, <1>3, <1>4, <1>6, <1>8, <1>9, AttemptFailedOK, SettledCall DEF ClientIInv
<1>10. CASE new.todo # <<>>
  <2>1. SentOK(new)
    BY <1>2, <1>7, <1>10 DEF SentOK, OwnCookie
  <2>2. CallOK(new)
    BY <1>7, <1>8, <2>1 DEF CallOK, ResultOK, CoreOK, OwnCookie
  <2>3. Served(new, quic)
    BY <1>1, <1>5, <1>7 DEF Served
  <2> QED
    BY <1>1, <1>3, <1>4, <1>6, <1>10, <2>2, <2>3, OneCall DEF ClientIInv
<1> QED
  BY <1>9, <1>10

LEMMA ExpireOK ==
  ASSUME ClientIInv, NEW c \in Calls, Expire(c)
  PROVE  ClientIInv'
<1> DEFINE o == call[c]
           r == [o EXCEPT !.expired = TRUE]
<1>1. o \in CallType /\ CallOK(o) /\ Served(o, quic) /\ CallsOK
  BY DEF ClientIInv, CallsOK
<1>2. call' = [call EXCEPT ![c] = r] /\ quic' = quic
  BY DEF Expire
<1>3. r \in CallType
  BY <1>1 DEF CallType
<1>4. /\ r.pc = o.pc /\ r.req = o.req /\ r.from = o.from /\ r.host = o.host
      /\ r.base = o.base /\ r.given = o.given /\ r.hdr = o.hdr /\ r.res = o.res /\ r.kept = o.kept
      /\ r.hops = o.hops /\ r.auth = o.auth /\ r.sent = o.sent /\ r.todo = o.todo
      /\ r.calm = o.calm /\ r.n = o.n
  BY <1>1 DEF CallType
<1> HIDE DEF r
<1>5. CallOK(r) /\ Served(r, quic)
  BY <1>1, <1>4 DEF CallOK, Running, CoreOK, CarryOK, SentOK, ResultOK, Served, OwnCookie
<1>6. ConfOK'
  BY ConfSame DEF Expire, ClientIInv, ConfOK
<1> QED
  BY <1>1, <1>2, <1>3, <1>5, <1>6, OneCall DEF ClientIInv

LEMMA ResponsesOK ==
  ASSUME ClientIInv, NEW c \in Calls, NEW sc \in BOOLEAN,
         \/ \E code \in {200, 403, 429, 503} : Respond(c, code, sc)
         \/ Challenge(c)
  PROVE  ClientIInv'
<1> DEFINE o == call[c]
<1>1. o \in CallType /\ CoreOK(o) /\ CarryOK(o) /\ CallsOK
  BY DEF ClientIInv, CallsOK, CallOK, Running, Respond, Challenge, Responds
<1>2. ASSUME NEW code \in {200, 403, 429, 503}, Respond(c, code, sc)
      PROVE  ClientIInv'
  <2>1. call' = [call EXCEPT ![c] = Judged(o, code, sc)] /\ quic' = quic
    BY <1>2 DEF Respond
  <2>2. ConfOK'
    BY <1>1, <1>2, ConfSame DEF Respond, Store, CoreOK, ClientIInv, ConfOK, OwnCookie
  <2> QED
    <3>1. Settled(Judged(o, code, sc))
      BY <1>1, JudgedOK
    <3> QED
      BY <1>1, <2>1, <2>2, <3>1, SettledCall DEF ClientIInv
<1>3. CASE Challenge(c)
  <2>1. call' = [call EXCEPT ![c] = Again(o, "start")] /\ quic' = quic
    BY <1>3 DEF Challenge
  <2>2. nonce' \subseteq {"req", "client"}
    BY <1>3 DEF Challenge, Owner, ClientIInv, ConfOK
  <2>3. ConfOK'
    BY <1>3, <2>2, ConfSame DEF Challenge, ClientIInv, ConfOK
  <2> QED
    BY <1>1, <2>1, <2>3, AgainOK, SettledCall DEF ClientIInv
<1> QED
  BY <1>2, <1>3

\* A redirect to another origin takes no credentials of the request along.
LEMMA RedirectOK ==
  ASSUME ClientIInv, NEW c \in Calls, NEW h \in Hosts \cup {None}, NEW sc \in BOOLEAN,
         Redirect(c, h, sc)
  PROVE  ClientIInv'
<1> DEFINE o == call[c]
           w == Carry(o, h)
           a == Again(o, "start")
           r == [a EXCEPT !.host = h, !.hops = @ + 1, !.hdr = w.hdr, !.auth = w.auth]
<1>1. o \in CallType /\ CoreOK(o) /\ CarryOK(o) /\ CallsOK
  BY DEF ClientIInv, CallsOK, CallOK, Running, Redirect, Responds
<1>2. call' = [call EXCEPT ![c] = IF TooMany(o) \/ h = None THEN AttemptFailed(o) ELSE r]
  BY DEF Redirect
<1>3. ConfOK' /\ quic' = quic
  BY <1>1, ConfSame DEF Redirect, Store, CoreOK, ClientIInv, ConfOK, OwnCookie
<1>4. CASE TooMany(o) \/ h = None
  BY <1>1, <1>2, <1>3, <1>4, AttemptFailedOK, SettledCall DEF ClientIInv
<1>5. CASE ~TooMany(o) /\ h # None
  <2>1. o.hops \in 0 .. MaxRedirects /\ o.hops + 1 \in 0 .. MaxRedirects
    BY <1>1, <1>5, ClientAssumption DEF CallType, TooMany
  <2>2. h \in Hosts /\ o.hdr \in Headers /\ o.auth \in AuthKinds
    BY <1>1, <1>5 DEF CallType
  <2>3. w.hdr \in Headers /\ w.auth \in AuthKinds
    BY <2>2 DEF Carry, Headers, Owners, AuthKinds
  <2>4. h # o.host => w.hdr.auth = None /\ w.auth = "none"
    BY <2>2 DEF Carry, Headers
  <2>5. h = o.host => w.hdr = o.hdr /\ w.auth = o.auth
    BY DEF Carry
  <2>6. Settled(a)
    BY <1>1, AgainOK
  <2>7. /\ a.pc = "start" /\ a.hops = o.hops /\ a.from = o.from /\ a.req = o.req
        /\ a.base = o.base /\ a.given = o.given /\ a.res = o.res /\ a.kept = o.kept
    BY <1>1 DEF Again, CallType
  <2> HIDE DEF w, a
  <2>8. r \in CallType
    BY <2>1, <2>2, <2>3, <2>6, <2>7 DEF Settled, CallType
  <2>9. /\ r.pc = "start" /\ r.hops = o.hops + 1 /\ r.from = o.from /\ r.req = o.req
        /\ r.base = o.base /\ r.given = o.given /\ r.res = o.res /\ r.kept = o.kept
        /\ r.host = h /\ r.hdr = w.hdr /\ r.auth = w.auth
    BY <2>6, <2>7 DEF Settled, CallType
  <2> HIDE DEF r
  <2>10. CoreOK(r)
    BY <1>1, <2>2, <2>9 DEF CoreOK, OwnCookie
  <2>11. CarryOK(r)
    BY <1>1, <2>1, <2>4, <2>5, <2>9, ClientAssumption DEF CarryOK, OwnCookie
  <2>12. Settled(r)
    BY <2>8, <2>9, <2>10, <2>11 DEF Settled, CallOK, CoreOK, ResultOK, OwnCookie
  <2> QED
    BY <1>1, <1>2, <1>3, <1>5, <2>12, SettledCall DEF ClientIInv
<1> QED
  BY <1>4, <1>5

-----------------------------------------------------------------------------

LEMMA ClientStart == ClientInit => ClientIInv
<1> SUFFICES ASSUME ClientInit
             PROVE  ClientIInv
  OBVIOUS
<1> DEFINE u == IF proxies.udp # "none" THEN proxies.udp ELSE proxies.all
<1>1. /\ proxies \in [all: Kinds, tcp: Kinds, udp: Kinds]
      /\ u \in Kinds /\ quic \in QuicFor(u) \cup {"none"}
  BY ClientAssumption DEF ClientInit
<1>2. quic \in {"direct", "masque", "socks", "none"} /\ UdpProxyRespected
  BY <1>1 DEF QuicFor, SupportsQUIC, Kinds, UdpProxyRespected
<1>3. ConfOK
  <2>1. changes \in 0 .. MaxChanges
    BY ClientAssumption DEF ClientInit
  <2>2. auth \in AuthKinds /\ building \in BOOLEAN
    BY ClientAssumption DEF ClientInit
  <2>3. /\ nonce \subseteq {"req", "client"} /\ jar \subseteq Hosts
        /\ h2f \subseteq Hosts /\ h3f \subseteq Hosts
    BY DEF ClientInit
  <2> QED
    BY <1>1, <1>2, <2>1, <2>2, <2>3 DEF ConfOK
<1>4. CallOK(NoCall) /\ Served(NoCall, quic)
  BY NoCallFacts DEF CallOK, Running, ResultOK, Served
<1>5. CallsOK
  BY <1>4, NoCallFacts DEF ClientInit, CallsOK
<1> QED
  BY <1>3, <1>5 DEF ClientIInv

LEMMA ClientStep == ClientIInv /\ [ClientNext]_clientVars => ClientIInv'
<1> SUFFICES ASSUME ClientIInv, [ClientNext]_clientVars
             PROVE  ClientIInv'
  OBVIOUS
<1>1. CASE ClearCookies
  <2>1. ConfOK'
    BY <1>1, ConfSame DEF ClearCookies, ClientIInv, ConfOK
  <2> QED
    BY <1>1, <2>1 DEF ClearCookies, ClientIInv, CallsOK
<1>2. ASSUME NEW h \in Hosts, Elapse(h)
      PROVE  ClientIInv'
  <2>1. ConfOK'
    BY <1>2, ConfSame DEF Elapse, ClientIInv, ConfOK
  <2> QED
    BY <1>2, <2>1 DEF Elapse, ClientIInv, CallsOK
<1>3. ASSUME NEW c \in Calls, CallStep(c)
      PROVE  ClientIInv'
  BY <1>3, BackoffOK, PrepareOK, FailsOK, NilManagerOK, AttemptFailsOK DEF CallStep
<1>4. ASSUME NEW c \in Calls, Challenge(c)
      PROVE  ClientIInv'
  BY <1>4, ResponsesOK, ZenonT(60)
<1>5. CASE UNCHANGED clientVars
  BY <1>5 DEF clientVars, ClientIInv, ConfOK, CallsOK, UdpProxyRespected
<1> QED
  BY <1>1, <1>2, <1>3, <1>4, <1>5, SettersOK, DoOK, ExpireOK, FailsOK, ResponsesOK, RedirectOK
     DEF ClientNext

LEMMA ClientInductive == ClientSpec => []ClientIInv
BY ClientStart, ClientStep, PTL DEF ClientSpec

\* However the proxies change while calls run, HTTP/3 goes through the UDP proxy
\* or not at all, and doHTTP3 meets a nil transport only if a setter ran during
\* the call.
THEOREM UdpProxyKept == ClientSpec => []ClientInv
BY ClientInductive, ClientSuffices, PTL

\* The credentials of a request reach no origin but the one it was made for, and
\* before a redirect a host gets no cookie but its own, in every attempt; what a
\* map holds that the caller passes again goes to the host the caller names.
THEOREM CredentialsStay == ClientSpec => []CredentialsConfined
BY ClientInductive, ClientSuffices, PTL

\* A retryable response is returned when all later attempts fail.
THEOREM RetryableReturned == ClientSpec => []KeptReturned
BY ClientInductive, ClientSuffices, PTL

-----------------------------------------------------------------------------
(* Http2Conns                                                              *)

\* A mapped connection is open, not retired, and mapped once.
MapOK ==
  /\ RetiredNotMapped
  /\ \A k, l \in Keys : conns[k] # Absent /\ conns[k] = conns[l] => k = l

\* A connection that was dialled and not yet installed is its dialler's alone.
FreshOK ==
  \A r \in Requests : pc[r] \in {"dialed", "cdialed"} =>
    /\ status[cur[r]] = "open" /\ cur[r] \notin closing
    /\ \A k \in Keys : conns[k] # cur[r]
    /\ \A q \in Requests : q # r => cur[q] # cur[r]

CountOK == \A c \in Conns : inFlight[c] = Cardinality(InTrip(c))

ConnsOK == TypeOK /\ MapOK /\ FreshOK /\ CountOK

\* The two halves of a connsMu section that found a connection unusable.
DoomOK == LockOK /\ IdleLimitSparesRequests

Http2IInv == ConnsOK /\ DoomOK

\* The inductive invariant says what the run checks.
LEMMA Http2Suffices == Http2IInv => Http2Inv
BY DEF Http2IInv, ConnsOK, DoomOK, Http2Inv, MapOK, CountOK, InFlightExact

LEMMA Http2Init == Init => Http2IInv
<1> SUFFICES ASSUME Init
             PROVE  Http2IInv
  OBVIOUS
<1> USE Http2Assumption DEF Init
<1>1. TypeOK
  <2>1. age \in [Conns -> 0 .. MaxAge + 1] /\ idle \in [Conns -> 0 .. MaxIdle + 1]
    OBVIOUS
  <2>2. dialAge \in [Requests -> 0 .. MaxDial] /\ inFlight \in [Conns -> Int]
    OBVIOUS
  <2>3. closing \in SUBSET Conns
    OBVIOUS
  <2> QED
    BY <2>1, <2>2, <2>3 DEF TypeOK, Steps
<1>2. MapOK /\ FreshOK
  BY DEF MapOK, RetiredNotMapped, FreshOK
<1>3. \A c \in Conns : InTrip(c) = {}
  BY DEF InTrip
<1>4. CountOK
  BY <1>3, FS_EmptySet DEF CountOK
<1>5. DoomOK
  BY DEF DoomOK, LockOK, IdleLimitSparesRequests, Doomed
<1> QED
  BY <1>1, <1>2, <1>4, <1>5 DEF Http2IInv, ConnsOK

-----------------------------------------------------------------------------
(* The counter: what moving one request does to the sets InTrip(c). *)

LEMMA TripFinite == \A c : IsFiniteSet(InTrip(c))
BY Http2Assumption, FS_Subset DEF InTrip

\* A request that is in no round trip before and after a step, the counters
\* and the other requests staying as they are.
LEMMA CountSame ==
  ASSUME CountOK, inFlight' = inFlight,
         \A q \in Requests : (pc[q] = "trip" \/ pc'[q] = "trip") =>
                                pc'[q] = pc[q] /\ cur'[q] = cur[q]
  PROVE  CountOK'
<1>1. \A c : InTrip(c)' = InTrip(c)
  BY DEF InTrip
<1> QED
  BY <1>1 DEF CountOK

LEMMA CountUp ==
  ASSUME TypeOK, CountOK, NEW r \in Requests, Begin(r)
  PROVE  CountOK'
<1> USE DEF TypeOK, Begin, Goto
<1>1. PICK d \in Conns : d = cur[r] /\ pc[r] # "trip"
  OBVIOUS
<1>2. InTrip(d)' = InTrip(d) \cup {r} /\ r \notin InTrip(d)
  BY <1>1 DEF InTrip
<1>3. \A c \in Conns \ {d} : InTrip(c)' = InTrip(c)
  BY <1>1 DEF InTrip
<1>4. Cardinality(InTrip(d)') = Cardinality(InTrip(d)) + 1
  <2>1. IsFiniteSet(InTrip(d))
    BY TripFinite
  <2>2. Cardinality(InTrip(d) \cup {r}) = Cardinality(InTrip(d)) + 1
    BY ONLY <1>2, <2>1, FS_AddElement
  <2> QED
    BY <1>2, <2>2
<1>5. inFlight'[d] = inFlight[d] + 1 /\ \A c \in Conns \ {d} : inFlight'[c] = inFlight[c]
  BY <1>1
<1> QED
  BY <1>1, <1>3, <1>4, <1>5 DEF CountOK

LEMMA CountDown ==
  ASSUME TypeOK, CountOK, NEW r \in Requests, TripOk(r) \/ TripErr(r)
  PROVE  CountOK'
<1>1. PICK d \in Conns : d = cur[r] /\ pc[r] = "trip" /\ pc'[r] # "trip"
  BY DEF TypeOK, TripOk, TripErr, Return, Goto
<1>2. \A q \in Requests \ {r} : pc'[q] = pc[q] /\ cur'[q] = cur[q]
  BY DEF TypeOK, TripOk, TripErr, Return, Goto
<1>3. inFlight'[d] = inFlight[d] - 1 /\ \A c \in Conns \ {d} : inFlight'[c] = inFlight[c]
  BY <1>1 DEF TypeOK, TripOk, TripErr
<1>4. InTrip(d)' = InTrip(d) \ {r} /\ r \in InTrip(d)
  BY <1>1, <1>2 DEF InTrip
<1>5. \A c \in Conns \ {d} : InTrip(c)' = InTrip(c)
  BY <1>1, <1>2 DEF InTrip
<1>6. Cardinality(InTrip(d)') = Cardinality(InTrip(d)) - 1
  BY <1>4, TripFinite, FS_RemoveElement
<1> QED
  BY <1>1, <1>3, <1>5, <1>6 DEF CountOK

LEMMA CountDial ==
  ASSUME TypeOK, CountOK, NEW r \in Requests, DialOk(r)
  PROVE  CountOK'
<1>1. PICK c \in Conns : /\ Unreferenced(c)
                         /\ inFlight' = [inFlight EXCEPT ![c] = 0]
                         /\ Goto(r, IF pc[r] = "dial" THEN "dialed" ELSE "cdialed", c)
  BY DEF DialOk
<1>2. \A b : InTrip(b)' = InTrip(b)
  BY <1>1 DEF InTrip, Goto, TypeOK, DialOk
<1>3. InTrip(c) = {}
  BY <1>1 DEF InTrip, Unreferenced
<1>4. Cardinality(InTrip(c)') = 0
  BY <1>2, <1>3, FS_EmptySet
<1>5. inFlight'[c] = 0 /\ \A b \in Conns \ {c} : inFlight'[b] = inFlight[b]
  BY <1>1 DEF TypeOK
<1> QED
  BY <1>2, <1>4, <1>5 DEF CountOK

-----------------------------------------------------------------------------
(* The map: one lemma for the requests, one for the background. *)

LEMMA Http2Request ==
  ASSUME ConnsOK, LockOK, NEW r \in Requests, RequestStep(r)
  PROVE  ConnsOK'
<1> USE Http2Assumption DEF ConnsOK, mapVars, connVars
<1>1. CASE GetClosed(r) \/ DialFail(r)
  <2>1. TypeOK'
    BY <1>1 DEF TypeOK, Steps, GetClosed, DialFail, Return
  <2>2. MapOK' /\ FreshOK'
    BY <1>1 DEF TypeOK, MapOK, RetiredNotMapped, FreshOK, GetClosed, DialFail, Return
  <2>3. CountOK'
    BY <1>1, CountSame DEF TypeOK, GetClosed, DialFail, Return
  <2> QED
    BY <2>1, <2>2, <2>3
<1>2. CASE GetHit(r)
  <2>1. TypeOK'
    BY <1>2 DEF TypeOK, Steps, GetHit, Goto, Usable
  <2>2. MapOK' /\ FreshOK'
    BY <1>2 DEF TypeOK, MapOK, RetiredNotMapped, FreshOK, GetHit, Goto, Usable
  <2>3. CountOK'
    BY <1>2, CountSame DEF TypeOK, GetHit, Goto
  <2> QED
    BY <2>1, <2>2, <2>3
<1>3. CASE GetMiss(r)
  <2>1. TypeOK'
    BY <1>3 DEF TypeOK, Steps, GetMiss, Goto
  <2>2. MapOK' /\ FreshOK'
    BY <1>3 DEF TypeOK, MapOK, RetiredNotMapped, FreshOK, GetMiss, Goto
  <2>3. CountOK'
    BY <1>3, CountSame DEF TypeOK, GetMiss, Goto
  <2> QED
    BY <2>1, <2>2, <2>3
<1>4. CASE GetEvict(r) \/ RemoveReturn(r) \/ RemoveRetry(r)
  <2>1. /\ key[r] \in Keys /\ Remove(key[r])
        /\ UNCHANGED <<closed, status, age, idle, inFlight>>
        /\ pc[r] \notin {"trip", "dialed", "cdialed"}
    BY <1>4 DEF TypeOK, GetEvict, RemoveReturn, RemoveRetry
  <2>2. /\ pc'[r] \notin {"trip", "dialed", "cdialed"} /\ cur'[r] = Absent
        /\ \A q \in Requests \ {r} : pc'[q] = pc[q] /\ cur'[q] = cur[q]
    BY <1>4 DEF TypeOK, GetEvict, RemoveReturn, RemoveRetry, Goto, Return
  <2>3. conns' \in [Keys -> Conns \cup {Absent}] /\ closing' \in SUBSET Conns
    BY <2>1 DEF TypeOK, Remove
  <2>4. TypeOK'
    <3>1. CASE GetEvict(r)
      BY <2>1, <2>3, <3>1 DEF TypeOK, Steps, GetEvict, Goto
    <3>2. CASE RemoveReturn(r)
      BY <2>1, <2>3, <3>2 DEF TypeOK, Steps, RemoveReturn, Return
    <3>3. CASE RemoveRetry(r)
      BY <2>1, <2>3, <3>3 DEF TypeOK, Steps, RemoveRetry
    <3> QED
      BY <1>4, <3>1, <3>2, <3>3
  <2>5. MapOK'
    BY <2>1, <2>3 DEF TypeOK, MapOK, RetiredNotMapped, Remove
  <2>6. FreshOK'
    BY <2>1, <2>2, <2>3 DEF TypeOK, FreshOK, Remove
  <2>7. CountOK'
    BY <2>1, <2>2, CountSame
  <2> QED
    BY <2>4, <2>5, <2>6, <2>7
<1>5. CASE DialOk(r)
  <2>1. PICK c \in Conns :
          /\ status[c] # "open" /\ Unreferenced(c)
          /\ status' = [status EXCEPT ![c] = "open"]
          /\ age' = [age EXCEPT ![c] = 0]
          /\ idle' = [idle EXCEPT ![c] = 0]
          /\ inFlight' = [inFlight EXCEPT ![c] = 0]
          /\ Goto(r, IF pc[r] = "dial" THEN "dialed" ELSE "cdialed", c)
    BY <1>5 DEF DialOk
  <2>2. UNCHANGED <<mapVars, closing>> /\ pc[r] \in {"dial", "cdial"}
    BY <1>5 DEF DialOk
  <2>3. TypeOK'
    BY <2>1, <2>2 DEF TypeOK, Steps, Goto
  <2>4. MapOK' /\ FreshOK'
    BY <2>1, <2>2 DEF TypeOK, MapOK, RetiredNotMapped, FreshOK, Goto, Unreferenced
  <2>5. CountOK'
    BY <1>5, CountDial
  <2> QED
    BY <2>3, <2>4, <2>5
<1>6. CASE InstallClosed(r)
  <2>1. TypeOK'
    BY <1>6 DEF TypeOK, Steps, InstallClosed, Return
  <2>2. MapOK' /\ FreshOK'
    BY <1>6 DEF TypeOK, MapOK, RetiredNotMapped, FreshOK, InstallClosed, Return
  <2>3. CountOK'
    BY <1>6, CountSame DEF TypeOK, InstallClosed, Return
  <2> QED
    BY <2>1, <2>2, <2>3
<1>7. CASE InstallLose(r)
  <2>1. CASE pc[r] = "dialed"
    <3>1. TypeOK'
      BY <1>7, <2>1 DEF TypeOK, Steps, InstallLose, Goto, Usable
    <3>2. MapOK' /\ FreshOK'
      BY <1>7, <2>1 DEF TypeOK, MapOK, RetiredNotMapped, FreshOK, InstallLose, Goto, Usable
    <3>3. CountOK'
      BY <1>7, <2>1, CountSame DEF TypeOK, InstallLose, Goto
    <3> QED
      BY <3>1, <3>2, <3>3
  <2>2. CASE pc[r] # "dialed"
    <3>1. TypeOK'
      BY <1>7, <2>2 DEF TypeOK, Steps, InstallLose, Return
    <3>2. MapOK' /\ FreshOK'
      BY <1>7, <2>2 DEF TypeOK, MapOK, RetiredNotMapped, FreshOK, InstallLose, Return
    <3>3. CountOK'
      BY <1>7, <2>2, CountSame DEF TypeOK, InstallLose, Return
    <3> QED
      BY <3>1, <3>2, <3>3
  <2> QED
    BY <2>1, <2>2
<1>8. CASE InstallWin(r)
  <2>1. CASE pc[r] = "dialed"
    <3>1. TypeOK'
      BY <1>8, <2>1 DEF TypeOK, Steps, InstallWin, Goto
    <3>2. MapOK' /\ FreshOK'
      BY <1>8, <2>1 DEF TypeOK, MapOK, RetiredNotMapped, FreshOK, InstallWin, Goto
    <3>3. CountOK'
      BY <1>8, <2>1, CountSame DEF TypeOK, InstallWin, Goto
    <3> QED
      BY <3>1, <3>2, <3>3
  <2>2. CASE pc[r] # "dialed"
    <3>1. TypeOK'
      BY <1>8, <2>2 DEF TypeOK, Steps, InstallWin, Return
    <3>2. MapOK' /\ FreshOK'
      BY <1>8, <2>2 DEF TypeOK, MapOK, RetiredNotMapped, FreshOK, InstallWin, Return
    <3>3. CountOK'
      BY <1>8, <2>2, CountSame DEF TypeOK, InstallWin, Return
    <3> QED
      BY <3>1, <3>2, <3>3
  <2> QED
    BY <2>1, <2>2
<1>9. CASE Begin(r)
  <2>1. TypeOK'
    BY <1>9 DEF TypeOK, Steps, Begin, Goto
  <2>2. MapOK' /\ FreshOK'
    BY <1>9 DEF TypeOK, MapOK, RetiredNotMapped, FreshOK, Begin, Goto
  <2>3. CountOK'
    BY <1>9, CountUp
  <2> QED
    BY <2>1, <2>2, <2>3
<1>10. CASE TripOk(r) \/ TripErr(r)
  <2>1. TypeOK'
    BY <1>10 DEF TypeOK, Steps, TripOk, TripErr, Return, Goto
  <2>2. MapOK' /\ FreshOK'
    BY <1>10 DEF TypeOK, MapOK, RetiredNotMapped, FreshOK, TripOk, TripErr, Return, Goto
  <2>3. CountOK'
    BY <1>10, CountDown
  <2> QED
    BY <2>1, <2>2, <2>3
<1>11. CASE FindUnusable(r)
  <2>1. TypeOK'
    BY <1>11 DEF TypeOK, FindUnusable, reqVars
  <2>2. MapOK' /\ FreshOK'
    BY <1>11 DEF MapOK, RetiredNotMapped, FreshOK, FindUnusable, reqVars
  <2>3. CountOK'
    BY <1>11, CountSame DEF FindUnusable, reqVars
  <2> QED
    BY <2>1, <2>2, <2>3
<1> QED
  BY <1>1, <1>2, <1>3, <1>4, <1>5, <1>6, <1>7, <1>8, <1>9, <1>10, <1>11 DEF RequestStep

\* Emptying some keys of the map keeps everything but the map as it was.
LEMMA Http2RemoveAll ==
  ASSUME ConnsOK, NEW K \in SUBSET Keys, RemoveAll(K), closed' \in BOOLEAN,
         UNCHANGED <<status, age, idle, inFlight, reqVars>>
  PROVE  ConnsOK'
<1> USE Http2Assumption DEF ConnsOK, reqVars, RemoveAll
<1>1. TypeOK'
  BY DEF TypeOK
<1>2. MapOK'
  BY DEF TypeOK, MapOK, RetiredNotMapped
<1>3. FreshOK'
  BY DEF TypeOK, FreshOK
<1>4. CountOK'
  BY CountSame
<1> QED
  BY <1>1, <1>2, <1>3, <1>4

LEMMA Http2Core == Http2IInv /\ [Next]_vars => ConnsOK'
<1> SUFFICES ASSUME ConnsOK, LockOK, [Next]_vars
             PROVE  ConnsOK'
  BY DEF Http2IInv, DoomOK
<1> USE Http2Assumption DEF ConnsOK
<1>1. ASSUME NEW r \in Requests, NEW k \in Keys, Start(r, k) \/ StartConnect(r, k)
      PROVE  ConnsOK'
  <2>1. TypeOK'
    BY <1>1 DEF TypeOK, Steps, Start, StartConnect, mapVars, connVars
  <2>2. MapOK' /\ FreshOK'
    BY <1>1 DEF TypeOK, MapOK, RetiredNotMapped, FreshOK, Start, StartConnect, mapVars, connVars
  <2>3. CountOK'
    BY <1>1, CountSame DEF TypeOK, Start, StartConnect, mapVars, connVars
  <2> QED
    BY <2>1, <2>2, <2>3
<1>2. ASSUME NEW c \in Conns, CloseConn(c)
      PROVE  ConnsOK'
  <2>1. TypeOK'
    BY <1>2 DEF TypeOK, CloseConn, mapVars, reqVars
  <2>2. MapOK' /\ FreshOK'
    BY <1>2 DEF TypeOK, MapOK, RetiredNotMapped, FreshOK, CloseConn, mapVars, reqVars
  <2>3. CountOK'
    BY <1>2, CountSame DEF CloseConn, reqVars
  <2> QED
    BY <2>1, <2>2, <2>3
<1>3. CASE Tick
  <2>1. TypeOK'
    <3>1. age' \in [Conns -> 0 .. MaxAge + 1]
      BY <1>3 DEF Tick, TypeOK, Bump
    <3>2. idle' \in [Conns -> 0 .. MaxIdle + 1]
      BY <1>3 DEF Tick, TypeOK, Bump
    <3>3. dialAge' \in [Requests -> 0 .. MaxDial]
      BY <1>3 DEF Tick, TypeOK
    <3> QED
      BY <1>3, <3>1, <3>2, <3>3 DEF Tick, TypeOK, mapVars
  <2>2. MapOK' /\ FreshOK'
    BY <1>3 DEF Tick, MapOK, RetiredNotMapped, FreshOK, mapVars
  <2>3. CountOK'
    BY <1>3, CountSame DEF Tick
  <2> QED
    BY <2>1, <2>2, <2>3
<1>4. CASE Cleanup \/ \E k \in Keys : CleanupTest(k)
  <2>1. UNCHANGED <<mapVars, connVars, reqVars>>
    BY <1>4 DEF Cleanup, CleanupTest
  <2>2. TypeOK' /\ MapOK' /\ FreshOK'
    BY <2>1 DEF TypeOK, MapOK, RetiredNotMapped, FreshOK, mapVars, connVars, reqVars
  <2>3. CountOK'
    BY <2>1, CountSame DEF connVars, reqVars
  <2> QED
    BY <2>2, <2>3
<1>8. CASE CleanupDelete
  <2>1. /\ condemned \in Keys /\ RemoveAll({condemned})
        /\ UNCHANGED <<closed, status, age, idle, inFlight, reqVars>>
    <3>1. condemned \in Keys /\ Remove(condemned) /\ UNCHANGED <<closed, status, age, idle, inFlight, reqVars>>
      BY <1>8 DEF CleanupDelete, LockOK
    <3>2. conns' = [k \in Keys |-> IF k \in {condemned} THEN Absent ELSE conns[k]]
      BY <3>1 DEF Remove, TypeOK
    <3>3. {conns[k] : k \in {condemned}} = {conns[condemned]}
      OBVIOUS
    <3> QED
      BY <3>1, <3>2, <3>3 DEF Remove, RemoveAll
  <2> QED
    BY <2>1, Http2RemoveAll DEF TypeOK
<1>5. CASE Refresh
  BY <1>5, Http2RemoveAll DEF Refresh, TypeOK
<1>6. CASE Close
  BY <1>6, Http2RemoveAll DEF Close
<1>7. CASE UNCHANGED vars
  BY <1>7, CountSame DEF vars, mapVars, connVars, reqVars, TypeOK, MapOK, RetiredNotMapped, FreshOK
<1> QED
  BY <1>1, <1>2, <1>3, <1>4, <1>5, <1>6, <1>7, <1>8, Http2Request DEF Next, OtherStep, CleanupStep

-----------------------------------------------------------------------------
(* The sections of connsMu that are two steps. *)

\* Nobody is left inside a section: there is nothing to say of the connections.
LEMMA DoomGone ==
  ASSUME late' \in SUBSET Requests, MuFree'
  PROVE  DoomOK'
BY DEF DoomOK, LockOK, IdleLimitSparesRequests, Doomed, MuFree

\* A step that leaves connsMu, the map and its holder alone, begins no round
\* trip and makes no old connection young.
LEMMA DoomStays ==
  ASSUME DoomOK, UNCHANGED <<lockVars, late, conns, key>>,
         \A r \in Requests : r = evictor => pc'[r] = pc[r],
         \A q \in Requests : pc'[q] = "trip" => pc[q] = "trip" /\ cur'[q] = cur[q],
         Doomed # Absent => (age[Doomed] > MaxAge => age'[Doomed] > MaxAge)
  PROVE  DoomOK'
<1>1. LockOK'
  BY DEF DoomOK, LockOK, lockVars
<1>2. Doomed' = Doomed
  BY DEF Doomed, lockVars
<1>3. ASSUME Doomed # Absent
      PROVE  age'[Doomed] > MaxAge \/ InTrip(Doomed)' \subseteq late
  <2>1. InTrip(Doomed)' \subseteq InTrip(Doomed)
    BY <1>2 DEF InTrip
  <2> QED
    BY <1>3, <2>1 DEF DoomOK, IdleLimitSparesRequests
<1>4. IdleLimitSparesRequests'
  BY <1>2, <1>3 DEF IdleLimitSparesRequests
<1> QED
  BY <1>1, <1>4 DEF DoomOK

\* A counted connection is unusable only because of its age.
LEMMA UnusableInUse ==
  ASSUME TypeOK, CountOK, NEW c \in Conns, ~isConnUsable(c)
  PROVE  age[c] > MaxAge \/ InTrip(c) = {}
<1>1. IsFiniteSet(InTrip(c)) /\ inFlight[c] = Cardinality(InTrip(c))
  BY TripFinite DEF CountOK
<1>2. InTrip(c) # {} => inFlight[c] > 0
  <2>1. Cardinality(InTrip(c)) \in Nat
    BY <1>1, FS_CardinalityType
  <2>2. Cardinality(InTrip(c)) = 0 <=> InTrip(c) = {}
    BY <1>1, FS_EmptySet
  <2> QED
    BY <1>1, <2>1, <2>2
<1> QED
  BY <1>2, Http2Assumption DEF TypeOK, isConnUsable

\* The request, and the loop of the cleanup, that find a connection unusable.
LEMMA DoomFound ==
  ASSUME ConnsOK, LockOK',
         UNCHANGED <<conns, key, age, pc, cur>>, NEW c \in Conns,
         ~isConnUsable(c), Doomed' = c
  PROVE  DoomOK'
<1>1. InTrip(c)' = InTrip(c)
  BY DEF InTrip
<1>2. age[c] > MaxAge \/ InTrip(c) = {}
  BY UnusableInUse DEF ConnsOK
<1> QED
  BY <1>1, <1>2 DEF DoomOK, IdleLimitSparesRequests

\* What was found unusable is one of the mapped connections.
LEMMA DoomedMapped ==
  ASSUME TypeOK, LockOK, Doomed # Absent
  PROVE  Doomed \in Conns /\ \E k \in Keys : conns[k] = Doomed
BY Http2Assumption DEF TypeOK, LockOK, Doomed

\* One request, which is not in a section, moves.
LEMMA DoomMoves ==
  ASSUME TypeOK, DoomOK, NEW r \in Requests,
         UNCHANGED <<lockVars, late, conns>>,
         pc[r] \notin {"miss", "dialed", "cdialed"}, pc'[r] # "trip",
         \A q \in Requests \ {r} : pc'[q] = pc[q] /\ cur'[q] = cur[q] /\ key'[q] = key[q],
         Doomed # Absent => age'[Doomed] = age[Doomed]
  PROVE  DoomOK'
<1>1. evictor # r
  BY Http2Assumption DEF DoomOK, LockOK
<1>2. evictor # Absent => key'[evictor] = key[evictor] /\ pc'[evictor] = pc[evictor]
  BY <1>1 DEF DoomOK, LockOK
<1>3. LockOK'
  BY <1>2 DEF DoomOK, LockOK, lockVars
<1>4. Doomed' = Doomed
  BY <1>2 DEF Doomed, lockVars
<1>5. InTrip(Doomed)' \subseteq InTrip(Doomed)
  BY <1>4 DEF InTrip
<1>6. Doomed # Absent => age[Doomed] > MaxAge \/ InTrip(Doomed) \subseteq late
  BY DEF DoomOK, IdleLimitSparesRequests
<1>7. Doomed # Absent => age'[Doomed] > MaxAge \/ InTrip(Doomed)' \subseteq late
  BY <1>5, <1>6
<1> QED
  BY <1>3, <1>4, <1>7 DEF DoomOK, IdleLimitSparesRequests

LEMMA DoomRequest ==
  ASSUME Http2IInv, NEW r \in Requests, RequestStep(r)
  PROVE  DoomOK'
<1> USE Http2Assumption
<1>a. ConnsOK /\ DoomOK /\ LockOK /\ TypeOK
  BY DEF Http2IInv, ConnsOK, DoomOK
<1>1. CASE Locked
  BY <1>1, <1>a, DoomGone DEF Locked, MuFree, lockVars, LockOK
<1>2. CASE GoesOn(r)
  <2>1. MuFree' /\ late' = {}
    BY <1>2, <1>a DEF GoesOn, MuFree, LockOK
  <2> QED
    BY <2>1, DoomGone
<1>3. CASE FindUnusable(r)
  <2>1. PICK c \in Conns : c = conns[key[r]] /\ ~isConnUsable(c)
    BY <1>3, <1>a DEF FindUnusable, TypeOK
  <2>2. UNCHANGED <<conns, key, age, pc, cur>>
    BY <1>3 DEF FindUnusable, mapVars, connVars, reqVars
  <2>3. Doomed' = c
    BY <1>3, <2>1, <2>2 DEF FindUnusable, Doomed
  <2>4. LockOK'
    BY <1>3, <1>a, <2>1, <2>2 DEF FindUnusable, LockOK, MuFree
  <2> QED
    BY <1>a, <2>1, <2>2, <2>3, <2>4, DoomFound
<1>4. CASE Begin(r)
  <2>1. /\ UNCHANGED <<lockVars, conns, key, age>> /\ pc[r] = "ready" /\ pc'[r] = "trip"
        /\ cur'[r] = cur[r]
        /\ \A q \in Requests \ {r} : pc'[q] = pc[q] /\ cur'[q] = cur[q]
    BY <1>4, <1>a DEF Begin, Goto, TypeOK, mapVars
  <2>6. late \subseteq late' /\ late' \subseteq late \cup {r} /\ (cur[r] = Doomed => r \in late')
    BY <1>4 DEF Begin
  <2>2. evictor # r
    BY <2>1, <1>a DEF LockOK
  <2>9. late' \in SUBSET Requests
    BY <1>a, <2>6 DEF LockOK
  <2>3. LockOK'
    BY <1>a, <2>1, <2>2, <2>9 DEF LockOK, lockVars
  <2>4. Doomed' = Doomed
    BY <2>1 DEF Doomed, lockVars
  <2>5. InTrip(Doomed)' \subseteq InTrip(Doomed) \cup (late' \cap {r})
    BY <2>1, <2>4, <2>6 DEF InTrip
  <2>7. Doomed # Absent => age[Doomed] > MaxAge \/ InTrip(Doomed) \subseteq late
    BY <1>a DEF DoomOK, IdleLimitSparesRequests
  <2>8. Doomed # Absent => age'[Doomed] > MaxAge \/ InTrip(Doomed)' \subseteq late'
    BY <2>1, <2>5, <2>6, <2>7
  <2> QED
    BY <2>3, <2>4, <2>8 DEF DoomOK, IdleLimitSparesRequests
<1>5. CASE TripOk(r) \/ TripErr(r)
  <2>1. /\ UNCHANGED <<lockVars, late, conns, age>> /\ pc[r] = "trip" /\ pc'[r] # "trip"
        /\ \A q \in Requests \ {r} : pc'[q] = pc[q] /\ cur'[q] = cur[q] /\ key'[q] = key[q]
    BY <1>5, <1>a DEF TripOk, TripErr, Unlocked, Return, Goto, TypeOK, mapVars
  <2> QED
    BY <1>a, <2>1, DoomMoves
<1>6. CASE DialFail(r)
  <2>1. /\ UNCHANGED <<lockVars, late, conns, age>> /\ pc[r] \in {"dial", "cdial"} /\ pc'[r] # "trip"
        /\ \A q \in Requests \ {r} : pc'[q] = pc[q] /\ cur'[q] = cur[q] /\ key'[q] = key[q]
    BY <1>6, <1>a DEF DialFail, Unlocked, Return, TypeOK, mapVars, connVars
  <2> QED
    BY <1>a, <2>1, DoomMoves
<1>7. CASE DialOk(r)
  <2>1. PICK c \in Conns :
          /\ Unreferenced(c) /\ age' = [age EXCEPT ![c] = 0]
          /\ Goto(r, IF pc[r] = "dial" THEN "dialed" ELSE "cdialed", c)
    BY <1>7 DEF DialOk
  <2>2. /\ UNCHANGED <<lockVars, late, conns>> /\ pc[r] \in {"dial", "cdial"} /\ pc'[r] # "trip"
        /\ \A q \in Requests \ {r} : pc'[q] = pc[q] /\ cur'[q] = cur[q] /\ key'[q] = key[q]
    BY <1>7, <2>1, <1>a DEF DialOk, Unlocked, Goto, TypeOK, mapVars
  <2>3. Doomed # c
    BY <2>1, <1>a DEF Unreferenced, Doomed, LockOK, TypeOK
  <2>4. age'[Doomed] = age[Doomed] \/ Doomed = Absent
    BY <2>1, <2>3, <1>a, DoomedMapped DEF TypeOK
  <2> QED
    BY <1>a, <2>2, <2>4, DoomMoves
<1> QED
  BY <1>1, <1>2, <1>3, <1>4, <1>5, <1>6, <1>7 DEF RequestStep, GetClosed, GetHit, GetMiss,
     GetEvict, InstallClosed, InstallLose, InstallWin, RemoveReturn, RemoveRetry

LEMMA DoomStep == Http2IInv /\ [Next]_vars => DoomOK'
<1> SUFFICES ASSUME Http2IInv, [Next]_vars
             PROVE  DoomOK'
  OBVIOUS
<1> USE Http2Assumption
<1>a. ConnsOK /\ DoomOK /\ LockOK /\ TypeOK /\ MapOK
  BY DEF Http2IInv, ConnsOK, DoomOK
<1>1. CASE Locked
  BY <1>1, <1>a, DoomGone DEF Locked, MuFree, lockVars, LockOK
<1>2. ASSUME NEW c \in Conns, CloseConn(c)
      PROVE  DoomOK'
  <2>1. /\ UNCHANGED <<lockVars, late, conns, key, pc, cur>> /\ c \in closing
        /\ age' = [age EXCEPT ![c] = 0]
    BY <1>2 DEF CloseConn, Unlocked, mapVars, reqVars
  <2>2. Doomed # Absent => age'[Doomed] = age[Doomed]
    BY <2>1, <1>a, DoomedMapped DEF TypeOK, MapOK, RetiredNotMapped
  <2> QED
    BY <1>a, <2>1, <2>2, DoomStays
<1>3. CASE Tick
  <2>1. UNCHANGED <<lockVars, late, conns, key, pc, cur>>
    BY <1>3 DEF Tick, Unlocked, mapVars
  <2>2. \A c \in Conns : (\E k \in Keys : conns[k] = c) /\ age[c] > MaxAge => age'[c] > MaxAge
    BY <1>3, <1>a DEF Tick, Bump, TypeOK
  <2>3. Doomed # Absent => Doomed \in Conns /\ \E k \in Keys : conns[k] = Doomed
    BY <1>a, DoomedMapped
  <2>4. Doomed # Absent => (age[Doomed] > MaxAge => age'[Doomed] > MaxAge)
    BY <2>2, <2>3
  <2> QED
    BY <1>a, <2>1, <2>4, DoomStays
<1>4. CASE Cleanup
  <2>1. LockOK' /\ Doomed' = Absent
    BY <1>4, <1>a DEF Cleanup, LockOK, MuFree, mapVars, Doomed
  <2> QED
    BY <2>1 DEF DoomOK, IdleLimitSparesRequests
<1>5. ASSUME NEW k \in Keys, CleanupTest(k)
      PROVE  DoomOK'
  <2>1. UNCHANGED <<conns, key, age, pc, cur, evictor, late>> /\ evictor = Absent
        /\ conns[k] \in Conns
    BY <1>5, <1>a DEF CleanupTest, mapVars, connVars, reqVars, LockOK, TypeOK
  <2>2. LockOK'
    BY <1>5, <1>a, <2>1 DEF CleanupTest, LockOK
  <2>3. CASE Usable(k)
    BY <1>5, <2>1, <2>2, <2>3 DEF CleanupTest, Doomed, DoomOK, IdleLimitSparesRequests
  <2>4. CASE ~Usable(k)
    <3>1. condemned' = k /\ k # Absent /\ ~isConnUsable(conns[k])
      BY <1>5, <2>1, <2>4 DEF CleanupTest, Usable
    <3>2. Doomed' = conns[k]
      BY <2>1, <3>1 DEF Doomed
    <3> QED
      BY <1>a, <2>1, <2>2, <3>1, <3>2, DoomFound
  <2> QED
    BY <2>3, <2>4
<1>6. CASE CleanupDelete
  <2>1. /\ conns' = [conns EXCEPT ![condemned] = Absent] /\ condemned \in Keys
        /\ condemned' = Absent /\ late' = {} /\ evictor' = Absent /\ evictor = Absent
        /\ toTest' = toTest
    BY <1>6, <1>a DEF CleanupDelete, Remove, LockOK
  <2>2. LockOK'
    BY <1>a, <2>1 DEF LockOK, TypeOK
  <2> QED
    BY <2>1, <2>2 DEF Doomed, DoomOK, IdleLimitSparesRequests
<1>7. CASE UNCHANGED vars
  <2>1. UNCHANGED <<lockVars, late, conns, key, pc, cur, age>>
    BY <1>7 DEF vars, mapVars, connVars, reqVars
  <2> QED
    BY <1>a, <2>1, DoomStays
<1> QED
  BY <1>1, <1>2, <1>3, <1>4, <1>5, <1>6, <1>7, DoomRequest DEF Next, OtherStep, CleanupStep,
     Start, StartConnect, Refresh, Close

LEMMA Http2Inductive == Spec => []Http2IInv
<1>1. Http2IInv /\ [Next]_vars => Http2IInv'
  BY Http2Core, DoomStep DEF Http2IInv
<1> QED
  BY Http2Init, <1>1, PTL DEF Spec

\* Requests, Connect, cleanup, Refresh and Close keep the map free of retired
\* connections and the inFlight counters exact, at every unlock.
THEOREM InFlightNeverDrifts == Spec => []Http2Inv
BY Http2Inductive, Http2Suffices, PTL

\* Nobody who found a connection unusable because of maxIdleTime takes a request
\* out of the code's hands that had begun before the test: a request in a round
\* trip is counted, and a counted connection only ages.
THEOREM IdleNeverCutsRequests == Spec => []IdleLimitSparesRequests
<1>1. Http2IInv => IdleLimitSparesRequests
  BY DEF Http2IInv, DoomOK
<1> QED
  BY <1>1, Http2Inductive, PTL
=============================================================================
