----------------------------- MODULE Transport -----------------------------
(***************************************************************************)
(* transport.Transport (src/transport/transport.go, stream.go): which      *)
(* protocol answers a request, in which order protocols are tried, what    *)
(* the HTTP/3-HTTP/2 race leaves behind, and through which proxy the       *)
(* requests go while the proxy or the preset is being changed.             *)
(*                                                                         *)
(* A call of Do or DoStream becomes a list of attempts still to make       *)
(* (todo).  An attempt ends in an answer, a failure or, over HTTP/2, an    *)
(* ALPN mismatch: the open TLS connection it carries is reused by          *)
(* doHTTP1WithTLSConn ("h1tls").  The transports below are Http1Conns,     *)
(* Http2Conns and Http3Conns; here an attempt over a transport that has    *)
(* been closed fails.  A proxy URL is reduced to its kind.                 *)
(*                                                                         *)
(* Do does not hold a lock while it works, so SetProxy and SetPreset,      *)
(* which close the transports and then build new ones, interleave with it; *)
(* they are two steps each (Session.mu allows one of them at a time).      *)
(***************************************************************************)
EXTENDS Integers, Sequences, FiniteSets

CONSTANTS
  Calls,      \* calls of Do and DoStream
  Requests,   \* what they ask for: [stream: BOOLEAN, https: BOOLEAN]
  Hosts,
  Proxies,    \* the proxy configurations in use, nil included
  MaxSets,    \* bound on configuration changes
  None

Kinds == {"none", "http", "socks", "masque"}
Protocols == {"h1", "h2", "h3"}
Attempts == Protocols \cup {"h1tls"}

ASSUME TransportAssumption ==
  /\ Requests \subseteq [stream: BOOLEAN, https: BOOLEAN]
  /\ Proxies \subseteq [url: Kinds, tcp: Kinds, udp: Kinds]
  /\ MaxSets \in Nat
  /\ None \notin Protocols

VARIABLES
  proxy,     \* t.proxy
  proto,     \* t.protocol
  preset3,   \* t.preset.SupportHTTP3
  sub,       \* the three transports: open, the proxy below HTTP/3, and
             \* (history) whether SetPreset built them
  h3err,     \* t.h3ProxyError is set
  setter,    \* what SetProxy, SetPreset or RefreshWithProtocol has still to do
  sets,      \* number of configuration changes so far
  support,   \* t.protocolSupport
  call,      \* call -> the locals of Do
  race       \* call -> the goroutines and channels of raceH3H2

confVars == <<proxy, proto, preset3, sub, h3err, setter, sets>>
transportVars == <<proxy, proto, preset3, sub, h3err, setter, sets, support, call, race>>

NoRace == [h3 |-> "off", h2 |-> "off", win |-> "none", mis |-> "none"]

\* calm and direct are history: the configuration has not changed since the
\* call began; an HTTP/3 attempt went out without the proxy configured for it.
\* dropped: a mismatch was returned as an error, with its connection open.
NoCall == [pc |-> "idle", req |-> [stream |-> FALSE, https |-> TRUE], host |-> None,
           todo |-> <<>>, learn |-> FALSE, reuse |-> FALSE, after |-> <<>>, ctx |-> TRUE,
           tried |-> {}, res |-> "idle", calm |-> TRUE, direct |-> FALSE, dropped |-> FALSE]

TransportTypeOK ==
  /\ proxy \in Proxies
  /\ proto \in Protocols \cup {"auto"}
  /\ preset3 \in BOOLEAN
  /\ sub \in [up: BOOLEAN, quic: Kinds, preset: BOOLEAN]
  /\ h3err \in BOOLEAN
  /\ setter \in {"none", "proxy", "preset", "clear"}
  /\ sets \in 0 .. MaxSets
  /\ support \in [Hosts -> Protocols \cup {None}]
  /\ call \in [Calls ->
       [pc: {"idle", "race", "try", "done"},
        req: [stream: BOOLEAN, https: BOOLEAN], host: Hosts \cup {None},
        todo: Seq(Attempts), learn: BOOLEAN, reuse: BOOLEAN, after: Seq(Attempts),
        ctx: BOOLEAN, tried: SUBSET Attempts,
        res: {"idle", "pending", "failed"} \cup Protocols,
        calm: BOOLEAN, direct: BOOLEAN, dropped: BOOLEAN]]
  /\ race \in [Calls -> [h3: {"off", "run", "end"}, h2: {"off", "run", "end"},
                         win: {"none", "h3", "h2"}, mis: {"none", "in", "late"}]]

-----------------------------------------------------------------------------
(* Proxies.                                                                *)

\* SupportsQUIC.
SupportsQUIC(k) == k \in {"socks", "masque"}

Proxied(p) == p.url # "none" \/ p.tcp # "none" \/ p.udp # "none"

\* effectiveProxyURL in Do and DoStream.
Effective(p) ==
  IF p.url # "none" THEN p.url ELSE IF p.tcp # "none" THEN p.tcp ELSE p.udp

\* udpProxyURL in NewTransportWithConfig and SetProxy.
UdpProxy(p) == IF p.udp # "none" THEN p.udp ELSE p.url

\* Mutant: a failed initialisation is not remembered.
H3ForSilent(k, ok) == [quic |-> IF SupportsQUIC(k) /\ ok THEN k ELSE "none", err |-> FALSE]

\* How the HTTP/3 transport for proxy kind k is built, when setting up a UDP
\* tunnel works (ok) or not.  Without a tunnel it is a direct one, and the
\* error is kept so that Do can refuse to use it.
H3For(k, ok) ==
  [quic |-> IF SupportsQUIC(k) /\ ok THEN k ELSE "none",
   err  |-> k # "none" /\ ~(SupportsQUIC(k) /\ ok)]

\* NewTransportWithConfig.
TransportInit ==
  /\ proxy \in Proxies
  /\ proto \in Protocols \cup {"auto"}
  /\ preset3 \in BOOLEAN
  /\ \E ok \in BOOLEAN :
       /\ sub = [up |-> TRUE, quic |-> H3For(UdpProxy(proxy), ok).quic, preset |-> FALSE]
       /\ h3err = H3For(UdpProxy(proxy), ok).err
  /\ setter = "none"
  /\ sets = 0
  /\ support = [h \in Hosts |-> None]
  /\ call = [c \in Calls |-> NoCall]
  /\ race = [c \in Calls |-> NoRace]

Disturbed == [c \in Calls |-> [call[c] EXCEPT !.calm = @ /\ call[c].pc \in {"idle", "done"}]]

BeginSet(what) ==
  /\ setter = "none"
  /\ sets < MaxSets
  /\ setter' = what
  /\ sets' = sets + 1
  /\ call' = Disturbed

\* SetProxy up to the three Close calls.
SetProxyClose(p) ==
  /\ BeginSet("proxy")
  /\ proxy' = p
  /\ h3err' = FALSE
  /\ sub' = [sub EXCEPT !.up = FALSE]
  /\ UNCHANGED <<proto, preset3, support, race>>

\* The rest of SetProxy.
SetProxyBuild ==
  /\ setter = "proxy"
  /\ \E ok \in BOOLEAN :
       /\ sub' = [up |-> TRUE, quic |-> H3For(UdpProxy(proxy), ok).quic, preset |-> FALSE]
       /\ h3err' = H3For(UdpProxy(proxy), ok).err
  /\ setter' = "none"
  /\ UNCHANGED <<proxy, proto, preset3, sets, support, call, race>>

\* SetPreset up to the three Close calls.
SetPresetClose(b) ==
  /\ BeginSet("preset")
  /\ preset3' = b
  /\ sub' = [sub EXCEPT !.up = FALSE]
  /\ UNCHANGED <<proxy, proto, h3err, support, race>>

\* The rest of SetPreset: it looks at proxy.URL only and leaves h3ProxyError.
SetPresetBuild ==
  /\ setter = "preset"
  /\ \E ok \in BOOLEAN : sub' = [up |-> TRUE, quic |-> H3For(proxy.url, ok).quic, preset |-> TRUE]
  /\ setter' = "none"
  /\ UNCHANGED <<proxy, proto, preset3, h3err, sets, support, call, race>>

\* RefreshWithProtocol: after the connections are dropped, the protocol is set
\* and then the protocol cache cleared.
RefreshWithProtocol(p) ==
  /\ BeginSet("clear")
  /\ proto' = p
  /\ UNCHANGED <<proxy, preset3, sub, h3err, support, race>>

ClearProtocolCache ==
  /\ setter = "clear"
  /\ setter' = "none"
  /\ support' = [h \in Hosts |-> None]
  /\ UNCHANGED <<proxy, proto, preset3, sub, h3err, sets, call, race>>

\* Close.
CloseTransport ==
  /\ sub.up /\ setter = "none" /\ sets < MaxSets
  /\ sub' = [sub EXCEPT !.up = FALSE]
  /\ sets' = sets + 1
  /\ call' = Disturbed
  /\ UNCHANGED <<proxy, proto, preset3, h3err, setter, support, race>>

-----------------------------------------------------------------------------
(* Routes: the attempts of a call, in order.                               *)

\* Do with a proxy.  HTTP/3 is refused without a way to proxy UDP.
DoProxied ==
  LET quic == ~h3err /\ SupportsQUIC(Effective(proxy)) IN
  CASE proto = "h3" /\ quic   -> <<"h3">>
    [] proto = "h3" /\ ~quic  -> <<>>
    [] proto = "auto" /\ quic  -> <<"h3", "h2", "h1">>
    [] proto = "auto" /\ ~quic -> <<"h2", "h1">>
    [] OTHER -> <<proto>>

\* doAuto for a host whose protocol is known.  HTTP/3 has no fall-back.
DoKnown(p) == IF p = "h2" THEN <<"h2", "h1">> ELSE <<p>>

\* DoStream with a proxy: neither t.protocol nor h3ProxyError is looked at.
StreamProxied == IF SupportsQUIC(Effective(proxy)) THEN <<"h3", "h2">> ELSE <<"h2">>

\* DoStream without: HTTP/1.1 only on demand.
StreamDirect == IF proto = "auto" THEN <<"h3", "h2">> ELSE <<proto>>

Start(c, rq, h, todo, learn, reuse) ==
  /\ call' = [call EXCEPT ![c] =
       [NoCall EXCEPT !.pc = IF todo = <<>> THEN "done" ELSE "try", !.req = rq, !.host = h,
                      !.todo = todo, !.learn = learn, !.reuse = reuse,
                      !.res = IF todo = <<>> THEN "failed" ELSE "pending",
                      !.calm = setter = "none" /\ ~sub.preset]]
  /\ UNCHANGED race

\* Do and DoStream up to the first attempt, with the locks of the protocol
\* cache.
Begin(c, rq, h) ==
  /\ call[c].pc = "idle"
  /\ IF ~rq.https THEN Start(c, rq, h, <<"h1">>, FALSE, FALSE)
     ELSE IF rq.stream
     THEN Start(c, rq, h, IF Proxied(proxy) THEN StreamProxied ELSE StreamDirect, FALSE, FALSE)
     ELSE IF Proxied(proxy) THEN Start(c, rq, h, DoProxied, FALSE, proto = "auto")
     ELSE IF proto # "auto" THEN Start(c, rq, h, <<proto>>, FALSE, FALSE)
     ELSE IF support[h] # None THEN Start(c, rq, h, DoKnown(support[h]), FALSE, support[h] = "h2")
     ELSE IF ~preset3 THEN Start(c, rq, h, <<"h2", "h1">>, TRUE, TRUE)
     ELSE /\ call' = [call EXCEPT ![c] =
               [NoCall EXCEPT !.pc = "race", !.req = rq, !.host = h, !.learn = TRUE,
                              !.reuse = TRUE, !.after = <<"h1">>, !.res = "pending",
                              !.calm = setter = "none" /\ ~sub.preset]]
          /\ race' = [race EXCEPT ![c] = [NoRace EXCEPT !.h3 = "run", !.h2 = "run"]]
  /\ UNCHANGED <<confVars, support>>

\* The context of a call is cancelled or expires.
Cancel(c) ==
  /\ call[c].pc \in {"race", "try"} /\ call[c].ctx
  /\ call' = [call EXCEPT ![c].ctx = FALSE]
  /\ UNCHANGED <<confVars, support, race>>

-----------------------------------------------------------------------------
(* raceH3H2.                                                               *)

\* The goroutine that tries HTTP/3: a winner is reported if the channel has
\* room for it.
ConnectH3(c) ==
  /\ race[c].h3 = "run"
  /\ \/ race' = [race EXCEPT ![c].h3 = "end"]
     \/ /\ sub.up
        /\ race' = [race EXCEPT ![c].h3 = "end",
                                ![c].win = IF @ = "none" THEN "h3" ELSE @]
  /\ UNCHANGED <<confVars, support, call>>

\* The goroutine that tries HTTP/2.  Its mismatch error may come when nobody
\* reads the channel any more.
ConnectH2(c) ==
  /\ race[c].h2 = "run"
  /\ \/ race' = [race EXCEPT ![c].h2 = "end"]
     \/ /\ sub.up
        /\ race' = [race EXCEPT ![c].h2 = "end",
                                ![c].win = IF @ = "none" THEN "h2" ELSE @]
     \/ /\ sub.up
        /\ race' = [race EXCEPT ![c].h2 = "end",
                                ![c].mis = IF call[c].pc = "race" THEN "in" ELSE "late"]
  /\ UNCHANGED <<confVars, support, call>>

Decide(c, todo) ==
  /\ call[c].pc = "race"
  /\ call' = [call EXCEPT ![c].pc = "try", ![c].todo = todo]
  /\ UNCHANGED <<confVars, support>>

\* Mutant: the losing attempt's mismatch is not looked for.
RaceWonCareless(c) ==
  /\ race[c].win # "none"
  /\ Decide(c, IF race[c].win = "h3" THEN <<"h3", "h1">> ELSE <<"h2", "h1", "h1">>)
  /\ race' = [race EXCEPT ![c].win = "none"]

\* A connection is made: the other attempt is cancelled, a mismatch it has
\* already reported is closed.  doAuto ends with HTTP/1.1 if the race fails.
RaceWon(c) ==
  /\ race[c].win # "none"
  /\ Decide(c, IF race[c].win = "h3" THEN <<"h3", "h1">> ELSE <<"h2", "h1", "h1">>)
  /\ race' = [race EXCEPT ![c].win = "none", ![c].mis = "none"]

RaceMismatch(c) ==
  /\ race[c].mis = "in"
  /\ Decide(c, <<"h1tls", "h1">>)
  /\ race' = [race EXCEPT ![c].mis = "none"]

\* Mutant: the last attempt is forgotten.
RaceTimeoutShort(c) ==
  /\ Decide(c, IF race[c].mis = "in" THEN <<"h1tls", "h1">> ELSE <<"h2">>)
  /\ race' = [race EXCEPT ![c].mis = "none"]

\* Six seconds have passed, or the context is done.
RaceTimeout(c) ==
  /\ Decide(c, IF race[c].mis = "in" THEN <<"h1tls", "h1">> ELSE <<"h2", "h1", "h1">>)
  /\ race' = [race EXCEPT ![c].mis = "none"]

RaceCancelled(c) ==
  /\ ~call[c].ctx
  /\ Decide(c, <<"h1">>)
  /\ race' = [race EXCEPT ![c].mis = "none"]

-----------------------------------------------------------------------------
(* doHTTP1, doHTTP1WithTLSConn, doHTTP2, doHTTP3 and their stream variants. *)

ProtocolOf(a) == IF a = "h1tls" THEN "h1" ELSE a

\* An HTTP/3 attempt over a direct transport although QUIC is to be proxied.
Bypass(a) == a = "h3" /\ sub.up /\ sub.quic = "none" /\ UdpProxy(proxy) # "none"

\* The call is at its next attempt.
At(c, a, stream) ==
  call[c].pc = "try" /\ Head(call[c].todo) = a /\ call[c].req.stream = stream

Attempted(c) ==
  LET a == Head(call[c].todo) IN
  [call[c] EXCEPT !.todo = Tail(@), !.tried = @ \cup {a}, !.direct = @ \/ Bypass(a)]

\* Mutant: whatever answers a call of an unknown host, HTTP/2 is remembered.
LearnH2(c, p) ==
  support' = IF call[c].learn THEN [support EXCEPT ![call[c].host] = "h2"] ELSE support

\* Mutant: the attempt is remembered and not its protocol.
LearnAttempt(c, p) ==
  support' = IF call[c].learn THEN [support EXCEPT ![call[c].host] = Head(call[c].todo)] ELSE support

\* doAuto: the protocol that answered is remembered.
Learn(c, p) ==
  support' = IF call[c].learn THEN [support EXCEPT ![call[c].host] = p] ELSE support

Answered(c) ==
  /\ call[c].ctx /\ sub.up
  /\ LET p == ProtocolOf(Head(call[c].todo)) IN
       /\ call' = [call EXCEPT ![c] = [Attempted(c) EXCEPT !.pc = "done", !.res = p]]
       /\ Learn(c, p)
  /\ UNCHANGED <<confVars, race>>

\* The next attempt, if there is one.
GoOn(rec) ==
  IF rec.todo = <<>> THEN [rec EXCEPT !.pc = "done", !.res = "failed"] ELSE rec

Failed(c) ==
  /\ call' = [call EXCEPT ![c] = GoOn(Attempted(c))]
  /\ UNCHANGED <<confVars, support, race>>

\* The server answers the HTTP/2 handshake with HTTP/1.1.
Mismatch(c) ==
  /\ call[c].ctx /\ sub.up
  /\ call' = [call EXCEPT ![c] =
       IF call[c].reuse
       THEN [Attempted(c) EXCEPT !.todo = <<"h1tls">> \o call[c].after]
       ELSE GoOn([Attempted(c) EXCEPT !.dropped = TRUE])]
  /\ UNCHANGED <<confVars, support, race>>

doHTTP1(c) == At(c, "h1", FALSE) /\ (Answered(c) \/ Failed(c))

doHTTP1WithTLSConn(c) == At(c, "h1tls", FALSE) /\ (Answered(c) \/ Failed(c))

doHTTP2(c) == At(c, "h2", FALSE) /\ (Answered(c) \/ Failed(c) \/ Mismatch(c))

doHTTP3(c) == At(c, "h3", FALSE) /\ (Answered(c) \/ Failed(c))

doStreamHTTP1(c) == At(c, "h1", TRUE) /\ (Answered(c) \/ Failed(c))

doStreamHTTP2(c) == At(c, "h2", TRUE) /\ (Answered(c) \/ Failed(c) \/ Mismatch(c))

doStreamHTTP3(c) == At(c, "h3", TRUE) /\ (Answered(c) \/ Failed(c))

\* The call is over and forgotten, with its goroutines: the slot stands for the
\* next call.
Return(c) ==
  /\ call[c].pc = "done" /\ race[c].h3 # "run" /\ race[c].h2 # "run"
  /\ call' = [call EXCEPT ![c] = NoCall]
  /\ race' = [race EXCEPT ![c] = NoRace]
  /\ UNCHANGED <<confVars, support>>

-----------------------------------------------------------------------------

CallStep(c) ==
  \/ RaceWon(c) \/ RaceMismatch(c) \/ RaceTimeout(c) \/ RaceCancelled(c)
  \/ doHTTP1(c) \/ doHTTP1WithTLSConn(c) \/ doHTTP2(c) \/ doHTTP3(c)
  \/ doStreamHTTP1(c) \/ doStreamHTTP2(c) \/ doStreamHTTP3(c)

SetterStep == SetProxyBuild \/ SetPresetBuild \/ ClearProtocolCache

TransportNext ==
  \/ \E p \in Proxies : SetProxyClose(p)
  \/ \E b \in BOOLEAN : SetPresetClose(b)
  \/ \E p \in Protocols \cup {"auto"} : RefreshWithProtocol(p)
  \/ SetterStep
  \/ CloseTransport
  \/ \E c \in Calls :
       \/ \E rq \in Requests, h \in Hosts : Begin(c, rq, h)
       \/ Cancel(c) \/ Return(c)
       \/ ConnectH3(c) \/ ConnectH2(c)
       \/ CallStep(c)

TransportSpec == TransportInit /\ [][TransportNext]_transportVars

TransportFairSpec == TransportSpec /\ \A c \in Calls : WF_transportVars(CallStep(c))

-----------------------------------------------------------------------------

\* Do never sends a request over QUIC past the proxy configured for it
\* (UDPProxy, or URL), unless the proxy or the preset was changed during or, by
\* SetPreset, before the call.  h3ProxyError is what keeps the direct transport
\* that replaces a failed tunnel from being used.
QuicUsesProxy ==
  \A c \in Calls : ~call[c].req.stream /\ call[c].calm => ~call[c].direct

\* A TLS connection that negotiated HTTP/1.1 is closed or reused if the race
\* could know of it; only a mismatch reported after the decision, or one of an
\* attempt that has no fall-back to HTTP/1.1, stays open.
EarlyMismatchReleased ==
  \A c \in Calls :
    /\ race[c].mis = "in" => call[c].pc = "race"
    /\ call[c].dropped => ~call[c].reuse

\* With t.protocol automatic, a call that fails has tried HTTP/1.1, the last
\* resort, except for streams and hosts remembered as HTTP/3.
LastResort ==
  \A c \in Calls :
    call[c].res = "failed" /\ call[c].reuse =>
      call[c].tried \cap {"h1", "h1tls"} # {}

\* However the race between HTTP/3 and HTTP/2 ends, nothing it knew of is left
\* open and the fall-backs are used up before a call fails.
TransportInv == TransportTypeOK /\ EarlyMismatchReleased /\ LastResort

Choice ==
  INSTANCE ProtocolChoice
    WITH outcome <- [c \in Calls |-> call[c].res], memory <- support

\* Do and DoStream implement the abstract choice of a protocol: every call is
\* answered once or fails, and only an answer is remembered.
ImplementsChoice == Choice!ChoiceSpec
=============================================================================
