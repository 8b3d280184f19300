------------------------------- MODULE Client -------------------------------
(***************************************************************************)
(* client.Client (src/client): Do with its retries, redirects and          *)
(* challenges, DoStream, the choice of a protocol with the tables of       *)
(* failures, and the setters that replace what a running call uses.        *)
(*                                                                         *)
(* doOnce calls itself for a redirect and for an authentication challenge; *)
(* here the inner call takes the place of the outer one, whose context     *)
(* (expired) it keeps.  A cookie is reduced to the host that set it and an *)
(* Authorization header to who gave the credentials: the request ("req")   *)
(* or the client ("client").  Hosts stand for origins.  A failure is in    *)
(* the tables as long as it counts, that is for five minutes.              *)
(*                                                                         *)
(* An element of Calls is a goroutine that makes one call after the other. *)
(* Get and Post hand the caller's headers map on as it is and doOnce writes*)
(* into it: a caller that passes the map again passes what is in it.       *)
(***************************************************************************)
EXTENDS Integers, Sequences

CONSTANTS
  Calls,         \* the goroutines that call Do and DoStream
  Hosts,
  Asked,         \* the requests: own, the caller passes a headers map;
                 \* again, the one it passed in its last call
  Configured,    \* the proxies a client is made with
  ClientAuths,   \* the client's credentials
  Settable,      \* the kinds of proxies the setters are given
  MaxRetries,    \* config.MaxRetries
  MaxRedirects,  \* config.MaxRedirects
  MaxChanges,    \* bound on changes of the configuration
  None

Kinds == {"none", "http", "socks", "masque"}
Protocols == {"h1", "h2", "h3"}
AuthKinds == {"none", "basic", "digest"}

ASSUME ClientAssumption ==
  /\ Asked \subseteq [stream: BOOLEAN, auth: AuthKinds, own: BOOLEAN, again: BOOLEAN,
                      force: Protocols \cup {"auto"}]
  /\ \A r \in Asked : r.again => r.own
  /\ ClientAuths \subseteq AuthKinds /\ Settable \subseteq Kinds
  /\ Configured \subseteq [all: Kinds, tcp: Kinds, udp: Kinds]
  /\ MaxRetries \in Nat /\ MaxRedirects \in Nat /\ MaxChanges \in Nat
  /\ None \notin Hosts \cup {"req", "old", "client"}

VARIABLES
  proxies,   \* config.Proxy, TCPProxy and UDPProxy
  quic,      \* what serves HTTP/3: "direct" (quicManager), "masque", "socks"
             \* (the two HTTP3Transports) or "none"
  building,  \* SetUDPProxy has closed the old one and not built the new one
  changes,   \* number of configuration changes
  auth,      \* c.auth
  nonce,     \* whose DigestAuth has a nonce
  jar,       \* hosts with a cookie in c.cookies
  h2f, h3f,  \* hosts in h2Failures and h3Failures
  call       \* call -> its locals

clientVars == <<proxies, quic, building, changes, auth, nonce, jar, h2f, h3f, call>>

NoHeaders == [auth |-> None, cookie |-> None]

\* hdr: Authorization and Cookie in req.Headers; base: the same in the map the
\* caller passed, which every attempt shares and the caller has after the call.
\* sent: what went out last.  kept: lastResp is set.  given and calm are history:
\* what that map held when the call began; no proxy was changed during the call.
NoCall ==
  [pc |-> "idle", req |-> CHOOSE r \in Asked : TRUE, from |-> None, host |-> None,
   n |-> 0, hops |-> 0, chal |-> FALSE, force |-> "auto", h3 |-> FALSE,
   todo |-> <<>>, tried |-> <<>>, auth |-> "none", hdr |-> NoHeaders, base |-> NoHeaders,
   given |-> NoHeaders, sent |-> NoHeaders, expired |-> FALSE, kept |-> FALSE, res |-> "none", calm |-> TRUE]

\* "old": the credentials of an earlier call's request, left in its map.
Owners == {"req", "old", "client", None}

ClientTypeOK ==
  /\ proxies \in [all: Kinds, tcp: Kinds, udp: Kinds]
  /\ quic \in {"direct", "masque", "socks", "none"}
  /\ building \in BOOLEAN
  /\ changes \in 0 .. MaxChanges
  /\ auth \in AuthKinds
  /\ nonce \subseteq {"req", "client"}
  /\ jar \subseteq Hosts /\ h2f \subseteq Hosts /\ h3f \subseteq Hosts
  /\ \A c \in Calls :
       /\ call[c].pc \in {"idle", "start", "try", "wait", "done"}
       /\ call[c].host \in Hosts \cup {None}
       /\ call[c].n \in 0 .. MaxRetries
       /\ call[c].hops \in 0 .. MaxRedirects
       /\ call[c].force \in Protocols \cup {"auto"}
       /\ call[c].todo \in Seq(Protocols) /\ call[c].tried \in Seq(Protocols)
       /\ {call[c].hdr, call[c].base, call[c].given, call[c].sent}
            \subseteq [auth: Owners, cookie: Hosts \cup {None}]
       /\ call[c].res \in {"none", "response", "error", "panic"}

SupportsQUIC(k) == k \in {"socks", "masque"}

\* What is built for a UDP proxy of kind k; setting up a tunnel may fail.
QuicFor(k) ==
  CASE k = "none" -> {"direct"} [] SupportsQUIC(k) -> {k, "none"} [] OTHER -> {"none"}

\* NewClient, with DisableH3 or without, and the cookies the caller put into
\* Cookies().
ClientInit ==
  /\ proxies \in Configured
  /\ quic \in QuicFor(IF proxies.udp # "none" THEN proxies.udp ELSE proxies.all) \cup {"none"}
  /\ building = FALSE
  /\ changes = 0
  /\ auth \in ClientAuths
  /\ nonce = {}
  /\ jar \in SUBSET Hosts
  /\ h2f = {} /\ h3f = {}
  /\ call = [c \in Calls |-> NoCall]

-----------------------------------------------------------------------------
(* The setters.                                                            *)

Disturbed == [c \in Calls |-> [call[c] EXCEPT !.calm = @ /\ call[c].pc \in {"idle", "done"}]]

\* SetTCPProxy; the pools and connections it closes are in ConnPool and
\* Http1Conns.
SetTCPProxy(k) ==
  /\ changes < MaxChanges /\ changes' = changes + 1
  /\ proxies' = [all |-> IF proxies.all = proxies.udp \/ proxies.udp = "none"
                         THEN k ELSE proxies.all,
                 tcp |-> k, udp |-> proxies.udp]
  /\ h2f' = {}
  /\ call' = Disturbed
  /\ UNCHANGED <<quic, building, auth, nonce, jar, h3f>>

\* SetUDPProxy up to the new transport: the three old ones become nil.
SetUDPProxyClose(k) ==
  /\ ~building /\ changes < MaxChanges /\ changes' = changes + 1
  /\ building' = TRUE
  /\ quic' = "none"
  /\ proxies' = [all |-> IF proxies.all = proxies.tcp \/ proxies.tcp = "none"
                         THEN k ELSE proxies.all,
                 tcp |-> proxies.tcp, udp |-> k]
  /\ call' = Disturbed
  /\ UNCHANGED <<auth, nonce, jar, h2f, h3f>>

\* Mutant: a tunnel that cannot be set up is replaced by direct QUIC.
SetUDPProxyBuildDirect ==
  /\ building /\ building' = FALSE
  /\ quic' \in {IF q = "none" THEN "direct" ELSE q : q \in QuicFor(proxies.udp)}
  /\ h3f' = {}
  /\ call' = Disturbed
  /\ UNCHANGED <<proxies, changes, auth, nonce, jar, h2f>>

SetUDPProxyBuild ==
  /\ building /\ building' = FALSE
  /\ quic' \in QuicFor(proxies.udp)
  /\ h3f' = {}
  /\ call' = Disturbed
  /\ UNCHANGED <<proxies, changes, auth, nonce, jar, h2f>>

\* ClearCookies.
ClearCookies ==
  /\ jar # {} /\ jar' = {}
  /\ UNCHANGED <<proxies, quic, building, changes, auth, nonce, h2f, h3f, call>>

\* Five minutes pass: shouldTryHTTP3 ignores the entry, shouldUseH1 deletes it.
Elapse(h) ==
  /\ h \in h2f \cup h3f
  /\ h2f' = h2f \ {h} /\ h3f' = h3f \ {h}
  /\ UNCHANGED <<proxies, quic, building, changes, auth, nonce, jar, call>>

-----------------------------------------------------------------------------
(* Do, doWithRetry and DoStream around doOnce.                             *)

\* The headers map of a caller's last call, for its next one.
Aged(map) == [map EXCEPT !.auth = IF @ = "req" THEN "old" ELSE @]

Do(c, r, h) ==
  LET map == IF r.again THEN Aged(call[c].base) ELSE NoHeaders IN
  /\ call[c].pc \in {"idle", "done"} /\ call[c].res # "panic"
  /\ call' = [call EXCEPT ![c] = [NoCall EXCEPT
       !.pc = "start", !.req = r, !.from = h, !.host = h, !.force = r.force,
       !.auth = r.auth, !.hdr = map, !.base = map, !.given = map, !.calm = ~building]]
  /\ nonce' = nonce \ {"req"}
  /\ UNCHANGED <<proxies, quic, building, changes, auth, jar, h2f, h3f>>

Ended(rec, res) ==
  [NoCall EXCEPT !.pc = "done", !.res = res, !.base = rec.base, !.kept = rec.kept,
                 !.calm = rec.calm]

\* The next doOnce starts afresh, on another stack frame.
Again(rec, pc) ==
  [rec EXCEPT !.pc = pc, !.h3 = FALSE, !.todo = <<>>, !.tried = <<>>, !.sent = NoHeaders]

Retries(rec) == ~rec.req.stream

\* Mutant: the response that made it retry is forgotten.
AttemptFailedBlank(rec) ==
  IF Retries(rec) /\ rec.n < MaxRetries THEN Again(rec, "wait") ELSE Ended(rec, "error")

\* doOnce returns an error: another attempt, or the last retryable response.
AttemptFailed(rec) ==
  IF Retries(rec) /\ rec.n < MaxRetries THEN Again(rec, "wait")
  ELSE Ended(rec, IF Retries(rec) /\ rec.kept THEN "response" ELSE "error")

\* doWithRetry on a response.  403 and 429 with Set-Cookie are tried once more,
\* without regard to whether an attempt is left.
Judged(rec, status, cookie) ==
  IF ~Retries(rec) THEN Ended(rec, "response")
  ELSE IF status \in {403, 429} /\ cookie /\ ~rec.chal /\ rec.req.force = "auto"
  THEN AttemptFailed([rec EXCEPT !.chal = TRUE])
  ELSE IF status \in {429, 503} /\ rec.n < MaxRetries
  THEN Again([rec EXCEPT !.kept = TRUE], "wait")
  ELSE Ended(rec, "response")

\* Mutant: the next attempt goes on with the headers of the last hop.
BackoffKeeps(c) ==
  /\ call[c].pc = "wait"
  /\ call' = [call EXCEPT ![c] = [@ EXCEPT
       !.pc = "start", !.n = @ + 1, !.host = call[c].from, !.hops = 0,
       !.auth = call[c].req.auth, !.expired = FALSE]]
  /\ UNCHANGED <<proxies, quic, building, changes, auth, nonce, jar, h2f, h3f>>

\* Mutant: attempts are not counted after a cookie challenge.
BackoffUncounted(c) ==
  /\ call[c].pc = "wait"
  /\ call' = [call EXCEPT ![c] = [@ EXCEPT
       !.pc = "start", !.n = IF call[c].chal THEN @ ELSE @ + 1, !.host = call[c].from,
       !.hops = 0, !.auth = call[c].req.auth, !.hdr = call[c].base, !.expired = FALSE]]
  /\ UNCHANGED <<proxies, quic, building, changes, auth, nonce, jar, h2f, h3f>>

\* The wait is over: a copy of the request, whose header map is the caller's.
\* After a cookie challenge HTTP/3 is forced.
Backoff(c) ==
  LET rec == call[c] IN
  /\ rec.pc = "wait"
  /\ call' = [call EXCEPT ![c] = [rec EXCEPT
       !.pc = "start", !.n = @ + 1, !.host = rec.from, !.hops = 0,
       !.auth = rec.req.auth, !.hdr = rec.base, !.expired = FALSE,
       !.force = IF rec.chal /\ rec.req.force = "auto" /\ quic \in {"direct", "masque"}
                 THEN "h3" ELSE rec.req.force]]
  /\ UNCHANGED <<proxies, quic, building, changes, auth, nonce, jar, h2f, h3f>>

\* The caller's context ends during the wait.
BackoffCancelled(c) ==
  /\ call[c].pc = "wait"
  /\ call' = [call EXCEPT ![c] = Ended([@ EXCEPT !.kept = FALSE], "error")]
  /\ UNCHANGED <<proxies, quic, building, changes, auth, nonce, jar, h2f, h3f>>

-----------------------------------------------------------------------------
(* doOnce and DoStream: the request and the protocols to try.              *)

\* The request's credentials, or the client's.
Owner(rec) == IF rec.auth # "none" THEN "req" ELSE "client"
KindOf(rec) == IF rec.auth # "none" THEN rec.auth ELSE auth

\* Auth.Apply: a DigestAuth needs a nonce.
Applies(rec) == KindOf(rec) = "basic" \/ (KindOf(rec) = "digest" /\ Owner(rec) \in nonce)

\* Mutant: without the test for a transport.
ShouldTryHTTP3Always(h) == h \notin h3f

\* shouldTryHTTP3.
ShouldTryHTTP3(h) == quic # "none" /\ h \notin h3f

\* The switch of doOnce: a protocol that is asked for, and the default branch,
\* in which HTTP/3 comes first only with a proxy that can carry it.
Forced(p) ==
  IF p = "h3" /\ ((proxies.all # "none" /\ ~SupportsQUIC(proxies.all)) \/ quic = "none")
  THEN <<>> ELSE <<p>>

DefaultWay(rec, h3) ==
  CASE SupportsQUIC(proxies.all) /\ h3 -> <<"h3", "h2", "h1">>
    [] ~SupportsQUIC(proxies.all) /\ rec.host \in h2f -> <<"h1">>
    [] OTHER -> IF h3 THEN <<"h2", "h3", "h1">> ELSE <<"h2", "h1">>

\* The switch of DoStream, which forces HTTP/3 only without any proxy.
StreamWay(p, h3) ==
  CASE p = "auto" -> IF h3 THEN <<"h3", "h2">> ELSE <<"h2">>
    [] p = "h3" -> IF proxies.all = "none" /\ quic = "direct" THEN <<p>> ELSE <<>>
    [] OTHER -> <<p>>

\* DoStream goes on to HTTP/1.1 only if HTTP/2 is marked already.
StreamToHTTP1(rec) ==
  /\ rec.req.stream /\ rec.force = "auto"
  /\ Len(rec.todo) = 1 /\ Head(rec.todo) # "h1" /\ rec.host \in h2f

Or(x, y) == IF x # None THEN x ELSE y

\* The headers: what the request carries, credentials, cookies.  doOnce writes
\* them back into req.Headers where they are missing; DoStream does not.
Prepare(c) ==
  LET rec == call[c]
      h3  == ShouldTryHTTP3(rec.host)
      snt == [auth   |-> IF Applies(rec) THEN Owner(rec) ELSE rec.hdr.auth,
              cookie |-> IF rec.host \in jar THEN rec.host ELSE rec.hdr.cookie]
      hdr == [auth |-> Or(rec.hdr.auth, snt.auth), cookie |-> Or(rec.hdr.cookie, snt.cookie)]
      way == IF rec.req.stream THEN StreamWay(rec.force, h3)
             ELSE IF rec.force = "auto" THEN DefaultWay(rec, h3) ELSE Forced(rec.force)
      new == [rec EXCEPT !.sent = snt, !.hdr = hdr, !.h3 = h3, !.todo = way, !.tried = <<>>,
                         !.base = IF rec.req.own /\ rec.hops = 0 /\ ~rec.req.stream
                                  THEN hdr ELSE @]
  IN
  /\ rec.pc = "start"
  /\ call' = [call EXCEPT ![c] = IF way = <<>> THEN AttemptFailed(new)
                                 ELSE [new EXCEPT !.pc = "try"]]
  /\ UNCHANGED <<proxies, quic, building, changes, auth, nonce, jar, h2f, h3f>>

\* A pre-request hook or the request itself is refused.
PrepareFails(c) ==
  /\ call[c].pc = "start"
  /\ call' = [call EXCEPT ![c] = AttemptFailed(@)]
  /\ UNCHANGED <<proxies, quic, building, changes, auth, nonce, jar, h2f, h3f>>

\* The timeout of the outermost doOnce of an attempt.
Expire(c) ==
  /\ call[c].pc \in {"start", "try"} /\ ~call[c].expired
  /\ call' = [call EXCEPT ![c].expired = TRUE]
  /\ UNCHANGED <<proxies, quic, building, changes, auth, nonce, jar, h2f, h3f>>

Trying(c, p) == call[c].pc = "try" /\ Head(call[c].todo) = p

\* doHTTP3 finds neither of the transports and calls the nil quicManager.
NilManager(c) ==
  /\ Trying(c, "h3") /\ quic = "none"
  /\ call' = [call EXCEPT ![c] = Ended(@, "panic")]
  /\ UNCHANGED <<proxies, quic, building, changes, auth, nonce, jar, h2f, h3f>>

\* doHTTP1, doHTTP2 or doHTTP3 fails.  markH3Failed and markH2Failed as the
\* branches of the switch have it.
AttemptFails(c) ==
  LET rec == call[c]
      p   == Head(rec.todo)
      aut == rec.force = "auto"
      new == [rec EXCEPT !.todo = IF StreamToHTTP1(rec) THEN <<"h1">> ELSE Tail(@), !.tried = Append(@, p)]
  IN
  /\ rec.pc = "try"
  /\ p = "h3" => quic # "none"
  /\ h3f' = IF aut /\ p = "h3" THEN h3f \cup {rec.host} ELSE h3f
  /\ h2f' = IF aut /\ p = "h2" /\ rec.tried = <<>> /\ rec.todo = <<"h2", "h1">>
            THEN h2f \cup {rec.host} ELSE h2f
  /\ call' = [call EXCEPT ![c] = IF new.todo = <<>> THEN AttemptFailed(new) ELSE new]
  /\ UNCHANGED <<proxies, quic, building, changes, auth, nonce, jar>>

-----------------------------------------------------------------------------
(* doOnce and DoStream: the response.                                      *)

Responds(c) ==
  /\ call[c].pc = "try" /\ ~call[c].expired
  /\ Head(call[c].todo) = "h3" => quic # "none"

\* SetCookiesFromHeaderList.  (A cookie that expires at once deletes one, which
\* ClearCookies stands for.)
Store(h, sc) == jar' = IF sc THEN jar \cup {h} ELSE jar

\* The certificate matches no pin, or the body cannot be read, after the cookies
\* were stored.
ResponseUnusable(c, sc) ==
  /\ Responds(c) /\ ~call[c].req.stream
  /\ Store(call[c].host, sc)
  /\ call' = [call EXCEPT ![c] = AttemptFailed(@)]
  /\ UNCHANGED <<proxies, quic, building, changes, auth, nonce, h2f, h3f>>

Respond(c, status, sc) ==
  /\ Responds(c)
  /\ Store(call[c].host, sc)
  /\ call' = [call EXCEPT ![c] = Judged(@, status, sc)]
  /\ UNCHANGED <<proxies, quic, building, changes, auth, nonce, h2f, h3f>>

\* Mutant: all headers go to the new origin.
CarryAll(rec, h) == [hdr |-> rec.hdr, auth |-> rec.auth]

\* carriedHeaders and carriedAuth: across origins without Authorization and
\* without the request's credentials, but with Cookie.
Carry(rec, h) ==
  IF h = rec.host THEN [hdr |-> rec.hdr, auth |-> rec.auth]
  ELSE [hdr |-> [rec.hdr EXCEPT !.auth = None], auth |-> "none"]

\* Mutant: one redirect too many.
TooManyLate(rec) == rec.hops > MaxRedirects

\* len(redirectHistory) >= maxRedirects.
TooMany(rec) == rec.hops >= MaxRedirects

\* A redirect to h; None stands for a missing Location, for a URL that is not
\* https, and for redirects that are not followed to their end.
Redirect(c, h, sc) ==
  LET rec == call[c] IN
  /\ Responds(c) /\ ~rec.req.stream
  /\ Store(rec.host, sc)
  /\ call' = [call EXCEPT ![c] =
       IF TooMany(rec) \/ h = None THEN AttemptFailed(rec)
       ELSE [Again(rec, "start") EXCEPT !.host = h, !.hops = @ + 1,
              !.hdr = Carry(rec, h).hdr, !.auth = Carry(rec, h).auth]]
  /\ UNCHANGED <<proxies, quic, building, changes, auth, nonce, h2f, h3f>>

\* 401 with a digest challenge: again, however often the server asks.
Challenge(c) ==
  /\ Responds(c) /\ ~call[c].req.stream /\ KindOf(call[c]) = "digest"
  /\ nonce' = nonce \cup {Owner(call[c])}
  /\ call' = [call EXCEPT ![c] = Again(@, "start")]
  /\ UNCHANGED <<proxies, quic, building, changes, auth, jar, h2f, h3f>>

-----------------------------------------------------------------------------

CallStep(c) ==
  \/ Backoff(c) \/ BackoffCancelled(c) \/ Prepare(c) \/ PrepareFails(c)
  \/ NilManager(c) \/ AttemptFails(c)

ClientNext ==
  \/ \E k \in Settable : SetTCPProxy(k) \/ SetUDPProxyClose(k)
  \/ SetUDPProxyBuild
  \/ ClearCookies
  \/ \E h \in Hosts : Elapse(h)
  \/ \E c \in Calls :
       \/ \E r \in Asked, h \in Hosts : Do(c, r, h)
       \/ CallStep(c) \/ Expire(c)
       \/ Challenge(c)
       \/ \E sc \in BOOLEAN :
            \/ ResponseUnusable(c, sc)
            \/ \E status \in {200, 403, 429, 503} : Respond(c, status, sc)
            \/ \E h \in Hosts \cup {None} : Redirect(c, h, sc)

\* Time passes, and a goroutine that can go on does.
ClientSpec ==
  /\ ClientInit /\ [][ClientNext]_clientVars
  /\ \A c \in Calls : WF_clientVars(CallStep(c)) /\ WF_clientVars(Expire(c))

-----------------------------------------------------------------------------

\* The credentials of a request (Request.Auth) are sent to no other origin than
\* the one it was made for, through redirects, challenges and retries.  Those of
\* an earlier call only go out when the caller passes its map again, and then to
\* no other origin than the one the caller names.
ReqAuthConfined ==
  \A c \in Calls : call[c].pc = "try" =>
    /\ call[c].sent.auth \in {"req", "old"} => call[c].host = call[c].from
    /\ call[c].sent.auth = "old" => call[c].req.again

\* Before a redirect a host is sent its own cookie or none, in every attempt:
\* what an earlier attempt carried elsewhere does not come back.  Only a map that
\* the caller passes again brings the cookie it held to the host it is used for.
CookieConfined ==
  \A c \in Calls : call[c].hops = 0 /\ call[c].pc = "try" =>
    \/ call[c].sent.cookie \in {None, call[c].host}
    \/ call[c].req.again /\ call[c].sent.cookie = call[c].given.cookie

\* A response with a status to retry on is not lost when the attempts after it
\* fail: Do returns it.
KeptReturned == \A c \in Calls : call[c].res = "error" => ~call[c].kept

\* doHTTP3 meets no nil transport unless a setter ran during the call.
NoNilManager == \A c \in Calls : call[c].res = "panic" => ~call[c].calm

\* With a UDP proxy HTTP/3 goes through it or not at all.
UdpProxyRespected == proxies.udp # "none" => quic \in {"none", proxies.udp}

\* Do and DoStream return, though a server may go on with digest challenges and
\* redirects: the timeout of an attempt covers all of them.
DoReturns == \A c \in Calls : (call[c].pc = "start") ~> (call[c].pc = "done")

\* A client whose proxies change while it is in use neither meets a transport
\* that is not there nor goes past its UDP proxy.
ClientInv == ClientTypeOK /\ NoNilManager /\ UdpProxyRespected

\* Credentials and cookies keep to their host, through redirects, challenges and
\* the retries after them, but for what is in a map the caller passes again.
CredentialsConfined == ReqAuthConfined /\ CookieConfined
=============================================================================
