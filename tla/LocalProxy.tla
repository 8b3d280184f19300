----------------------------- MODULE LocalProxy -----------------------------
(***************************************************************************)
(* LocalProxy (src/local_proxy.go): the accept loop and its limit, one     *)
(* handler per client connection (CONNECT tunnels, https requests sent     *)
(* through a session, plain http requests sent by an http.Client), the     *)
(* registry of sessions, and Stop, which waits ten seconds at most for the *)
(* handlers before it closes the default session under them.               *)
(*                                                                         *)
(* Dials, requests and tunnels are external: they end well or badly, and a *)
(* tunnel may stay open for as long as its two ends want.                  *)
(***************************************************************************)
EXTENDS Naturals, FiniteSets

CONSTANTS
  Clients,         \* client connections
  MaxConnections,  \* p.maxConnections
  SessionIds,      \* values of X-HTTPCloak-Session
  NoId

ASSUME LocalProxyAssumption ==
  /\ IsFiniteSet(Clients)
  /\ MaxConnections \in Nat \ {0}
  /\ NoId \notin SessionIds

VARIABLES
  tcpProxy,      \* config: an upstream proxy for TCP is set
  accepting,     \* acceptLoop runs
  listener,      \* "open" or "closed"
  shuttingDown,  \* p.shuttingDown; p.ctx is cancelled with it
  running,       \* p.running
  activeConns,   \* p.activeConns
  client,        \* connection -> [pc, req, via, by]: its handler
  registry,      \* ids under which a session is registered
  sessionOpen,   \* the default session is not closed
  stop,          \* where Stop is
  hurried        \* Stop's ten seconds ran out

proxyVars ==
  <<tcpProxy, accepting, listener, shuttingDown, running, activeConns, client, registry,
    sessionOpen, stop, hurried>>

\* A request as the handler sees it: CONNECT, an https URL (or an http URL that
\* X-HTTPCloak-Scheme turns into one), or an http URL; whether its port is
\* blocked; the upstream proxy and the session its headers name.
ProxyRequests ==
  [kind: {"connect", "https", "http"}, blocked: BOOLEAN, override: BOOLEAN,
   session: SessionIds \cup {NoId}]

NoRequest == [kind |-> "http", blocked |-> FALSE, override |-> FALSE, session |-> NoId]

NewClient == [pc |-> "out", req |-> NoRequest, via |-> "none", by |-> NoId]

Handling == {"read", "route", "serve"}

ProxyTypeOK ==
  /\ tcpProxy \in BOOLEAN /\ accepting \in BOOLEAN /\ shuttingDown \in BOOLEAN
  /\ running \in BOOLEAN /\ sessionOpen \in BOOLEAN /\ hurried \in BOOLEAN
  /\ listener \in {"open", "closed"}
  /\ activeConns \in 0 .. MaxConnections
  /\ client \in [Clients ->
       [pc: {"out", "backlog", "accepted", "closed"} \cup Handling, req: ProxyRequests,
        via: {"none", "direct", "upstream", "override"},
        by: SessionIds \cup {NoId, "client", "default"}]]
  /\ registry \subseteq SessionIds
  /\ stop \in {"no", "wait", "close", "done"}

\* StartLocalProxy and start
ProxyInit ==
  /\ tcpProxy \in BOOLEAN
  /\ accepting = TRUE /\ listener = "open" /\ shuttingDown = FALSE /\ running = TRUE
  /\ activeConns = 0
  /\ client = [c \in Clients |-> NewClient]
  /\ registry = {} /\ sessionOpen = TRUE
  /\ stop = "no" /\ hurried = FALSE

ClientDials(c) ==
  /\ listener = "open" /\ client[c].pc = "out"
  /\ client' = [client EXCEPT ![c].pc = "backlog"]
  /\ UNCHANGED <<tcpProxy, accepting, listener, shuttingDown, running, activeConns, registry,
                 sessionOpen, stop, hurried>>

\* Mutant: the limit is tested with > instead of >=.
RoomLoose == activeConns <= MaxConnections

Room == activeConns < MaxConnections

Unadmitted == {c \in Clients : client[c].pc = "accepted"}

\* acceptLoop: Accept returns a connection ...
Accept(c) ==
  /\ accepting /\ listener = "open" /\ client[c].pc = "backlog" /\ Unadmitted = {}
  /\ client' = [client EXCEPT ![c].pc = "accepted"]
  /\ UNCHANGED <<tcpProxy, accepting, listener, shuttingDown, running, activeConns, registry,
                 sessionOpen, stop, hurried>>

\* ... which is closed at once over the limit, and handed to a goroutine that
\* p.wg counts otherwise, whatever Stop has done since.
Admit(c) ==
  /\ client[c].pc = "accepted"
  /\ client' = [client EXCEPT ![c].pc = IF Room THEN "read" ELSE "closed"]
  /\ activeConns' = IF Room THEN activeConns + 1 ELSE activeConns
  /\ UNCHANGED <<tcpProxy, accepting, listener, shuttingDown, running, registry, sessionOpen, stop,
                 hurried>>

\* Accept fails: the loop ends when Stop has announced itself, and tries again
\* otherwise.
AcceptFails ==
  /\ accepting /\ listener = "closed" /\ shuttingDown /\ Unadmitted = {}
  /\ accepting' = FALSE
  /\ UNCHANGED <<tcpProxy, listener, shuttingDown, running, activeConns, client, registry,
                 sessionOpen, stop, hurried>>

\* The deferred calls of the handler's goroutine
Ends(c) ==
  /\ client' = [client EXCEPT ![c] = [NewClient EXCEPT !.pc = "closed"]]
  /\ activeConns' = activeConns - 1

\* handleConnection reads a request, or fails to within 30 s.
ReadRequest(c, req) ==
  /\ client[c].pc = "read"
  /\ \/ client' = [client EXCEPT ![c].pc = "route", ![c].req = req] /\ UNCHANGED activeConns
     \/ Ends(c)
  /\ UNCHANGED <<tcpProxy, accepting, listener, shuttingDown, running, registry, sessionOpen, stop,
                 hurried>>

Serve(c, via, by) ==
  /\ client' = [client EXCEPT ![c].pc = "serve", ![c].via = via, ![c].by = by]
  /\ UNCHANGED activeConns

\* dialTarget: the headers' upstream proxy wins over the configured one.
DialTarget(req) ==
  IF req.override THEN "override" ELSE IF tcpProxy THEN "upstream" ELSE "direct"

\* handleCONNECT: blocked ports are refused, the rest is dialled and tunnelled.
HandleCONNECT(c) ==
  LET req == client[c].req IN
  /\ req.kind = "connect"
  /\ IF req.blocked THEN Ends(c) ELSE Serve(c, DialTarget(req), "client")

\* Mutant: an unknown session identifier falls back to the default session.
SessionForLenient(req) == IF req.session \in registry THEN req.session ELSE "default"

\* The session a request is sent through, NoId if it names one that is not
\* registered.
SessionFor(req) ==
  IF req.session = NoId THEN "default"
  ELSE IF req.session \in registry THEN req.session ELSE NoId

\* handleHTTPWithSession: the session's own proxy settings apply, the headers'
\* upstream proxy does not.
HandleHTTPWithSession(c) ==
  LET req == client[c].req IN
  /\ req.kind = "https"
  /\ IF SessionFor(req) = NoId THEN Ends(c)
     ELSE Serve(c, IF tcpProxy THEN "upstream" ELSE "direct", SessionFor(req))

\* handleHTTPDirect: a client with the override as its proxy, or p.httpClient,
\* which has none.
HandleHTTPDirect(c) ==
  LET req == client[c].req IN
  /\ req.kind = "http"
  /\ Serve(c, IF req.override THEN "override" ELSE "direct", "client")

\* handleConnection and handleHTTP
Route(c) ==
  /\ client[c].pc = "route"
  /\ HandleCONNECT(c) \/ HandleHTTPWithSession(c) \/ HandleHTTPDirect(c)
  /\ UNCHANGED <<tcpProxy, accepting, listener, shuttingDown, running, registry, sessionOpen, stop,
                 hurried>>

Finish(c, kind) ==
  /\ client[c].pc = "serve" /\ client[c].req.kind = kind
  /\ Ends(c)
  /\ UNCHANGED <<tcpProxy, accepting, listener, shuttingDown, running, registry, sessionOpen, stop,
                 hurried>>

\* The dial fails, or the two ends of the tunnel are done, however late.
TunnelEnds(c) == Finish(c, "connect")

\* The session answers, also with an error because it is closed.
SessionAnswers(c) == Finish(c, "https")

\* The http.Client answers.
ClientAnswers(c) == Finish(c, "http")

RegisterSession(i) ==
  /\ i \notin registry
  /\ registry' = registry \cup {i}
  /\ UNCHANGED <<tcpProxy, accepting, listener, shuttingDown, running, activeConns, client,
                 sessionOpen, stop, hurried>>

UnregisterSession(i) ==
  /\ i \in registry
  /\ registry' = registry \ {i}
  /\ UNCHANGED <<tcpProxy, accepting, listener, shuttingDown, running, activeConns, client,
                 sessionOpen, stop, hurried>>

\* Stop: the flag, the context, then the listener; connections in the backlog
\* are reset with it.
StopBegins ==
  /\ running /\ stop = "no"
  /\ shuttingDown' = TRUE /\ listener' = "closed"
  /\ client' = [c \in Clients |->
       IF client[c].pc = "backlog" THEN [client[c] EXCEPT !.pc = "closed"] ELSE client[c]]
  /\ stop' = "wait"
  /\ UNCHANGED <<tcpProxy, accepting, running, activeConns, registry, sessionOpen, hurried>>

\* Mutant: only the accept loop is in the wait group.
WaitedLoopOnly == ~accepting

\* p.wg: the accept loop and every handler
Waited == ~accepting /\ \A c \in Clients : client[c].pc \notin Handling

StopWaits ==
  /\ stop = "wait"
  /\ hurried' = ~Waited
  /\ stop' = "close"
  /\ UNCHANGED <<tcpProxy, accepting, listener, shuttingDown, running, activeConns, client, registry,
                 sessionOpen>>

StopCloses ==
  /\ stop = "close"
  /\ sessionOpen' = FALSE /\ running' = FALSE
  /\ stop' = "done"
  /\ UNCHANGED <<tcpProxy, accepting, listener, shuttingDown, activeConns, client, registry, hurried>>

ProxyNext ==
  \/ AcceptFails \/ StopBegins \/ StopWaits \/ StopCloses
  \/ \E c \in Clients :
       \/ ClientDials(c) \/ Accept(c) \/ Admit(c) \/ Route(c)
       \/ TunnelEnds(c) \/ SessionAnswers(c) \/ ClientAnswers(c)
       \/ \E req \in ProxyRequests : ReadRequest(c, req)
  \/ \E i \in SessionIds : RegisterSession(i) \/ UnregisterSession(i)

ProxySpec == ProxyInit /\ [][ProxyNext]_proxyVars

-----------------------------------------------------------------------------
\* The count the limit is tested against is the number of handlers, whichever
\* way each of them ended, and never exceeds the limit.
ActiveExact ==
  /\ activeConns = Cardinality({c \in Clients : client[c].pc \in Handling})
  /\ activeConns <= MaxConnections

\* When Stop closes the default session, no request is using it, unless the ten
\* seconds ran out: a connection accepted while Stop began is waited for too.
StopWaitsForHandlers ==
  ~sessionOpen /\ ~hurried => \A c \in Clients : client[c].pc \notin Handling

\* A request that names a session is sent through that session or refused, also
\* when the session is unregistered at that moment: never through the default
\* one, whose cookies and connections belong to others.
OwnSession ==
  \A c \in Clients :
    client[c].pc = "serve" /\ client[c].req.kind = "https" /\ client[c].req.session # NoId
      => client[c].by = client[c].req.session

\* The proxy's promises together: the limit counts the handlers, Stop waits for
\* them, a request keeps to the session it names.
LocalProxySound == ProxyTypeOK /\ ActiveExact /\ StopWaitsForHandlers /\ OwnSession
=============================================================================
