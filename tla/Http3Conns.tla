---------------------------- MODULE Http3Conns ----------------------------
(***************************************************************************)
(* HTTP3Transport (src/transport/http3_transport.go): the quic-go          *)
(* http3.Transport that requests share and that Refresh and a rejected     *)
(* 0-RTT handshake replace, the dials below it, and the UDP associations   *)
(* of a SOCKS5 proxy that every dial opens.                                *)
(*                                                                         *)
(* t.mu is held by Refresh while it closes what it replaces; every other   *)
(* section under t.mu is one action that waits for it.  http3.Transport    *)
(* and quic.Transport are external: a request on a closed one fails, and   *)
(* closing one may wait for a dial that is under way.                      *)
(***************************************************************************)
EXTENDS Integers, FiniteSets

CONSTANTS
  Trips,       \* calls of RoundTrip
  Transports,  \* identities of http3.Transport objects
  NoTransport,
  Attempts3    \* how often RoundTrip tries a request (3 in the code)

ASSUME Http3Assumption ==
  /\ NoTransport \notin Transports
  /\ IsFiniteSet(Trips) /\ IsFiniteSet(Transports)
  /\ Cardinality(Transports) >= Cardinality(Trips) + 2
  /\ Attempts3 \in Nat \ {0}

Takers == {"refresh", "close"}

VARIABLES
  tunnelled, \* TRUE: SOCKS5 (udpbaraTunnel); FALSE: direct (quicTransport)
  tr,        \* transport -> "open" or "closed"
  current,   \* t.transport
  muHolder,  \* who holds t.mu across steps: "none" or "refresh"
  trip,      \* call -> locals of RoundTrip and of the dial it makes
  assoc,     \* call -> its proxyQUICConn: "none", "open" or "closed"
  listed,    \* t.proxyConns
  watch,     \* call -> the goroutine that waits for the end of its connection
  taken,     \* what Refresh and Close took off the list and have not closed
  socket,    \* the quic.Transport or the tunnel: "open" or "closed"
  refresh,   \* where Refresh is
  closing    \* where Close is

http3Vars ==
  <<tunnelled, tr, current, muHolder, trip, assoc, listed, watch, taken, socket, refresh, closing>>

NoTrip == [pc |-> "idle", t |-> NoTransport, n |-> 0]

Http3TypeOK ==
  /\ tunnelled \in BOOLEAN
  /\ tr \in [Transports -> {"open", "closed"}]
  /\ current \in Transports
  /\ muHolder \in {"none", "refresh"}
  /\ trip \in [Trips ->
       [pc: {"idle", "sent", "dial", "list", "handshake", "recreate", "again", "done"},
        t: Transports \cup {NoTransport}, n: 0 .. Attempts3 - 1]]
  /\ assoc \in [Trips -> {"none", "open", "closed"}]
  /\ listed \subseteq Trips
  /\ watch \in [Trips -> BOOLEAN]
  /\ taken \in [Takers -> SUBSET Trips]
  /\ socket \in {"open", "closed"}
  /\ refresh \in {"idle", "close", "socket", "assocs", "install"}
  /\ closing \in {"no", "transport", "socket", "assocs", "done"}

Http3Init ==
  /\ tunnelled \in BOOLEAN
  /\ current = CHOOSE t \in Transports : TRUE
  /\ tr = [t \in Transports |-> IF t = current THEN "open" ELSE "closed"]
  /\ muHolder = "none"
  /\ trip = [c \in Trips |-> NoTrip]
  /\ assoc = [c \in Trips |-> "none"]
  /\ listed = {}
  /\ watch = [c \in Trips |-> FALSE]
  /\ taken = [w \in Takers |-> {}]
  /\ socket = "open"
  /\ refresh = "idle"
  /\ closing = "no"

Unlocked == muHolder = "none"

Goto(c, pc) == trip' = [trip EXCEPT ![c].pc = pc]

\* From here on the call does not touch its http3.Transport any more.
Leave(c, pc) == trip' = [trip EXCEPT ![c] = [NoTrip EXCEPT !.pc = pc]]

\* buildHTTP3Transport, put in place of t.transport.  What is replaced is not
\* closed here.  An identity nobody refers to is used again.
Referenced(t) == t = current \/ \E c \in Trips : trip[c].t = t

Build ==
  LET t == CHOOSE u \in Transports : ~Referenced(u) IN
  /\ current' = t
  /\ tr' = [tr EXCEPT ![t] = "open"]

CloseTr(t) == tr' = [tr EXCEPT ![t] = "closed"]

-----------------------------------------------------------------------------
(* RoundTrip.                                                              *)

Capture(c) ==
  /\ trip[c].pc = "idle" /\ Unlocked
  /\ trip' = [trip EXCEPT ![c] = [pc |-> "sent", t |-> current, n |-> 0]]
  /\ UNCHANGED <<tr, current, muHolder, assoc, listed, watch, taken, socket, refresh, closing>>

\* The exchange over a connection that exists, or over a closed transport.
Exchange(c) ==
  /\ trip[c].pc = "sent"
  /\ Leave(c, "done")
  /\ UNCHANGED <<tr, current, muHolder, assoc, listed, watch, taken, socket, refresh, closing>>

\* The http3.Transport calls the dial function: dialQUIC or dialQUICWithProxy.
Dial(c) ==
  /\ trip[c].pc = "sent" /\ tr[trip[c].t] = "open" /\ assoc[c] = "none"
  /\ Goto(c, "dial")
  /\ UNCHANGED <<tr, current, muHolder, assoc, listed, watch, taken, socket, refresh, closing>>

\* A direct dial runs over t.quicTransport, to the IPv6 addresses and then to
\* the IPv4 addresses, one after the other.  First dialCount++ under t.mu.
DialDirect(c) ==
  /\ trip[c].pc = "dial" /\ Unlocked /\ ~tunnelled
  /\ Leave(c, "done")
  /\ UNCHANGED <<tr, current, muHolder, assoc, listed, watch, taken, socket, refresh, closing>>

\* udpbaraTunnel.DialContext.
TunnelDial(c) ==
  /\ trip[c].pc = "dial" /\ Unlocked /\ tunnelled
  /\ \/ /\ Leave(c, "done") /\ UNCHANGED assoc
     \/ /\ socket = "open"
        /\ Leave(c, "list")
        /\ assoc' = [assoc EXCEPT ![c] = "open"]
  /\ UNCHANGED <<tr, current, muHolder, listed, watch, taken, socket, refresh, closing>>

\* Mutant: the list is written by the goroutine only, once the connection is up.
ListLate(c) ==
  /\ trip[c].pc = "list"
  /\ Goto(c, "handshake")
  /\ UNCHANGED <<tr, current, muHolder, assoc, listed, watch, taken, socket, refresh, closing>>

\* The association is put on t.proxyConns before the QUIC handshake.
List(c) ==
  /\ trip[c].pc = "list"
  /\ Goto(c, "handshake")
  /\ listed' = listed \cup {c}
  /\ UNCHANGED <<tr, current, muHolder, assoc, watch, taken, socket, refresh, closing>>

\* DialEarly: the connection comes up and a goroutine waits for its end ...
HandshakeDone(c) ==
  /\ trip[c].pc = "handshake" /\ assoc[c] = "open"
  /\ Leave(c, "done")
  /\ watch' = [watch EXCEPT ![c] = TRUE]
  /\ UNCHANGED <<tr, current, muHolder, assoc, listed, taken, socket, refresh, closing>>

\* ... or it fails: the association is closed and unlisted.  (Between the two
\* someone else may close it again, which closeOnce makes harmless.)
HandshakeFailed(c) ==
  /\ trip[c].pc = "handshake"
  /\ assoc' = [assoc EXCEPT ![c] = "closed"]
  /\ listed' = listed \ {c}
  /\ Leave(c, "done")
  /\ UNCHANGED <<tr, current, muHolder, watch, taken, socket, refresh, closing>>

\* The connection ends (conn.Context): the goroutine does the same.
WatchEnd(c) ==
  /\ watch[c]
  /\ watch' = [watch EXCEPT ![c] = FALSE]
  /\ assoc' = [assoc EXCEPT ![c] = "closed"]
  /\ listed' = listed \ {c}
  /\ UNCHANGED <<tr, current, muHolder, trip, taken, socket, refresh, closing>>

\* "0-RTT rejected": RoundTrip closes the transport it used ...
Reject(c) ==
  /\ trip[c].pc = "sent" /\ tr[trip[c].t] = "open"
  /\ CloseTr(trip[c].t)
  /\ Goto(c, "recreate")
  /\ UNCHANGED <<current, muHolder, assoc, listed, watch, taken, socket, refresh, closing>>

\* Mutant: recreateTransport is forgotten.
RecreateNot(c) ==
  /\ trip[c].pc = "recreate" /\ Unlocked
  /\ Goto(c, "again")
  /\ UNCHANGED <<tr, current, muHolder, assoc, listed, watch, taken, socket, refresh, closing>>

\* ... puts a new one in its place (recreateTransport) ...
Recreate(c) ==
  /\ trip[c].pc = "recreate" /\ Unlocked
  /\ Build
  /\ trip' = [trip EXCEPT ![c].pc = "again", ![c].t = NoTransport]
  /\ UNCHANGED <<muHolder, assoc, listed, watch, taken, socket, refresh, closing>>

\* Mutant: one attempt too many.
AgainOnceMore(c) ==
  /\ trip[c].pc = "again" /\ Unlocked
  /\ LET n == trip[c].n + 1 IN
       IF n <= Attempts3
       THEN trip' = [trip EXCEPT ![c] = [pc |-> "sent", t |-> current, n |-> n]]
       ELSE Leave(c, "done")
  /\ UNCHANGED <<tr, current, muHolder, assoc, listed, watch, taken, socket, refresh, closing>>

\* ... and tries again with whatever is current by then, three times at most.
Again(c) ==
  /\ trip[c].pc = "again" /\ Unlocked
  /\ LET n == trip[c].n + 1 IN
       IF n < Attempts3
       THEN trip' = [trip EXCEPT ![c] = [pc |-> "sent", t |-> current, n |-> n]]
       ELSE Leave(c, "done")
  /\ UNCHANGED <<tr, current, muHolder, assoc, listed, watch, taken, socket, refresh, closing>>

\* The caller takes the answer, the connection it made has ended: the slot
\* stands for the next call.
TripEnd(c) ==
  /\ trip[c].pc = "done" /\ ~watch[c]
  /\ c \notin listed /\ \A w \in Takers : c \notin taken[w]
  /\ trip' = [trip EXCEPT ![c] = NoTrip]
  /\ assoc' = [assoc EXCEPT ![c] = "none"]
  /\ UNCHANGED <<tr, current, muHolder, listed, watch, taken, socket, refresh, closing>>

-----------------------------------------------------------------------------
(* Refresh and Close.                                                      *)

RefreshLock ==
  /\ refresh = "idle" /\ Unlocked
  /\ muHolder' = "refresh"
  /\ refresh' = "close"
  /\ UNCHANGED <<tr, current, trip, assoc, listed, watch, taken, socket, closing>>

Dialling(t) == \E c \in Trips : trip[c].t = t /\ trip[c].pc = "dial"

\* Mutant: Close is waited for however long it takes.
RefreshCloseForever ==
  /\ refresh = "close" /\ ~Dialling(current)
  /\ CloseTr(current)
  /\ refresh' = IF tunnelled THEN "assocs" ELSE "socket"
  /\ UNCHANGED <<current, muHolder, trip, assoc, listed, watch, taken, socket, closing>>

\* closeWithTimeout: a Close that waits for a dial, which itself waits for
\* t.mu, is given up after three seconds (it goes on by itself).
RefreshClose ==
  /\ refresh = "close"
  /\ CloseTr(current)
  /\ refresh' = IF tunnelled THEN "assocs" ELSE "socket"
  /\ UNCHANGED <<current, muHolder, trip, assoc, listed, watch, taken, socket, closing>>

\* The UDP socket is replaced; without a new one Refresh gives up and leaves a
\* closed transport behind.
RefreshSocket ==
  /\ refresh = "socket"
  /\ \/ refresh' = "install" /\ socket' = "open" /\ UNCHANGED muHolder
     \/ refresh' = "idle" /\ socket' = "closed" /\ muHolder' = "none"
  /\ UNCHANGED <<tr, current, trip, assoc, listed, watch, taken, closing>>

\* closeAllProxyConns takes the list ...
TakeAll(w) ==
  /\ taken' = [taken EXCEPT ![w] = listed]
  /\ listed' = {}

\* ... and closes what it took; closeOnce makes a second close harmless.
CloseTaken(w) ==
  /\ taken[w] # {}
  /\ assoc' = [c \in Trips |-> IF c \in taken[w] THEN "closed" ELSE assoc[c]]
  /\ taken' = [taken EXCEPT ![w] = {}]
  /\ UNCHANGED <<tr, current, muHolder, trip, listed, watch, socket, refresh, closing>>

RefreshTake ==
  /\ refresh = "assocs"
  /\ TakeAll("refresh")
  /\ refresh' = "install"
  /\ UNCHANGED <<tr, current, muHolder, trip, assoc, watch, socket, closing>>

RefreshInstall ==
  /\ refresh = "install" /\ taken["refresh"] = {}
  /\ Build
  /\ refresh' = "idle"
  /\ muHolder' = "none"
  /\ UNCHANGED <<trip, assoc, listed, watch, taken, socket, closing>>

\* Close: the current transport, then the socket, or the associations and the
\* tunnel.
CloseStart ==
  /\ closing = "no" /\ Unlocked
  /\ CloseTr(current)
  /\ closing' = IF tunnelled THEN "assocs" ELSE "socket"
  /\ UNCHANGED <<current, muHolder, trip, assoc, listed, watch, taken, socket, refresh>>

CloseTake ==
  /\ closing = "assocs"
  /\ TakeAll("close")
  /\ closing' = "socket"
  /\ UNCHANGED <<tr, current, muHolder, trip, assoc, watch, socket, refresh>>

CloseSocket ==
  /\ closing = "socket" /\ taken["close"] = {}
  /\ socket' = "closed"
  /\ closing' = "done"
  /\ UNCHANGED <<tr, current, muHolder, trip, assoc, listed, watch, taken, refresh>>

-----------------------------------------------------------------------------

\* What a call does by itself.
TripStep(c) ==
  \/ Exchange(c) \/ DialDirect(c) \/ TunnelDial(c) \/ List(c)
  \/ HandshakeDone(c) \/ HandshakeFailed(c)
  \/ Recreate(c) \/ Again(c)

RefreshStep == RefreshClose \/ RefreshSocket \/ RefreshTake \/ RefreshInstall \/ CloseTaken("refresh")
CloseStep == CloseTake \/ CloseSocket \/ CloseTaken("close")

Http3Next ==
  \/ \E c \in Trips : Capture(c) \/ Dial(c) \/ Reject(c) \/ TripStep(c) \/ TripEnd(c)
                        \/ WatchEnd(c)
  \/ RefreshLock \/ RefreshStep
  \/ CloseStart \/ CloseStep

Http3Spec == Http3Init /\ [][Http3Next /\ UNCHANGED tunnelled]_http3Vars

-----------------------------------------------------------------------------

\* A UDP association that is open has someone who will close it, its dial or
\* the goroutine that watches the connection, and from before the handshake on
\* Refresh and Close find it as well.
AssocOwned ==
  \A c \in Trips :
    assoc[c] = "open" =>
      /\ trip[c].pc \in {"list", "handshake"} \/ watch[c]
      /\ trip[c].pc = "list" \/ c \in listed \/ \E w \in Takers : c \in taken[w]

\* New requests find a closed transport only after Close or a Refresh that got
\* no socket, or while someone who closed it is about to replace it.
CurrentUsable ==
  tr[current] = "closed" =>
    \/ closing # "no" \/ socket = "closed"
    \/ muHolder = "refresh"
    \/ \E c \in Trips : trip[c].pc = "recreate" /\ trip[c].t = current

\* Refresh, which keeps t.mu, never waits for a dial that itself waits for t.mu:
\* closeWithTimeout lets it go on.
RefreshGoesOn == muHolder = "refresh" => ENABLED (RefreshStep /\ UNCHANGED tunnelled)

\* The three together: no association without an owner, no request on a dead
\* transport, no Refresh that waits for ever.
Http3Sound == AssocOwned /\ CurrentUsable /\ RefreshGoesOn
=============================================================================
