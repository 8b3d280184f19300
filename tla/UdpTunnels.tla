----------------------------- MODULE UdpTunnels -----------------------------
(***************************************************************************)
(* The two tunnels for QUIC of package proxy: SOCKS5UDPConn                *)
(* (src/proxy/socks5_udp.go), a UDP relay kept open by a TCP control       *)
(* connection, and MASQUEConn (src/proxy/masque.go), CONNECT-UDP over a    *)
(* QUIC connection to the proxy.  A behaviour has one of the two, used by  *)
(* several goroutines: dials that establish it, a reader, a Close.         *)
(*                                                                         *)
(* Establish holds c.mu through all of its network steps and retries, so   *)
(* Close and the datagram calls wait for it.  The UDP socket under the     *)
(* MASQUE tunnel's QUIC connection is not represented: the code opens one  *)
(* per attempt and closes none.                                            *)
(***************************************************************************)
EXTENDS Naturals, Sequences

CONSTANTS
  Users,        \* goroutines calling Establish, ReadFrom and WriteTo
  MaxRetries,   \* maxRetries of SOCKS5UDPConn.Establish
  ChannelCap,   \* capacity of datagramCh
  MaxDatagrams, \* bound: datagrams the proxy sends
  NoUser        \* nobody

ASSUME TunnelAssumption ==
  /\ MaxRetries \in Nat \ {0} /\ ChannelCap \in Nat \ {0} /\ MaxDatagrams \in Nat
  /\ NoUser \notin Users

VARIABLES
  tunnel,       \* "socks5" or "masque"
  tstate,       \* [established, closed]
  holder,       \* the user inside Establish, who has c.mu, or NoUser
  step,         \* how far that user is
  attempt,      \* the number of its attempt
  control,      \* tcpConn, or quicConn with its request stream: "none", "open" or "closed"
  relay,        \* udpConn of the SOCKS tunnel
  loop,         \* tcpKeepalive or receiveDatagrams is running
  inbox,        \* datagrams under way: the socket's buffer, or datagramCh
  seq,          \* datagrams the proxy has sent
  user          \* user -> [pc, last]: its call, and the last datagram it read

tunnelVars == <<tunnel, tstate, holder, step, attempt, control, relay, loop, inbox, seq, user>>

TunnelTypeOK ==
  /\ tunnel \in {"socks5", "masque"}
  /\ tstate \in [established: BOOLEAN, closed: BOOLEAN]
  /\ holder \in Users \cup {NoUser}
  /\ step \in {"none", "dial", "handshake", "listen", "associate", "settings", "connect", "failed", "general"}
  /\ attempt \in 0 .. MaxRetries
  /\ control \in {"none", "open", "closed"} /\ relay \in {"none", "open", "closed"}
  /\ loop \in BOOLEAN
  /\ inbox \in Seq(1 .. MaxDatagrams) /\ Len(inbox) <= ChannelCap
  /\ seq \in 0 .. MaxDatagrams
  /\ user \in [Users -> [pc: {"idle", "read", "write"}, last: 0 .. MaxDatagrams]]

TunnelInit ==
  /\ tunnel \in {"socks5", "masque"}
  /\ tstate = [established |-> FALSE, closed |-> FALSE]
  /\ holder = NoUser /\ step = "none" /\ attempt = 0
  /\ control = "none" /\ relay = "none" /\ loop = FALSE
  /\ inbox = <<>> /\ seq = 0
  /\ user = [u \in Users |-> [pc |-> "idle", last |-> 0]]

MuOpen == holder = NoUser

dataVars == <<inbox, seq, user>>

-----------------------------------------------------------------------------
(* Establish *)

\* An established tunnel is taken as it is, even a closed one, and a closed one
\* is refused: neither changes anything.
Establish(u) ==
  /\ MuOpen /\ user[u].pc = "idle"
  /\ ~tstate.established /\ ~tstate.closed
  /\ holder' = u /\ step' = "dial" /\ attempt' = 1
  /\ UNCHANGED <<tunnel, tstate, control, relay, loop, dataVars>>

EstablishSocks(u) == tunnel = "socks5" /\ Establish(u)
EstablishMasque(u) == tunnel = "masque" /\ Establish(u)

Go(s) == step' = s /\ UNCHANGED <<tunnel, tstate, holder, attempt, loop, dataVars>>

LeaveTunnel == holder' = NoUser /\ step' = "none" /\ attempt' = 0

\* tryEstablish: the proxy resolves and takes the connection ...
TryDial ==
  /\ tunnel = "socks5" /\ step = "dial"
  /\ \/ Go("handshake") /\ control' = "open"
     \/ Go("failed") /\ UNCHANGED control
  /\ UNCHANGED relay

\* ... greets and authenticates ...
TryHandshake ==
  /\ tunnel = "socks5" /\ step = "handshake"
  /\ Go("listen") \/ Go("failed")
  /\ UNCHANGED <<control, relay>>

\* ... a UDP socket is opened ...
TryListen ==
  /\ tunnel = "socks5" /\ step = "listen"
  /\ \/ Go("associate") /\ relay' = "open"
     \/ Go("failed") /\ UNCHANGED relay
  /\ UNCHANGED control

\* ... and the proxy names its relay, or reports a failure, a "general" one or
\* another.
TryAssociate ==
  /\ tunnel = "socks5" /\ step = "associate"
  /\ \/ /\ tstate' = [tstate EXCEPT !.established = TRUE]
        /\ loop' = TRUE
        /\ LeaveTunnel
        /\ UNCHANGED <<tunnel, control, relay, dataVars>>
     \/ Go("failed") /\ UNCHANGED <<control, relay>>
     \/ Go("general") /\ UNCHANGED <<control, relay>>

\* Mutant: a failed attempt keeps its sockets.
DiscardNothing == UNCHANGED <<control, relay>>

\* udpConn and tcpConn are closed and set to nil.
Discard == control' = "none" /\ relay' = "none"

\* After a general failure with attempts left: again, half a second later.
RetrySocks ==
  /\ tunnel = "socks5" /\ step = "general" /\ attempt < MaxRetries
  /\ Discard
  /\ step' = "dial" /\ attempt' = attempt + 1
  /\ UNCHANGED <<tunnel, tstate, holder, loop, dataVars>>

\* Anything else, the context's end, or the last attempt.
GiveUpSocks ==
  /\ tunnel = "socks5" /\ step \in {"failed", "general"}
  /\ Discard
  /\ LeaveTunnel
  /\ UNCHANGED <<tunnel, tstate, loop, dataVars>>

\* EstablishWithQUICConfig: the QUIC connection to the proxy ...
MasqueDial ==
  /\ tunnel = "masque" /\ step = "dial"
  /\ \/ Go("settings") /\ control' = "open" /\ UNCHANGED relay
     \/ LeaveTunnel /\ UNCHANGED <<tunnel, tstate, control, relay, loop, dataVars>>

\* Mutant: the QUIC connection survives its failed use.
MasqueFailsOpen == LeaveTunnel /\ UNCHANGED <<tunnel, tstate, control, relay, loop, dataVars>>

\* Every later failure closes the QUIC connection; the tunnel can be tried anew.
MasqueFails == control' = "closed" /\ LeaveTunnel /\ UNCHANGED <<tunnel, tstate, relay, loop, dataVars>>

\* ... its settings: extended CONNECT and datagrams ...
MasqueSettings ==
  /\ tunnel = "masque" /\ step = "settings"
  /\ \/ Go("connect") /\ UNCHANGED <<control, relay>>
     \/ MasqueFails

\* ... and sendConnectUDP with a 2xx answer.
MasqueConnect ==
  /\ tunnel = "masque" /\ step = "connect"
  /\ \/ /\ tstate' = [tstate EXCEPT !.established = TRUE]
        /\ loop' = TRUE
        /\ LeaveTunnel
        /\ UNCHANGED <<tunnel, control, relay, dataVars>>
     \/ MasqueFails

-----------------------------------------------------------------------------
(* Close, by its owner or by the keepalive loop *)

CloseTunnel ==
  /\ tstate' = [tstate EXCEPT !.closed = TRUE]
  /\ control' = IF control = "open" THEN "closed" ELSE control
  /\ relay' = IF relay = "open" THEN "closed" ELSE relay
  /\ UNCHANGED <<tunnel, holder, step, attempt, dataVars>>

SocksClose == tunnel = "socks5" /\ MuOpen /\ ~tstate.closed /\ CloseTunnel /\ UNCHANGED loop
MasqueClose == tunnel = "masque" /\ MuOpen /\ ~tstate.closed /\ CloseTunnel /\ UNCHANGED loop

\* tcpKeepalive reads the control connection; when that ends the tunnel is
\* closed.  It also ends when it finds the tunnel closed.
tcpKeepalive ==
  /\ tunnel = "socks5" /\ loop /\ MuOpen
  /\ loop' = FALSE
  /\ IF tstate.closed THEN UNCHANGED <<tunnel, tstate, control, relay, holder, step, attempt, dataVars>>
     ELSE CloseTunnel

-----------------------------------------------------------------------------
(* Datagrams *)

\* receiveDatagrams: a datagram the reader has no room for is dropped.
receiveDatagrams ==
  /\ tunnel = "masque" /\ loop /\ control = "open" /\ seq < MaxDatagrams
  /\ seq' = seq + 1
  /\ inbox' = IF Len(inbox) < ChannelCap THEN Append(inbox, seq + 1) ELSE inbox
  /\ UNCHANGED <<tunnel, tstate, holder, step, attempt, control, relay, loop, user>>

\* It ends with its context or with an error of the stream, after which the
\* tunnel stays established and delivers nothing more.
receiveEnds ==
  /\ tunnel = "masque" /\ loop
  /\ loop' = FALSE
  /\ UNCHANGED <<tunnel, tstate, holder, step, attempt, control, relay, dataVars>>

\* The relay sends; the network may lose it.
RelaySends ==
  /\ tunnel = "socks5" /\ relay = "open" /\ tstate.established /\ seq < MaxDatagrams
  /\ seq' = seq + 1
  /\ \/ Len(inbox) < ChannelCap /\ inbox' = Append(inbox, seq + 1)
     \/ UNCHANGED inbox
  /\ UNCHANGED <<tunnel, tstate, holder, step, attempt, control, relay, loop, user>>

\* The checks of ReadFrom and WriteTo under the read lock; the call itself
\* uses the socket after the unlock.
Use(u, pc) ==
  /\ user[u].pc = "idle" /\ MuOpen /\ tstate.established /\ ~tstate.closed
  /\ user' = [user EXCEPT ![u].pc = pc]
  /\ UNCHANGED <<tunnel, tstate, holder, step, attempt, control, relay, loop, inbox, seq>>

SocksReadFrom(u) == tunnel = "socks5" /\ Use(u, "read")
SocksWriteTo(u) == tunnel = "socks5" /\ Use(u, "write")
MasqueReadFrom(u) == tunnel = "masque" /\ Use(u, "read")
MasqueWriteTo(u) == tunnel = "masque" /\ Use(u, "write")

\* A datagram arrives.  The SOCKS tunnel rejects one whose header it does not
\* understand, with an error for its reader.
ReadDatagram(u) ==
  /\ user[u].pc = "read" /\ inbox # <<>>
  /\ tunnel = "socks5" => relay = "open"
  /\ inbox' = Tail(inbox)
  /\ \/ user' = [user EXCEPT ![u] = [pc |-> "idle", last |-> Head(inbox)]]
     \/ tunnel = "socks5" /\ user' = [user EXCEPT ![u].pc = "idle"]
  /\ UNCHANGED <<tunnel, tstate, holder, step, attempt, control, relay, loop, seq>>

\* The deadline passes, the socket is closed under the call, or a write is
\* through.
UseEnds(u) ==
  /\ user[u].pc # "idle"
  /\ user' = [user EXCEPT ![u].pc = "idle"]
  /\ UNCHANGED <<tunnel, tstate, holder, step, attempt, control, relay, loop, inbox, seq>>

TunnelNext ==
  \/ TryDial \/ TryHandshake \/ TryListen \/ TryAssociate \/ RetrySocks \/ GiveUpSocks
  \/ MasqueDial \/ MasqueSettings \/ MasqueConnect
  \/ SocksClose \/ MasqueClose \/ tcpKeepalive \/ receiveDatagrams \/ receiveEnds \/ RelaySends
  \/ \E u \in Users :
       \/ EstablishSocks(u) \/ EstablishMasque(u)
       \/ SocksReadFrom(u) \/ SocksWriteTo(u) \/ MasqueReadFrom(u) \/ MasqueWriteTo(u)
       \/ ReadDatagram(u) \/ UseEnds(u)

TunnelSpec == TunnelInit /\ [][TunnelNext]_tunnelVars

-----------------------------------------------------------------------------
(* Properties *)

\* Outside Establish the tunnel's connections are open exactly while it is
\* established and not closed: no failed attempt, no retry and neither way of
\* closing leaves one behind, and an established tunnel has what it needs.
TunnelReleased ==
  MuOpen =>
    /\ control = "open" <=> tstate.established /\ ~tstate.closed
    /\ relay = "open" <=> tunnel = "socks5" /\ tstate.established /\ ~tstate.closed
=============================================================================
