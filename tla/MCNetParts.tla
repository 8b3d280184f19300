----------------------------- MODULE MCNetParts -----------------------------
(***************************************************************************)
(* The parts of the network layer that share no state with each other,     *)
(* checked side by side: a behaviour exercises the one chosen at the       *)
(* start, the others stay as they are.                                     *)
(***************************************************************************)
EXTENDS TLSCache, Http3Conns, BodyPool, QuicPool, ProxyDial, HappyEyeballs, UdpTunnels

VARIABLE part

CONSTANTS none, g1, g2, qa, qb, pa, pb

netVars == <<part, vars, http3Vars, poolVars, quicVars, dialVars, happyVars, tunnelVars>>

\* A part with several initial states has one of them when another runs.
NetInit ==
  /\ part \in {"tls", "http3", "body", "quic", "dial", "happy", "udp"}
  /\ Init /\ Http3Init /\ BodyInit /\ QuicInit /\ DialInit /\ HappyInit /\ TunnelInit
  /\ part # "http3" => ~tunnelled
  /\ part # "dial" => \A d \in Dials : dial[d] = NewDial("pool", "http", FALSE)
  /\ part # "happy" => addrs = [preferred |-> {}, fallback |-> {}]
  /\ part # "udp" => tunnel = "socks5"

TLSPart ==
  /\ part = "tls" /\ Next
  /\ UNCHANGED <<part, http3Vars, poolVars, quicVars, dialVars, happyVars, tunnelVars>>

Http3Part ==
  /\ part = "http3" /\ Http3Next /\ UNCHANGED tunnelled
  /\ UNCHANGED <<part, vars, poolVars, quicVars, dialVars, happyVars, tunnelVars>>

BodyPart ==
  /\ part = "body" /\ BodyNext
  /\ UNCHANGED <<part, vars, http3Vars, quicVars, dialVars, happyVars, tunnelVars>>

QuicPart ==
  /\ part = "quic" /\ QuicNext
  /\ UNCHANGED <<part, vars, http3Vars, poolVars, dialVars, happyVars, tunnelVars>>

DialPart ==
  /\ part = "dial" /\ DialNext
  /\ UNCHANGED <<part, vars, http3Vars, poolVars, quicVars, happyVars, tunnelVars>>

HappyPart ==
  /\ part = "happy" /\ HappyNext
  /\ UNCHANGED <<part, vars, http3Vars, poolVars, quicVars, dialVars, tunnelVars>>

UdpPart ==
  /\ part = "udp" /\ TunnelNext
  /\ UNCHANGED <<part, vars, http3Vars, poolVars, quicVars, dialVars, happyVars>>

NetNext == TLSPart \/ Http3Part \/ BodyPart \/ QuicPart \/ DialPart \/ HappyPart \/ UdpPart

NetSpec == NetInit /\ [][NetNext]_netVars

\* The goroutines of a part are interchangeable, and so are its connections or
\* buffers, and its pools.  Since one part runs at a time, all of them share the
\* same names.
NetSymmetry == Permutations({g1, g2}) \cup Permutations({qa, qb}) \cup Permutations({pa, pb})

\* Content-Length in MB (0: unknown) and Content-Encoding: both sides of every
\* size class, compressed and not.
Bodies8 ==
  {[size |-> n, enc |-> "none"] : n \in {1, 10, 101}}
  \cup {[size |-> n, enc |-> "gzip"] : n \in {0, 2, 11}}
  \cup {[size |-> n, enc |-> "identity"] : n \in {0, 1}}

\* Every part keeps the types of its state, and what they alone bound: the
\* retries of a request, the place of every cached ticket in the LRU order, the
\* size class of a pooled buffer.
NetTypeOK ==
  /\ TypeOK /\ Http3TypeOK /\ BodyTypeOK /\ QuicTypeOK /\ DialTypeOK /\ HappyTypeOK /\ TunnelTypeOK
  /\ SizeBound /\ SliceFits
=============================================================================
