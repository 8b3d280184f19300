----------------------------- MODULE MCAppParts -----------------------------
(***************************************************************************)
(* The parts around the network layer that share no state with each other, *)
(* checked side by side: a behaviour exercises the one chosen at the       *)
(* start, the others stay as they are.                                     *)
(***************************************************************************)
EXTENDS CLibHandles, LocalProxy, SessionLife, Warmup, DnsCache

VARIABLE part

appVars == <<part, handleVars, proxyVars, lifeVars, warmVars, dnsVars>>

\* A part with several initial states has one of them when another runs.
AppInit ==
  /\ part \in {"handles", "proxy", "life", "warmup", "dns", "ech"}
  /\ HandlesInit /\ ProxyInit /\ LifeInit /\ WarmInit /\ DnsInit
  /\ part # "handles" => other = "stream"
  /\ part # "proxy" => ~tcpProxy
  /\ part # "dns" => zone = <<>> /\ ~preferIPv4

HandlesPart ==
  /\ part = "handles" /\ HandlesNext
  /\ UNCHANGED <<part, proxyVars, lifeVars, warmVars, dnsVars>>

ProxyPart ==
  /\ part = "proxy" /\ ProxyNext
  /\ UNCHANGED <<part, handleVars, lifeVars, warmVars, dnsVars>>

LifePart ==
  /\ part = "life" /\ LifeNext
  /\ UNCHANGED <<part, handleVars, proxyVars, warmVars, dnsVars>>

WarmPart ==
  /\ part = "warmup" /\ WarmNext
  /\ UNCHANGED <<part, handleVars, proxyVars, lifeVars, dnsVars>>

DnsPart ==
  /\ part = "dns" /\ AddressNext
  /\ UNCHANGED <<part, handleVars, proxyVars, lifeVars, warmVars>>

EchPart ==
  /\ part = "ech" /\ EchNext
  /\ UNCHANGED <<part, handleVars, proxyVars, lifeVars, warmVars>>

AppNext == HandlesPart \/ ProxyPart \/ LifePart \/ WarmPart \/ DnsPart \/ EchPart

AppSpec == AppInit /\ [][AppNext]_appVars

Tag(u, t) == [url |-> u, typ |-> t]

\* A page without resources; one with an unusable tag, a URL that two tags name,
\* every type, and more resources than the limit; one whose first tag wins.
Pages3 ==
  {<<>>,
   <<Tag(1, "none"), Tag(1, "js"), Tag(2, "css"), Tag(1, "image"), Tag(3, "font"),
     Tag(4, "image"), Tag(5, "css"), Tag(6, "js")>>,
   <<Tag(1, "image"), Tag(1, "css"), Tag(2, "js")>>}

\* A name that is gone, one with more IPv4 addresses, one with more IPv6.
Zones3 ==
  {<<>>, << <<4, 1>>, <<6, 1>>, <<4, 2>>, <<4, 3>> >>, << <<6, 1>>, <<6, 2>>, <<4, 1>> >>}
=============================================================================
