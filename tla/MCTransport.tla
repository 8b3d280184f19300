---------------------------- MODULE MCTransport ----------------------------
EXTENDS Transport

CONSTANTS c1, host

\* No proxy, one for everything, separate ones for TCP and UDP, one for UDP.
Proxies4 ==
  {[url |-> "none", tcp |-> "none", udp |-> "none"],
   [url |-> "socks", tcp |-> "none", udp |-> "none"],
   [url |-> "none", tcp |-> "http", udp |-> "masque"],
   [url |-> "none", tcp |-> "none", udp |-> "masque"]}

Requests3 ==
  {[stream |-> FALSE, https |-> TRUE],
   [stream |-> TRUE, https |-> TRUE],
   [stream |-> FALSE, https |-> FALSE]}
=============================================================================
