------------------------------ MODULE MCClient ------------------------------
(* Client on small instances: behaviours in which every goroutine makes one   *)
(* call while everything around it may change, and behaviours in which it     *)
(* makes one after the other on a client without HTTP/3 and with fixed        *)
(* proxies, neither of which bears on the headers.                            *)
EXTENDS Client

CONSTANTS c1, hA, hB

VARIABLE repeats

\* A call with a map and credentials, one without a map, a stream, and a call
\* that passes the map of the last one.
Asked0 ==
  {[stream |-> FALSE, auth |-> "basic", own |-> TRUE, again |-> FALSE, force |-> "auto"],
   [stream |-> FALSE, auth |-> "none", own |-> FALSE, again |-> FALSE, force |-> "auto"],
   [stream |-> TRUE, auth |-> "none", own |-> FALSE, again |-> FALSE, force |-> "auto"],
   [stream |-> FALSE, auth |-> "none", own |-> TRUE, again |-> TRUE, force |-> "auto"]}

Configured0 == {[all |-> "none", tcp |-> "none", udp |-> "none"]}

MCInit == ClientInit /\ repeats \in BOOLEAN /\ (repeats => quic = "none")

\* The setters and the five minutes only run in the one kind of behaviour, which
\* ends with its calls, and a goroutine only calls again in the other.
MCNext ==
  /\ ClientNext /\ UNCHANGED repeats
  /\ IF repeats THEN changes' = changes /\ h2f \subseteq h2f'
     ELSE /\ \E c \in Calls : call[c].pc # "done"
          /\ \A c \in Calls : /\ call[c].pc = "done" => call'[c] = call[c]
                             /\ call'[c].pc = "start" => ~call'[c].req.again

MCSpec ==
  /\ MCInit /\ [][MCNext]_<<clientVars, repeats>>
  /\ \A c \in Calls : WF_clientVars(CallStep(c)) /\ WF_clientVars(Expire(c))
=============================================================================
