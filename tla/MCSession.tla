----------------------------- MODULE MCSession -----------------------------
(* Session on small instances: one host reachable over https and http, under *)
(* one domain, and one unrelated host.                                       *)
EXTENDS Session, TLC

CONSTANTS r1, www, other, site, n1

Covered == site :> {www}

Secure(h) == [secure |-> TRUE, host |-> h, path |-> <<>>]
Plain(h)  == [secure |-> FALSE, host |-> h, path |-> <<>>]

ThreeUrls == {Secure(www), Plain(www), Secure(other)}

Root == {<<>>}

Offer(d, s, e) == [name |-> n1, domain |-> d, path |-> <<>>, secure |-> s, expired |-> e]

\* A secure cookie of the host, its deletion, a cookie of the whole domain.
ThreeOffers == {Offer(None, TRUE, FALSE), Offer(None, TRUE, TRUE), Offer(site, FALSE, FALSE)}

OneGlobal ==
  {[key |-> [domain |-> Global, path |-> <<>>, name |-> n1], secure |-> FALSE]}

OneOfSite == {[key |-> [domain |-> site, path |-> <<>>, name |-> n1], secure |-> FALSE]}

TwoMethods == {"GET", "POST"}

Call(m, body, auth, own, keeps, again) ==
  [method |-> m, body |-> body, auth |-> auth, own |-> own, keeps |-> keeps, again |-> again]

\* A plain GET whose map the caller keeps, a GET that passes that map again, and
\* a POST with everything.
ThreeCalls ==
  {Call("GET", FALSE, FALSE, FALSE, TRUE, FALSE),
   Call("GET", FALSE, FALSE, FALSE, TRUE, TRUE),
   Call("POST", TRUE, TRUE, TRUE, FALSE, FALSE)}
=============================================================================
