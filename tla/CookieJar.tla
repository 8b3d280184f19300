----------------------------- MODULE CookieJar -----------------------------
(***************************************************************************)
(* session.CookieJar (src/session/cookie_jar.go) as operators on a jar     *)
(* value.  Every method holds j.mu from begin to end, so a method is one   *)
(* step of whoever calls it.                                               *)
(*                                                                         *)
(* A host is a model value, a dotted domain ".d" a Site with the set of    *)
(* hosts that are d or end in ".d"; Global is the empty domain.  A path is *)
(* its sequence of segments.  Of a cookie the model keeps its key, hostOnly*)
(* and secure; values, MaxAge (which the jar never reads) and the order of *)
(* the Cookie header are left out.  A cookie whose Expires lies in the past*)
(* stays in the Go map, but Get, GetAll, Export and Import all skip it: in *)
(* the model it is gone.                                                   *)
(***************************************************************************)
EXTENDS Integers, Sequences, SequencesExt

CONSTANTS Hosts, Sites, Global, Names, Paths, None,
          Subdomains   \* Site -> the hosts it covers

ASSUME CookieAssumption ==
  /\ Subdomains \in [Sites -> SUBSET Hosts]
  /\ Hosts \cap Sites = {}
  /\ Global \notin Hosts \cup Sites
  /\ <<>> \in Paths
  /\ None \notin Hosts \cup Sites \cup [hostOnly: BOOLEAN, secure: BOOLEAN] \cup [secure: BOOLEAN]

Domains == Hosts \cup Sites \cup {Global}

CookieKey == [domain: Domains, path: Paths, name: Names]

Cookie == [hostOnly: BOOLEAN, secure: BOOLEAN]

Jars == [CookieKey -> Cookie \cup {None}]

Url == [secure: BOOLEAN, host: Hosts, path: Paths]

EmptyJar == [k \in CookieKey |-> None]

-----------------------------------------------------------------------------

domainMatchesHost(d, h) ==
  \/ d = Global
  \/ d = h
  \/ d \in Sites /\ h \in Subdomains[d]

isPathMatch(requestPath, cookiePath) == IsPrefix(cookiePath, requestPath)

\* The keys of the cookies that a request for u carries.
Get(jar, u) ==
  {k \in CookieKey :
     /\ jar[k] # None
     /\ domainMatchesHost(k.domain, u.host)
     /\ jar[k].hostOnly => k.domain = u.host
     /\ isPathMatch(u.path, k.path)
     /\ jar[k].secure => u.secure}

\* Set stores what a response from u offers in a Set-Cookie line.  A domain
\* attribute must cover the host; without one the cookie is the host's own.  A
\* secure cookie must come over https.  An Expires in the past deletes.
Set(jar, u, offer) ==
  LET hostOnly == offer.domain = None
      domain == IF hostOnly THEN u.host ELSE offer.domain
      k == [domain |-> domain, path |-> offer.path, name |-> offer.name]
  IN IF \/ ~hostOnly /\ u.host \notin Subdomains[domain]
        \/ offer.secure /\ ~u.secure
       THEN jar
       ELSE [jar EXCEPT ![k] = IF offer.expired THEN None
                               ELSE [hostOnly |-> hostOnly, secure |-> offer.secure]]

\* SetSimple: the caller names the domain; none means every host.
SetSimple(jar, k, secure) ==
  [jar EXCEPT ![k] = [hostOnly |-> k.domain \in Hosts, secure |-> secure]]

\* Delete: the empty domain means all domains.
Delete(jar, name, domain) ==
  [k \in CookieKey |->
     IF k.name = name /\ (domain = Global \/ k.domain = domain) THEN None ELSE jar[k]]

\* Export writes everything but hostOnly.
Export(jar) ==
  [k \in CookieKey |-> IF jar[k] = None THEN None ELSE [secure |-> jar[k].secure]]

\* Mutant: every imported cookie is taken for a host's own.
ImportHostOnly(jar, saved) ==
  [k \in CookieKey |->
     IF saved[k] = None THEN jar[k]
     ELSE [hostOnly |-> TRUE, secure |-> saved[k].secure]]

\* Import infers hostOnly from the missing dot, also where there is no domain.
Import(jar, saved) ==
  [k \in CookieKey |->
     IF saved[k] = None THEN jar[k]
     ELSE [hostOnly |-> k.domain \notin Sites, secure |-> saved[k].secure]]
=============================================================================
