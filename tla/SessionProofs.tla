--------------------------- MODULE SessionProofs ---------------------------
(***************************************************************************)
(* Proofs about sessions: Session and CookieJar, for any number of         *)
(* requests on one session, any hosts, domains, paths, URLs and cookies,   *)
(* and any limits; SessionLife, for any number of sessions; Warmup, for    *)
(* any page and any limits.                                                *)
(***************************************************************************)
EXTENDS Session, SessionLife, Warmup, SeqLemmas, FiniteSetTheorems, TLAPS

\* Except for cookies without a domain, hostOnly says that the domain is a host:
\* what Import infers is what Export left out.
JarOK == \A k \in CookieKey : jar[k] # None /\ k.domain # Global =>
           (jar[k].hostOnly <=> k.domain \notin Sites)

CookiesFit(cookies, u) ==
  \A c \in cookies :
    /\ domainMatchesHost(c.key.domain, u.host)
    /\ isPathMatch(u.path, c.key.path)
    /\ c.secure => u.secure

\* What holds of a request at every step, not only when it is on the wire.
RequestOK(q) ==
  /\ q.pc # "idle" => q.url \in Urls /\ q.firstUrl \in Urls
  /\ q.pc = "wait" => q.attempt < MaxRetries
  /\ CookiesFit(q.cookie \ q.orig, q.url)
  /\ q.orig # {} => q.url = q.firstUrl /\ q.hops = 0
  /\ q.orig \subseteq {Own} \/ q.again
  /\ q.auth => sameOrigin(q.url, q.firstUrl)
  /\ q.body => q.method = q.firstMethod

\* The maps that callers keep.
Maps == [Requests -> (SUBSET Sendable) \cup {None}]

SessionIInv == TypeOK /\ JarOK /\ \A r \in Requests : RequestOK(req[r])

-----------------------------------------------------------------------------
(* The jar.                                                                *)

LEMMA GetFacts ==
  ASSUME NEW j \in Jars, NEW u \in Urls, NEW k \in Get(j, u)
  PROVE  /\ k \in CookieKey /\ j[k] \in Cookie
         /\ domainMatchesHost(k.domain, u.host)
         /\ isPathMatch(u.path, k.path)
         /\ j[k].secure => u.secure
BY DEF Get, Jars

\* What is built from the jar fits the URL it is built for.
LEMMA JarCookiesFit ==
  ASSUME jar \in Jars, NEW u \in Urls
  PROVE  JarCookies(u) \subseteq Sendable /\ CookiesFit(JarCookies(u), u)
<1>1. ASSUME NEW c \in JarCookies(u)
      PROVE  /\ c \in [key: CookieKey, secure: BOOLEAN]
             /\ domainMatchesHost(c.key.domain, u.host)
             /\ isPathMatch(u.path, c.key.path)
             /\ c.secure => u.secure
  <2>1. PICK k \in Get(jar, u) : c = [key |-> k, secure |-> jar[k].secure]
    BY <1>1 DEF JarCookies
  <2>2. c.key = k /\ c.secure = jar[k].secure
    BY <2>1
  <2> QED
    BY <2>1, <2>2, GetFacts DEF Cookie
<1> QED
  BY <1>1 DEF Sendable, CookiesFit

\* Set keeps the jar a jar in which hostOnly can be inferred.
LEMMA SetOK ==
  ASSUME jar \in Jars, JarOK, NEW u \in Urls, NEW o \in Offers \cup {None},
         extractCookies(u, o)
  PROVE  jar' \in Jars /\ JarOK'
<1>1. CASE jar' = jar
  BY <1>1 DEF JarOK
<1>2. CASE jar' # jar
  <2> DEFINE hostOnly == o.domain = None
             domain == IF hostOnly THEN u.host ELSE o.domain
             k == [domain |-> domain, path |-> o.path, name |-> o.name]
             v == IF o.expired THEN None ELSE [hostOnly |-> hostOnly, secure |-> o.secure]
  <2>1. o # None /\ jar' = Set(jar, u, o)
    BY <1>2 DEF extractCookies
  <2>2. jar' = [jar EXCEPT ![k] = v]
    BY <1>2, <2>1 DEF Set
  <2>3. o \in Offers /\ o.domain \in Sites \cup {None} /\ o.path \in Paths /\ o.name \in Names
        /\ o.secure \in BOOLEAN /\ u.host \in Hosts
    BY <2>1, SessionAssumption DEF Url
  <2>4. domain \in Domains /\ (domain \in Sites <=> ~hostOnly)
    BY <2>3, CookieAssumption DEF Domains
  <2>5. hostOnly \in BOOLEAN
    OBVIOUS
  <2> HIDE DEF domain, hostOnly
  <2>6. k \in CookieKey /\ k.domain = domain
    BY <2>3, <2>4 DEF CookieKey
  <2>7. v \in Cookie \cup {None} /\ (v # None => v.hostOnly = hostOnly)
    BY <2>3, <2>5 DEF Cookie
  <2> HIDE DEF k, v
  <2>8. jar' \in Jars
    BY <2>2, <2>6, <2>7 DEF Jars
  <2>9. JarOK'
    BY <2>2, <2>4, <2>6, <2>7 DEF JarOK, Jars
  <2> QED
    BY <2>8, <2>9
<1> QED
  BY <1>1, <1>2

\* Export and Import give back every cookie that has a domain.
LEMMA ImportExport ==
  ASSUME jar \in Jars, JarOK
  PROVE  LET new == Import(EmptyJar, Export(jar)) IN
         /\ new \in Jars
         /\ \A k \in CookieKey : /\ new[k] # None => new[k].hostOnly = (k.domain \notin Sites)
                                 /\ k.domain # Global => new[k] = jar[k]
<1> DEFINE new == Import(EmptyJar, Export(jar))
<1>1. ASSUME NEW k \in CookieKey
      PROVE  /\ new[k] \in Cookie \cup {None}
             /\ new[k] # None => new[k].hostOnly = (k.domain \notin Sites)
             /\ k.domain # Global => new[k] = jar[k]
  <2>1. jar[k] \in Cookie \cup {None}
    BY DEF Jars
  <2>2. CASE jar[k] = None
    BY <2>2 DEF Import, Export, EmptyJar
  <2>3. CASE jar[k] # None
    <3>1. Export(jar)[k] = [secure |-> jar[k].secure] /\ jar[k].secure \in BOOLEAN
      BY <2>1, <2>3 DEF Export, Cookie
    <3>2. Export(jar)[k] # None
      BY <3>1, CookieAssumption
    <3>3. new[k] = [hostOnly |-> k.domain \notin Sites, secure |-> jar[k].secure]
      BY <3>1, <3>2 DEF Import
    <3>4. k.domain # Global => jar[k].hostOnly = (k.domain \notin Sites)
      BY <2>1, <2>3 DEF JarOK, Cookie
    <3> QED
      BY <2>1, <2>3, <3>1, <3>3, <3>4 DEF Cookie
  <2> QED
    BY <2>2, <2>3
<1>2. new \in Jars
  BY <1>1 DEF Jars, Import
<1> QED
  BY <1>1, <1>2

\* The inductive invariant says what the run checks.
LEMMA SessionSuffices ==
  SessionIInv => SessionInv /\ SecretsConfined /\ SavedCookiesReturn
<1> SUFFICES ASSUME SessionIInv
             PROVE  SessionInv /\ SecretsConfined /\ SavedCookiesReturn
  OBVIOUS
<1> USE DEF SessionIInv
<1>1. SessionInv /\ AuthConfined
  BY DEF SessionInv, BodyKeepsMethod, AuthConfined, OnTheWire, RequestOK
<1>2. SentCookiesMatch
  BY DEF SentCookiesMatch, OnTheWire, RequestOK, CookiesFit
<1>3. SavedCookiesReturn
  <2> DEFINE new == Import(EmptyJar, Export(jar))
  <2>1. \A k \in CookieKey : k.domain # Global => new[k] = jar[k]
    BY ImportExport DEF TypeOK
  <2> HIDE DEF new
  <2>2. \A u \in Urls, k \in CookieKey : k.domain # Global => (k \in Get(jar, u) <=> k \in Get(new, u))
    BY <2>1 DEF Get
  <2> QED
    BY <2>2 DEF SavedCookiesReturn, new
<1> QED
  BY <1>1, <1>2, <1>3 DEF SecretsConfined

-----------------------------------------------------------------------------
(* Requests.                                                               *)

LEMMA NoRequestOK == NoRequest \in RequestState /\ RequestOK(NoRequest)
<1>1. NoRequest \in RequestState
  <2>1. 0 \in 0 .. MaxRetries /\ 0 \in 0 .. MaxRedirects
    BY SessionAssumption
  <2>2. "GET" \in Methods /\ {} \in SUBSET Sendable
    BY SessionAssumption
  <2> QED
    BY <2>1, <2>2 DEF NoRequest, RequestState, Steps, Statuses
<1>2. RequestOK(NoRequest)
  BY DEF NoRequest, RequestOK, CookiesFit
<1> QED
  BY <1>1, <1>2

\* A step of one request.
LEMMA OneRequest ==
  ASSUME SessionIInv, NEW r \in Requests, NEW q \in RequestState, RequestOK(q),
         req' = [req EXCEPT ![r] = q], active' = active, jar' \in Jars, JarOK', kept' \in Maps
  PROVE  SessionIInv'
BY DEF SessionIInv, TypeOK, Maps

LEMMA ReturnOK ==
  ASSUME SessionIInv, NEW r \in Requests, Return(r), active' = active, jar' \in Jars, JarOK',
         kept' \in Maps
  PROVE  SessionIInv'
BY OneRequest, NoRequestOK DEF Return

LEMMA BeginOK ==
  ASSUME SessionIInv, NEW r \in Requests, NEW u \in Urls, NEW a \in Calls,
         NEW p \in {"send", "stream"}, NEW fromJar \in {{}, JarCookies(u)},
         Begin(r, p, u, a, fromJar)
  PROVE  SessionIInv'
<1> DEFINE map == Passed(r, a)
           cookies == fromJar \cup map
           q == [NoRequest EXCEPT !.pc = p, !.url = u, !.method = a.method, !.body = a.body,
                   !.auth = a.auth, !.orig = map, !.again = a.again, !.cookie = cookies,
                   !.firstUrl = u, !.firstMethod = a.method]
<1>1. /\ a.method \in Methods /\ a.body \in BOOLEAN /\ a.auth \in BOOLEAN /\ a.again \in BOOLEAN
      /\ kept \in Maps
  BY SessionAssumption DEF SessionIInv, TypeOK, Maps
<1>2. map \subseteq Sendable /\ (map \subseteq {Own} \/ a.again)
  <2>1. CASE a.again
    <3>1. kept[r] # None
      BY <2>1 DEF Begin
    <3>2. kept[r] \in (SUBSET Sendable) \cup {None}
      BY <1>1 DEF Maps
    <3>3. map = kept[r]
      BY <2>1 DEF Passed
    <3> HIDE DEF map
    <3> QED
      BY <2>1, <3>1, <3>2, <3>3
  <2>2. CASE ~a.again
    BY <2>2 DEF Passed, Sendable
  <2> QED
    BY <2>1, <2>2
<1>3. fromJar \subseteq Sendable /\ CookiesFit(fromJar, u)
  <2>1. JarCookies(u) \subseteq Sendable /\ CookiesFit(JarCookies(u), u)
    BY JarCookiesFit DEF SessionIInv, TypeOK
  <2>2. CookiesFit({}, u)
    BY DEF CookiesFit
  <2> QED
    BY <2>1, <2>2
<1>4. cookies \subseteq Sendable /\ CookiesFit(cookies \ map, u)
  BY <1>2, <1>3 DEF CookiesFit
<1>5. /\ req' = [req EXCEPT ![r] = q] /\ active' = active /\ jar' = jar
      /\ kept' = [kept EXCEPT ![r] = IF a.keeps THEN cookies ELSE None]
  BY DEF Begin
<1> HIDE DEF cookies, map
<1>6. kept' \in Maps
  <2>1. PICK k \in (SUBSET Sendable) \cup {None} : kept' = [kept EXCEPT ![r] = k]
    BY <1>4, <1>5
  <2> QED
    BY <1>1, <2>1 DEF Maps
<1>7. q \in RequestState
  BY <1>1, <1>2, <1>4, NoRequestOK DEF RequestState, Steps
<1>8. /\ q.pc = p /\ q.url = u /\ q.firstUrl = u /\ q.orig = map /\ q.again = a.again
      /\ q.cookie = cookies /\ q.hops = 0 /\ q.method = a.method /\ q.firstMethod = a.method
  BY NoRequestOK DEF RequestState, NoRequest
<1> HIDE DEF q
<1>9. RequestOK(q)
  BY <1>2, <1>4, <1>8 DEF RequestOK, sameOrigin
<1>10. jar' \in Jars /\ JarOK'
  BY <1>5 DEF SessionIInv, TypeOK, JarOK
<1> QED
  BY <1>5, <1>6, <1>7, <1>9, <1>10, OneRequest

\* The steps that change the place of a request, its attempt or its response.
LEMMA MoveOK ==
  ASSUME SessionIInv, NEW r \in Requests, jar' \in Jars, JarOK',
         \/ Enter(r) \/ SendError(r) \/ Retry(r)
         \/ \E s \in Statuses, o \in Offers \cup {None} : Receive(r, s, o)
  PROVE  SessionIInv'
<1> DEFINE o == req[r]
           q == req'[r]
<1>1. o \in RequestState /\ RequestOK(o) /\ o.pc # "idle" /\ req \in [Requests -> RequestState]
  BY DEF SessionIInv, TypeOK, Enter, SendError, Retry, Receive
<1>a. kept' \in Maps
  BY DEF SessionIInv, TypeOK, Maps, Enter, SendError, Retry, Receive
<1>2. CASE Enter(r)
  <2>1. req' = [req EXCEPT ![r] = [o EXCEPT !.pc = "send"]] /\ active' = active
    BY <1>2 DEF Enter
  <2>2. [o EXCEPT !.pc = "send"] \in RequestState /\ RequestOK([o EXCEPT !.pc = "send"])
    BY <1>1 DEF RequestState, Steps, RequestOK
  <2> QED
    BY <2>1, <2>2, <1>a, OneRequest
<1>3. CASE SendError(r)
  <2>1. CASE o.attempt >= MaxRetries
    BY <1>3, <1>a, <2>1, ReturnOK DEF SendError
  <2>2. CASE ~(o.attempt >= MaxRetries)
    <3>1. req' = [req EXCEPT ![r] = [o EXCEPT !.pc = "wait"]] /\ active' = active
      BY <1>3, <2>2 DEF SendError
    <3>2. o.attempt < MaxRetries
      BY <1>1, <2>2, SessionAssumption DEF RequestState
    <3>3. [o EXCEPT !.pc = "wait"] \in RequestState /\ RequestOK([o EXCEPT !.pc = "wait"])
      BY <1>1, <3>2 DEF RequestState, Steps, RequestOK
    <3> QED
      BY <3>1, <3>3, <1>a, OneRequest
  <2> QED
    BY <2>1, <2>2
<1>4. CASE Retry(r)
  <2> DEFINE e == [o EXCEPT !.pc = "send", !.attempt = o.attempt + 1]
  <2>1. req' = [req EXCEPT ![r] = e] /\ active' = active
    BY <1>1, <1>4 DEF Retry
  <2>2. o.attempt + 1 \in 0 .. MaxRetries
    BY <1>1, <1>4, SessionAssumption DEF RequestState, RequestOK, Retry
  <2>3. e \in RequestState
    BY <1>1, <2>2 DEF RequestState, Steps
  <2>4. /\ e.pc = "send" /\ e.url = o.url /\ e.firstUrl = o.firstUrl /\ e.cookie = o.cookie
        /\ e.orig = o.orig /\ e.hops = o.hops /\ e.again = o.again /\ e.auth = o.auth
        /\ e.body = o.body /\ e.method = o.method /\ e.firstMethod = o.firstMethod
        /\ o.pc = "wait"
    BY <1>1, <1>4 DEF RequestState, Retry
  <2> HIDE DEF e
  <2>5. RequestOK(e)
    BY <1>1, <2>4 DEF RequestOK
  <2> QED
    BY <2>1, <2>3, <2>5, <1>a, OneRequest
<1>5. ASSUME NEW s \in Statuses, NEW f \in Offers \cup {None}, Receive(r, s, f)
      PROVE  SessionIInv'
  <2>1. CASE s = "busy" /\ o.attempt < MaxRetries
    <3>1. req' = [req EXCEPT ![r] = [o EXCEPT !.pc = "wait"]] /\ active' = active
      BY <1>5, <2>1 DEF Receive
    <3>2. [o EXCEPT !.pc = "wait"] \in RequestState /\ RequestOK([o EXCEPT !.pc = "wait"])
      BY <1>1, <2>1 DEF RequestState, Steps, RequestOK
    <3> QED
      BY <3>1, <3>2, <1>a, OneRequest
  <2>2. CASE ~(s = "busy" /\ o.attempt < MaxRetries)
    <3> DEFINE e == [o EXCEPT !.pc = "done", !.status = s, !.offer = f]
    <3>1. req' = [req EXCEPT ![r] = e] /\ active' = active
      BY <1>1, <1>5, <2>2 DEF Receive
    <3>2. e \in RequestState
      BY <1>1 DEF RequestState, Steps
    <3>3. RequestOK(e)
      BY <1>1 DEF RequestState, RequestOK
    <3> QED
      BY <3>1, <3>2, <3>3, <1>a, OneRequest
  <2> QED
    BY <2>1, <2>2
<1> QED
  BY <1>2, <1>3, <1>4, <1>5

LEMMA SendOK ==
  ASSUME SessionIInv, NEW r \in Requests, Send(r)
  PROVE  SessionIInv'
<1> DEFINE o == req[r]
           cookies == CookieHeader(o)
           e == [o EXCEPT !.pc = "sent", !.cookie = cookies]
<1>1. /\ o \in RequestState /\ RequestOK(o) /\ o.pc = "send" /\ o.url \in Urls
      /\ req \in [Requests -> RequestState] /\ kept \in Maps
  BY DEF SessionIInv, TypeOK, Send, RequestOK, Maps
<1>2. cookies \subseteq Sendable /\ CookiesFit(cookies \ o.orig, o.url)
  <2>1. JarCookies(o.url) \subseteq Sendable /\ CookiesFit(JarCookies(o.url), o.url)
    BY <1>1, JarCookiesFit DEF SessionIInv, TypeOK
  <2>2. o.cookie \subseteq Sendable /\ o.orig \subseteq Sendable /\ CookiesFit(o.cookie \ o.orig, o.url)
    BY <1>1 DEF RequestState, RequestOK
  <2> QED
    BY <2>1, <2>2 DEF CookieHeader, CookiesFit
<1>3. /\ req' = [req EXCEPT ![r] = e] /\ active' = active /\ jar' = jar
      /\ kept' = kept \/ kept' = [kept EXCEPT ![r] = cookies]
  BY <1>1 DEF Send
<1> HIDE DEF cookies
<1>4. e \in RequestState /\ RequestOK(e)
  BY <1>1, <1>2 DEF RequestState, Steps, RequestOK
<1>5. jar' \in Jars /\ JarOK'
  BY <1>3 DEF SessionIInv, TypeOK, JarOK
<1>6. kept' \in Maps
  BY <1>1, <1>2, <1>3 DEF Maps
<1> QED
  BY <1>3, <1>4, <1>5, <1>6, OneRequest

\* A redirect drops the Cookie header, and body and credentials only stay where
\* method and origin do.
LEMMA RedirectOK ==
  ASSUME SessionIInv, NEW r \in Requests, NEW to \in Urls, Redirect(r, to),
         jar' \in Jars, JarOK'
  PROVE  SessionIInv'
<1> DEFINE q == req[r]
           m == NewMethod(q.method, q.status)
           b == q.body /\ KeepsBody(q.status)
           a == q.auth /\ KeepsAuth(q.url, to)
           e == [q EXCEPT !.pc = "enter", !.url = to, !.method = m, !.body = b, !.auth = a,
                   !.orig = RedirectedCookie(q), !.cookie = RedirectedCookie(q), !.attempt = 0, !.hops = q.hops + 1,
                   !.status = "ok", !.offer = None]
<1>1. q \in RequestState /\ RequestOK(q) /\ q.pc = "done" /\ q.hops < MaxRedirects
      /\ q.status \in {"303", "302", "307"} /\ q.firstUrl \in Urls /\ q.url \in Urls
  BY DEF SessionIInv, TypeOK, Redirect, RequestOK
<1>2. req' = [req EXCEPT ![r] = e] /\ active' = active /\ kept' \in Maps
  BY DEF Redirect, SessionIInv, TypeOK, Maps
<1>3. /\ q.hops + 1 \in 0 .. MaxRedirects /\ 0 \in 0 .. MaxRetries
      /\ m \in Methods /\ b \in BOOLEAN /\ a \in BOOLEAN
  BY <1>1, SessionAssumption DEF RequestState, NewMethod
<1>4. b => m = q.firstMethod
  BY <1>1 DEF RequestOK, KeepsBody, NewMethod
<1>5. a => sameOrigin(to, q.firstUrl)
  BY <1>1 DEF RequestOK, KeepsAuth, sameOrigin
<1>6. RedirectedCookie(q) = {}
  BY DEF RedirectedCookie
<1> HIDE DEF a, b, m
<1>7. e \in RequestState
  BY <1>1, <1>3, <1>6 DEF RequestState, Steps, Statuses
<1>8. /\ e.pc = "enter" /\ e.url = to /\ e.method = m /\ e.body = b /\ e.auth = a
      /\ e.cookie = {} /\ e.orig = {} /\ e.firstUrl = q.firstUrl /\ e.firstMethod = q.firstMethod
  BY <1>1, <1>6 DEF RequestState
<1> HIDE DEF e
<1>9. RequestOK(e)
  BY <1>1, <1>4, <1>5, <1>8 DEF RequestOK, CookiesFit
<1> QED
  BY <1>2, <1>7, <1>9, OneRequest

LEMMA RequestStepOK ==
  ASSUME SessionIInv, NEW r \in Requests, RequestStep(r)
  PROVE  SessionIInv'
<1>0. jar \in Jars /\ JarOK /\ kept \in Maps
  BY DEF SessionIInv, TypeOK, Maps
<1>1. CASE EnterClosed(r) \/ WaitCancelled(r)
  BY <1>0, <1>1, ReturnOK DEF EnterClosed, WaitCancelled, JarOK
<1>2. CASE Enter(r) \/ SendError(r) \/ Retry(r)
  BY <1>0, <1>2, MoveOK DEF Enter, SendError, Retry, JarOK
<1>3. CASE Send(r)
  BY <1>3, SendOK
<1>4. ASSUME NEW s \in Statuses, NEW o \in Offers \cup {None}, Receive(r, s, o)
      PROVE  SessionIInv'
  <2>1. req[r].url \in Urls
    BY <1>4 DEF Receive, SessionIInv, RequestOK
  <2>2. jar' = jar \/ extractCookies(req[r].url, o)
    BY <1>4 DEF Receive
  <2>3. jar' \in Jars /\ JarOK'
    BY <1>0, <2>1, <2>2, SetOK DEF JarOK
  <2> QED
    BY <1>4, <2>3, MoveOK
<1>5. CASE Finish(r)
  <2>1. req[r].url \in Urls /\ req[r].offer \in Offers \cup {None}
    BY <1>5 DEF Finish, SessionIInv, RequestOK, TypeOK, RequestState
  <2>2. jar' \in Jars /\ JarOK'
    BY <1>0, <1>5, <2>1, SetOK DEF Finish
  <2> QED
    BY <1>0, <1>5, <2>2, ReturnOK DEF Finish
<1>6. ASSUME NEW u \in Urls, Redirect(r, u)
      PROVE  SessionIInv'
  <2>1. req[r].url \in Urls /\ req[r].offer \in Offers \cup {None}
    BY <1>6 DEF Redirect, SessionIInv, RequestOK, TypeOK, RequestState
  <2>2. jar' \in Jars /\ JarOK'
    BY <1>0, <1>6, <2>1, SetOK DEF Redirect
  <2> QED
    BY <1>6, <2>2, RedirectOK
<1>7. ASSUME NEW o \in Offers \cup {None}, StreamDone(r, o)
      PROVE  SessionIInv'
  <2>1. req[r].url \in Urls
    BY <1>7 DEF StreamDone, SessionIInv, RequestOK
  <2>2. jar' \in Jars /\ JarOK'
    BY <1>0, <1>7, <2>1, SetOK DEF StreamDone
  <2> QED
    BY <1>0, <1>7, <2>2, ReturnOK DEF StreamDone
<1> QED
  BY <1>1, <1>2, <1>3, <1>4, <1>5, <1>6, <1>7 DEF RequestStep

-----------------------------------------------------------------------------

\* The session's other methods change the jar and leave the requests alone.
LEMMA JarStepOK ==
  ASSUME SessionIInv,
         \/ \E c \in Manual : SetCookie(c)
         \/ \E n \in Names, d \in Domains : DeleteCookie(n, d)
         \/ \E k \in CookieKey : CookieExpires(k)
         \/ ClearCookies
  PROVE  SessionIInv'
<1>0. jar \in Jars /\ JarOK
  BY DEF SessionIInv, TypeOK
<1>1. UNCHANGED <<active, kept, req>>
  BY DEF SetCookie, DeleteCookie, CookieExpires, ClearCookies
<1>2. ASSUME NEW c \in Manual, SetCookie(c)
      PROVE  jar' \in Jars /\ JarOK'
  <2> DEFINE k == c.key
             v == [hostOnly |-> k.domain \in Hosts, secure |-> c.secure]
  <2>1. k \in CookieKey /\ c.secure \in BOOLEAN
    BY SessionAssumption
  <2>2. k.domain \in Domains
    BY <2>1 DEF CookieKey
  <2>3. v \in Cookie /\ (k.domain # Global => v.hostOnly = (k.domain \notin Sites))
    BY <2>1, <2>2, CookieAssumption DEF Cookie, Domains
  <2>4. jar' = [jar EXCEPT ![k] = v]
    BY <1>2 DEF SetCookie, SetSimple
  <2> HIDE DEF k, v
  <2> QED
    BY <1>0, <2>1, <2>3, <2>4 DEF Jars, JarOK
<1>3. ASSUME NEW n \in Names, NEW d \in Domains, DeleteCookie(n, d)
      PROVE  jar' \in Jars /\ JarOK'
  BY <1>0, <1>3 DEF DeleteCookie, Delete, Jars, JarOK
<1>4. ASSUME NEW k \in CookieKey, CookieExpires(k)
      PROVE  jar' \in Jars /\ JarOK'
  BY <1>0, <1>4 DEF CookieExpires, Jars, JarOK
<1>5. ASSUME ClearCookies
      PROVE  jar' \in Jars /\ JarOK'
  BY <1>5 DEF ClearCookies, EmptyJar, Jars, JarOK
<1> QED
  BY <1>1, <1>2, <1>3, <1>4, <1>5 DEF SessionIInv, TypeOK

LEMMA SaveAndLoadOK ==
  ASSUME SessionIInv, SaveAndLoad
  PROVE  SessionIInv'
<1>1. jar' \in Jars /\ JarOK'
  BY ImportExport DEF SessionIInv, TypeOK, SaveAndLoad, JarOK
<1>2. /\ active' \in BOOLEAN /\ req' = [r \in Requests |-> NoRequest]
      /\ kept' = [r \in Requests |-> None]
  BY DEF SaveAndLoad
<1>3. kept' \in [Requests -> (SUBSET Sendable) \cup {None}]
  BY <1>2
<1>4. req' \in [Requests -> RequestState] /\ \A r \in Requests : RequestOK(req'[r])
  BY <1>2, NoRequestOK
<1> QED
  BY <1>1, <1>2, <1>3, <1>4 DEF SessionIInv, TypeOK

LEMMA SessionStart == Init => SessionIInv
<1> SUFFICES ASSUME Init
             PROVE  SessionIInv
  OBVIOUS
<1>1. jar \in Jars /\ JarOK
  BY DEF Init, EmptyJar, Jars, JarOK
<1>2. kept \in [Requests -> (SUBSET Sendable) \cup {None}]
  BY DEF Init
<1>3. req \in [Requests -> RequestState] /\ \A r \in Requests : RequestOK(req[r])
  BY NoRequestOK DEF Init
<1> QED
  BY <1>1, <1>2, <1>3 DEF Init, SessionIInv, TypeOK

LEMMA SessionStep == SessionIInv /\ [Next]_vars => SessionIInv'
<1> SUFFICES ASSUME SessionIInv, [Next]_vars
             PROVE  SessionIInv'
  OBVIOUS
<1>1. ASSUME NEW r \in Requests, NEW u \in Urls, NEW a \in Calls,
             Request(r, u, a) \/ RequestStream(r, u, a)
      PROVE  SessionIInv'
  BY <1>1, BeginOK DEF Request, RequestStream
<1>2. CASE Close
  BY <1>2 DEF Close, SessionIInv, TypeOK, JarOK
<1>3. CASE UNCHANGED vars
  BY <1>3 DEF vars, SessionIInv, TypeOK, JarOK
<1> QED
  BY <1>1, <1>2, <1>3, RequestStepOK, JarStepOK, SaveAndLoadOK DEF Next

LEMMA SessionInductive == Spec => []SessionIInv
BY SessionStart, SessionStep, PTL DEF Spec

\* Attempts and hops keep to their limits, and a body never goes out under a
\* method the caller did not choose, however redirects and retries alternate.
THEOREM BodyStaysWithMethod == Spec => []SessionInv
BY SessionInductive, SessionSuffices, PTL

\* No cookie and no credentials reach a URL they were not meant for, whatever the
\* servers answer and however the shared jar changes meanwhile, but for cookies
\* in a headers map that the caller passes to a second call.
THEOREM SecretsStay == Spec => []SecretsConfined
BY SessionInductive, SessionSuffices, PTL

\* Save and LoadSession lose no cookie that has a domain, and send none elsewhere.
THEOREM SaveLoadFaithful == Spec => []SavedCookiesReturn
BY SessionInductive, SessionSuffices, PTL

-----------------------------------------------------------------------------
(* SessionLife                                                             *)

SessType ==
  [state: {"none", "active", "closed"}, managed: BOOLEAN, old: BOOLEAN, busy: BOOLEAN,
   config: ProxyConfig, uses: ProxyConfig]

LifeIInv == SessionsSound /\ IsFiniteSet(table)

Agree(r) == RoutesOf(r.config) = RoutesOf(r.uses)

LEMMA LifeInitOK == LifeInit => LifeIInv
<1> SUFFICES ASSUME LifeInit PROVE LifeIInv
  OBVIOUS
<1>1. Unborn \in SessType /\ Unborn.state = "none" /\ Unborn.config = Unborn.uses
  BY DEF Unborn, NewSess, SessType, ProxyConfig, Direct, ProxyUrls
<1>2. sess \in [Sessions -> SessType] /\ \A s \in Sessions : sess[s] = Unborn
  BY <1>1 DEF LifeInit
<1>3. table = {} /\ IsFiniteSet(table) /\ Cardinality(table) = 0
  BY FS_EmptySet DEF LifeInit
<1>4. LifeTypeOK
  BY <1>2, <1>3, SessionLifeAssumption DEF LifeInit, LifeTypeOK, SessType
<1>5. ForkLikeParent /\ RemovedClosed
  BY <1>1, <1>2 DEF ForkLikeParent, RemovedClosed, Active
<1> QED
  BY <1>3, <1>4, <1>5 DEF LifeIInv, SessionsSound

\* One session changes and the table does not lose it while it is active.
LEMMA OneSession ==
  ASSUME LifeIInv, NEW s \in Sessions, NEW r \in SessType, Agree(r),
         sess' = [sess EXCEPT ![s] = r],
         table' \in SUBSET Sessions, table \ {s} \subseteq table',
         IsFiniteSet(table'), Cardinality(table') <= MaxSessions,
         r.managed /\ r.state = "active" => s \in table',
         checked' \in Sessions \cup {NoSession}, UNCHANGED <<looping, shutdown>>
  PROVE  LifeIInv'
<1> USE DEF LifeIInv, SessionsSound, LifeTypeOK
<1>1. sess' \in [Sessions -> SessType] /\ sess'[s] = r /\ \A t \in Sessions \ {s} : sess'[t] = sess[t]
  BY DEF SessType
<1>2. LifeTypeOK'
  BY <1>1 DEF SessType
<1>3. ForkLikeParent'
  BY <1>1 DEF ForkLikeParent, Agree
<1>4. RemovedClosed'
  BY <1>1 DEF RemovedClosed, Active
<1> QED
  BY <1>2, <1>3, <1>4

\* The same where neither the table nor the cleanup moves.
LEMMA OneSessionOnly ==
  ASSUME LifeIInv, NEW s \in Sessions, NEW r \in SessType, Agree(r),
         sess' = [sess EXCEPT ![s] = r], UNCHANGED <<table, checked, looping, shutdown>>,
         r.managed /\ r.state = "active" => sess[s].managed /\ sess[s].state = "active"
  PROVE  LifeIInv'
<1>1. /\ table' \in SUBSET Sessions /\ table \ {s} \subseteq table' /\ IsFiniteSet(table')
      /\ Cardinality(table') <= MaxSessions /\ checked' \in Sessions \cup {NoSession}
  BY DEF LifeIInv, SessionsSound, LifeTypeOK
<1>2. r.managed /\ r.state = "active" => s \in table'
  BY DEF LifeIInv, SessionsSound, RemovedClosed, Active
<1> QED
  BY <1>1, <1>2, OneSession

\* An entry leaves the table with its session closed.
LEMMA EntryRemoved ==
  ASSUME LifeIInv, NEW s \in Sessions, sess' = [sess EXCEPT ![s].state = "closed"],
         table' = table \ {s}, checked' \in Sessions \cup {NoSession}, UNCHANGED <<looping, shutdown>>
  PROVE  LifeIInv'
<1> DEFINE r == [sess[s] EXCEPT !.state = "closed"]
<1>1. r \in SessType /\ r.state = "closed" /\ Agree(r)
  BY DEF SessType, Agree, LifeIInv, SessionsSound, LifeTypeOK, ForkLikeParent
<1>2. sess' = [sess EXCEPT ![s] = r]
  OBVIOUS
<1> HIDE DEF r
<1>3. IsFiniteSet(table) /\ table' \in SUBSET table /\ table \subseteq Sessions
  BY DEF LifeIInv, SessionsSound, LifeTypeOK
<1>4. IsFiniteSet(table') /\ Cardinality(table') <= Cardinality(table)
  BY <1>3, FS_Subset
<1>5. Cardinality(table) \in Nat /\ Cardinality(table') \in Nat /\ Cardinality(table) <= MaxSessions
  BY <1>3, <1>4, FS_CardinalityType DEF LifeIInv, SessionsSound, LifeTypeOK
<1>6. Cardinality(table') <= MaxSessions
  BY <1>4, <1>5, SessionLifeAssumption
<1> QED
  BY <1>1, <1>2, <1>3, <1>4, <1>6, OneSession

LEMMA LifeStep == LifeIInv /\ [LifeNext]_lifeVars => LifeIInv'
<1> SUFFICES ASSUME LifeIInv, [LifeNext]_lifeVars
             PROVE  LifeIInv'
  OBVIOUS
<1>1. /\ sess \in [Sessions -> SessType] /\ table \in SUBSET Sessions
      /\ checked \in Sessions \cup {NoSession} /\ IsFiniteSet(table)
      /\ \A s \in Sessions : Agree(sess[s])
  BY DEF LifeIInv, SessionsSound, LifeTypeOK, SessType, ForkLikeParent, Agree
<1>2. Cardinality(table) \in Nat /\ Cardinality(table) <= MaxSessions
  BY <1>1, FS_CardinalityType DEF LifeIInv, SessionsSound, LifeTypeOK
<1>3. CASE UNCHANGED lifeVars
  BY <1>3 DEF lifeVars, LifeIInv, SessionsSound, LifeTypeOK, ForkLikeParent, RemovedClosed, Active
<1>4. CASE CleanupClose
  BY <1>1, <1>4, EntryRemoved DEF CleanupClose
<1>5. CASE CleanupLoopEnds \/ ShutdownSignals
  BY <1>5 DEF CleanupLoopEnds, ShutdownSignals, LifeIInv, SessionsSound, LifeTypeOK, ForkLikeParent,
              RemovedClosed, Active
<1>6. CASE ShutdownCloses
  <2>1. \A s \in Sessions :
          /\ sess'[s] \in SessType /\ Agree(sess'[s]) /\ sess'[s].managed = sess[s].managed
          /\ sess'[s].state = IF s \in table THEN "closed" ELSE sess[s].state
    BY <1>1, <1>6 DEF ShutdownCloses, SessType, Agree
  <2>2. sess' \in [Sessions -> SessType]
    BY <1>6, <2>1 DEF ShutdownCloses
  <2>3. table' = {} /\ IsFiniteSet(table') /\ Cardinality(table') = 0
    BY <1>6, FS_EmptySet DEF ShutdownCloses
  <2>4. LifeTypeOK'
    BY <1>6, <2>2, <2>3, SessionLifeAssumption
    DEF ShutdownCloses, LifeTypeOK, SessType, LifeIInv, SessionsSound
  <2>5. RemovedClosed'
    BY <2>1 DEF RemovedClosed, Active, LifeIInv, SessionsSound
  <2>6. ForkLikeParent'
    BY <2>1 DEF ForkLikeParent, Agree
  <2> QED
    BY <2>3, <2>4, <2>5, <2>6 DEF LifeIInv, SessionsSound
<1>7. ASSUME NEW s \in Sessions, CloseSession(s) PROVE LifeIInv'
  BY <1>1, <1>7, EntryRemoved DEF CloseSession
<1>8. ASSUME NEW s \in Sessions, CleanupCheck(s) PROVE LifeIInv'
  BY <1>8 DEF CleanupCheck, LifeIInv, SessionsSound, LifeTypeOK, ForkLikeParent, RemovedClosed, Active
<1>9. ASSUME NEW s \in Sessions, NEW r \in SessType, sess' = [sess EXCEPT ![s] = r],
             UNCHANGED <<table, checked, looping, shutdown>>,
             r.managed = sess[s].managed, r.state \in {sess[s].state, "closed"}, Agree(r)
      PROVE  LifeIInv'
  BY <1>9, OneSessionOnly
<1>10. ASSUME NEW s \in Sessions, RequestBegins(s) \/ RequestEnds(s) \/ SessionCloses(s) \/ GrowsOld(s)
       PROVE  LifeIInv'
  <2>1. \E r \in SessType :
           /\ sess' = [sess EXCEPT ![s] = r] /\ Agree(r)
           /\ r.managed = sess[s].managed /\ r.state \in {sess[s].state, "closed"}
    <3>1. CASE RequestBegins(s)
      <4> [sess[s] EXCEPT !.busy = TRUE, !.old = FALSE] \in SessType
        BY <1>1 DEF SessType
      <4> WITNESS [sess[s] EXCEPT !.busy = TRUE, !.old = FALSE] \in SessType
      <4> QED
        BY <1>1, <3>1 DEF RequestBegins, SessType, Agree
    <3>2. CASE RequestEnds(s)
      <4> [sess[s] EXCEPT !.busy = FALSE] \in SessType
        BY <1>1 DEF SessType
      <4> WITNESS [sess[s] EXCEPT !.busy = FALSE] \in SessType
      <4> QED
        BY <1>1, <3>2 DEF RequestEnds, SessType, Agree
    <3>3. CASE SessionCloses(s)
      <4> [sess[s] EXCEPT !.state = "closed"] \in SessType
        BY <1>1 DEF SessType
      <4> WITNESS [sess[s] EXCEPT !.state = "closed"] \in SessType
      <4> QED
        BY <1>1, <3>3 DEF SessionCloses, SessType, Agree
    <3>4. CASE GrowsOld(s)
      <4> [sess[s] EXCEPT !.old = TRUE] \in SessType
        BY <1>1 DEF SessType
      <4> WITNESS [sess[s] EXCEPT !.old = TRUE] \in SessType
      <4> QED
        BY <1>1, <3>4 DEF GrowsOld, SessType, Agree
    <3> QED
      BY <1>10, <3>1, <3>2, <3>3, <3>4
  <2>2. UNCHANGED <<table, checked, looping, shutdown>>
    BY <1>10 DEF RequestBegins, RequestEnds, SessionCloses, GrowsOld
  <2> QED
    BY <1>9, <2>1, <2>2
<1>11. ASSUME NEW s \in Sessions, NEW uses \in ProxyConfig, NEW config \in ProxyConfig,
              SetProxies(s, uses, config), RoutesOf(uses) = RoutesOf(config)
       PROVE  LifeIInv'
  <2> DEFINE r == [sess[s] EXCEPT !.uses = uses, !.config = config]
  <2>1. /\ r \in SessType /\ r.managed = sess[s].managed /\ r.state = sess[s].state
        /\ r.uses = uses /\ r.config = config
    BY <1>1 DEF SessType
  <2>2. sess' = [sess EXCEPT ![s] = r] /\ UNCHANGED <<table, checked, looping, shutdown>>
    BY <1>1, <1>11 DEF SetProxies, SessType
  <2> HIDE DEF r
  <2> QED
    BY <1>9, <1>11, <2>1, <2>2 DEF Agree
<1>12. ASSUME NEW s \in Sessions, NEW u \in ProxyUrls, SetProxy(s, u) \/ SetTCPProxy(s, u) \/ SetUDPProxy(s, u)
       PROVE  LifeIInv'
  <2> DEFINE c == sess[s].config
             both == [Direct EXCEPT !.proxy = u]
             tUses == [Direct EXCEPT !.tcp = u, !.udp = c.udp]
             tConf == [c EXCEPT !.tcp = u, !.proxy = NoProxy]
             uUses == [Direct EXCEPT !.tcp = c.tcp, !.udp = u]
             uConf == [c EXCEPT !.udp = u, !.proxy = NoProxy]
  <2>1. c \in ProxyConfig /\ Direct \in ProxyConfig
    BY <1>1 DEF SessType, ProxyConfig, Direct, ProxyUrls
  <2>2. /\ both \in ProxyConfig /\ tUses \in ProxyConfig /\ tConf \in ProxyConfig
        /\ uUses \in ProxyConfig /\ uConf \in ProxyConfig
    BY <2>1 DEF ProxyConfig, ProxyUrls
  <2>3. RoutesOf(tUses) = RoutesOf(tConf)
    BY <2>1 DEF RoutesOf, Direct, ProxyConfig
  <2>4. RoutesOf(uUses) = RoutesOf(uConf)
    BY <2>1 DEF RoutesOf, Direct, ProxyConfig
  <2>5. \/ SetProxies(s, both, both) \/ SetProxies(s, tUses, tConf) \/ SetProxies(s, uUses, uConf)
    BY <1>12 DEF SetProxy, SetTCPProxy, SetUDPProxy
  <2> HIDE DEF both, tUses, tConf, uUses, uConf
  <2> QED
    BY <1>11, <2>2, <2>3, <2>4, <2>5
<1>13. ASSUME NEW config \in ProxyConfig, NEW managed \in BOOLEAN
       PROVE  /\ NewSess(config, managed) \in SessType /\ Agree(NewSess(config, managed))
              /\ NewSess(config, managed).managed = managed
  BY DEF NewSess, SessType, Agree
<1>14. ASSUME NEW s \in Sessions, NEW f \in Sessions, Fork(s, f) PROVE LifeIInv'
  <2>1. sess[s].config \in ProxyConfig
    BY <1>1 DEF SessType
  <2> DEFINE r == NewSess(sess[s].config, FALSE)
  <2>2. r \in SessType /\ Agree(r) /\ r.managed = FALSE
    BY <1>13, <2>1
  <2>3. sess' = [sess EXCEPT ![f] = r] /\ UNCHANGED <<table, checked, looping, shutdown>>
    BY <1>14 DEF Fork
  <2> HIDE DEF r
  <2> QED
    BY <2>2, <2>3, OneSessionOnly
<1>15. ASSUME NEW s \in Sessions, NEW config \in ProxyConfig, CreateSession(s, config) PROVE LifeIInv'
  <2> DEFINE r == NewSess(config, TRUE)
  <2>1. r \in SessType /\ Agree(r)
    BY <1>13
  <2>2. /\ sess' = [sess EXCEPT ![s] = r] /\ table' = table \cup {s}
        /\ Cardinality(table) < MaxSessions /\ UNCHANGED <<checked, looping, shutdown>>
    BY <1>15 DEF CreateSession
  <2> HIDE DEF r
  <2>3. /\ IsFiniteSet(table \cup {s})
        /\ Cardinality(table \cup {s}) = Cardinality(table) \/ Cardinality(table \cup {s}) = Cardinality(table) + 1
    BY <1>1, FS_AddElement
  <2>4. Cardinality(table') <= MaxSessions
    BY <1>2, <2>2, <2>3, SessionLifeAssumption
  <2> QED
    BY <1>1, <2>1, <2>2, <2>3, <2>4, OneSession
<1> QED
  BY <1>3, <1>4, <1>5, <1>6, <1>7, <1>8, <1>10, <1>12, <1>14, <1>15 DEF LifeNext

\* Through every sequence of creations, requests, setters, forks, cleanups and a
\* shutdown: the manager never exceeds maxSessions, a fork made now takes the
\* routes of its parent, and what left the table is closed.
THEOREM SessionsStaySound == LifeSpec => []SessionsSound
<1>1. LifeIInv => SessionsSound
  BY DEF LifeIInv
<1> QED
  BY <1>1, LifeInitOK, LifeStep, PTL DEF LifeSpec

-----------------------------------------------------------------------------
(* Warmup                                                                  *)

\* The greatest element of a set of naturals that has a bound.
LEMMA GreatestNat ==
  ASSUME NEW n \in Nat, NEW T \in SUBSET (1 .. n), T # {}
  PROVE  \E m \in T : \A i \in T : i <= m
<1> DEFINE D == {x \in Nat : \E i \in T : x = n - i}
<1>1. D \in SUBSET Nat /\ D # {}
  <2>1. PICK i \in T : TRUE
    OBVIOUS
  <2>2. n - i \in D
    BY <2>1
  <2> QED
    BY <2>2
<1>2. PICK x \in D : \A y \in D : x <= y
  <2> HIDE DEF D
  <2> QED
    BY <1>1, LeastNat
<1>3. PICK m \in T : x = n - m
  BY <1>2
<1>4. ASSUME NEW i \in T
      PROVE  i <= m
  <2>1. n - i \in D
    BY <1>4
  <2>2. x <= n - i
    BY <1>2, <2>1
  <2>3. i \in Nat /\ m \in Nat
    OBVIOUS
  <2> QED
    BY <1>3, <2>2, <2>3
<1> QED
  BY <1>4

\* What parseSubresources returns: within the limit, every URL once, and
\* nothing but resources.
LEMMA ParseFacts ==
  ASSUME NEW page \in Pages
  PROVE  LET r == ParseSubresources(page) IN
         /\ Len(r) \in Nat /\ Len(r) <= MaxSubresources
         /\ \A i \in 1 .. Len(r) : r[i].typ \in ResourceTypes
         /\ \A i, j \in 1 .. Len(r) : r[i].url = r[j].url => i = j
<1> DEFINE n == Len(page)
           F == FirstTags(page, n)
           K == {i \in F : Cardinality(FirstTags(page, i - 1)) < MaxSubresources}
           id == [i \in 1 .. n |-> i]
           picked == FilterSeq(id, K)
           L == Len(picked)
           r == [k \in 1 .. L |-> page[picked[k]]]
<1>0. n \in Nat /\ MaxSubresources \in Nat
  BY WarmupAssumption
<1>1. ParseSubresources(page) = r
  BY DEF ParseSubresources
<1>2. id \in Seq(Nat) /\ Len(id) = n /\ \A i \in 1 .. n : id[i] = i
  BY <1>0
<1>3. IsInjective(id)
  BY <1>2 DEF IsInjective
<1>4. K \in SUBSET (1 .. n) /\ F \in SUBSET (1 .. n)
  BY DEF FirstTags
<1>5. ToSet(id) = 1 .. n
  BY <1>0, <1>2 DEF ToSet
<1> HIDE DEF n, K, id
<1>6. picked \in Seq(Nat) /\ IsInjective(picked) /\ ToSet(picked) = ToSet(id) \cap K
  BY <1>2, <1>3, FilterFacts
<1> HIDE DEF picked
<1>7. L \in Nat /\ DOMAIN picked = 1 .. L /\ \A k \in 1 .. L : picked[k] \in K
  <2>1. L \in Nat /\ DOMAIN picked = 1 .. L
    BY <1>6
  <2>2. \A k \in 1 .. L : picked[k] \in ToSet(picked)
    BY <2>1 DEF ToSet
  <2> QED
    BY <1>6, <2>1, <2>2
<1>8. IsFiniteSet(K) /\ Cardinality(K) \in Nat /\ Cardinality(K) <= MaxSubresources
  <2>1. IsFiniteSet(1 .. n)
    BY <1>0, FS_Interval
  <2>2. IsFiniteSet(K)
    BY <1>4, <2>1, FS_Subset
  <2>3. Cardinality(K) \in Nat
    BY <2>2, FS_CardinalityType
  <2>4. CASE K = {}
    BY <1>0, <2>2, <2>3, <2>4, FS_EmptySet
  <2>5. CASE K # {}
    <3>1. PICK m \in K : \A i \in K : i <= m
      BY <1>0, <1>4, <2>5, GreatestNat
    <3> DEFINE B == FirstTags(page, m - 1)
    <3>2. m \in 1 .. n /\ m \in Nat
      BY <1>0, <1>4, <3>1
    <3>3. Cardinality(B) < MaxSubresources
      BY <3>1 DEF K
    <3>4. B \in SUBSET (1 .. n)
      BY <1>0, <3>2 DEF FirstTags
    <3>5. IsFiniteSet(B)
      BY <2>1, <3>4, FS_Subset
    <3>6. K \ {m} \in SUBSET B
      <4> SUFFICES ASSUME NEW i \in K, i # m PROVE i \in B
        OBVIOUS
      <4>1. i <= m /\ i \in 1 .. n
        BY <1>4, <3>1
      <4>2. i \in 1 .. m - 1
        BY <1>0, <3>2, <4>1
      <4>3. i \in FirstTags(page, n)
        BY DEF K
      <4> QED
        BY <4>2, <4>3 DEF FirstTags
    <3> HIDE DEF B
    <3>7. Cardinality(K \ {m}) <= Cardinality(B)
      BY <3>5, <3>6, FS_Subset
    <3>8. Cardinality(K \ {m}) = Cardinality(K) - 1
      <4>1. \A S : IsFiniteSet(S) /\ m \in S => Cardinality(S \ {m}) = Cardinality(S) - 1
        BY FS_RemoveElement
      <4> QED
        BY <2>2, <3>1, <4>1
    <3>9. Cardinality(B) \in Nat
      BY <3>5, FS_CardinalityType
    <3> QED
      BY <1>0, <2>2, <2>3, <3>3, <3>7, <3>8, <3>9
  <2> QED
    BY <2>4, <2>5
<1>9. L <= Cardinality(K)
  <2>1. picked \in [1 .. L -> K]
    BY <1>6, <1>7
  <2>2. IsFiniteSet(1 .. L) /\ Cardinality(1 .. L) = L
    BY <1>7, FS_Interval
  <2>3. \A x, y \in 1 .. L : picked[x] = picked[y] => x = y
    BY <1>6, <1>7 DEF IsInjective
  <2> SUFFICES ASSUME Cardinality(K) < L PROVE FALSE
    BY <1>7, <1>8
  <2>4. Cardinality(K) < Cardinality(1 .. L)
    BY <2>2
  <2>5. \E x, y \in 1 .. L : x # y /\ picked[x] = picked[y]
    BY <1>8, <2>1, <2>2, <2>4, FS_PigeonHole
  <2> QED
    BY <2>3, <2>5
<1>10. \A i \in K : page[i].typ \in ResourceTypes
  <2> SUFFICES ASSUME NEW i \in K PROVE page[i].typ \in ResourceTypes
    OBVIOUS
  <2>1. i \in 1 .. Len(page) /\ page[i].typ # "none"
    BY DEF K, FirstTags, n
  <2> QED
    BY <2>1, WarmupAssumption
<1>11. \A i, j \in K : page[i].url = page[j].url => ~(i < j)
  <2> SUFFICES ASSUME NEW i \in K, NEW j \in K, page[i].url = page[j].url, i < j PROVE FALSE
    OBVIOUS
  <2>1. page[i].typ # "none" /\ i \in 1 .. n /\ j \in 1 .. n
    BY DEF K, FirstTags
  <2>2. \A l \in 1 .. j - 1 : page[l].url = page[j].url => page[l].typ = "none"
    BY DEF K, FirstTags
  <2>3. i \in 1 .. j - 1
    BY <1>0, <2>1
  <2> QED
    BY <2>1, <2>2, <2>3
<1>12. Len(r) = L /\ \A k \in 1 .. L : r[k] = page[picked[k]]
  BY <1>7
<1> HIDE DEF r, L
<1>13. \A i, j \in 1 .. L : r[i].url = r[j].url => i = j
  <2> SUFFICES ASSUME NEW i \in 1 .. L, NEW j \in 1 .. L, r[i].url = r[j].url PROVE i = j
    OBVIOUS
  <2>1. picked[i] \in K /\ picked[j] \in K /\ page[picked[i]].url = page[picked[j]].url
    BY <1>7, <1>12
  <2>2. ~(picked[i] < picked[j]) /\ ~(picked[j] < picked[i])
    BY <1>11, <2>1
  <2>3. picked[i] \in Nat /\ picked[j] \in Nat
    <3>1. \A x \in 1 .. n : x \in Nat
      BY <1>0
    <3> QED
      BY <1>4, <2>1, <3>1
  <2>4. picked[i] = picked[j]
    BY <2>2, <2>3
  <2> QED
    BY <1>6, <1>7, <2>4 DEF IsInjective
<1>14. \A k \in 1 .. L : r[k].typ \in ResourceTypes
  BY <1>7, <1>10, <1>12
<1>15. L <= MaxSubresources
  BY <1>0, <1>7, <1>8, <1>9
<1> QED
  BY <1>1, <1>7, <1>12, <1>13, <1>14, <1>15

LEMMA WaveFacts == \A t \in ResourceTypes : WaveOf(t) \in Waves
BY DEF ResourceTypes, WaveOf, Waves

\* Beyond what the run checks: where the goroutines and the resources of the
\* batch in hand are at each place in Warmup's loop.
WarmIInv ==
  /\ warm \in {"page", "wave", "delay", "fetch", "wait", "end"}
  /\ wave \in 1 .. 4 /\ (warm \in {"delay", "fetch", "wait"} => wave \in Waves)
  /\ Len(resources) \in Nat /\ Len(resources) <= MaxSubresources
  /\ \A i \in 1 .. Len(resources) : resources[i].typ \in ResourceTypes
  /\ \A i, j \in 1 .. Len(resources) : resources[i].url = resources[j].url => i = j
  /\ fetching \cup fetched \cup queued \subseteq 1 .. Len(resources)
  /\ Cardinality(fetching) <= ConcurrencyLimit
  /\ cancelled \in BOOLEAN
  /\ warm = "page" => wave = 1 /\ fetching = {} /\ fetched = {} /\ queued = {}
  /\ ~cancelled =>
       /\ fetching \subseteq Batch(wave)
       /\ warm \notin {"fetch", "wait"} => fetching = {}
       /\ warm \in {"delay", "fetch"} =>
            queued \subseteq Batch(wave) /\ Batch(wave) \subseteq queued \cup fetching \cup fetched
       /\ warm = "wait" => Batch(wave) \subseteq fetching \cup fetched
       /\ \A i \in 1 .. Len(resources) : WaveOf(resources[i].typ) < wave => i \in fetched

LEMMA WarmIInvInit == WarmInit => WarmIInv
<1> SUFFICES ASSUME WarmInit PROVE WarmIInv
  OBVIOUS
<1>1. Len(resources) = 0 /\ 1 .. Len(resources) = {}
  BY DEF WarmInit
<1>2. Cardinality(fetching) = 0
  BY FS_EmptySet DEF WarmInit
<1>3. 0 \in Nat /\ 0 <= MaxSubresources /\ 0 <= ConcurrencyLimit
  BY WarmupAssumption
<1>4. /\ warm = "page" /\ wave = 1 /\ fetching = {} /\ fetched = {} /\ queued = {}
      /\ cancelled = FALSE
  BY DEF WarmInit
<1>5. wave \in 1 .. 4 /\ Len(resources) \in Nat /\ Len(resources) <= MaxSubresources
      /\ Cardinality(fetching) <= ConcurrencyLimit
  BY <1>1, <1>2, <1>3, <1>4
<1>6. Batch(wave) = {}
  BY <1>1, Zenon DEF Batch
<1> QED
  BY <1>1, <1>4, <1>5, <1>6 DEF WarmIInv

\* The goroutines are finitely many.
LEMMA FetchingFinite ==
  ASSUME WarmIInv
  PROVE  IsFiniteSet(fetching) /\ Cardinality(fetching) \in Nat
<1>1. IsFiniteSet(1 .. Len(resources))
  BY FS_Interval DEF WarmIInv
<1>2. fetching \in SUBSET (1 .. Len(resources))
  BY DEF WarmIInv
<1>3. IsFiniteSet(fetching)
  BY <1>1, <1>2, FS_Subset
<1> QED
  BY <1>3, FS_CardinalityType

LEMMA WarmIInvStep == WarmIInv /\ [WarmNext]_warmVars => WarmIInv'
<1> SUFFICES ASSUME WarmIInv, [WarmNext]_warmVars PROVE WarmIInv'
  OBVIOUS
<1> DEFINE n == Len(resources)
<1>0. ConcurrencyLimit \in Nat \ {0} /\ n \in Nat
  BY WarmupAssumption DEF WarmIInv
<1>1. CASE UNCHANGED warmVars
  BY <1>1 DEF warmVars, WarmIInv, Batch
<1>2. CASE NoPage
  BY <1>2 DEF NoPage, WarmIInv, Batch
<1>3. ASSUME NEW page \in Pages, Page(page)
      PROVE  WarmIInv'
  <2>1. /\ Len(resources') \in Nat /\ Len(resources') <= MaxSubresources
        /\ \A i \in 1 .. Len(resources') : resources'[i].typ \in ResourceTypes
        /\ \A i, j \in 1 .. Len(resources') : resources'[i].url = resources'[j].url => i = j
    <3>1. resources' = ParseSubresources(page)
      BY <1>3 DEF Page
    <3> QED
      BY <3>1, ParseFacts
  <2>2. warm' = "wave" /\ wave' = 1 /\ fetching' = {} /\ fetched' = {} /\ queued' = {}
        /\ cancelled' = cancelled
    BY <1>3 DEF Page, WarmIInv
  <2>3. \A i \in 1 .. Len(resources') : ~(WaveOf(resources'[i].typ) < wave')
    BY <2>1, <2>2, WaveFacts DEF Waves
  <2>4. Cardinality(fetching') <= ConcurrencyLimit
    BY <1>3 DEF Page, WarmIInv
  <2> QED
    BY <2>1, <2>2, <2>3, <2>4 DEF WarmIInv, Waves
<1>4. CASE NextWave
  <2>1. warm = "wave" /\ UNCHANGED <<resources, fetching, fetched, cancelled>>
    BY <1>4 DEF NextWave
  <2>2. CASE wave \notin Waves
    <3>1. warm' = "end" /\ UNCHANGED <<wave, queued>>
      BY <1>4, <2>2 DEF NextWave
    <3> QED
      BY <2>1, <3>1 DEF WarmIInv, Batch
  <2>3. CASE wave \in Waves /\ Batch(wave) = {}
    <3>1. wave' = wave + 1 /\ UNCHANGED <<warm, queued>>
      BY <1>4, <2>3 DEF NextWave
    <3>2. wave' \in 1 .. 4
      BY <2>3, <3>1 DEF Waves
    <3>3. \A i \in 1 .. n : WaveOf(resources[i].typ) < wave' => WaveOf(resources[i].typ) < wave
      <4> SUFFICES ASSUME NEW i \in 1 .. n, WaveOf(resources[i].typ) < wave'
                   PROVE  WaveOf(resources[i].typ) < wave
        OBVIOUS
      <4>1. WaveOf(resources[i].typ) # wave
        BY <2>3 DEF Batch
      <4>2. WaveOf(resources[i].typ) \in Waves
        BY WaveFacts DEF WarmIInv
      <4> QED
        BY <2>3, <3>1, <4>1, <4>2 DEF Waves
    <3>4. ~cancelled => fetching = {}
      BY <2>1 DEF WarmIInv
    <3> QED
      BY <2>1, <3>1, <3>2, <3>3, <3>4 DEF WarmIInv
  <2>4. CASE wave \in Waves /\ Batch(wave) # {}
    <3>1. /\ warm' = IF cancelled THEN "end" ELSE IF wave > 1 THEN "delay" ELSE "fetch"
          /\ queued' = Batch(wave) /\ UNCHANGED wave
      BY <1>4, <2>4 DEF NextWave
    <3>2. Batch(wave)' = Batch(wave) /\ Batch(wave) \subseteq 1 .. n
      BY <2>1, <3>1 DEF Batch
    <3>3. cancelled \in BOOLEAN
      BY DEF WarmIInv
    <3>4. CASE cancelled
      BY <2>1, <3>1, <3>2, <3>4 DEF WarmIInv
    <3>5. CASE ~cancelled
      <4>1. warm' \in {"delay", "fetch"} /\ fetching = {}
        BY <2>1, <3>1, <3>5 DEF WarmIInv
      <4> QED
        BY <2>1, <2>4, <3>1, <3>2, <3>5, <4>1 DEF WarmIInv
    <3> QED
      BY <3>4, <3>5
  <2> QED
    BY <2>2, <2>3, <2>4
<1>5. CASE DelayOver
  BY <1>5 DEF DelayOver, WarmIInv, Batch
<1>6. CASE DelayCancelled
  BY <1>6 DEF DelayCancelled, WarmIInv, Batch
<1>7. CASE FetchNext
  <2> DEFINE i == CHOOSE i \in queued : \A j \in queued : i <= j
  <2>1. /\ warm = "fetch" /\ queued # {} /\ ~cancelled
        /\ Cardinality(fetching) < ConcurrencyLimit
        /\ fetching' = fetching \cup {i} /\ queued' = queued \ {i}
        /\ UNCHANGED <<warm, resources, wave, fetched, cancelled>>
    BY <1>7 DEF FetchNext
  <2>2. i \in queued
    <3>1. queued \in SUBSET Nat
      BY <1>0 DEF WarmIInv
    <3>2. \E x \in queued : \A j \in queued : x <= j
      BY <2>1, <3>1, LeastNat
    <3> QED
      BY <3>2
  <2> HIDE DEF i
  <2>3. Cardinality(fetching') <= ConcurrencyLimit
    <3>1. \A S : IsFiniteSet(S) =>
            Cardinality(S \cup {i}) = IF i \in S THEN Cardinality(S) ELSE Cardinality(S) + 1
      BY FS_AddElement
    <3>2. Cardinality(fetching \cup {i}) = Cardinality(fetching)
          \/ Cardinality(fetching \cup {i}) = Cardinality(fetching) + 1
      BY <3>1, FetchingFinite
    <3> QED
      BY <1>0, <2>1, <3>2, FetchingFinite
  <2>4. Batch(wave)' = Batch(wave)
    BY <2>1 DEF Batch
  <2>5. queued \subseteq Batch(wave) /\ Batch(wave) \subseteq queued \cup fetching \cup fetched
        /\ fetching \subseteq Batch(wave)
    BY <2>1 DEF WarmIInv
  <2>6. /\ fetching' \subseteq Batch(wave) /\ queued' \subseteq Batch(wave)
        /\ Batch(wave) \subseteq queued' \cup fetching' \cup fetched
        /\ fetching' \cup fetched \cup queued' \subseteq 1 .. n
    <3>1. fetching \cup fetched \cup queued \subseteq 1 .. n
      BY DEF WarmIInv
    <3> QED
      BY <2>1, <2>2, <2>5, <3>1
  <2> QED
    BY <2>1, <2>3, <2>4, <2>6 DEF WarmIInv
<1>8. CASE FetchLoopEnds
  <2>1. /\ warm = "fetch" /\ (queued = {} \/ cancelled) /\ warm' = "wait" /\ queued' = {}
        /\ UNCHANGED <<resources, wave, fetching, fetched, cancelled>>
    BY <1>8 DEF FetchLoopEnds
  <2>2. Batch(wave)' = Batch(wave)
    BY <2>1 DEF Batch
  <2> QED
    BY <2>1, <2>2 DEF WarmIInv
<1>9. CASE BatchOver
  <2>1. /\ warm = "wait" /\ (fetching = {} \/ cancelled) /\ warm' = "wave" /\ wave' = wave + 1
        /\ UNCHANGED <<resources, fetching, fetched, queued, cancelled>>
    BY <1>9 DEF BatchOver, BatchDone
  <2>2. wave \in Waves /\ wave' \in 1 .. 4
    BY <2>1 DEF WarmIInv, Waves
  <2>3. ASSUME ~cancelled, NEW i \in 1 .. n, WaveOf(resources[i].typ) < wave'
        PROVE  i \in fetched
    <3>1. WaveOf(resources[i].typ) \in Waves
      BY WaveFacts DEF WarmIInv
    <3>2. CASE WaveOf(resources[i].typ) < wave
      BY <2>3, <3>2 DEF WarmIInv
    <3>3. CASE WaveOf(resources[i].typ) = wave
      <4>1. i \in Batch(wave)
        BY <3>3 DEF Batch
      <4> QED
        BY <2>1, <2>3, <4>1 DEF WarmIInv
    <3> QED
      BY <2>1, <2>2, <2>3, <3>1, <3>2, <3>3 DEF Waves
  <2> QED
    BY <2>1, <2>2, <2>3 DEF WarmIInv
<1>10. CASE CancelWarmup
  BY <1>10 DEF CancelWarmup, WarmIInv
<1>11. ASSUME NEW i \in fetching, Fetched(i)
       PROVE  WarmIInv'
  <2>1. /\ fetching' = fetching \ {i} /\ fetched' = fetched \cup {i}
        /\ UNCHANGED <<warm, resources, wave, queued, cancelled>>
    BY <1>11 DEF Fetched
  <2>2. Batch(wave)' = Batch(wave)
    BY <2>1 DEF Batch
  <2>3. Cardinality(fetching') <= ConcurrencyLimit
    <3>1. \A S : IsFiniteSet(S) /\ i \in S => Cardinality(S \ {i}) = Cardinality(S) - 1
      BY FS_RemoveElement
    <3>2. Cardinality(fetching \ {i}) = Cardinality(fetching) - 1
      BY <1>11, <3>1, FetchingFinite
    <3>3. Cardinality(fetching) <= ConcurrencyLimit
      BY DEF WarmIInv
    <3> QED
      BY <1>0, <2>1, <3>2, <3>3, FetchingFinite
  <2>4. fetching' \cup fetched' = fetching \cup fetched /\ fetched \subseteq fetched'
        /\ fetching' \subseteq fetching
    BY <1>11, <2>1
  <2> QED
    BY <2>1, <2>2, <2>3, <2>4 DEF WarmIInv
<1> QED
  BY <1>1, <1>2, <1>3, <1>4, <1>5, <1>6, <1>7, <1>8, <1>9, <1>10, <1>11 DEF WarmNext

\* For any page and any limits, Warmup fetches every resource of a page once,
\* batch after batch: never more than concurrencyLimit at a time, and none of
\* a batch before the batches in front of it are over, unless it is cancelled.
THEOREM WarmupKeepsOrder == WarmSpec => []WavesInOrder
<1>1. WarmIInv => WavesInOrder
  <2> SUFFICES ASSUME WarmIInv PROVE WavesInOrder
    OBVIOUS
  <2>1. WarmTypeOK
    BY DEF WarmIInv, WarmTypeOK
  <2> QED
    BY <2>1 DEF WarmIInv, WavesInOrder
<1> QED
  BY <1>1, WarmIInvInit, WarmIInvStep, PTL DEF WarmSpec
=============================================================================
