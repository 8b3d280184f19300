------------------------------ MODULE Session ------------------------------
(***************************************************************************)
(* Session.requestWithRedirects and RequestStream (src/session/session.go) *)
(* on the cookie jar that a session shares with its forks and with every   *)
(* goroutine that uses it, Save and LoadSession.                           *)
(*                                                                         *)
(* A request enters under s.mu, then loops: build the Cookie header from   *)
(* the jar, transport.Do, with retries enabled take the cookies of the     *)
(* response, back off; after the loop take its cookies (again) and follow  *)
(* a redirect by entering anew.  Of the headers the model keeps the cookies*)
(* and the credentials; validators (If-None-Match) and client hints are    *)
(* left out.  What the server answers is arbitrary.                        *)
(*                                                                         *)
(* The Headers of a call are the caller's own map (Session.Do passes it on *)
(* as it is), and the session writes its Cookie header into it: a caller   *)
(* that passes the map again passes the cookies of the earlier call.  A    *)
(* redirect has a map of its own.                                          *)
(***************************************************************************)
EXTENDS CookieJar, FiniteSets

CONSTANTS
  Requests,     \* goroutines in Request or RequestStream
  Urls,         \* the URLs requested or redirected to
  Methods,      \* "GET", "POST" and others that are not rewritten
  Calls,        \* the kinds of requests that callers make
  Offers,       \* the Set-Cookie lines servers send
  Manual,       \* the cookies that SetCookie is called with
  MaxRetries,   \* Config.MaxRetries, 0 when retries are off
  MaxRedirects, \* Config.MaxRedirects
  Own           \* the content of a Cookie header the caller supplies

ASSUME SessionAssumption ==
  /\ Urls \subseteq Url
  /\ {"GET", "POST"} \subseteq Methods
  /\ Calls \subseteq [method: Methods, body: BOOLEAN, auth: BOOLEAN, own: BOOLEAN,
                      keeps: BOOLEAN, again: BOOLEAN]
  /\ Offers \subseteq [name: Names, domain: Sites \cup {None}, path: Paths,
                       secure: BOOLEAN, expired: BOOLEAN]
  /\ Manual \subseteq [key: CookieKey, secure: BOOLEAN]
  /\ MaxRetries \in Nat /\ MaxRedirects \in Nat \ {0}
  /\ None \notin Urls \cup Offers
  /\ Own \notin [key: CookieKey, secure: BOOLEAN]

\* 200 and the like, a status in RetryOnStatus, 303, 301 or 302, 307 or 308.
Statuses == {"ok", "busy", "303", "302", "307"}

\* What a Cookie header holds: the caller's own, and cookies of the jar.
Sendable == {Own} \cup [key: CookieKey, secure: BOOLEAN]

VARIABLES
  active,   \* Session.active
  jar,      \* Session.cookies
  kept,     \* the headers map each goroutine keeps to pass it again: what its
            \* Cookie header holds; None when it keeps none
  req       \* the request each goroutine is working on

vars == <<active, jar, kept, req>>

Steps == {"idle", "enter", "send", "sent", "wait", "done", "stream"}

\* Locals of requestWithRedirects and the fields of its *transport.Request.
RequestState == [
  pc:      Steps,
  url:     Urls \cup {None},
  method:  Methods,
  body:    BOOLEAN,                  \* there is a Body
  auth:    BOOLEAN,                  \* Headers has an Authorization
  orig:    SUBSET Sendable,          \* origCookie: what the caller's map held
  again:   BOOLEAN,                  \* history: an earlier call had that map
  cookie:  SUBSET Sendable,          \* Headers["Cookie"]
  attempt: 0 .. MaxRetries,
  hops:    0 .. MaxRedirects,        \* redirectCount
  status:  Statuses,                 \* of the last response
  offer:   Offers \cup {None},       \* its Set-Cookie line
  firstUrl: Urls \cup {None},        \* history: what the caller asked for
  firstMethod: Methods]

NoRequest == [
  pc |-> "idle", url |-> None, method |-> "GET", body |-> FALSE, auth |-> FALSE,
  orig |-> {}, again |-> FALSE, cookie |-> {}, attempt |-> 0, hops |-> 0, status |-> "ok", offer |-> None,
  firstUrl |-> None, firstMethod |-> "GET"]

TypeOK ==
  /\ active \in BOOLEAN
  /\ jar \in Jars
  /\ kept \in [Requests -> (SUBSET Sendable) \cup {None}]
  /\ req \in [Requests -> RequestState]

Init ==
  /\ active = TRUE
  /\ jar = EmptyJar
  /\ kept = [r \in Requests |-> None]
  /\ req = [r \in Requests |-> NoRequest]

-----------------------------------------------------------------------------

Return(r) == req' = [req EXCEPT ![r] = NoRequest]

JarCookies(u) == {[key |-> k, secure |-> jar[k].secure] : k \in Get(jar, u)}

\* What the map a call comes with holds: an earlier call's cookies as well, when
\* it is passed again, else at most a Cookie header of the caller's.
Passed(r, call) ==
  IF call.again THEN kept[r] ELSE IF call.own THEN {Own} ELSE {}

\* A caller's request, with or without a body, credentials and a Cookie header
\* of its own, to which fromJar is added at once.
Begin(r, step, u, call, fromJar) ==
  LET map == Passed(r, call) IN
  /\ req[r].pc = "idle" /\ active
  /\ call.again => kept[r] # None
  /\ req' = [req EXCEPT ![r] = [NoRequest EXCEPT
               !.pc = step, !.url = u, !.method = call.method, !.body = call.body,
               !.auth = call.auth, !.orig = map, !.again = call.again,
               !.cookie = fromJar \cup map,
               !.firstUrl = u, !.firstMethod = call.method]]
  /\ kept' = [kept EXCEPT ![r] = IF call.keeps THEN fromJar \cup map ELSE None]
  /\ UNCHANGED <<active, jar>>

Request(r, u, call) == Begin(r, "send", u, call, {})

\* RequestStream adds the cookies in the section that checks active, and has
\* neither retries nor redirects.
RequestStream(r, u, call) == Begin(r, "stream", u, call, JarCookies(u))

\* requestWithRedirects called for a redirect.
EnterClosed(r) ==
  /\ req[r].pc = "enter" /\ ~active
  /\ Return(r)
  /\ UNCHANGED <<active, jar, kept>>

Enter(r) ==
  /\ req[r].pc = "enter" /\ active
  /\ req' = [req EXCEPT ![r].pc = "send"]
  /\ UNCHANGED <<active, jar, kept>>

\* The header is only written when there is something to write: with an empty
\* jar and no header of the caller's, the one of the last attempt stays.
CookieHeader(q) ==
  LET header == JarCookies(q.url) \cup q.orig
  IN IF header = {} THEN q.cookie ELSE header

\* Before the first redirect the map that is written to is the caller's.
Send(r) ==
  LET header == CookieHeader(req[r]) IN
  /\ req[r].pc = "send"
  /\ req' = [req EXCEPT ![r].pc = "sent", ![r].cookie = header]
  /\ kept' = IF req[r].hops = 0 /\ kept[r] # None THEN [kept EXCEPT ![r] = header] ELSE kept
  /\ UNCHANGED <<active, jar>>

extractCookies(u, offer) == jar' = IF offer = None THEN jar ELSE Set(jar, u, offer)

\* Mutant: the last attempt is retried as well.
SendErrorOneMore(r) ==
  /\ req[r].pc = "sent"
  /\ IF req[r].attempt > MaxRetries THEN Return(r)
                                    ELSE req' = [req EXCEPT ![r].pc = "wait"]
  /\ UNCHANGED <<active, jar, kept>>

\* transport.Do fails (a closed session is not told apart from a dead network).
SendError(r) ==
  /\ req[r].pc = "sent"
  /\ IF req[r].attempt >= MaxRetries THEN Return(r)
                                     ELSE req' = [req EXCEPT ![r].pc = "wait"]
  /\ UNCHANGED <<active, jar, kept>>

\* A response.  With retries enabled its cookies are taken inside the loop.
Receive(r, status, offer) ==
  /\ req[r].pc = "sent"
  /\ IF MaxRetries = 0 THEN UNCHANGED jar ELSE extractCookies(req[r].url, offer)
  /\ req' = IF status = "busy" /\ req[r].attempt < MaxRetries
              THEN [req EXCEPT ![r].pc = "wait"]
              ELSE [req EXCEPT ![r].pc = "done", ![r].status = status, ![r].offer = offer]
  /\ UNCHANGED <<active, kept>>

\* Mutant: the attempt is not counted.
RetryUncounted(r) ==
  /\ req[r].pc = "wait"
  /\ req' = [req EXCEPT ![r].pc = "send"]
  /\ UNCHANGED <<active, jar, kept>>

\* The back-off is over.
Retry(r) ==
  /\ req[r].pc = "wait"
  /\ req' = [req EXCEPT ![r].pc = "send", ![r].attempt = @ + 1]
  /\ UNCHANGED <<active, jar, kept>>

\* The context ends during the back-off.
WaitCancelled(r) ==
  /\ req[r].pc = "wait"
  /\ Return(r)
  /\ UNCHANGED <<active, jar, kept>>

\* After the loop, a response that is not followed: it is no redirect, or has
\* no Location, or is one redirect too many.
Finish(r) ==
  /\ req[r].pc = "done"
  /\ extractCookies(req[r].url, req[r].offer)
  /\ Return(r)
  /\ UNCHANGED <<active, kept>>

sameOrigin(u, v) == u.secure = v.secure /\ u.host = v.host

isSchemeDowngrade(u, v) == u.secure /\ ~v.secure

NewMethod(m, status) ==
  IF status = "303" \/ (status = "302" /\ m = "POST") THEN "GET" ELSE m

\* Mutant: the body goes along with every redirect.
KeepsBodyAlways(status) == TRUE

KeepsBody(status) == status = "307"

\* Mutant: only a downgrade strips the credentials.
KeepsAuthUnlessDowngrade(u, v) == ~isSchemeDowngrade(u, v)

KeepsAuth(u, v) == sameOrigin(u, v) /\ ~isSchemeDowngrade(u, v)

\* Mutant: the Cookie header is copied like the others.
RedirectedCookieCopied(q) == q.cookie

RedirectedCookie(q) == {}

Redirect(r, to) ==
  LET q == req[r] IN
  /\ q.pc = "done" /\ q.status \in {"303", "302", "307"}
  /\ q.hops < MaxRedirects
  /\ extractCookies(q.url, q.offer)
  /\ req' = [req EXCEPT ![r] = [q EXCEPT
               !.pc = "enter",
               !.url = to,
               !.method = NewMethod(q.method, q.status),
               !.body = q.body /\ KeepsBody(q.status),
               !.auth = q.auth /\ KeepsAuth(q.url, to),
               !.orig = RedirectedCookie(q),
               !.cookie = RedirectedCookie(q),
               !.attempt = 0,
               !.hops = q.hops + 1,
               !.status = "ok",
               !.offer = None]]
  /\ UNCHANGED <<active, kept>>

\* The end of a RequestStream call.
StreamDone(r, offer) ==
  /\ req[r].pc = "stream"
  /\ extractCookies(req[r].url, offer)
  /\ Return(r)
  /\ UNCHANGED <<active, kept>>

-----------------------------------------------------------------------------
(* The session's other methods, which do not look at `active' *)

SetCookie(c) ==
  /\ jar' = SetSimple(jar, c.key, c.secure)
  /\ UNCHANGED <<active, kept, req>>

DeleteCookie(name, domain) ==
  /\ jar' = Delete(jar, name, domain)
  /\ UNCHANGED <<active, kept, req>>

ClearCookies ==
  /\ jar' = EmptyJar
  /\ UNCHANGED <<active, kept, req>>

Close ==
  /\ active
  /\ active' = FALSE
  /\ UNCHANGED <<jar, kept, req>>

\* Save, the end of the process, and LoadSession in a new one.  (A cookie that
\* changes between the two is not in the file: for the loaded jar it changed
\* back.)
SaveAndLoad ==
  /\ active' = TRUE
  /\ jar' = Import(EmptyJar, Export(jar))
  /\ req' = [r \in Requests |-> NoRequest]
  /\ kept' = [r \in Requests |-> None]

\* Expires passes.
CookieExpires(k) ==
  /\ jar[k] # None
  /\ jar' = [jar EXCEPT ![k] = None]
  /\ UNCHANGED <<active, kept, req>>

-----------------------------------------------------------------------------

RequestStep(r) ==
  \/ EnterClosed(r) \/ Enter(r) \/ Send(r) \/ SendError(r)
  \/ \E s \in Statuses, o \in Offers \cup {None} : Receive(r, s, o)
  \/ Retry(r) \/ WaitCancelled(r) \/ Finish(r)
  \/ \E u \in Urls : Redirect(r, u)
  \/ \E o \in Offers \cup {None} : StreamDone(r, o)

Next ==
  \/ \E r \in Requests, u \in Urls, call \in Calls :
       Request(r, u, call) \/ RequestStream(r, u, call)
  \/ \E r \in Requests : RequestStep(r)
  \/ \E c \in Manual : SetCookie(c)
  \/ \E n \in Names, d \in Domains : DeleteCookie(n, d)
  \/ \E k \in CookieKey : CookieExpires(k)
  \/ ClearCookies \/ Close \/ SaveAndLoad

Spec == Init /\ [][Next]_vars

\* Requests run; transport.Do ends (it has a timeout) and so does a back-off.
Fairness == \A r \in Requests : WF_vars(RequestStep(r))

FairSpec == Spec /\ Fairness

-----------------------------------------------------------------------------
(* Properties *)

OnTheWire == {req[r] : r \in {r \in Requests : req[r].pc \in {"sent", "stream"}}}

\* Whatever Cookie header goes out matches the URL it goes to, over retries,
\* redirects, a jar that changes meanwhile and a save and load: each cookie's
\* domain and path cover the URL, a secure one only goes over https.  What was in
\* the map the caller passed goes to the URL the caller named and not beyond a
\* redirect, and that is the caller's own header, except in a call with a map
\* that an earlier call had: the cookies that one wrote into it go along.
SentCookiesMatch ==
  \A q \in OnTheWire : \A c \in q.cookie :
    IF c \in q.orig THEN /\ q.url = q.firstUrl /\ q.hops = 0
                         /\ c = Own \/ q.again
    ELSE /\ domainMatchesHost(c.key.domain, q.url.host)
         /\ isPathMatch(q.url.path, c.key.path)
         /\ c.secure => q.url.secure

\* Credentials only reach the origin the caller gave them for, however a chain
\* of redirects leaves it and comes back.
AuthConfined == \A q \in OnTheWire : q.auth => sameOrigin(q.url, q.firstUrl)

\* A body only goes out under the method the caller chose: once a redirect has
\* turned a request into a GET, no later one brings the body back.
BodyKeepsMethod == \A q \in OnTheWire : q.body => q.method = q.firstMethod

\* Attempts and hops stay within their limits, and no body outlives the method
\* it was given for.
SessionInv == TypeOK /\ BodyKeepsMethod

\* Neither cookies nor credentials reach a URL they were not meant for, over
\* redirects, retries and a jar that others change meanwhile, but for cookies in
\* a map the caller passes again.
SecretsConfined == SentCookiesMatch /\ AuthConfined

\* A session that is loaded right after Save sends every cookie with a domain
\* to exactly the URLs it was sent to before.
SavedCookiesReturn ==
  \A u \in Urls, k \in CookieKey : k.domain # Global =>
    (k \in Get(jar, u) <=> k \in Get(Import(EmptyJar, Export(jar)), u))

\* A cookie set without a domain is a "global cookie sent to all domains", by a
\* loaded session as well.
SavedGlobalsReturn ==
  \A u \in Urls, k \in CookieKey : k.domain = Global =>
    (k \in Get(jar, u) => k \in Get(Import(EmptyJar, Export(jar)), u))

\* Every call returns, whatever servers answer: attempts and hops are bounded.
RequestReturns == \A r \in Requests : req[r].pc # "idle" ~> req[r].pc = "idle"
=============================================================================
