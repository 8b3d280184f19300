# TLA+ models of akamai-v3-sensor

akamai-v3-sensor is a Go HTTP client library that reproduces browser TLS and
HTTP fingerprints, with bindings for Python, Node.js and .NET.  This directory
holds TLA+ modules of the parts of it that keep state across requests and
goroutines, TLC configurations for small instances, and proofs checked by
TLAPS.  It states what makes these parts correct: which connection may be used
by whom, what is released when something is closed, which request carries which
cookie and goes through which proxy, what a host language is told about a
request it started.

`PROJECT.json` maps every definition to the lines it models and lists the runs,
the mutants that show each property can fail, the hazards and the theorems.

## 1. Inventory

| Part (source) | State | Operations | Interaction | What is hard | What makes it correct | Module |
|---|---|---|---|---|---|---|
| Connection pool (`pool/pool.go`) | pools per host, lists of connections with age and idle time, `closed`, `proxyURL` | `GetPool`, `GetConn`, cleanup, `Close`, `CloseAllPools`, `SetProxy` | used by `client.Client`; dials outside the lock | double-checked creation, dials racing close and cleanup | a retired connection is in no list, an open one is in a known pool but for late dials, a closed manager stays empty | `ConnPool` |
| Happy Eyeballs (`pool/pool.go`) | dials under way, result channel | one dial per address, two families | inside the pool's dial | late results | waits for exactly what is to come | `HappyEyeballs` |
| QUIC pool (`pool/quic_pool.go`) | as the pool, and the sockets of lazy dials | as the pool, `CloseAllConnections` | used by `client.Client` | dials made later, and again | transports are in a known pool but for late ones, sockets are counted | `QuicPool` |
| Proxy dials (`transport/speculative_conn.go`, `http1_transport.go`, `http2_transport.go`, `pool/pool.go`, `proxy/socks5_tcp.go`) | a socket, what was read of the proxy's answer, the list of proxies without speculation | CONNECT speculative and blocking, SOCKS5 connect, fall-back | below every TCP dial | a stream cut anywhere, a dial that starts over | no record lost, one socket or none | `ProxyDial` |
| UDP tunnels (`proxy/socks5_udp.go`, `masque.go`) | control and relay connection, state flags, datagrams | establish with retries, read, write, close | below every QUIC dial through a proxy | failing half way, several closers | nothing of a failed attempt stays open | `UdpTunnels` |
| HTTP/1.1 transport (`transport/http1_transport.go`) | `idleConns` (stack per key), `closed` | `RoundTrip`, `StreamRoundTrip`, `RoundTripWithTLSConn`, body `Read`/`Close`, cleanup, `Refresh`, `SetProxy`, `Close` | called by `Transport` and `Client`; bodies outlive the call | hand-over of a connection through a response body | one exchange at a time, nothing survives `Close` | `Http1Conns` |
| HTTP/2 transport (`transport/http2_transport.go`) | `conns` (one shared connection per key), `inFlight`, `closed` | `RoundTrip` (one retry), `Connect`, cleanup, `Refresh`, `Close` | called by `Transport` and by the protocol race | dial races, removal by key, limits under load | only live connections mapped, `inFlight` exact, `Close` releases all | `Http2Conns` |
| HTTP/3 transport (`transport/http3_transport.go`) | the current quic-go transport, its socket, UDP associations | `RoundTrip` (0-RTT retries), dials, `Refresh`, `Close` | called by `Transport`; tunnels below | replacement under running requests, a lock held while closing | associations owned, the current transport usable, no dead end | `Http3Conns` |
| Unified transport (`transport/transport.go`, `stream.go`) | protocol memory, three transports, proxies, `h3ProxyError` | `Do`, `doAuto`, `raceH3H2`, `DoStream`, `SetProxy`, `SetPreset`, `RefreshWithProtocol`, `Close` | owns the transports, used by `Session` | a race of two connects with late losers, setters without a lock | one protocol answers, only it is remembered, no way past the proxy | `Transport`, `ProtocolChoice` |
| Body buffers (`transport/transport.go`) | three pools | read, decompress, release | shared by all calls | reuse while referred to | a body is what its reader wrote | `BodyPool` |
| TLS session cache (`transport/tls_cache.go`) | `sessions`, `accessOrder`, `sessionId`, a remote backend | `Get`, `Put`, `Export`, `Import`, `Clear`, `SetSessionIdentifier` | shared by a session and its forks; backend is user code | background writes, bookkeeping in two structures | order and map agree, size bounded, tickets under their identifier | `TLSCache` |
| DNS cache (`dns/cache.go`) | addresses and ECH records with expiry | `Resolve` and its orderings, `Invalidate`, `Cleanup`, `FetchECHConfigs` | used by all dials | stale answers, several servers | no withdrawn record, complete and alternating order | `DnsCache` |
| Session (`session/session.go`) | `active`, jar, validators, client hints | `Request`, `RequestStream`, cookie methods, `Save`/`Load`, `Close` | owns a `Transport`, shares its jar with forks | retries inside redirects, concurrent jar changes, persistence | cookies and credentials go only where they belong as long as header maps are not passed again, calls return | `Session` |
| Cookie jar (`session/cookie_jar.go`) | domain -> cookies | `Set`, `Get`, `SetSimple`, `Delete`, `Export`, `Import` | used by `Session` | matching rules, what the file keeps | what was saved comes back | `CookieJar` |
| Manager, fork, setters (`session/`) | session table, the proxies twice | create, get, close, expire, shutdown, fork, set proxies | owns sessions | expiry against requests, two copies of the configuration | removed means closed, a fork goes its parent's ways | `SessionLife` |
| Warm-up (`session/warmup.go`) | resources of a page, the running wave | fetch page, three waves | uses `Session` | cancellation, limit per wave | waves in order, limit kept, everything fetched once | `Warmup` |
| Client (`client/`) | protocol failure tables, jar, digest nonces, HTTP/3 transports | `Do`, `DoStream`, proxy setters | uses the pools and the HTTP/1.1 transport | retry, redirect, challenge and fall-back nested | terminates, keeps credentials home, reports the last outcome | `Client` |
| Local proxy (`local_proxy.go`) | session registry, count of connections | accept loop, handlers, register, `Stop` | uses sessions | stop against accept, registry against requests | count exact, sessions respected, handlers waited for | `LocalProxy` |
| C library (`bindings/clib/`) | handle tables, callbacks, cancel functions, uploads, cache requests | create/use/free, asynchronous requests, uploads, cache callbacks | the host's threads call in and are called | any order from any thread | closed once, called back once, never hanging | `CLibHandles`, `CLibAsync`, `CLibUpload`, `CLibCache` |
| Fingerprints, wire types, key log, socket options, public API, bindings, examples | none that outlives a call | tables, formatting, delegation | | data and I/O | not modelled, section 8 | |

## 2. Plan

The modules of section 1 are written, and every invariant of the passing runs is
proved but one conjunct (`RefreshGoesOn`, section 7).  Left for later, in this
order:

1. Validators (`ETag`), client hints and `Refresh` in `Session`; the persistence
   of tickets and ECH configurations.
2. The proxy of each connection in `Http1Conns`, so that `SetProxy` can be
   judged for connections that are in use while it runs.

Runs are kept few.  A component whose question needs fairness or a large
instance has a run of its own; the others are checked side by side in two sum
modules (section 4).

## 3. Modules and how they correspond to the code

General conventions.  A section under a lock is one action.  A goroutine is an
element of a set with a program counter that says between which two sections it
is; its locals are a record indexed by it.  `go c.close()` puts a connection in
a set of pending closes.  A dial, handshake or exchange is one step that may
succeed or fail, unless the module is about it.  Time is a step that ages
connections up to one beyond the limit that is compared, or makes an entry
expire.  Identities of connection objects are reused when nothing refers to them
any more.  Definitions headed `Mutant:` are deliberately wrong variants that show
a property can fail; no specification uses them.

Network layer:

* **ConnPool** - getters go through `GetPoolRead`, the write section
  (`GetPoolClosed`, `GetPoolFound`, `GetPoolCreate`), `GetConnReuse`,
  `GetConnNone`, `GetConnDial`, `DialOk`/`DialFail`, `GetConnAppend`.  `sweep` is
  what the cleanup goroutine, `Close` or `CloseAllPools` has still to do while it
  keeps `m.mu`.  The cleanup visits pool after pool in up to three steps
  (`CloseIdle`, `CleanupStats`, `CleanupDelete`), the others close one pool per
  step (`ClosePool`) and replace the map last, because `p.mu` is free between any
  two of these and `GetConnAppend` takes nothing else.  `late` is a history
  variable: the connections whose dial ended after their pool was given up.
  `Finish` is the use of a connection by `Client.doHTTP2`.
* **HappyEyeballs** - the dials of both families, the channel with room for every
  result, the 250 ms head start, the loop that counts results.
* **QuicPool** - the same locks and the same sweeps as `ConnPool`, but a connection dials when it is
  used: `QDialStart`, `QDialNext` per address, `QDialOk`, `QDialFailed`, with one
  UDP socket each.
* **ProxyDial** - one dial in one of the three stacks (`h1`, `h2`, `pool`) over an
  HTTP or a SOCKS5 proxy.  What the socket delivers is a sequence of pieces and a
  read returns any non-empty prefix.
* **UdpTunnels** - a SOCKS5 association or a MASQUE tunnel with several users;
  `Establish` keeps `c.mu` through its retries, `tcpKeepalive` and
  `receiveDatagrams` are the goroutines that watch it.
* **Http1Conns**, **Http2Conns** - the connection stores and everything that puts
  in, takes out or closes.  `Close` and `Refresh` of HTTP/1.1 are two sections
  each.  The HTTP/2 cleanup tests a connection in one step and deletes and closes
  it in the next, since `conn.mu`, all that `RoundTrip` needs to begin, is free in
  between.  `MaxDial` bounds how long an HTTP/2 dial lasts (the caller's context).
* **Http3Conns** - the current `http3.Transport` and those it replaced, the UDP
  associations with everyone who closes them, `Refresh` step by step with `t.mu`
  held, `closeWithTimeout`.
* **Transport** - a call is a list of attempts to make.  The race has its two
  connects, its two channels and its timeout as separate steps, so a loser may
  report when nobody listens.  `SetProxy` and `SetPreset` are two steps each
  (close, build) and interleave with calls, which hold no lock.
* **ProtocolChoice** - the abstract specification of `Transport`: a call is asked,
  then answered once by a protocol or failed; the memory of a host only ever
  becomes a protocol that has just answered, or is cleared.
* **BodyPool** - the buffers of three size classes through reading,
  decompression and release; content is reduced to who wrote it.  A body that
  outgrows its buffer releases it (`Outgrow`) and copies out of it (`CopyOut`) in
  two steps, as the code does.
* **TLSCache** - `sessions` and `accessOrder` as in the code; `evictIfNeeded` pops
  a computed number of keys; the background backend write is a pending record
  that reads the identifier late.  `recent` is a history variable with the true
  order of use.
* **DnsCache** - lookups and ECH queries without a lock, so answers are stored in
  the order they end; the orderings of one answer are operators.  `InTurns` is
  the loop of `ResolveAllSorted`, a recursive function with one turn per index.

Sessions and clients:

* **CookieJar** - the jar's methods as operators on a jar value.  A cookie whose
  `Expires` has passed is gone in the model: every method that reads skips it.
* **Session** - `requestWithRedirects` as a loop of send, receive, back off,
  follow; server answers are arbitrary; other goroutines change the jar between
  any two steps.  With retries enabled the cookies of the last response are stored
  twice, and a retry with nothing to send keeps the previous Cookie header, as in
  the code.  `kept` is the headers map a goroutine keeps of its last call, which
  that call writes Cookie into and the next one may be given again.
* **SessionLife** - the manager's table, its cleanup and shutdown, forks and the
  three proxy setters; a session has its proxies in `config` and in `uses`.
* **Warmup** - the page as a sequence of tags, three waves, one semaphore each.
* **Client** - `doOnce` calls itself for redirects and challenges; the inner call
  takes the place of the outer one, whose timeout it keeps.  The tables of failed
  protocols, the jar and the nonces are shared by calls.  `base` is the map the
  caller passed: attempts share it, `doOnce` writes into it, and a later call may
  begin with it (`again`); the credentials found in it then are `"old"`.  `DefaultWay`, `Forced` and
  `StreamWay` are the three switches over protocols.

Around them:

* **LocalProxy** - accept loop, one handler per client, the registry, `Stop`.
* **CLibHandles** - six tables of one shape.  Each exported function has an action
  of its own, in which it names its table; what they share (create, issue a
  handle, look up, remove, close) is written once.  A behaviour has the table of
  sessions and one other.
* **CLibAsync**, **CLibUpload**, **CLibCache** - callbacks with cancellation, the
  pipe between a host that writes and a request that reads, and lookups in the
  host's cache.  `GetAsync`, `PostAsync` and `RequestAsync`, the five cache
  operations, and the two write functions repeat the same code and share their
  steps.

Where a module meets another one's component it takes what the caller sees of
it: `Transport` has attempts that succeed, fail or end in an ALPN mismatch;
`Client`, `Session` and `CLibUpload` have requests that are answered or not;
`QuicPool` and `Http3Conns` have dials.

## 4. Runs

| Run | Shows | States | Time |
|---|---|---|---|
| `conn_pool` | two getters, three connections, limit 1: no retired connection listed, open ones in a known pool, with their dialler or about to be closed unless their dial ended too late; `LateIsBounded`: each call leaves at most one of those; `PoolsSound`: closed manager empty, limit exceeded only by concurrent dials, SNI is the request host | 1.2 M | 2 min |
| `conn_pool_live` | `GetConn` returns, listed connections are retired in the end | 31 k | 20 s |
| `http2_conns` | `Http2Inv`: types, map and counter; idle limit; requests return, `Close` releases everything | 78 k | 1 min |
| `http1_conns` | `Http1Inv`: exclusive use, stack limit, nothing idle after `Close`; everything closed in the end | 280 k | 1 min |
| `session` | `SessionInv`: limits of attempts and hops, no body with a rewritten method; `SecretsConfined`: cookies and credentials only go where they belong, over several calls; saved cookies return; calls return | 369 k | 2 min |
| `transport` | `ImplementsChoice`: `Transport` implements `ProtocolChoice`, fairness included; `QuicUsesProxy`; `TransportInv`: what the race knew of is released, HTTP/1.1 is tried before a failure | 227 k | 20 s |
| `client` | `ClientInv`: redirect limit, no nil transport, UDP proxy respected; `CredentialsConfined`, over several calls; `KeptReturned`; `DoReturns` | 649 k | 2 min |
| `clib` | `CLibInv`: callbacks once, cancel functions drain, whole uploads, first own answer, tables cleaned; `CLibAnswers`, `CLibReturns`: every waiting side is answered | 104 k | 3 min |
| `net_parts` | seven parts side by side: LRU order, HTTP/3 associations and transports, body buffers, QUIC sockets, proxy dials, address race, UDP tunnels | 1.0 M | 2.5 min |
| `app_parts` | five parts side by side: handle tables, local proxy, sessions, warm-up, DNS | 293 k | 40 s |
| `tls_cache_isolation` | **violation**: a pending backend write stores a ticket under another identifier | | 1 s |
| `session_saved_globals` | **violation**: a cookie without a domain is lost by save and load | | 1 s |

What the violations contradict is quoted in `PROJECT.json` under `findings`.

The sum modules `MCNetParts`, `MCAppParts` and `MCCLib` extend several component
modules that share no variable.  A variable `part` chooses at the start which
one a behaviour exercises; its next-state relation is that component's, and the
others keep their initial state.  So the run explores the union of the
components' state spaces, not their product, and an invariant of one component
is checked on exactly its reachable states.  Each component has a specification
of its own (`Http3Spec`, `QuicSpec`, `HandlesSpec`, ...) for use by itself.  These
runs do not check for deadlock: finished parts stop.

### What the code does not keep

The properties are stated as strong as the code has them; the exceptions below
are written into them or into the instance, and each is a hazard with a note.

* A connection whose dial ends after its pool was closed or dropped by
  `Close`, `CloseAllPools`, the cleanup or a change of proxy is appended to a list
  that nothing closes any more (`pool/pool.go:230`, `pool/quic_pool.go:225`); no
  lock keeps the append out, not even between the closing of a pool and its
  removal from the map.  `OpenIsOwned` and `QuicOwned` except exactly these
  (`late`, `qLate`), and `LateIsBounded` says that a call leaves one at most.
* Two request hosts behind one `connectTo` target share a pool, and the second
  is sent the first's server name although the comment at `pool/pool.go:100`
  calls it "always the original request host".  `conn_pool` has no shared target.
* `isConnUsable` tests `maxConnAge` before `inFlight`, so the cleanup closes a
  connection older than five minutes under a request, against the comment at
  `http2_transport.go:58`.  And a request that begins between the test
  (`http2_transport.go:867`) and the close two lines below is cut off.
  `IdleLimitSparesRequests` is about the idle limit and the requests that were
  there at the test.
* A dial longer than the idle limit lets `getOrCreateConn` overwrite a map entry
  without closing it; `http2_conns` has `MaxDial` = `MaxIdle`.
* A body encoded as `identity`, or in an unknown encoding, is returned in the
  pooled buffer that is released a line later (`transport.go:1020`, `1726`);
  `BodyIntact` excludes it (`Returned`).  A body that outgrows its buffer is copied
  out of it after the buffer was released (`transport.go:1676`-`1680`): another
  call that takes the buffer in between overwrites it.  `BodyIntact` excepts the
  bodies this happened to (`raced`).
* The race's ALPN mismatch that arrives after the decision keeps its connection
  open; a host remembered as HTTP/3 has no fall-back; `DoStream` does not look at
  `h3ProxyError`.
* `Session` writes Cookie into the headers map the caller passed
  (`session.go:264`-`269`, `1197`-`1199`), and `Client` Cookie and Authorization
  (`client.go:635`-`645`).  A map passed again for another host carries the first
  host's there.  `SecretsConfined` and `CredentialsConfined` except what was in
  a map that is passed again, and nothing else; a redirect of that call takes
  along neither the cookies of `Session` nor the credentials of `Client` (for
  `Client`'s cookies see the next item).
* A call of `Client.Do` that runs during `SetUDPProxy` can meet a nil pointer; a
  Cookie header is carried to another origin by a redirect.
* The pool's own CONNECT reads the proxy's answer once and drops what came with
  it; a Happy Eyeballs loser may leave its connection in the channel; the UDP
  socket of a successful `QuicPool` dial, and that of a MASQUE attempt, is closed
  by nobody.
* Two requests that both have their 0-RTT data rejected both build a transport;
  the one built in between is replaced without being closed (`recreateTransport`,
  `http3_transport.go:1159`).  `Http3Sound` is about associations and the current
  transport.
* The goroutine that reads a MASQUE tunnel ends with the first error of its
  stream (`masque.go:259`); the tunnel stays established and delivers nothing
  more, so that a read ends with its deadline only.
* A write to an upload whose request fails before it reads anything blocks for
  ever; `UploadCallsReturn` begins with the first read.

## 5. Bounds

* Two goroutines and two or three connections are enough for every race of the
  code: each race is between one goroutine that has released a lock and one
  other actor; a third connection lets a replaced, a current and a new one
  coexist.  The limits (`MaxConns`, `MaxPerHost`, `MaxSize`, `MaxConnections`,
  `MaxSessions`, `MaxQConns`) are 1 so that they are reached; ages go one beyond
  the limits.
* `transport` has one call and two changes of the configuration among four proxy
  configurations: calls share only the memory of protocols, which the race and
  the setters already disturb.  `client` has one caller, two hosts, one retry, one
  redirect, and requests with and without credentials of their own, streamed and
  not: a retry after a redirect and a challenge needs no more.  It has two kinds of
  behaviours (`repeats` of `MCClient`): one call with a change of the proxies and
  the passing of five minutes around it; and calls without end, with new maps and
  with the last one's, on a client without HTTP/3 and with fixed proxies, since
  neither bears on the headers.
* `session` has one goroutine that makes calls (others act through the jar, whose
  operations are atomic, and are represented by the cookie methods), three URLs
  (https and http of one host, https of an unrelated one), two redirects so that
  a chain can leave and come back, one retry per hop, and as calls a plain GET
  whose map is kept, a GET with the map of the call before, and a POST with body,
  credentials and its own Cookie header (`ThreeCalls`).  `Manual` has the one
  cookie that others set: one of the whole domain, in `session_saved_globals` one
  without a domain.
* `clib` has two asynchronous calls over two callback ids, three host threads on
  an upload with two attempts, two lookups with two answers: a late, a double and
  a misdirected answer are all among them.
* `net_parts`: three keys for a cache of one; two requests and four successive
  HTTP/3 transports with two attempts instead of three; two readers on both sides
  of every size class; two dials sharing a proxy, two records and an answer in
  two parts; two addresses per family; two users of a tunnel with two retries.
  Goroutines, connections or buffers, and pools are interchangeable in every part
  (`NetSymmetry`), and as only one part runs they share their names, so that one
  small group of permutations serves all.
* `app_parts`: two threads and two handles per table; three clients and one
  registered identifier; a session and its fork; pages with duplicate, unusable
  and surplus tags; two resolvers and two ECH servers over two versions of the
  zone.

## 6. Fairness

Weak fairness is assumed of every goroutine that has a step to take and of the
spawned closes and of a sweep that has begun; strong fairness of the getters of
`ConnPool`, the requests of `Http2Conns` and host threads, which wait for a mutex,
since `sync.Mutex` and `sync.RWMutex` do not starve their waiters; and in
`ConnPool` of the clock and the cleanup ticker.  A dial or exchange ends because it has a deadline
or a context (30 s by default): in `Client` the timeout (`Expire`) is fair, so
`DoReturns` holds against servers that challenge and redirect for ever, in
`CLibCache` the 30 s timeout of a lookup, in `CLibUpload` an attempt's failure.
`Http1Conns` also assumes that callers close the bodies they are given, which
`Transport.doHTTP1` does with a `defer`.  `Session` assumes that `transport.Do`
returns, which `Transport` shows under the same assumption about its attempts
(`ProtocolChoice` has it as fairness of answer-or-failure).  Nothing is assumed
of peers, hosts or the order of callbacks.

## 7. Proofs

TLAPS checks 32 theorems in seven modules, and `SeqLemmas` with the facts about
sequences they share.  They hold for any number of goroutines, requests,
connections, hosts and keys and for any limits, from the named assumptions of
the modules only.  Those give constants their types, keep the null values apart
from the real ones, and make a set finite where the code counts its elements
(`Http2Conns`, `HappyEyeballs`, `LocalProxy`, `CLibAsync`, `CLibCache`).
`Http3Conns` also assumes two more transports than requests, so that an identity
is free whenever one is built; it stands for the code's unlimited supply.  Two
theorems have hypotheses of their own: `LateStaysBounded` finitely many getters,
`GettersCanRely` these and `OwnTargets`, which is the exception about `connectTo`
of section 4.

Each part is proved along the same lines: an inductive invariant, a lemma for the
initial states, a lemma for the step with one case per action, and the theorem by
temporal reasoning.  A lemma such as `OneCall` says what changing one
goroutine's record leaves alone.  What the checked invariant lacks to be
inductive is named below; it is mostly what a goroutine's locals promise
while it holds no lock.

| Theorem | States | Inductive invariant, and why it is needed |
|---|---|---|
| **ConnPoolProofs** | | |
| `TypeCorrect` | `[]TypeOK` | `TypeInv`: the pools a sweep has still to visit are listed, because `m.mu` is held |
| `RetiredNeverListed`, `OpenAlwaysOwned` | `[]RetiredNotListed`, `[]OpenIsOwned` | `OwnedInv`: each connection has one owner - one pool's list, one dialler or a pending close - and no two coexist; otherwise a retired connection could be listed a second time; and every connection in the list of a pool that was given up is in `late` (`LateKnown`) |
| `GettersCanRely` | `[]PoolsSound` | the lists are finite, and a getter's pool is the one of its own host |
| `LateStaysBounded` | `[]LateIsBounded` for finitely many getters | `LateInv`: the lists are finite; a call that appends to a pool given up is one call less that still may |
| `EchStaysCurrent` | `[]DnsTypeOK`, `[]EchCurrent` | `DnsIInv`: what a query saw when it began and what it holds, against the version of the record now (`QueryOK`) |
| `DnsStaysSound` | `[]DnsSound` | `DnsIInv` for what the caches return; for the order, an invariant of the loop: after n turns each family's addresses are in their order (`InOrder`), the families change until the shorter one is used up (`Changing`), and the first address is the preferred family's (`Begins`) |
| **TransportProofs** | | |
| `FallbacksUsedUp` | `[]TransportInv` | `CallInv`: an HTTP/1.1 fall-back that was not tried is still in the list of attempts to make |
| `DoNeverBypassesProxy` | `[]QuicUsesProxy` | `QuicInv`: a proxy without UDP is on record as `h3ProxyError`, and a call plans HTTP/3 only without it |
| `TransportImplementsChoice` | the safety of `ProtocolChoice` | `CallInv`, then one step per action: a step of `Transport` is one of `ProtocolChoice` or changes nothing of it (`ChoiceStep`) |
| **NetPartsProofs** | | |
| `LRUSafe` | `[](TypeOK /\ LRUOrder /\ SizeBound)` of `TLSCache` | `LRUInv`: the history `recent` has every key exactly once; a `Put` is followed through the keys it evicts, then the one it inserts |
| `Http3NothingLost` | `[]AssocOwned`, `[]CurrentUsable` | `Http3IInv`: what `Refresh` and `Close` have taken out at each of their steps |
| `BodiesIntact` | `[]BodyIntact`, `[]SliceFits` | `BodyIInv`: a buffer in use is not in its pool and has one user; a call whose released buffer another one has taken is in `raced` (`CopyRaced`) |
| `QuicNothingLost` | `[]QuicOwned` | `QuicIInv`: what each caller holds at each place, with its socket; what is in the list of a pool given up is in `qLate` (`QLateKnown`) |
| `TunnelsStaySound` | `[]TunnelSound` | `DialIInv`: while the answer is being stripped, what is held and what is still on the wire are together one answer and all the records |
| `RaceStaysExact` | `[]RaceExact` | `HappyIInv`: until the race is over, an established connection has its result in the channel |
| `TunnelNothingLeft` | `[]TunnelReleased` | `TunnelIInv`: what `Establish` holds at each of its stages |
| `NetPartsTyped` | `[]NetTypeOK` of the sum module `MCNetParts` | `NetIInv`: the invariants of the seven parts, each with the rest of its types (`Http3Rest`, `QuicRest`, `DialRest`, `HappyRest`, `TunnelRest`): a step of one part leaves the variables of the others |
| **Http1ConnsProofs** | | |
| `OneOwnerPerConn` | `[]Http1Inv` | `Http1IInv`: a stack has no connection twice and none of another key (`StackOK`); one that a request owns is open, idle nowhere and owned by no other (`OwnerOK`) |
| **ClientProofs** | | |
| `UdpProxyKept`, `CredentialsStay`, `RetryableReturned` | `[]ClientInv`, `[]CredentialsConfined`, `[]KeptReturned` | `ClientIInv`: for each call, which headers the next attempt will carry, and that they belong to its host or were in the map it was given, before they are sent |
| `InFlightNeverDrifts` | `[]Http2Inv` | `Http2IInv`: a connection has one key, a freshly dialled one is known to its dialler only, `inFlight` is the number of requests in their round trip |
| `IdleNeverCutsRequests` | `[]IdleLimitSparesRequests` | the same, with what was found of the connection to be retired (`DoomOK`) |
| **SessionProofs** | | |
| `BodyStaysWithMethod`, `SecretsStay`, `SaveLoadFaithful` | `[]SessionInv`, `[]SecretsConfined`, `[]SavedCookiesReturn` | `SessionIInv`: every cookie in the jar is stored under a domain that fits its `hostOnly` flag, and a request's next header fits its next URL but for what the caller's map held (`RequestOK`) |
| `SessionsStaySound` | `[]SessionsSound` | `LifeIInv`: the table is finite |
| `WarmupKeepsOrder` | `[]WavesInOrder` | `WarmIInv`: a batch is what is queued, being fetched and fetched |
| **CLibProofs** | | |
| `HandlesStaySound` | `[]HandlesSound` | `HandlesIInv`: an object between two sections of a call is in exactly one thread's hands, and handles are only what the counter issued |
| `ProxyStaysSound` | `[]LocalProxySound` | `ProxyIInv`: once the loop is over nobody is waiting to be admitted, so `Stop` that has seen no handler meets none later |
| `HostsServedExactly` | `[]CLibInv` of the sum module `MCCLib` | `AsyncIInv`, `UploadIInv`, `CacheIInv`, one per part |

About the method.  `SeqLemmas` proves induction over the naturals and over
sequences in the form "a set that has 0 and successors is `Nat`"
(`InductionOverNat`, from well-foundedness) and "a set that has `<<>>` and is
closed under `Append` has every sequence" (`InductionOverSeq`): the sets stand in
for the operator parameter the provers cannot instantiate.  From these come what
`Front`, `Tail` and `Append` do to the elements of a sequence, and an algebra of
`FilterSeq`: filtering goes through concatenation (`FilterConcat`), twice is once
with the intersection (`FilterTwice`), what stays and what goes make up the list
(`FilterParts`), and cutting the front off or removing an element is a filtering
(`CutIsFilter`, `RemoveIsFilter`).  Where the code filters a list or merges two,
the models use a recursive function (`FilterSeq` of `SeqFilter`, `InTurns` of
`DnsCache`), because what `SelectSeq` and `FlattenSeq` compute is out of the
provers' reach; that such a function exists is an induction of its own
(`CopyExists`, `TurnsExist`).  `LRUSafe` rests on that algebra: every operation
of the cache turns the filtering of the history by the cached keys into the
filtering of the new history by the new keys.  And `Warmup`'s
`ParseSubresources` names the tags that are the first of their URL
(`FirstTags`), so that "fetched once" is a fact about a set.

Only model-checked, and why:

* liveness (`GetConnReturns`, `RequestReturns`, `CloseReleases` and the others) and the fairness of
  `ImplementsChoice`: the prover has no rules for fairness;
* `RefreshGoesOn`, the third part of `Http3Sound`, since it uses `ENABLED`; the
  other two parts are `Http3NothingLost`.

The two violations of section 4 are counterexamples and need no proof.

## 8. Not modelled

* TLS and HTTP on the wire, fingerprints and header order, compression, logging
  and statistics: data and I/O without state that outlives a call.
* Fingerprint tables and their parsers, wire types, the public API (delegation),
  examples, and the foreign bindings, which were read for how they use the C
  library.
* Key logging and socket options: files and operating-system calls.
* In `Session`: validators, client hints, `Refresh`, tickets and ECH
  configurations in saved files (plan).  In the transports: setters of a single
  field, `SetConnectTo`, `SetECHConfig` and the like.  In the C library: JSON
  conversion, and the getters and setters that pass a value on to a session.
* Hooks and certificate pins: user code and a comparison; an attempt they refuse
  is one that fails.
* Crashes: the only file is the saved session, written with `os.WriteFile`, and
  the repository promises nothing about a crash during it.
