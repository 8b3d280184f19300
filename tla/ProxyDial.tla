----------------------------- MODULE ProxyDial -----------------------------
(***************************************************************************)
(* A TLS connection through a TCP proxy, as the HTTP/1.1 and the HTTP/2    *)
(* transport and the connection pool make it (dialThroughProxy and what    *)
(* follows it in createConn; src/proxy/socks5_tcp.go,                      *)
(* src/transport/speculative_conn.go).                                     *)
(*                                                                         *)
(* Over an HTTP proxy the transports may speculate: SpeculativeConn sends  *)
(* CONNECT together with the first TLS record and strips the proxy's       *)
(* answer from what it reads later.  A proxy that does not take that goes  *)
(* into a process-wide block list and the dial starts over, blocking.      *)
(*                                                                         *)
(* What comes back on the socket is a sequence of pieces: parts of the     *)
(* proxy's answer (0), its end, the empty line, then the target's TLS      *)
(* records 1, 2, ...  A Read returns any non-empty prefix of it, so the    *)
(* answer may come in parts, or together with records.                     *)
(***************************************************************************)
EXTENDS Naturals, SequencesExt

CONSTANTS
  Dials,        \* concurrent dials, through the same proxy
  Records,      \* TLS records the target sends during the handshake
  HeadParts,    \* bound: parts of the proxy's answer before its empty line
  MaxHead       \* parts that exceed the 16 KB limit on the answer

ASSUME ProxyDialAssumption ==
  Records \in Nat /\ HeadParts \in Nat /\ MaxHead \in Nat

VARIABLES
  blocklist,    \* speculativeTLSBlocklist contains the proxy
  dial          \* dial -> its locals, see NewDial

dialVars == <<blocklist, dial>>

\* Of a stream, the socket and a dial's progress:
\*   wire    what the peer sends, in order, not yet read
\*   held    pieces read from the socket and not yet delivered (headerBuffer,
\*           readBuffer, or the bufio.Reader of bufferedConn)
\*   got     records delivered to the TLS layer
NewDial(stack, kind, spec) ==
  [stack |-> stack, kind |-> kind, spec |-> spec, pc |-> "idle", socks |-> 0,
   tried |-> FALSE, status |-> 200, wire |-> <<>>, held |-> <<>>, got |-> <<>>]

Tls == [i \in 1 .. Records |-> i]
HeadPart == 0
HeadEnd == Records + 1

\* The peer's side of the connection: an answer of up to HeadParts parts, and
\* the records once the tunnel is open.
Answer(n, ok) == [i \in 1 .. n |-> HeadPart] \o <<HeadEnd>> \o (IF ok THEN Tls ELSE <<>>)

\* The pool never speculates; the transports do when they are told to.
PoolDials == {NewDial("pool", k, FALSE) : k \in {"http", "socks5"}}

TransportDials ==
  {NewDial(s, k, b) : s \in {"h1", "h2"}, k \in {"http", "socks5"}, b \in BOOLEAN}

DialInit ==
  /\ blocklist = FALSE
  /\ dial \in [Dials -> PoolDials \cup TransportDials]

DialTypeOK ==
  /\ blocklist \in BOOLEAN
  /\ \A d \in Dials :
       /\ dial[d].pc \in {"idle", "connect", "greet", "request", "spec", "strip", "tls",
                          "mark", "done", "failed"}
       /\ dial[d].socks \in 0 .. 2
       /\ dial[d].got \in Seq(1 .. Records)
       /\ IsPrefix(dial[d].got, Tls)

At(d, pc) == dial[d].pc = pc

Set(d, r) == dial' = [dial EXCEPT ![d] = r]

\* An error return once the proxy was reached closes the socket.
Fail(d) == Set(d, [dial[d] EXCEPT !.pc = "failed", !.socks = @ - 1])

-----------------------------------------------------------------------------
(* dialThroughProxy *)

\* The fall-back after a failed speculation never speculates.
Speculates(d) == dial[d].spec /\ ~dial[d].tried /\ ~blocklist

\* The proxy is resolved and connected to, or not.
DialProxy(d, next) ==
  /\ At(d, "idle")
  /\ \/ Set(d, [dial[d] EXCEPT !.pc = next, !.socks = @ + 1])
     \/ Set(d, [dial[d] EXCEPT !.pc = "failed"])
  /\ UNCHANGED blocklist

h1DialHTTPProxy(d) ==
  /\ dial[d].stack = "h1" /\ dial[d].kind = "http" /\ ~dial[d].tried
  /\ DialProxy(d, IF Speculates(d) THEN "spec" ELSE "connect")

h2DialHTTPProxy(d) ==
  /\ dial[d].stack = "h2" /\ dial[d].kind = "http" /\ ~dial[d].tried
  /\ DialProxy(d, IF Speculates(d) THEN "spec" ELSE "connect")

poolDialHTTPProxy(d) ==
  /\ dial[d].stack = "pool" /\ dial[d].kind = "http"
  /\ DialProxy(d, "connect")

\* dialHTTPProxyBlockingFresh
h1BlockingFresh(d) ==
  /\ dial[d].stack = "h1" /\ dial[d].tried
  /\ DialProxy(d, "connect")

h2BlockingFresh(d) ==
  /\ dial[d].stack = "h2" /\ dial[d].tried
  /\ DialProxy(d, "connect")

DialSOCKS5(d) ==
  /\ dial[d].stack # "pool" /\ dial[d].kind = "socks5"
  /\ DialProxy(d, "greet")

poolDialSOCKS5(d) ==
  /\ dial[d].stack = "pool" /\ dial[d].kind = "socks5"
  /\ DialProxy(d, "greet")

-----------------------------------------------------------------------------
(* The CONNECT exchange *)

\* Mutant: what the reader buffered beyond the answer is dropped.
AfterConnectDrops(r, n, k) ==
  [r EXCEPT !.pc = "tls", !.wire = SubSeq(Answer(n, TRUE), k + 1, n + 1 + Records), !.held = <<>>]

\* http.ReadResponse has read k pieces of the stream to find the answer's end;
\* bufferedConn hands on what came with it.
AfterConnect(r, n, k) ==
  [r EXCEPT !.pc = "tls", !.wire = SubSeq(Answer(n, TRUE), k + 1, n + 1 + Records),
            !.held = SubSeq(Answer(n, TRUE), n + 2, k)]

\* dialHTTPProxyBlocking: the request is sent and the answer read.  The target
\* speaks only after it was spoken to, so records reach the reader together
\* with the answer only if it speaks first; the transports allow for that.
ConnectBlocking(d) ==
  /\ At(d, "connect") /\ dial[d].stack # "pool"
  /\ \/ \E n \in 0 .. HeadParts : \E k \in n + 1 .. n + 1 + Records :
          Set(d, AfterConnect(dial[d], n, k))
     \/ Fail(d)
  /\ UNCHANGED blocklist

\* The pool reads once and looks for "200" in what it got: the rest of an
\* answer that comes in parts is left to the TLS layer, which rejects it.
PoolConnect(d) ==
  /\ At(d, "connect") /\ dial[d].stack = "pool"
  /\ \/ \E n \in 0 .. HeadParts : \E k \in 1 .. n + 1 :
          Set(d, [dial[d] EXCEPT !.pc = "tls", !.wire = SubSeq(Answer(n, TRUE), k + 1, n + 1 + Records)])
     \/ Fail(d)
  /\ UNCHANGED blocklist

\* socks5Handshake and socks5PasswordAuth: the proxy picks a method on offer
\* and takes the credentials, or the dial fails.
SocksGreet(d) ==
  /\ At(d, "greet") /\ dial[d].stack # "pool"
  /\ \/ Set(d, [dial[d] EXCEPT !.pc = "request"])
     \/ Fail(d)
  /\ UNCHANGED blocklist

\* socks5Connect reads exactly the reply, and the records follow.
SocksConnect(d) ==
  /\ At(d, "request") /\ dial[d].stack # "pool"
  /\ \/ Set(d, [dial[d] EXCEPT !.pc = "tls", !.wire = Tls])
     \/ Fail(d)
  /\ UNCHANGED blocklist

\* The pool's own client, in one go.  Of the last reply it reads ten bytes, or
\* fewer, whatever the address in it: the rest is left to the TLS layer.
PoolSocks(d) ==
  /\ At(d, "greet") /\ dial[d].stack = "pool"
  /\ \/ \E rest \in {<<>>, <<HeadPart>>} :
          Set(d, [dial[d] EXCEPT !.pc = "tls", !.wire = rest \o Tls])
     \/ Fail(d)
  /\ UNCHANGED blocklist

-----------------------------------------------------------------------------
(* SpeculativeConn under the TLS handshake *)

\* Mutant: the fall-back leaves the first connection open.
SpecErrorOpen(d) ==
  Set(d, [dial[d] EXCEPT !.pc = "mark", !.wire = <<>>, !.held = <<>>])

\* A SpeculativeTLSError comes out of the handshake: the raw connection is
\* closed first.
SpecError(d) ==
  Set(d, [dial[d] EXCEPT !.pc = "mark", !.socks = @ - 1, !.wire = <<>>, !.held = <<>>])

\* The first Write sends CONNECT and ClientHello in one piece; the proxy
\* answers 200 and tunnels, answers something else, or hangs up.
SpecWrite(d) ==
  /\ At(d, "spec")
  /\ \/ \E n \in 0 .. HeadParts, s \in {200, 407} :
          Set(d, [dial[d] EXCEPT !.pc = "strip", !.status = s, !.wire = Answer(n, s = 200)])
     \/ SpecError(d)
  /\ UNCHANGED blocklist

\* Mutant: records that came with the answer are not kept.
StripKeepsNothing(d) ==
  /\ At(d, "strip")
  /\ \E k \in 1 .. Len(dial[d].wire) :
       LET data == dial[d].held \o SubSeq(dial[d].wire, 1, k) IN
       IF Contains(data, HeadEnd)
         THEN IF dial[d].status # 200 THEN SpecError(d)
              ELSE Set(d, [dial[d] EXCEPT !.pc = "tls", !.held = <<>>,
                                          !.wire = SubSeq(@, k + 1, Len(@))])
         ELSE IF Len(data) > MaxHead THEN SpecError(d)
              ELSE Set(d, [dial[d] EXCEPT !.held = data, !.wire = SubSeq(@, k + 1, Len(@))])
  /\ UNCHANGED blocklist

\* bytes.Index: where the answer ends, if it does.
HeaderEnd(data) ==
  CHOOSE i \in 1 .. Len(data) : data[i] = HeadEnd /\ \A j \in 1 .. i - 1 : data[j] # HeadEnd

\* One turn of readAndStripHTTPResponse: more of the answer, and once its end
\* is there the status decides and what is behind it is kept.
Strip(d) ==
  /\ At(d, "strip")
  /\ \E k \in 1 .. Len(dial[d].wire) :
       LET data == dial[d].held \o SubSeq(dial[d].wire, 1, k) IN
       IF Contains(data, HeadEnd)
         THEN IF dial[d].status # 200 THEN SpecError(d)
              ELSE Set(d, [dial[d] EXCEPT !.pc = "tls",
                     !.held = SubSeq(data, HeaderEnd(data) + 1, Len(data)),
                     !.wire = SubSeq(@, k + 1, Len(@))])
         ELSE IF Len(data) > MaxHead THEN SpecError(d)
              ELSE Set(d, [dial[d] EXCEPT !.held = data, !.wire = SubSeq(@, k + 1, Len(@))])
  /\ UNCHANGED blocklist

\* The connection ends before the answer does.
StripFails(d) ==
  /\ At(d, "strip")
  /\ SpecError(d)
  /\ UNCHANGED blocklist

-----------------------------------------------------------------------------
(* The TLS handshake over whatever the dial returned *)

\* A Read of the TLS layer: what is held comes first, then the socket.
TlsRead(d) ==
  LET r == dial[d] IN
  /\ At(d, "tls") /\ Len(r.got) < Records
  /\ \/ /\ r.held # <<>> /\ Head(r.held) \in 1 .. Records
        /\ Set(d, [r EXCEPT !.got = Append(@, Head(r.held)), !.held = Tail(@)])
     \/ /\ r.held = <<>> /\ r.wire # <<>> /\ Head(r.wire) \in 1 .. Records
        /\ Set(d, [r EXCEPT !.got = Append(@, Head(r.wire)), !.wire = Tail(@)])
  /\ UNCHANGED blocklist

TlsDone(d) ==
  /\ At(d, "tls") /\ Len(dial[d].got) = Records
  /\ Set(d, [dial[d] EXCEPT !.pc = "done"])
  /\ UNCHANGED blocklist

\* The handshake fails for a reason of its own: certificate, alert, timeout,
\* or bytes that are no record.
TlsFails(d) ==
  /\ At(d, "tls")
  /\ Fail(d)
  /\ UNCHANGED blocklist

\* MarkProxyNoSpeculative, and the dial starts over.
Mark(d) ==
  /\ At(d, "mark")
  /\ blocklist' = TRUE
  /\ Set(d, [dial[d] EXCEPT !.pc = "idle", !.tried = TRUE, !.got = <<>>])

h1Fallback(d) == dial[d].stack = "h1" /\ Mark(d)
h2Fallback(d) == dial[d].stack = "h2" /\ Mark(d)

DialNext ==
  \E d \in Dials :
    \/ h1DialHTTPProxy(d) \/ h2DialHTTPProxy(d) \/ poolDialHTTPProxy(d)
    \/ h1BlockingFresh(d) \/ h2BlockingFresh(d) \/ DialSOCKS5(d) \/ poolDialSOCKS5(d)
    \/ ConnectBlocking(d) \/ PoolConnect(d) \/ SocksGreet(d) \/ SocksConnect(d) \/ PoolSocks(d)
    \/ SpecWrite(d) \/ Strip(d) \/ StripFails(d)
    \/ TlsRead(d) \/ TlsDone(d) \/ TlsFails(d) \/ h1Fallback(d) \/ h2Fallback(d)

DialSpec == DialInit /\ [][DialNext]_dialVars

-----------------------------------------------------------------------------
(* Properties *)

\* Stripping the proxy's answer costs the TLS layer nothing: whatever way the
\* stream is cut into reads, what it was given and what is kept for it and
\* still under way are the target's records, complete and in order.
RecordsIntact ==
  \A d \in Dials :
    At(d, "tls") /\ dial[d].stack # "pool" =>
      dial[d].got \o dial[d].held \o dial[d].wire = Tls

\* A dial holds one socket while it runs and when it succeeded, and none when
\* it failed, after a fall-back as well.
OneSocket ==
  \A d \in Dials :
    dial[d].socks = IF dial[d].pc \in {"idle", "mark", "failed"} THEN 0 ELSE 1

\* What a dial through a proxy promises to the handshake above it.
TunnelSound == RecordsIntact /\ OneSocket
=============================================================================
