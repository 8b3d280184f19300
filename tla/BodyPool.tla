------------------------------ MODULE BodyPool ------------------------------
(***************************************************************************)
(* How Transport.doHTTP1, doHTTP1WithTLSConn, doHTTP2 and doHTTP3 read a   *)
(* response body (readBodyOptimized, decompress, getPooledBuffer and the   *)
(* lines around their calls in src/transport/transport.go).                *)
(*                                                                         *)
(* Buffers come from three sync.Pools by size class.  A reader is one call *)
(* of doHTTP*.  What a buffer holds is reduced to the reader that wrote it *)
(* last.  A body that is not in a pooled buffer is private to its reader,  *)
(* and all there is to say of it is whose bytes were copied into it.       *)
(***************************************************************************)
EXTENDS Integers, FiniteSets

CONSTANTS
  Readers,    \* calls of doHTTP1, doHTTP2, doHTTP3
  Buffers,    \* identities of pooled buffers
  Bodies,     \* the answers of the servers: Content-Length in MB (0 stands for
              \* "unknown") and Content-Encoding
  NoBuffer,
  NoReader

\* The capacities of bodyPool1MB, bodyPool10MB and bodyPool100MB, in MB.
Classes == {1, 10, 100}

ASSUME BodyPoolAssumption ==
  /\ Bodies \subseteq [size: Nat, enc: {"none", "gzip", "identity"}]
  /\ NoBuffer \notin Buffers
  /\ NoReader \notin Readers

VARIABLES
  pooled,   \* buffer -> is it in its sync.Pool
  class,    \* buffer -> capacity
  written,  \* buffer -> the reader that wrote into it last
  rd,       \* reader -> its locals
  mixed,    \* the readers whose private body has bytes another reader wrote
  raced     \* history: the readers whose buffer another one was given between
            \* their release() of it and their copy out of it

poolVars == <<pooled, class, written, rd, mixed, raced>>

Idle == [pc |-> "idle", size |-> 0, enc |-> "none", buf |-> NoBuffer]

BodyTypeOK ==
  /\ pooled \in [Buffers -> BOOLEAN]
  /\ class \in [Buffers -> Classes]
  /\ written \in [Buffers -> Readers \cup {NoReader}]
  /\ mixed \subseteq Readers /\ raced \subseteq Readers
  /\ rd \in [Readers -> [pc: {"idle", "got", "copy", "full", "body", "error"},
                         size: Nat, enc: {"none", "gzip", "identity"},
                         buf: Buffers \cup {NoBuffer}]]

BodyInit ==
  /\ pooled = [b \in Buffers |-> FALSE]
  /\ class = [b \in Buffers |-> 1]
  /\ written = [b \in Buffers |-> NoReader]
  /\ rd = [r \in Readers |-> Idle]
  /\ mixed = {} /\ raced = {}

-----------------------------------------------------------------------------

\* Mutant: the bounds of the size classes are one too large.
PoolForLoose(size) ==
  IF size <= 1 + 1 THEN 1 ELSE IF size <= 10 + 1 THEN 10 ELSE 100

\* Mutant: a buffer of exactly the size.
PoolForExact(size) == size

\* getPooledBuffer: the pool a body of this size is read into.  A body of
\* unknown length asks for 1 MB.
PoolFor(size) ==
  IF size <= 1 THEN 1 ELSE IF size <= 10 THEN 10 ELSE 100

InUse(b) == pooled[b] \/ \E r \in Readers : rd[r].buf = b

\* sync.Pool.Get: some buffer of the pool, or New.  A new buffer is an
\* identity that is in no pool and that nobody refers to.
Take(c, b) ==
  \/ /\ pooled[b] /\ class[b] = c
     /\ pooled' = [pooled EXCEPT ![b] = FALSE]
     /\ UNCHANGED class
  \/ /\ ~InUse(b)
     /\ class' = [class EXCEPT ![b] = c]
     /\ UNCHANGED pooled

\* readBodyOptimized up to the first read.  Above 100 MB the buffer is made
\* for this body and never pooled.
StartRead(r, size, enc) ==
  /\ rd[r].pc = "idle"
  /\ \/ /\ size > 100
        /\ rd' = [rd EXCEPT ![r] = [pc |-> "got", size |-> size, enc |-> enc, buf |-> NoBuffer]]
        /\ UNCHANGED <<pooled, class, raced>>
     \/ /\ size <= 100
        /\ \E b \in Buffers :
             /\ Take(PoolFor(size), b)
             /\ rd' = [rd EXCEPT ![r] = [pc |-> "got", size |-> size, enc |-> enc, buf |-> b]]
             /\ raced' = raced \cup {s \in Readers : rd[s].pc = "copy" /\ rd[s].buf = b}
  /\ UNCHANGED <<written, mixed>>

Release(b) ==
  pooled' = IF b \in Buffers THEN [pooled EXCEPT ![b] = TRUE] ELSE pooled

Wrote(r, b) ==
  written' = IF b \in Buffers THEN [written EXCEPT ![b] = r] ELSE written

\* A failing read releases the buffer; doHTTP* returns read_body.
ReadError(r) ==
  LET b == rd[r].buf IN
  /\ rd[r].pc = "got"
  /\ Release(b)
  /\ Wrote(r, b)
  /\ rd' = [rd EXCEPT ![r].pc = "error", ![r].buf = NoBuffer]
  /\ UNCHANGED <<class, mixed, raced>>

\* A body of known length stays in its buffer (short or complete: an early end
\* is not an error).
ReadKnown(r) ==
  /\ rd[r].pc = "got" /\ rd[r].size > 0
  /\ Wrote(r, rd[r].buf)
  /\ rd' = [rd EXCEPT ![r].pc = "full"]
  /\ UNCHANGED <<pooled, class, mixed, raced>>

\* A body of unknown length outgrows its buffer, which is released ...
Outgrow(r) ==
  LET b == rd[r].buf IN
  /\ rd[r].pc = "got" /\ rd[r].size = 0 /\ b # NoBuffer
  /\ Release(b)
  /\ Wrote(r, b)
  /\ rd' = [rd EXCEPT ![r].pc = "copy"]
  /\ UNCHANGED <<class, mixed, raced>>

\* ... and only then copied into a private one of twice the length.
CopyOut(r) ==
  /\ rd[r].pc = "copy"
  /\ mixed' = IF written[rd[r].buf] = r THEN mixed ELSE mixed \cup {r}
  /\ rd' = [rd EXCEPT ![r].pc = "got", ![r].buf = NoBuffer]
  /\ UNCHANGED <<pooled, class, written, raced>>

\* The first bytes of a body arrive in its buffer.
ReadSome(r) ==
  /\ rd[r].pc = "got"
  /\ Wrote(r, rd[r].buf)
  /\ UNCHANGED <<pooled, class, rd, mixed, raced>>

\* Mutant: the result is the buffer itself and not a copy.
ReadUnknownNoCopy(r) ==
  LET b == rd[r].buf IN
  /\ rd[r].pc = "got" /\ rd[r].size = 0
  /\ Release(b)
  /\ Wrote(r, b)
  /\ rd' = [rd EXCEPT ![r].pc = "full"]
  /\ UNCHANGED <<class, mixed, raced>>

\* A body of unknown length ends: it is copied and the buffer released.
ReadUnknown(r) ==
  LET b == rd[r].buf IN
  /\ rd[r].pc = "got" /\ rd[r].size = 0
  /\ Release(b)
  /\ Wrote(r, b)
  /\ rd' = [rd EXCEPT ![r].pc = "full", ![r].buf = NoBuffer]
  /\ UNCHANGED <<class, mixed, raced>>

\* No Content-Encoding: the buffer becomes the body of the Response and is
\* never returned to a pool.
Plain(r) ==
  /\ rd[r].pc = "full" /\ rd[r].enc = "none"
  /\ rd' = [rd EXCEPT ![r].pc = "body"]
  /\ UNCHANGED <<pooled, class, written, mixed, raced>>

\* A known encoding: decompress allocates, the buffer is released.
Decompress(r) ==
  /\ rd[r].pc = "full" /\ rd[r].enc = "gzip"
  /\ Release(rd[r].buf)
  /\ \E result \in {"body", "error"} :
       rd' = [rd EXCEPT ![r].pc = result, ![r].buf = NoBuffer]
  /\ UNCHANGED <<class, written, mixed, raced>>

\* "identity" and encodings decompress does not know: it returns its argument,
\* and the buffer is released although the Response refers to it.
Identity(r) ==
  /\ rd[r].pc = "full" /\ rd[r].enc = "identity"
  /\ Release(rd[r].buf)
  /\ rd' = [rd EXCEPT ![r].pc = "body"]
  /\ UNCHANGED <<class, written, mixed, raced>>

\* The caller drops the Response; the garbage collector empties a sync.Pool.
Drop(r) ==
  /\ rd[r].pc \in {"body", "error"}
  /\ rd' = [rd EXCEPT ![r] = Idle]
  /\ mixed' = mixed \ {r} /\ raced' = raced \ {r}
  /\ UNCHANGED <<pooled, class, written>>

Collect(b) ==
  /\ pooled[b]
  /\ pooled' = [pooled EXCEPT ![b] = FALSE]
  /\ UNCHANGED <<class, written, rd, mixed, raced>>

BodyNext ==
  \/ \E r \in Readers :
       \/ \E x \in Bodies : StartRead(r, x.size, x.enc)
       \/ ReadSome(r) \/ ReadError(r) \/ ReadKnown(r)
       \/ Outgrow(r) \/ CopyOut(r) \/ ReadUnknown(r)
       \/ Plain(r) \/ Decompress(r) \/ Identity(r) \/ Drop(r)
  \/ \E b \in Buffers : Collect(b)

BodySpec == BodyInit /\ [][BodyNext]_poolVars

-----------------------------------------------------------------------------

\* A body for which decompress returns its argument although the length was
\* known, so that the buffer is a pooled one.
Returned(r) == rd[r].pc = "body" /\ rd[r].enc = "identity"

\* A body that was read holds what its own reader wrote: no other call of
\* doHTTP* was given its buffer before the bytes were the caller's or copied.
\* The code keeps that for every body but those, whose buffer it releases
\* although the Response refers to it, and but one that outgrew its buffer
\* while another call took that buffer out of the pool: readBodyOptimized
\* releases it one line before it copies out of it.
BodyIntact ==
  \A r \in Readers :
    rd[r].pc \in {"full", "body"} /\ ~Returned(r) =>
      IF rd[r].buf = NoBuffer THEN r \notin mixed \/ r \in raced
      ELSE written[rd[r].buf] = r /\ ~pooled[rd[r].buf]

\* The slice expression (*bufPtr)[:contentLength] never exceeds the capacity of
\* the buffer, also at the limits of the size classes.
SliceFits ==
  \A r \in Readers : rd[r].buf # NoBuffer => rd[r].size <= class[rd[r].buf]
=============================================================================
