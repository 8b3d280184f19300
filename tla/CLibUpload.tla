----------------------------- MODULE CLibUpload -----------------------------
(***************************************************************************)
(* A streaming upload of the C library (src/bindings/clib/sensor.go): the  *)
(* host writes chunks into an io.Pipe and finishes or cancels, from any of *)
(* its threads; a goroutine sends the request whose body is the pipe.      *)
(*                                                                         *)
(* upload.mu is held while a write waits in the pipe.  The request belongs *)
(* to the session (Session.tla, Transport.tla) and is external here: it    *)
(* makes attempts, over one protocol after the other, each of which may    *)
(* fail before it touches the body (a dial) or later, when net/http closes *)
(* the body, and with it the pipe's read end.                              *)
(***************************************************************************)
EXTENDS Naturals

CONSTANTS
  Hosts,      \* threads of the host language, one exported call each
  NoHost,
  Tries       \* bound on the attempts of one request

ASSUME UploadAssumption ==
  /\ NoHost \notin Hosts
  /\ Tries \in Nat \ {0}

VARIABLES
  handle,     \* the upload is in uploads
  mu,         \* who holds upload.mu across steps
  finished,   \* upload.finished
  writeEnd,   \* pipeWriter: "open", "eof" (Close) or "error" (CloseWithError)
  readEnd,    \* pipeReader: "open" or "closed"
  host,       \* thread -> [op, pc]
  accepted,   \* chunks whose write was told it succeeded
  request,    \* the goroutine: [pc, try, read], read = chunks this try sent
  responseCh, \* "empty" or a result
  touched     \* some attempt began to read the body

uploadVars ==
  <<handle, mu, finished, writeEnd, readEnd, host, accepted, request, responseCh, touched>>

Ops == {"none", "write", "finish", "cancel"}
HostSteps == {"idle", "lock", "pipe", "close", "wait", "done"}

UploadTypeOK ==
  /\ handle \in BOOLEAN /\ finished \in BOOLEAN /\ touched \in BOOLEAN
  /\ mu \in Hosts \cup {NoHost}
  /\ writeEnd \in {"open", "eof", "error"} /\ readEnd \in {"open", "closed"}
  /\ host \in [Hosts -> [op: Ops, pc: HostSteps]]
  /\ accepted \in Nat
  /\ request \in [pc: {"none", "dial", "sending", "whole", "done"}, try: 1 .. Tries, read: Nat]
  /\ responseCh \in {"empty", "resp", "err"}

UploadInit ==
  /\ handle = FALSE /\ finished = FALSE /\ touched = FALSE
  /\ mu = NoHost
  /\ writeEnd = "open" /\ readEnd = "open"
  /\ host = [h \in Hosts |-> [op |-> "none", pc |-> "idle"]]
  /\ accepted = 0
  /\ request = [pc |-> "none", try |-> 1, read |-> 0]
  /\ responseCh = "empty"

\* sensor_upload_start: the handle is stored and the goroutine runs.
UploadStart ==
  /\ request.pc = "none"
  /\ request' = [request EXCEPT !.pc = "dial"]
  /\ handle' = TRUE
  /\ UNCHANGED <<mu, finished, writeEnd, readEnd, host, accepted, responseCh, touched>>

HostGoes(h, pc) == host' = [host EXCEPT ![h].pc = pc]

\* Every call looks the handle up; finish and cancel remove it in the same
\* critical section of uploadMu.
Enter(h, op) ==
  /\ host[h].pc = "idle"
  /\ host' = [host EXCEPT ![h] = [op |-> op, pc |-> IF handle THEN "lock" ELSE "done"]]
  /\ handle' = (handle /\ op = "write")
  /\ UNCHANGED <<mu, finished, writeEnd, readEnd, accepted, request, responseCh, touched>>

\* sensor_upload_write and write_raw: after the finished check (and the base64
\* decoding, which may fail) the write waits in the pipe with upload.mu held.
WriteLock(h) ==
  /\ host[h] = [op |-> "write", pc |-> "lock"] /\ mu = NoHost
  /\ \/ /\ ~finished
        /\ mu' = h /\ HostGoes(h, "pipe")
     \/ HostGoes(h, "done") /\ mu' = mu
  /\ UNCHANGED <<handle, finished, writeEnd, readEnd, accepted, request, responseCh, touched>>

\* pipeWriter.Write fails when either end of the pipe is closed.
WriteFails(h) ==
  /\ host[h].pc = "pipe"
  /\ readEnd = "closed" \/ writeEnd # "open"
  /\ HostGoes(h, "done") /\ mu' = NoHost
  /\ UNCHANGED <<handle, finished, writeEnd, readEnd, accepted, request, responseCh, touched>>

\* sensor_upload_finish, under upload.mu
FinishLock(h) ==
  /\ host[h] = [op |-> "finish", pc |-> "lock"] /\ mu = NoHost
  /\ HostGoes(h, IF finished THEN "done" ELSE "close")
  /\ finished' = TRUE
  /\ UNCHANGED <<handle, mu, writeEnd, readEnd, accepted, request, responseCh, touched>>

\* pipeWriter.Close, after upload.mu is released
FinishClose(h) ==
  /\ host[h].pc = "close"
  /\ writeEnd' = IF writeEnd = "open" THEN "eof" ELSE writeEnd
  /\ HostGoes(h, "wait")
  /\ UNCHANGED <<handle, mu, finished, readEnd, accepted, request, responseCh, touched>>

\* <-upload.responseCh, and the response is returned
FinishReturns(h) ==
  /\ host[h].pc = "wait" /\ responseCh # "empty"
  /\ responseCh' = "empty"
  /\ HostGoes(h, "done")
  /\ UNCHANGED <<handle, mu, finished, writeEnd, readEnd, accepted, request, touched>>

\* Mutant: cancelling closes the pipe as finishing does.
CancelLockEOF(h) ==
  /\ host[h] = [op |-> "cancel", pc |-> "lock"] /\ mu = NoHost
  /\ writeEnd' = IF finished THEN writeEnd ELSE "eof"
  /\ HostGoes(h, "done")
  /\ UNCHANGED <<handle, mu, finished, readEnd, accepted, request, responseCh, touched>>

\* sensor_upload_cancel, under upload.mu
CancelLock(h) ==
  /\ host[h] = [op |-> "cancel", pc |-> "lock"] /\ mu = NoHost
  /\ writeEnd' = IF finished THEN writeEnd ELSE "error"
  /\ HostGoes(h, "done")
  /\ UNCHANGED <<handle, mu, finished, readEnd, accepted, request, responseCh, touched>>

-----------------------------------------------------------------------------
\* The goroutine ends: its result goes into the buffered channel.
Answer(out) ==
  /\ request' = [request EXCEPT !.pc = "done"]
  /\ responseCh' = out

\* Mutant: one attempt too many.
FailsOrRetriesMore ==
  \/ Answer("err")
  \/ /\ request.try <= Tries
     /\ request' = [pc |-> "dial", try |-> request.try + 1, read |-> 0]
     /\ UNCHANGED responseCh

\* An attempt failed: another protocol is tried, or DoWithBody returns.
FailsOrRetries ==
  \/ Answer("err")
  \/ /\ request.try < Tries
     /\ request' = [pc |-> "dial", try |-> request.try + 1, read |-> 0]
     /\ UNCHANGED responseCh

\* Mutant: the request that could not be sent reports nothing.
DialFailsSilently ==
  /\ request.pc = "dial"
  /\ request' = [request EXCEPT !.pc = "done"]
  /\ UNCHANGED <<handle, mu, finished, writeEnd, readEnd, host, accepted, responseCh, touched>>

\* An attempt fails before the body is touched: nobody closes the pipe.
DialFails ==
  /\ request.pc = "dial"
  /\ FailsOrRetries
  /\ UNCHANGED <<handle, mu, finished, writeEnd, readEnd, host, accepted, touched>>

Dialled ==
  /\ request.pc = "dial"
  /\ request' = [request EXCEPT !.pc = "sending"]
  /\ touched' = TRUE
  /\ UNCHANGED <<handle, mu, finished, writeEnd, readEnd, host, accepted, responseCh>>

\* The request reads the chunk that waits in the pipe; the write returns.
ReadChunk(h) ==
  /\ request.pc = "sending" /\ readEnd = "open" /\ host[h].pc = "pipe" /\ writeEnd = "open"
  /\ request' = [request EXCEPT !.read = @ + 1]
  /\ accepted' = accepted + 1
  /\ HostGoes(h, "done") /\ mu' = NoHost
  /\ UNCHANGED <<handle, finished, writeEnd, readEnd, responseCh, touched>>

\* The request reads the end of the body: the server has all of it.
ReadEOF ==
  /\ request.pc = "sending" /\ readEnd = "open" /\ writeEnd = "eof"
  /\ request' = [request EXCEPT !.pc = "whole"]
  /\ UNCHANGED <<handle, mu, finished, writeEnd, readEnd, host, accepted, responseCh, touched>>

\* Mutant: the body is wrapped in a NopCloser, so a failed attempt leaves the
\* pipe open for the next one.
SendFailsOpen ==
  /\ request.pc \in {"sending", "whole"}
  /\ FailsOrRetries
  /\ UNCHANGED <<handle, mu, finished, writeEnd, readEnd, host, accepted, touched>>

\* A cancelled pipe, a pipe an earlier attempt closed, a broken connection, the
\* deadline of the context or a status the session retries: the body is closed.
SendFails ==
  /\ request.pc \in {"sending", "whole"}
  /\ readEnd' = "closed"
  /\ FailsOrRetries
  /\ UNCHANGED <<handle, mu, finished, writeEnd, host, accepted, touched>>

\* The response: after the body, or while it is still being sent.
Responds ==
  /\ request.pc \in {"sending", "whole"}
  /\ request.pc = "whole" \/ readEnd = "open"
  /\ readEnd' = "closed"
  /\ Answer("resp")
  /\ UNCHANGED <<handle, mu, finished, writeEnd, host, accepted, touched>>

RequestStep ==
  \/ DialFails \/ Dialled \/ ReadEOF \/ SendFails \/ Responds
  \/ \E h \in Hosts : ReadChunk(h)

HostStep(h) ==
  \/ WriteLock(h) \/ WriteFails(h)
  \/ FinishLock(h) \/ FinishClose(h) \/ FinishReturns(h)
  \/ CancelLock(h)

UploadNext ==
  \/ UploadStart \/ RequestStep
  \/ \E h \in Hosts : HostStep(h) \/ \E op \in Ops \ {"none"} : Enter(h, op)

\* The goroutine runs and its context has a deadline (5 minutes by default), so
\* the request never waits for the host for ever.  A call that can go on does;
\* sync.Mutex does not starve a waiter, hence the strong fairness.
UploadFairness ==
  /\ WF_uploadVars(DialFails \/ SendFails)
  /\ \A h \in Hosts : SF_uploadVars(HostStep(h))

UploadSpec == UploadInit /\ [][UploadNext]_uploadVars /\ UploadFairness

-----------------------------------------------------------------------------
\* What a server receives as a complete body is what the host wrote before it
\* called finish: never what was written before a cancel, and never the rest
\* that a second attempt found in the pipe after the first had failed.
UploadWhole ==
  request.pc = "whole" => finished /\ request.read = accepted

\* Finish returns once it waits for the response, whether the request failed
\* before it was sent, was sent in part, or answered early.
FinishAnswered == \A h \in Hosts : host[h].pc = "wait" ~> host[h].pc = "done"

\* Once an attempt has begun to read the body, no write, finish or cancel hangs:
\* not even with several threads queued behind the upload.mu of a blocked write.
UploadCallsReturn ==
  \A h \in Hosts : (touched /\ host[h].pc # "idle") ~> host[h].pc = "done"
=============================================================================
