------------------------------- MODULE MCCLib -------------------------------
(***************************************************************************)
(* Asynchronous requests, uploads and the host's session cache side by     *)
(* side.  They share no state, so a behaviour exercises one of them,       *)
(* chosen at the start.                                                    *)
(***************************************************************************)
EXTENDS CLibAsync, CLibUpload, CLibCache

VARIABLE part

clibVars == <<part, asyncVars, uploadVars, cacheVars>>

CLibInit ==
  /\ part \in {"async", "upload", "cache"}
  /\ AsyncInit /\ UploadInit /\ CacheInit

AsyncPart ==
  part = "async" /\ AsyncNext /\ UNCHANGED <<part, uploadVars, cacheVars>>

UploadPart ==
  part = "upload" /\ UploadNext /\ UNCHANGED <<part, asyncVars, cacheVars>>

CachePart ==
  part = "cache" /\ CacheNext /\ UNCHANGED <<part, asyncVars, uploadVars>>

CLibNext == AsyncPart \/ UploadPart \/ CachePart

\* The goroutines of the part that runs go on, and the host's calls with them;
\* in the other parts nothing is under way that could.
CLibSpec ==
  /\ CLibInit /\ [][CLibNext]_clibVars
  /\ AsyncFairness /\ UploadFairness /\ CacheFairness

-----------------------------------------------------------------------------
\* Through every interleaving of the host's threads with the library's: a
\* callback runs once and only while a request can still be cancelled its cancel
\* function is kept; an upload the server saw end is whole; a lookup gets the
\* first answer to its own request; no request is left behind in a table.
CLibInv ==
  /\ AsyncTypeOK /\ CallbackOnce /\ CancelFuncsDrain /\ RunningCancellable
  /\ UploadTypeOK /\ UploadWhole
  /\ CacheTypeOK /\ FirstOwnAnswer /\ RequestsCleanedUp

\* Every asynchronous request and every upload the host finishes is answered.
CLibAnswers == AsyncAnswered /\ FinishAnswered

\* No thread is held for ever inside the library: not the one that writes or
\* cancels an upload, not the handshake that asks the host's cache, not the host
\* that answers it.
CLibReturns == UploadCallsReturn /\ LookupReturns /\ HostNotBlocked
=============================================================================
