------------------------------- MODULE Warmup -------------------------------
(***************************************************************************)
(* Session.Warmup (src/session/warmup.go): the page is fetched, its        *)
(* subresources are collected and fetched in three batches, a limited      *)
(* number at a time; the next batch starts when the last one is done.      *)
(*                                                                         *)
(* The page is the sequence of tags the tokenizer finds, each with the URL *)
(* it resolves to and the type of resource its attributes make it, "none"  *)
(* when they make it none.                                                 *)
(***************************************************************************)
EXTENDS Naturals, FiniteSets, SequencesExt, SeqFilter

CONSTANTS
  Pages,             \* sequences of [url, typ]
  ConcurrencyLimit,  \* concurrencyLimit
  MaxSubresources    \* maxSubresources

ResourceTypes == {"css", "font", "js", "image"}

ASSUME WarmupAssumption ==
  /\ ConcurrencyLimit \in Nat \ {0} /\ MaxSubresources \in Nat \ {0}
  /\ \A page \in Pages : Len(page) \in Nat
  /\ \A page \in Pages : \A i \in 1 .. Len(page) : page[i].typ \in ResourceTypes \cup {"none"}

Waves == 1 .. 3

VARIABLES
  warm,       \* where Warmup is: "page", "wave", "delay", "fetch", "wait", "end"
  resources,  \* what parseSubresources returned
  wave,       \* the index of the batch
  fetching,   \* goroutines of fetchBatch: indices of resources
  fetched,    \* indices of resources whose goroutine is over
  queued,     \* indices of the batch that have no goroutine yet
  cancelled   \* ctx is over

warmVars == <<warm, resources, wave, fetching, fetched, queued, cancelled>>

\* parseSubresources: the first tag for every URL, until there are enough.
\* The limit is tested after a tag is handled.
FirstTags(page, n) ==
  {i \in 1 .. n :
     /\ page[i].typ # "none"
     /\ \A j \in 1 .. i - 1 : page[j].url = page[i].url => page[j].typ = "none"}

ParseSubresources(page) ==
  LET kept == FilterSeq([i \in 1 .. Len(page) |-> i],
                {i \in FirstTags(page, Len(page)) :
                   Cardinality(FirstTags(page, i - 1)) < MaxSubresources})
  IN [k \in 1 .. Len(kept) |-> page[kept[k]]]

\* groupByPriority
WaveOf(typ) == CASE typ \in {"css", "font"} -> 1 [] typ = "js" -> 2 [] typ = "image" -> 3

Batch(w) == {i \in 1 .. Len(resources) : WaveOf(resources[i].typ) = w}

WarmTypeOK ==
  /\ warm \in {"page", "wave", "delay", "fetch", "wait", "end"}
  /\ wave \in 1 .. 4
  /\ Len(resources) <= MaxSubresources
  /\ fetching \cup fetched \cup queued \subseteq 1 .. Len(resources)
  /\ Cardinality(fetching) <= ConcurrencyLimit
  /\ cancelled \in BOOLEAN

WarmInit ==
  /\ warm = "page" /\ resources = <<>> /\ wave = 1
  /\ fetching = {} /\ fetched = {} /\ queued = {}
  /\ cancelled = FALSE

\* The request for the page fails, or what comes is not HTML.
NoPage ==
  /\ warm = "page"
  /\ warm' = "end"
  /\ UNCHANGED <<resources, wave, fetching, fetched, queued, cancelled>>

Page(page) ==
  /\ warm = "page" /\ ~cancelled
  /\ resources' = ParseSubresources(page)
  /\ warm' = "wave"
  /\ UNCHANGED <<wave, fetching, fetched, queued, cancelled>>

\* Warmup's loop over the batches
NextWave ==
  /\ warm = "wave"
  /\ CASE wave \notin Waves -> warm' = "end" /\ UNCHANGED <<wave, queued>>
       [] wave \in Waves /\ Batch(wave) = {} -> wave' = wave + 1 /\ UNCHANGED <<warm, queued>>
       [] OTHER ->
            /\ warm' = IF cancelled THEN "end" ELSE IF wave > 1 THEN "delay" ELSE "fetch"
            /\ queued' = Batch(wave)
            /\ UNCHANGED wave
  /\ UNCHANGED <<resources, fetching, fetched, cancelled>>

\* interBatchDelay: when both are over, either may be noticed first.
DelayOver ==
  /\ warm = "delay"
  /\ warm' = "fetch"
  /\ UNCHANGED <<resources, wave, fetching, fetched, queued, cancelled>>

DelayCancelled ==
  /\ warm = "delay" /\ cancelled
  /\ warm' = "end"
  /\ UNCHANGED <<resources, wave, fetching, fetched, queued, cancelled>>

\* fetchBatch starts a goroutine when the semaphore has room.
FetchNext ==
  /\ warm = "fetch" /\ queued # {} /\ ~cancelled
  /\ Cardinality(fetching) < ConcurrencyLimit
  /\ LET i == CHOOSE i \in queued : \A j \in queued : i <= j IN
     /\ fetching' = fetching \cup {i} /\ queued' = queued \ {i}
  /\ UNCHANGED <<warm, resources, wave, fetched, cancelled>>

\* All are started, or the context is over.
FetchLoopEnds ==
  /\ warm = "fetch" /\ (queued = {} \/ cancelled)
  /\ warm' = "wait" /\ queued' = {}
  /\ UNCHANGED <<resources, wave, fetching, fetched, cancelled>>

\* A goroutine ends: the answer is read, or the request failed.
Fetched(i) ==
  /\ i \in fetching
  /\ fetching' = fetching \ {i} /\ fetched' = fetched \cup {i}
  /\ UNCHANGED <<warm, resources, wave, queued, cancelled>>

\* Mutant: the batch is not waited for.
BatchDoneAtOnce == TRUE

BatchDone == fetching = {} \/ cancelled

BatchOver ==
  /\ warm = "wait" /\ BatchDone
  /\ warm' = "wave" /\ wave' = wave + 1
  /\ UNCHANGED <<resources, fetching, fetched, queued, cancelled>>

CancelWarmup ==
  /\ ~cancelled
  /\ cancelled' = TRUE
  /\ UNCHANGED <<warm, resources, wave, fetching, fetched, queued>>

WarmNext ==
  \/ NoPage \/ NextWave \/ DelayOver \/ DelayCancelled \/ FetchNext \/ FetchLoopEnds
  \/ BatchOver \/ CancelWarmup
  \/ \E page \in Pages : Page(page)
  \/ \E i \in fetching : Fetched(i)

WarmSpec == WarmInit /\ [][WarmNext]_warmVars

-----------------------------------------------------------------------------
\* What is being fetched is of one batch, within the limit of the whole warm-up
\* although every batch has a semaphore of its own, and an uncancelled warm-up
\* ends with every resource fetched once, styles before scripts before images.
WavesInOrder ==
  /\ WarmTypeOK
  /\ Cardinality(fetching) <= ConcurrencyLimit
  /\ ~cancelled =>
       /\ \A i \in fetching : i \in Batch(wave)
       /\ \A i \in 1 .. Len(resources) :
            WaveOf(resources[i].typ) < wave => i \in fetched
  /\ \A i, j \in 1 .. Len(resources) : resources[i].url = resources[j].url => i = j
=============================================================================
