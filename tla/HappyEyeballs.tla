--------------------------- MODULE HappyEyeballs ---------------------------
(***************************************************************************)
(* HostPool.dialHappyEyeballs (src/pool/pool.go): one goroutine per        *)
(* address of the preferred family, after 250 ms or a first failure one    *)
(* per fallback address, results through a buffered channel, the first     *)
(* connection wins and cancels the rest.                                   *)
(*                                                                         *)
(* The channel has room for every result, so a goroutine whose dial        *)
(* succeeds after the race is over may find both cases of its select       *)
(* ready: it puts the connection into the channel, where nobody looks      *)
(* again, or closes it.                                                    *)
(***************************************************************************)
EXTENDS Naturals, FiniteSets, Sequences

CONSTANTS
  Ipv6, Ipv4  \* the addresses a host may have

ASSUME HappyAssumption ==
  /\ IsFiniteSet(Ipv6) /\ IsFiniteSet(Ipv4)
  /\ Ipv6 \cap Ipv4 = {}

VARIABLES
  addrs,      \* preferredIPs and fallbackIPs
  race,       \* "start", "head", "wait", "won", "error" or "cancelled"
  todo,       \* results the last loop still reads
  inProgress,    \* addresses with a dial in progress
  resultCh,   \* results in the channel: <<address, succeeded>>
  opened,     \* addresses with an open connection
  winner      \* the connection that was returned: a set of at most one address

Preferred == addrs.preferred
Fallback == addrs.fallback
Ips == Preferred \cup Fallback

happyVars == <<addrs, race, todo, inProgress, resultCh, opened, winner>>

HappyTypeOK ==
  /\ addrs \in [preferred: SUBSET (Ipv6 \cup Ipv4), fallback: SUBSET (Ipv6 \cup Ipv4)]
  /\ race \in {"start", "head", "wait", "won", "error", "cancelled"}
  /\ todo \in 0 .. Cardinality(Ips)
  /\ inProgress \subseteq Ips
  /\ resultCh \in Seq(Ips \X BOOLEAN)
  /\ opened \subseteq Ips /\ winner \subseteq opened

\* Which family is preferred is the DNS cache's setting, and a local address
\* leaves the addresses of its own family only.
HappyInit ==
  /\ \E six \in SUBSET Ipv6, four \in SUBSET Ipv4, local \in {0, 4, 6}, prefer4 \in BOOLEAN :
       LET a == IF local = 4 THEN {} ELSE six
           b == IF local = 6 THEN {} ELSE four
       IN addrs = [preferred |-> IF prefer4 THEN b ELSE a, fallback |-> IF prefer4 THEN a ELSE b]
  /\ race = "start" /\ todo = 0
  /\ inProgress = {} /\ resultCh = <<>> /\ opened = {} /\ winner = {}

Over == race \in {"won", "error", "cancelled"}

\* No address: an error.  Otherwise the preferred dials start, and only with a
\* fallback family there is a head start to wait for.
StartPreferred ==
  /\ race = "start"
  /\ inProgress' = Preferred
  /\ todo' = Cardinality(Preferred)
  /\ race' = IF Ips = {} THEN "error" ELSE IF Fallback = {} THEN "wait" ELSE "head"
  /\ UNCHANGED <<resultCh, opened, winner>>

\* A dial succeeds.  Once dialCtx is cancelled the connection may be closed
\* instead of sent.
HappyDialOk(i) ==
  /\ i \in inProgress
  /\ inProgress' = inProgress \ {i}
  /\ \/ resultCh' = Append(resultCh, <<i, TRUE>>) /\ opened' = opened \cup {i}
     \/ Over /\ UNCHANGED <<resultCh, opened>>
  /\ UNCHANGED <<race, todo, winner>>

\* It fails, times out after five seconds, or is cancelled.
HappyDialFails(i) ==
  /\ i \in inProgress
  /\ inProgress' = inProgress \ {i}
  /\ \/ resultCh' = Append(resultCh, <<i, FALSE>>)
     \/ Over /\ UNCHANGED resultCh
  /\ UNCHANGED <<race, todo, opened, winner>>

\* The first connection read from the channel is returned.
HappyWon ==
  /\ resultCh # <<>> /\ Head(resultCh)[2]
  /\ race' = "won"
  /\ winner' = {Head(resultCh)[1]}
  /\ resultCh' = Tail(resultCh)

\* Mutant: the failure that ends the head start is counted again.
HeadFailedUncounted ==
  /\ race = "head" /\ resultCh # <<>>
  /\ IF Head(resultCh)[2] THEN HappyWon /\ UNCHANGED <<todo, inProgress>>
     ELSE /\ resultCh' = Tail(resultCh)
          /\ inProgress' = inProgress \cup Fallback
          /\ todo' = todo + Cardinality(Fallback)
          /\ race' = "wait"
          /\ UNCHANGED winner
  /\ UNCHANGED opened

\* The head start ends with a result: it wins, or the fallback dials join and
\* one result less is to come.
HeadResult ==
  /\ race = "head" /\ resultCh # <<>>
  /\ IF Head(resultCh)[2] THEN HappyWon /\ UNCHANGED <<todo, inProgress>>
     ELSE /\ resultCh' = Tail(resultCh)
          /\ inProgress' = inProgress \cup Fallback
          /\ todo' = todo - 1 + Cardinality(Fallback)
          /\ race' = "wait"
          /\ UNCHANGED winner
  /\ UNCHANGED opened

\* ... or after 250 ms.
HeadTimeout ==
  /\ race = "head"
  /\ inProgress' = inProgress \cup Fallback
  /\ todo' = todo + Cardinality(Fallback)
  /\ race' = "wait"
  /\ UNCHANGED <<resultCh, opened, winner>>

WaitResult ==
  /\ race = "wait" /\ todo > 0 /\ resultCh # <<>>
  /\ IF Head(resultCh)[2] THEN HappyWon /\ UNCHANGED todo
     ELSE /\ resultCh' = Tail(resultCh)
          /\ todo' = todo - 1
          /\ UNCHANGED <<race, winner>>
  /\ UNCHANGED <<inProgress, opened>>

\* Every dial has failed.
AllFailed ==
  /\ race = "wait" /\ todo = 0
  /\ race' = "error"
  /\ UNCHANGED <<todo, inProgress, resultCh, opened, winner>>

HappyCtxDone ==
  /\ race \in {"head", "wait"}
  /\ race' = "cancelled"
  /\ UNCHANGED <<todo, inProgress, resultCh, opened, winner>>

HappyNext ==
  /\ \/ StartPreferred \/ HeadResult \/ HeadTimeout \/ WaitResult \/ AllFailed \/ HappyCtxDone
     \/ \E i \in Ips : HappyDialOk(i) \/ HappyDialFails(i)
  /\ UNCHANGED addrs

HappySpec == HappyInit /\ [][HappyNext]_happyVars

-----------------------------------------------------------------------------
\* The race waits for exactly the results that are still to come, so it
\* neither gives up on a dial that may succeed nor waits for one that has
\* answered; and it fails only when no dial has connected.
RaceExact ==
  /\ race \in {"head", "wait"} => todo = Cardinality(inProgress) + Len(resultCh)
  /\ race = "error" => inProgress = {} /\ opened = {}
=============================================================================
