--------------------------- MODULE ProtocolChoice ---------------------------
(***************************************************************************)
(* What Transport.Do and DoStream promise, without how: a request is       *)
(* answered once, by one protocol, or fails; the protocol remembered for a *)
(* host is one that has just answered a request to it.                     *)
(***************************************************************************)
CONSTANTS Calls, Hosts, Protocols, None

VARIABLES
  outcome,   \* call -> "idle", "pending", "failed" or the protocol that answered
  memory     \* host -> protocol or None

choiceVars == <<outcome, memory>>

ChoiceInit ==
  /\ outcome = [c \in Calls |-> "idle"]
  /\ memory = [h \in Hosts |-> None]

Ask(c) ==
  /\ outcome[c] = "idle"
  /\ outcome' = [outcome EXCEPT ![c] = "pending"]
  /\ UNCHANGED memory

\* A request for which there is no way to make it fails at once.
Refuse(c) ==
  /\ outcome[c] = "idle"
  /\ outcome' = [outcome EXCEPT ![c] = "failed"]
  /\ UNCHANGED memory

\* The answer, and possibly the host's memory of it.
Answer(c, p) ==
  /\ outcome[c] = "pending"
  /\ outcome' = [outcome EXCEPT ![c] = p]
  /\ \/ UNCHANGED memory
     \/ \E h \in Hosts : memory' = [memory EXCEPT ![h] = p]

Fail(c) ==
  /\ outcome[c] = "pending"
  /\ outcome' = [outcome EXCEPT ![c] = "failed"]
  /\ UNCHANGED memory

\* The next call in the same place.
Reset(c) ==
  /\ outcome[c] # "pending"
  /\ outcome' = [outcome EXCEPT ![c] = "idle"]
  /\ UNCHANGED memory

Forget ==
  /\ memory' = [h \in Hosts |-> None]
  /\ UNCHANGED outcome

ChoiceNext ==
  \/ \E c \in Calls : Ask(c) \/ Refuse(c) \/ Reset(c) \/ Fail(c) \/ \E p \in Protocols : Answer(c, p)
  \/ Forget

ChoiceSafety == ChoiceInit /\ [][ChoiceNext]_choiceVars

ChoiceSpec ==
  /\ ChoiceSafety
  /\ \A c \in Calls : WF_choiceVars(Fail(c) \/ \E p \in Protocols : Answer(c, p))
=============================================================================
