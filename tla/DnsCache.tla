------------------------------ MODULE DnsCache ------------------------------
(***************************************************************************)
(* The DNS cache and the process-wide cache of ECH configurations          *)
(* (src/dns/cache.go), for one host.  A lookup runs without a lock, so     *)
(* answers are stored in the order in which lookups end; an expired entry  *)
(* still serves a call whose lookup fails.                                 *)
(*                                                                         *)
(* An address is <<family, number>>; an ECH configuration is the version   *)
(* of the HTTPS record it came from.                                       *)
(***************************************************************************)
EXTENDS Naturals, SequencesExt, SeqFilter

CONSTANTS
  Resolvers,   \* goroutines inside Resolve or FetchECHConfigs
  Zones,       \* what the name may resolve to: sequences of addresses
  Servers,     \* how many DNS servers are asked for ECH
  MaxVersion,  \* bound: changes of the HTTPS record
  NoEntry      \* nil

ASSUME DnsAssumption ==
  /\ Servers \in Nat /\ MaxVersion \in Nat \ {0}
  /\ Zones \subseteq Seq({4, 6} \X Nat)

VARIABLES
  zone,        \* what the name resolves to now
  https,       \* the HTTPS record now: [version, ech]
  preferIPv4,  \* Cache.preferIPv4
  entry,       \* entries[host]: [ips, expired] or NoEntry
  echEntry,    \* echCache[host]: [config, expired] or NoEntry
  query        \* resolver -> [pc, saw, ips, left, err, since, config]: since is the
               \* version of the HTTPS record when FetchECHConfigs was called

dnsVars == <<zone, https, preferIPv4, entry, echEntry, query>>

NoQuery == [pc |-> "idle", saw |-> NoEntry, ips |-> <<>>, left |-> 0, err |-> FALSE,
            since |-> 0, config |-> 0]

Version == 1 .. MaxVersion
EchEntry == [config: Version, expired: BOOLEAN]

DnsTypeOK ==
  /\ zone \in Zones
  /\ https \in [version: Version, ech: BOOLEAN]
  /\ preferIPv4 \in BOOLEAN
  /\ entry = NoEntry \/ entry \in [ips: Zones, expired: BOOLEAN]
  /\ echEntry \in {NoEntry} \cup EchEntry
  /\ \A r \in Resolvers :
       /\ query[r].pc \in {"idle", "lookup", "store", "done", "ask", "keep", "echDone"}
       /\ query[r].pc = "done" => query[r].ips \in Zones
       /\ query[r].config \in 0 .. MaxVersion

DnsInit ==
  /\ zone \in Zones
  /\ https = [version |-> 1, ech |-> TRUE]
  /\ preferIPv4 \in BOOLEAN
  /\ entry = NoEntry /\ echEntry = NoEntry
  /\ query = [r \in Resolvers |-> NoQuery]

-----------------------------------------------------------------------------
(* Resolve *)

\* Under the read lock: a live entry answers, otherwise the name is looked up.
ResolveRead(r) ==
  /\ query[r].pc = "idle"
  /\ query' = [query EXCEPT ![r] =
       IF entry # NoEntry /\ ~entry.expired
         THEN [NoQuery EXCEPT !.pc = "done", !.ips = entry.ips]
         ELSE [NoQuery EXCEPT !.pc = "lookup", !.saw = entry]]
  /\ UNCHANGED <<zone, https, preferIPv4, entry, echEntry>>

\* The resolver answers with the addresses of this moment.
Lookup(r) ==
  /\ query[r].pc = "lookup"
  /\ query' = [query EXCEPT ![r].pc = "store", ![r].ips = zone]
  /\ UNCHANGED <<zone, https, preferIPv4, entry, echEntry>>

\* It fails: the expired entry that was seen, or the error.
LookupFails(r) ==
  /\ query[r].pc = "lookup"
  /\ LET saw == query[r].saw IN
       query' = [query EXCEPT ![r] =
         IF saw # NoEntry THEN [NoQuery EXCEPT !.pc = "done", !.ips = saw.ips] ELSE NoQuery]
  /\ UNCHANGED <<zone, https, preferIPv4, entry, echEntry>>

\* The answer is stored whatever happened to the entry meanwhile.
ResolveStore(r) ==
  /\ query[r].pc = "store"
  /\ entry' = [ips |-> query[r].ips, expired |-> FALSE]
  /\ query' = [query EXCEPT ![r].pc = "done"]
  /\ UNCHANGED <<zone, https, preferIPv4, echEntry>>

ResolveReturns(r) ==
  /\ query[r].pc = "done"
  /\ query' = [query EXCEPT ![r] = NoQuery]
  /\ UNCHANGED <<zone, https, preferIPv4, entry, echEntry>>

-----------------------------------------------------------------------------
(* What the callers make of the addresses *)

OfFamily(ips, f) == FilterSeq(ips, {f} \X Nat)

\* ResolveIPv6First: the two families, each in the order of the answer.
ResolveIPv6First(ips) == [six |-> OfFamily(ips, 6), four |-> OfFamily(ips, 4)]

\* ResolveOne: the first of the preferred family, otherwise the first.
ResolveOne(ips, four) ==
  LET wanted == OfFamily(ips, IF four THEN 4 ELSE 6) IN
  IF wanted # <<>> THEN Head(wanted) ELSE Head(ips)

\* Mutant: the loop ends with the shorter family.
TurnsShort(a, b) == IF Len(a) < Len(b) THEN Len(a) ELSE Len(b)

\* ResolveAllSorted's loop runs until both families are used up ...
Turns(a, b) == IF Len(a) > Len(b) THEN Len(a) ELSE Len(b)

NextOf(s, i) == IF i <= Len(s) THEN <<s[i]>> ELSE <<>>

\* ... and takes the next of each, if there is one, in every turn.
InTurns(a, b) ==
  LET result[i \in 0 .. Turns(a, b)] ==
        IF i = 0 THEN <<>> ELSE result[i - 1] \o NextOf(a, i) \o NextOf(b, i)
  IN  result[Turns(a, b)]

ResolveAllSorted(ips, four) ==
  IF four THEN InTurns(OfFamily(ips, 4), OfFamily(ips, 6))
          ELSE InTurns(OfFamily(ips, 6), OfFamily(ips, 4))

-----------------------------------------------------------------------------
(* FetchECHConfigs *)

\* Under the read lock: a live entry answers, otherwise the servers are asked.
EchRead(r) ==
  /\ query[r].pc = "idle"
  /\ query' = [query EXCEPT ![r] =
       IF echEntry # NoEntry /\ ~echEntry.expired
         THEN [NoQuery EXCEPT !.pc = "echDone", !.config = echEntry.config]
         ELSE [NoQuery EXCEPT !.pc = "ask", !.saw = echEntry, !.left = Servers,
                              !.since = https.version]]
  /\ UNCHANGED <<zone, https, preferIPv4, entry, echEntry>>

\* The next server is unreachable, which is remembered, or it answers with a
\* failure, which is not.
EchServerFails(r) ==
  /\ query[r].pc = "ask" /\ query[r].left > 0
  /\ \E err \in BOOLEAN :
       query' = [query EXCEPT ![r].left = @ - 1, ![r].err = @ \/ err]
  /\ UNCHANGED <<zone, https, preferIPv4, entry, echEntry>>

\* The configuration of the entry a call has seen, 0 if there was none
SeenConfig(q) == IF q.saw # NoEntry THEN q.saw.config ELSE 0

\* Mutant: the entry that was seen stands in for a record without ECH.
RecordConfigOrSeen(q) == IF https.ech THEN https.version ELSE SeenConfig(q)

RecordConfig(q) == IF https.ech THEN https.version ELSE 0

\* A server has the record.  Without ECH in it nothing is stored, and the old
\* entry stays.
EchAnswer(r) ==
  /\ query[r].pc = "ask" /\ query[r].left > 0
  /\ query' = [query EXCEPT ![r].pc = IF https.ech THEN "keep" ELSE "echDone",
                             ![r].config = RecordConfig(query[r])]
  /\ UNCHANGED <<zone, https, preferIPv4, entry, echEntry>>

\* No server is left.  With an error the expired entry that was seen answers,
\* without one there is no ECH; either way nothing is stored.
EchNoServer(r) ==
  /\ query[r].pc = "ask" /\ query[r].left = 0
  /\ query' = [query EXCEPT ![r].pc = "echDone",
                             ![r].config = IF query[r].err THEN SeenConfig(query[r]) ELSE 0]
  /\ UNCHANGED <<zone, https, preferIPv4, entry, echEntry>>

EchStore(r) ==
  /\ query[r].pc = "keep"
  /\ echEntry' = [config |-> query[r].config, expired |-> FALSE]
  /\ query' = [query EXCEPT ![r].pc = "echDone"]
  /\ UNCHANGED <<zone, https, preferIPv4, entry>>

EchReturns(r) ==
  /\ query[r].pc = "echDone"
  /\ query' = [query EXCEPT ![r] = NoQuery]
  /\ UNCHANGED <<zone, https, preferIPv4, entry, echEntry>>

-----------------------------------------------------------------------------
(* The rest of the interface, and the world *)

\* Invalidate and Clear
Invalidate ==
  /\ entry # NoEntry
  /\ entry' = NoEntry
  /\ UNCHANGED <<zone, https, preferIPv4, echEntry, query>>

\* Cleanup, from StartCleanup or from the connection pool's cleanup
CleanupEntries ==
  /\ entry # NoEntry /\ entry.expired
  /\ entry' = NoEntry
  /\ UNCHANGED <<zone, https, preferIPv4, echEntry, query>>

SetPreferIPv4(four) ==
  /\ preferIPv4' = four
  /\ UNCHANGED <<zone, https, entry, echEntry, query>>

\* Time passes, the name moves, the record changes.
Expires ==
  /\ entry # NoEntry /\ entry' = [entry EXCEPT !.expired = TRUE]
  /\ UNCHANGED <<zone, https, preferIPv4, echEntry, query>>

EchExpires ==
  /\ echEntry # NoEntry /\ echEntry' = [echEntry EXCEPT !.expired = TRUE]
  /\ UNCHANGED <<zone, https, preferIPv4, entry, query>>

ZoneChanges ==
  /\ zone' \in Zones
  /\ UNCHANGED <<https, preferIPv4, entry, echEntry, query>>

RecordChanges ==
  /\ https.version < MaxVersion
  /\ \E b \in BOOLEAN : https' = [version |-> https.version + 1, ech |-> b]
  /\ UNCHANGED <<zone, preferIPv4, entry, echEntry, query>>

\* The two caches have nothing in common but the module.
AddressNext ==
  \/ \E r \in Resolvers :
       ResolveRead(r) \/ Lookup(r) \/ LookupFails(r) \/ ResolveStore(r) \/ ResolveReturns(r)
  \/ Invalidate \/ CleanupEntries \/ Expires \/ ZoneChanges
  \/ \E four \in BOOLEAN : SetPreferIPv4(four)

EchNext ==
  \/ \E r \in Resolvers :
       \/ EchRead(r) \/ EchServerFails(r) \/ EchAnswer(r) \/ EchNoServer(r) \/ EchStore(r)
       \/ EchReturns(r)
  \/ EchExpires \/ RecordChanges

DnsNext == AddressNext \/ EchNext

DnsSpec == DnsInit /\ [][DnsNext]_dnsVars

-----------------------------------------------------------------------------
(* Properties *)

\* What the three ways of asking make of one answer fits together: the sorted
\* list has every address of it once, keeps each family's order, changes
\* family at every step until one is used up, and begins with the address
\* ResolveOne gives, in the preferred family if the host has one.
AddressOrder ==
  \A r \in Resolvers :
    query[r].pc = "done" /\ query[r].ips # <<>> =>
      LET ips == query[r].ips
          s == ResolveAllSorted(ips, preferIPv4)
          both == ResolveIPv6First(ips)
      IN /\ Len(s) = Len(ips)
         /\ OfFamily(s, 6) = both.six /\ OfFamily(s, 4) = both.four
         /\ \A i \in 1 .. Len(s) - 1 :
              s[i][1] = s[i + 1][1] => \A j \in i .. Len(s) : s[j][1] = s[i][1]
         /\ Head(s) = ResolveOne(ips, preferIPv4)

\* An ECH configuration older than the call comes from a live entry, or from an
\* expired one when a server could not be reached: never after a server has
\* answered that the host has none, or another.
EchCurrent ==
  \A r \in Resolvers :
    query[r].pc = "echDone" /\ query[r].config # 0 =>
      query[r].config >= query[r].since \/ (query[r].err /\ query[r].left = 0)

\* Both caches keep what they promise, however lookups, changes of the zone,
\* expiry, Invalidate and Cleanup are interleaved.
DnsSound == DnsTypeOK /\ AddressOrder /\ EchCurrent
=============================================================================
