---------------------------- MODULE SessionLife ----------------------------
(***************************************************************************)
(* The life of sessions (src/session/manager.go, fork.go and the setters   *)
(* of session.go): the manager's table and its cleanup of idle sessions,   *)
(* forks, which are in no table, and proxies that change while requests    *)
(* run.                                                                    *)
(*                                                                         *)
(* A session knows its proxies twice: in Config, from which a fork is      *)
(* built, and in its transport, which uses them.                           *)
(***************************************************************************)
EXTENDS Naturals, FiniteSets

CONSTANTS
  Sessions,     \* every session ever made
  MaxSessions,  \* m.maxSessions
  Upstreams,    \* proxy URLs
  NoProxy,      \* ""
  NoSession     \* nil

ASSUME SessionLifeAssumption == MaxSessions \in Nat /\ NoProxy \notin Upstreams

VARIABLES
  sess,       \* session -> its fields, see NewSess
  table,      \* m.sessions
  checked,    \* the session cleanupExpiredSessions has found idle, m.mu is held
  looping,    \* cleanupLoop runs
  shutdown    \* "no", "signalled" (m.shutdown is closed) or "done"

lifeVars == <<sess, table, checked, looping, shutdown>>

ProxyUrls == Upstreams \cup {NoProxy}
ProxyConfig == [proxy: ProxyUrls, tcp: ProxyUrls, udp: ProxyUrls]
Direct == [proxy |-> NoProxy, tcp |-> NoProxy, udp |-> NoProxy]

\* config is Config, uses what the transport was given.
NewSess(config, managed) ==
  [state |-> "active", managed |-> managed, old |-> FALSE, busy |-> FALSE, config |-> config,
   uses |-> config]

Unborn == [NewSess(Direct, FALSE) EXCEPT !.state = "none"]

LifeTypeOK ==
  /\ sess \in [Sessions ->
       [state: {"none", "active", "closed"}, managed: BOOLEAN, old: BOOLEAN, busy: BOOLEAN,
        config: ProxyConfig, uses: ProxyConfig]]
  /\ table \subseteq Sessions /\ Cardinality(table) <= MaxSessions
  /\ checked \in Sessions \cup {NoSession}
  /\ looping \in BOOLEAN
  /\ shutdown \in {"no", "signalled", "done"}

\* NewManager
LifeInit ==
  /\ sess = [s \in Sessions |-> Unborn]
  /\ table = {} /\ checked = NoSession
  /\ looping = TRUE /\ shutdown = "no"

Active(s) == sess[s].state = "active"

\* Whoever needs m.mu waits for the cleanup.
ManagerFree == checked = NoSession

\* transport.ProxyConfig as its users read it: the proxy of a kind, otherwise
\* the one for both.
RoutesOf(c) ==
  [tcp |-> IF c.tcp # NoProxy THEN c.tcp ELSE c.proxy,
   udp |-> IF c.udp # NoProxy THEN c.udp ELSE c.proxy]

-----------------------------------------------------------------------------
(* Manager *)

CreateSession(s, config) ==
  /\ ManagerFree /\ sess[s].state = "none"
  /\ Cardinality(table) < MaxSessions
  /\ sess' = [sess EXCEPT ![s] = NewSess(config, TRUE)]
  /\ table' = table \cup {s}
  /\ UNCHANGED <<checked, looping, shutdown>>

CloseSession(s) ==
  /\ ManagerFree /\ s \in table
  /\ sess' = [sess EXCEPT ![s].state = "closed"]
  /\ table' = table \ {s}
  /\ UNCHANGED <<checked, looping, shutdown>>

\* cleanupExpiredSessions, one session: idle is read under the session's lock ...
CleanupCheck(s) ==
  /\ looping /\ ManagerFree
  /\ s \in table /\ sess[s].old
  /\ checked' = s
  /\ UNCHANGED <<sess, table, looping, shutdown>>

\* Mutant: the entry is dropped, the session stays open.
CleanupCloseOnlyDrops ==
  /\ checked # NoSession
  /\ table' = table \ {checked}
  /\ checked' = NoSession
  /\ UNCHANGED <<sess, looping, shutdown>>

\* ... and Close takes it again: a request may have begun in between.
CleanupClose ==
  /\ checked # NoSession
  /\ sess' = [sess EXCEPT ![checked].state = "closed"]
  /\ table' = table \ {checked}
  /\ checked' = NoSession
  /\ UNCHANGED <<looping, shutdown>>

\* cleanupLoop sees m.shutdown closed.
CleanupLoopEnds ==
  /\ looping /\ ManagerFree /\ shutdown # "no"
  /\ looping' = FALSE
  /\ UNCHANGED <<sess, table, checked, shutdown>>

ShutdownSignals ==
  /\ shutdown = "no"
  /\ shutdown' = "signalled"
  /\ UNCHANGED <<sess, table, checked, looping>>

ShutdownCloses ==
  /\ shutdown = "signalled" /\ ManagerFree
  /\ sess' = [s \in Sessions |->
       IF s \in table THEN [sess[s] EXCEPT !.state = "closed"] ELSE sess[s]]
  /\ table' = {}
  /\ shutdown' = "done"
  /\ UNCHANGED <<checked, looping>>

-----------------------------------------------------------------------------
(* Session *)

\* requestWithRedirects, for a session GetSession, NewSession or Fork returned
RequestBegins(s) ==
  /\ Active(s) /\ ~sess[s].busy
  /\ sess' = [sess EXCEPT ![s].busy = TRUE, ![s].old = FALSE]
  /\ UNCHANGED <<table, checked, looping, shutdown>>

RequestEnds(s) ==
  /\ sess[s].busy
  /\ sess' = [sess EXCEPT ![s].busy = FALSE]
  /\ UNCHANGED <<table, checked, looping, shutdown>>

SessionCloses(s) ==
  /\ Active(s)
  /\ sess' = [sess EXCEPT ![s].state = "closed"]
  /\ UNCHANGED <<table, checked, looping, shutdown>>

\* The session's transport and Config are set in one critical section, also
\* after Close.
SetProxies(s, uses, config) ==
  /\ sess[s].state # "none"
  /\ sess' = [sess EXCEPT ![s].uses = uses, ![s].config = config]
  /\ UNCHANGED <<table, checked, looping, shutdown>>

SetProxy(s, u) ==
  SetProxies(s, [Direct EXCEPT !.proxy = u], [Direct EXCEPT !.proxy = u])

\* Mutant: Config.Proxy stays.
SetTCPProxyKeeps(s, u) ==
  SetProxies(s, [Direct EXCEPT !.tcp = u, !.udp = sess[s].config.udp],
                [sess[s].config EXCEPT !.tcp = u])

SetTCPProxy(s, u) ==
  SetProxies(s, [Direct EXCEPT !.tcp = u, !.udp = sess[s].config.udp],
                [sess[s].config EXCEPT !.tcp = u, !.proxy = NoProxy])

SetUDPProxy(s, u) ==
  SetProxies(s, [Direct EXCEPT !.tcp = sess[s].config.tcp, !.udp = u],
                [sess[s].config EXCEPT !.udp = u, !.proxy = NoProxy])

\* Fork and forkOne: the transport is built from Config.
Fork(s, f) ==
  /\ Active(s) /\ sess[f].state = "none"
  /\ sess' = [sess EXCEPT ![f] = NewSess(sess[s].config, FALSE)]
  /\ UNCHANGED <<table, checked, looping, shutdown>>

\* Half an hour without a new request
GrowsOld(s) ==
  /\ Active(s) /\ ~sess[s].old
  /\ sess' = [sess EXCEPT ![s].old = TRUE]
  /\ UNCHANGED <<table, checked, looping, shutdown>>

LifeNext ==
  \/ CleanupClose \/ CleanupLoopEnds \/ ShutdownSignals \/ ShutdownCloses
  \/ \E s \in Sessions :
       \/ CloseSession(s) \/ CleanupCheck(s) \/ RequestBegins(s) \/ RequestEnds(s)
       \/ SessionCloses(s) \/ GrowsOld(s)
       \/ \E u \in ProxyUrls : SetProxy(s, u) \/ SetTCPProxy(s, u) \/ SetUDPProxy(s, u)
       \/ \E f \in Sessions : Fork(s, f)
       \/ \E config \in ProxyConfig : CreateSession(s, config)

LifeSpec == LifeInit /\ [][LifeNext]_lifeVars

-----------------------------------------------------------------------------
\* However a session's proxies were set, and in whatever order, a fork made now
\* sends TCP and UDP the way its parent does: Config and the transport agree.
ForkLikeParent ==
  \A s \in Sessions : RoutesOf(sess[s].config) = RoutesOf(sess[s].uses)

\* A session that left the manager's table is closed, whoever removed it: no
\* transport is left open that nobody can reach, after Shutdown either.
RemovedClosed ==
  \A s \in Sessions : sess[s].managed /\ Active(s) => s \in table

\* Both, through every sequence of creations, requests, setters, forks, cleanups
\* and a shutdown.
SessionsSound == LifeTypeOK /\ ForkLikeParent /\ RemovedClosed
=============================================================================
