----------------------------- MODULE MCConnPool -----------------------------
(* ConnPool on small instances. *)
EXTENDS ConnPool, TLC

CONSTANTS g1, g2, c1, c2, c3, p1, h1, front, direct

\* One request host behind a connectTo entry.
Fronted == h1 :> front

Sym == Permutations(Getters) \cup Permutations(Conns) \cup Permutations(PoolIds)
=============================================================================
