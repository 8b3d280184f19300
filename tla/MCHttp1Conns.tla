---------------------------- MODULE MCHttp1Conns ----------------------------
(* Http1Conns on small instances. *)
EXTENDS Http1Conns

CONSTANTS r1, r2, c1, c2, c3, k1
=============================================================================
