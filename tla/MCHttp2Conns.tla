---------------------------- MODULE MCHttp2Conns ----------------------------
(* Http2Conns on small instances. *)
EXTENDS Http2Conns

CONSTANTS r1, r2, c1, c2, k1
=============================================================================
