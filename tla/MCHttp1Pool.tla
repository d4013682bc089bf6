----------------------------- MODULE MCHttp1Pool -----------------------------
(* A bounded instance of Http1Pool.  Liveness is checked, so no symmetry.   *)
EXTENDS Http1Pool

CONSTANTS s1, s2, c1, c2, c3

MCSender == {s1, s2}
MCConn == {c1, c2, c3}
=============================================================================
