----------------------------- MODULE MCIntercept -----------------------------
(* Bounded instances of Intercept.                                          *)
EXTENDS Intercept

CONSTANTS f1, r1, u1, u2

\* A client flow and a replay.
MCFlow == {f1, r1}
MCReplay == {r1}

MCUI == {u1, u2}
=============================================================================
