---------------------------- MODULE MCClientCache ----------------------------
(* Instances of ClientCache for TLC.                                        *)
EXTENDS ClientCache
CONSTANTS r1, r2, r3
MCRequest == {r1, r2, r3}
=============================================================================
