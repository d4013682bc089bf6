----------------------------- MODULE MCWgTunnel -----------------------------
(* Bounded instances of WgTunnel.                                          *)
EXTENDS WgTunnel

CONSTANT a1

\* The code only asks whether it knows an endpoint: one is enough.
MCAddr == {a1}
=============================================================================
