---------------------------- MODULE MCHttp1Server ----------------------------
(* Instances of Http1Server for TLC.                                        *)
EXTENDS Http1Server
=============================================================================
