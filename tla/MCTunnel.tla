------------------------------ MODULE MCTunnel ------------------------------
(* Instances of Tunnel for TLC.                                             *)
EXTENDS Tunnel
MCSetup ==
    [client : {"tcp", "h2"}, server : {"tcp"}, speaks : {"raw"}]
        \cup [client : {"tcp", "h2"}, server : {"tcp"}, speaks : {"ws"}]
        \cup [client : {"h2"}, server : {"h2"}, speaks : {"ws"}]
\* What a raw stream records knows nothing of bridges: over them the server sends
\* up to the limit, elsewhere both sides go over it.
MCMaxSend ==
    [x \in MCSetup |->
        [d \in Dir |-> IF x.speaks = "raw" /\ x.client = "h2" /\ d = "down" THEN 2 ELSE 3]]
=============================================================================
