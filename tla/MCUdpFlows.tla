----------------------------- MODULE MCUdpFlows -----------------------------
(* Bounded instances of UdpFlows.                                          *)
EXTENDS UdpFlows

CONSTANTS k1, k2, k3

MCKey == {k1, k2, k3}
MCDnsKey == {k3}

Asks(type, override) == [parses |-> TRUE, type |-> type, override |-> override]

MCPacket ==
    {[parses |-> FALSE, type |-> 0, override |-> "none"],
     Asks(1, "V4"), Asks(1, "V6"), Asks(28, "V6"), Asks(16, "none")}

Serving(host, keys, flows_, exchanges_) ==
    [host |-> host, keys |-> keys, flows |-> flows_, exchanges |-> exchanges_]

\* Two connections and three generations without exchanges, a generation beside
\* an exchange that shares its channels, and an exchange of the other proxies.
MCSetups ==
    {Serving("wireguard", {k1, k2}, 3, 0), Serving("wireguard", {k1, k3}, 1, 1),
     Serving("udp", {k1}, 0, 1), Serving("dns", {k1}, 0, 1)}
=============================================================================
