------------------------------ MODULE MCConsole ------------------------------
(* Instances of Console for TLC.                                            *)
EXTENDS Console
MCSetup ==
    [iface : {"tui"}, kind : {<<"http", "ws">>, <<"tcp", "error">>}]
        \cup [iface : {"web"}, kind : {<<"http", "dns">>}]
        \cup [iface : {"terminal"}, kind : {<<"http", "udp">>}]
=============================================================================
