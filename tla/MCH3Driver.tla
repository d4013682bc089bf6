----------------------------- MODULE MCH3Driver -----------------------------
(* Instances of H3Driver for TLC.                                           *)
EXTENDS H3Driver
MCSetup ==
    [role : {"client"}, kind : {<<"websocket", "head">>}, settings : {"plain"}]
        \cup [role : {"client"}, kind : {<<"websocket", "unused">>}, settings : {"websocket"}]
        \cup [role : {"server"}, kind : {<<"get", "unused">>}, settings : {"plain"}]
        \cup [role : {"server"}, kind : {<<"bare", "bare">>}, settings : {"plain"}]
        \cup [role : {"listener"}, kind : {<<"unused", "unused">>}, settings : {"plain"}]
=============================================================================
