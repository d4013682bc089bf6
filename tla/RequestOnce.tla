----------------------------- MODULE RequestOnce -----------------------------
(***************************************************************************)
(* What the HTTP/1 connection pool promises each caller: the request is    *)
(* delivered to a peer at most once; an answer comes only after delivery;  *)
(* a request reported as failed is never delivered later; only a caller    *)
(* that walked away may have its request delivered behind its back.        *)
(***************************************************************************)
CONSTANT Request

VARIABLES delivered,  \* the requests some peer has been sent
          outcome     \* what the caller of each request was told

vars == <<delivered, outcome>>

Init ==
    /\ delivered = {}
    /\ outcome = [r \in Request |-> "open"]

Deliver(r) ==
    /\ r \notin delivered
    /\ outcome[r] \in {"open", "cancelled"}
    /\ delivered' = delivered \cup {r}
    /\ UNCHANGED outcome

Settle(r, o) ==
    /\ outcome[r] = "open"
    /\ o = "ok" => r \in delivered
    /\ outcome' = [outcome EXCEPT ![r] = o]
    /\ UNCHANGED delivered

Next == \E r \in Request : Deliver(r) \/ \E o \in {"ok", "error", "cancelled"} : Settle(r, o)

Spec == Init /\ [][Next]_vars
=============================================================================
