------------------------------- MODULE Membership -------------------------------
(***************************************************************************)
(* What being in an organization means for its users, whoever else joins,  *)
(* leaves or moderates at the same time: a user comes in self-asserted, to *)
(* be confirmed by the official contact, or verified, and what has been    *)
(* verified stays so until the user leaves.                                *)
(***************************************************************************)
CONSTANT Users

VARIABLE status

Inside == {"asserted", "to_confirm", "verified"}

Becomes(u, s) == status' = [status EXCEPT ![u] = s]

Enters(u) == status[u] = "outside" /\ \E s \in Inside : Becomes(u, s)
IsVerified(u) == status[u] \in {"asserted", "to_confirm"} /\ Becomes(u, "verified")
Leaves(u) == status[u] \in Inside /\ Becomes(u, "outside")

Init == status = [u \in Users |-> "outside"]
Next == \E u \in Users : Enters(u) \/ IsVerified(u) \/ Leaves(u)
Spec == Init /\ [][Next]_status
=============================================================================
