------------------------- MODULE RequestLifecycle -------------------------
(***************************************************************************)
(* What the approval use case promises about an action request, with no    *)
(* versions, decisions, callers or failures: it is proposed, decided once, *)
(* and an approval may be revoked.  ActionRequests implements it when its  *)
(* callers present the versions they were shown; Dispatch takes it as the  *)
(* approver's side of its environment.                                     *)
(***************************************************************************)

CONSTANT Requests

VARIABLE status

Init == status = [r \in Requests |-> "absent"]

Move(r, from, to) ==
    /\ status[r] = from
    /\ status' = [status EXCEPT ![r] = to]

Propose(r) == Move(r, "absent", "pending")

Decide(r) == Move(r, "pending", "approved") \/ Move(r, "pending", "rejected")

Revoke(r) == Move(r, "approved", "revoked")

Next == \E r \in Requests : Propose(r) \/ Decide(r) \/ Revoke(r)

Spec == Init /\ [][Next]_status

===========================================================================
