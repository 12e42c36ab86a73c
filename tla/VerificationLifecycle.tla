------------------------- MODULE VerificationLifecycle -------------------------
(***************************************************************************)
(* The state machine of a domain verification that the types module        *)
(* declares (VALID_TRANSITIONS), with the one step checkVerification adds  *)
(* to it: the first check passes through "verifying" in memory only.       *)
(***************************************************************************)

VARIABLE status

Statuses ==
  {"pending", "verifying", "verified", "active", "failed", "cancelled"}

ValidTransitions ==
  [pending   |-> {"verifying", "cancelled"},
   verifying |-> {"verified", "failed", "cancelled"},
   verified  |-> {"active", "failed"},
   active    |-> {},
   failed    |-> {"pending"},
   cancelled |-> {"pending"}]

Init == status = "pending"

Move == status' \in ValidTransitions[status]

FirstCheck == status = "pending" /\ status' \in {"verified", "failed"}

Next == Move \/ FirstCheck

Spec == Init /\ [][Next]_status
=============================================================================
