--------------------------- MODULE MCCustomDomains ---------------------------
(***************************************************************************)
(* Model values for TLC: two host calls at a time on one domain, and two   *)
(* callers of startVerification.  The domain's row and the verification    *)
(* records are of different services and share no state, so the run takes  *)
(* one of the two at a time.                                               *)
(***************************************************************************)
EXTENDS CustomDomains, VerificationStarts

CONSTANTS c1, c2, r1, r2, r3, none, s1, s2

VARIABLE part    (* the part that moves                                       *)

\* The part that does not move stays as one initial state of it.
MCInit ==
  /\ Init /\ StartsInit
  /\ part \in {"domain", "starts"}
  /\ part # "domain" => ~ overlap
  /\ part # "starts" => ~ startsOverlap

MCNext ==
  /\ \/ part = "domain" /\ Next /\ UNCHANGED startVars
     \/ part = "starts" /\ StartsNext /\ UNCHANGED vars
  /\ UNCHANGED part

MCSpec == MCInit /\ [][MCNext]_<<vars, startVars, part>>
=============================================================================
