------------------------- MODULE MCDomainVerification -------------------------
(***************************************************************************)
(* Model values for TLC, and what a comment of the verification types says *)
(* of a record, which TLC refutes.                                         *)
(***************************************************************************)
EXTENDS DomainVerification

CONSTANTS e1, e2, c1, none

\* verification.types.ts on VALID_TRANSITIONS, "active -> (terminal)".
ActiveIsTerminal == [][row.status = "active" => row'.status = "active"]_vars
=============================================================================
