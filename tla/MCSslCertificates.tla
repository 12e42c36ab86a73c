-------------------------- MODULE MCSslCertificates --------------------------
(***************************************************************************)
(* Model values for TLC: one domain, one monitor, the host's calls.        *)
(***************************************************************************)
EXTENDS SslCertificates

CONSTANTS p1, p2, c1, c2, m1, none
=============================================================================
