--------------------------- MODULE MCAgentLifecycle ---------------------------
(***************************************************************************)
(* Model values for TLC.                                                   *)
(***************************************************************************)
EXTENDS AgentLifecycle

CONSTANTS none, suggest, auto
=============================================================================
