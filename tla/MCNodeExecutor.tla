---------------------------- MODULE MCNodeExecutor ----------------------------
(***************************************************************************)
(* A subgraph for TLC: an action that writes a key of the workflow's       *)
(* context and goes on to a second one, to the end or nowhere; the second  *)
(* adds a key and may go back, which is a cycle, or to a dangling id.      *)
(***************************************************************************)
EXTENDS NodeExecutor

CONSTANTS fetch, store, end, ghost, nowhere, total, report

MCEdges == [n \in {fetch, store} |->
              IF n = fetch THEN {store, end, nowhere} ELSE {fetch, end, ghost}]

MCWrites == [n \in {fetch, store} |-> IF n = fetch THEN {total} ELSE {report}]

Config(kind, wait, minRequired, limit) ==
  [kind |-> kind, wait |-> wait, minRequired |-> minRequired, limit |-> limit,
   entry |-> [b \in 1..N |-> IF kind = "parallel" /\ b = N THEN store ELSE fetch]]

\* Each strategy, a limit that overrides one, a minRequired no node has
\* branches for, a branch whose entry is the end, and each kind of loop.
MCConfigs ==
  {Config("parallel", "all", 0, 0), Config("parallel", "n_of_m", 2, 0),
   Config("parallel", "n_of_m", N + 1, N), Config("parallel", "n_of_m", 0, 0),
   Config("parallel", "any", 0, 2),
   [Config("parallel", "any", 0, 0) EXCEPT !.entry[1] = end],
   [Config("parallel", "any", 0, 0) EXCEPT !.entry[2] = ghost],
   Config("for_each", "all", 0, 1), Config("for_each", "all", 0, 2),
   Config("count", "all", 0, 1), Config("while", "all", 0, 1)}
=============================================================================
