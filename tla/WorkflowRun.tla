----------------------------- MODULE WorkflowRun -----------------------------
(***************************************************************************)
(* What a caller of WorkflowEngine.execute is promised, without retries,   *)
(* timers of nodes, event listeners or persistence: a run is a walk of the *)
(* workflow graph from its start node.  The walk is extended one record at *)
(* a time, only from a node that succeeded and only along one of its       *)
(* edges, and the run ends in exactly one of the terminal statuses, each   *)
(* of which says something about the walk.                                 *)
(***************************************************************************)
EXTENDS Naturals, Sequences

CONSTANTS
  Nodes,           (* keys of definition.nodes                                *)
  Ids,             (* node ids that references may name, dangling ones too    *)
  NoNode,          (* undefined: no next node                                 *)
  StartId,         (* options.resumeFromNodeId ?? definition.entryNodeId      *)
  Edges,           (* Edges[n]: the next ids node n may choose                *)
  MaxAttempts,     (* MaxAttempts[n]: attempts the retry policy allows        *)
  HasTimeout,      (* the run has a global timeout                            *)
  ListenersThrow   (* an event listener may throw synchronously               *)

VARIABLES
  status,          (* WorkflowExecution.status, "none" before execute()       *)
  walk             (* WorkflowExecution.nodeHistory                           *)

vars == <<status, walk>>

LastOf(w) == w[Len(w)]

\* The node a run that has recorded w is at: where its last record points.
Position(w) == IF w = <<>> THEN StartId ELSE LastOf(w).next

Stuck(w) ==
  \/ Position(w) \in Ids \ Nodes
  \/ w # <<>> /\ LastOf(w).status # "succeeded"

\* The records a visit of node n may end with.
Outcomes(n) ==
  [node : {n}, status : {"succeeded"}, attempt : 1..MaxAttempts[n],
   next : Edges[n]]
  \cup
  [node : {n}, status : {"failed", "timed_out"}, attempt : 0..MaxAttempts[n],
   next : {NoNode}]

Init == status = "none" /\ walk = <<>>

Start == /\ status = "none"
         /\ status' = "running"
         /\ UNCHANGED walk

\* A walk goes on while the run is running, and also after it timed out:
\* the timeout abandons the walk, it does not stop it.
Visit == /\ status \in {"running", "timed_out"}
         /\ ~ Stuck(walk)
         /\ Position(walk) \in Nodes
         /\ \E r \in Outcomes(Position(walk)) : walk' = Append(walk, r)
         /\ UNCHANGED status

Succeed == /\ status = "running"
           /\ ~ Stuck(walk)
           /\ Position(walk) = NoNode
           /\ status' = "succeeded"
           /\ UNCHANGED walk

Fail == /\ \/ status = "running" /\ (Stuck(walk) \/ ListenersThrow)
           \/ status = "succeeded" /\ ListenersThrow
        /\ status' = "failed"
        /\ UNCHANGED walk

TimeOut == /\ status = "running"
           /\ HasTimeout
           /\ status' = "timed_out"
           /\ UNCHANGED walk

Next == Start \/ Visit \/ Succeed \/ Fail \/ TimeOut

Spec == Init /\ [][Next]_vars
=============================================================================
