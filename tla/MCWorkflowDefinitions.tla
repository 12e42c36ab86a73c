------------------------- MODULE MCWorkflowDefinitions -------------------------
(***************************************************************************)
(* Definitions for TLC: a builder that gives a trigger and two more nodes  *)
(* any type and references to each other, to nothing and to a node that    *)
(* does not exist; JSON texts that each lack one thing, one with a cycle   *)
(* that no validation finds, and one with a node that has no name to       *)
(* refer to it by.                                                         *)
(***************************************************************************)
EXTENDS WorkflowDefinitions

Refs == {"x", "y", "ghost", NoRef}

Branches == {<<>>, <<"x">>, <<"y">>, <<"x", "y">>, <<"ghost">>}

MCNodesFor(n) ==
  IF n = "t" THEN {TriggerNode(r) : r \in {"x", NoRef}}
  ELSE {ActionNode(r, e) : r \in Refs, e \in {"y", NoRef}}
       \cup {ConditionNode(b, r) : b \in Branches, r \in {"x", NoRef}}
       \cup {LoopNode(b, r) : b \in Refs, r \in {"y", NoRef}}
       \cup {ParallelNode(b, r) : b \in Branches, r \in {"x", NoRef}}
       \cup {WaitingNode(b, NoRef, k) : b \in {<<>>, <<"y">>, <<"x", "y">>}, k \in {1, 3}}
       \cup {EndNode}

Sound == Definition("t", ByKey({
  <<"t", TriggerNode("x")>>,
  <<"x", ConditionNode(<<"y">>, "z")>>,
  <<"y", ParallelNode(<<"z">>, NoRef)>>,
  <<"z", EndNode>>}))

\* Valid, with a cycle inside a loop's body.
Cyclic == Definition("t", ByKey({
  <<"t", TriggerNode("x")>>,
  <<"x", LoopNode("y", NoRef)>>,
  <<"y", ActionNode("z", NoRef)>>,
  <<"z", ActionNode("y", NoRef)>>}))

\* Valid, with a node under the empty id, which nothing leads to.
Unnamed == Definition("t", ByKey({
  <<"t", TriggerNode("x")>>,
  <<"x", LoopNode("y", NoRef)>>,
  <<"y", EndNode>>,
  <<NoRef, EndNode>>}))

MCParsed ==
  {Sound, Cyclic, Unnamed} \cup
  {[Sound EXCEPT !.nodes[n].lacks = {w}] :
     n \in {"x", "y"}, w \in {"id", "config", "branches"}} \cup
  {[Sound EXCEPT !.lacks = {w}] : w \in {"name", "nodes"}}
=============================================================================
