--------------------------- MODULE MCWorkflowEngine ---------------------------
(***************************************************************************)
(* A workflow for TLC: a trigger; an action that has a timer and an error  *)
(* route and may go to an id that does not exist; a condition that goes    *)
(* back to the action, on to the end, or stops for want of a default; and  *)
(* an end whose retry policy allows no attempt, which the validator only   *)
(* warns about.  The action and the condition are attempted twice.         *)
(***************************************************************************)
EXTENDS WorkflowEngine

CONSTANTS trigger, act, check, end, ghost, nowhere

MCNodes == {trigger, act, check, end}

LoopEdges ==
  [n \in MCNodes |-> CASE n = trigger -> {act}
                       [] n = act     -> {check, end, ghost}
                       [] n = check   -> {act, end, nowhere}
                       [] n = end     -> {nowhere}]

LoopAttempts ==
  [n \in MCNodes |-> CASE n \in {act, check} -> 2 [] n = end -> 0 [] OTHER -> 1]

ErrorRoutes == [n \in MCNodes |-> IF n = act THEN end ELSE nowhere]
=============================================================================
