---------------------------- MODULE MCAgentBuilder ----------------------------
(***************************************************************************)
(* Values for TLC: a prompt that is empty, one the editor refuses and one  *)
(* it takes; a configuration that is out of range either way and the       *)
(* default; an update that archives.                                       *)
(***************************************************************************)
EXTENDS AgentBuilder

MCPrompts == {[text |-> "", unclosed |-> FALSE],
              [text |-> "p", unclosed |-> TRUE],
              [text |-> "p", unclosed |-> FALSE]}

MCConfigs == {[temperature |-> 3, maxTokens |-> 1],
              [temperature |-> 2, maxTokens |-> 0],
              DefaultConfig}

MCPatches == {[status |-> "archived"]}
=============================================================================
