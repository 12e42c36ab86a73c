------------------------------ MODULE MCChannels ------------------------------
(***************************************************************************)
(* Model values for TLC: an update written in a group, where the platform  *)
(* has groups, and one to the bot alone, an echo where there are echoes.   *)
(***************************************************************************)
EXTENDS Channels, TLC

CONSTANTS ann, bob, room, alone, nobody, session, g1, b1, b2, p1, p2, c1, c2

MCEvents ==
  <<[user |-> ann, group |-> room, own |-> FALSE],
    [user |-> bob, group |-> alone, own |-> TRUE]>>

\* Bindings, polls and callers differ in nothing.
Symmetry ==
  Permutations({b1, b2}) \cup Permutations({p1, p2}) \cup Permutations({c1, c2})
=============================================================================
