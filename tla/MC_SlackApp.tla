----------------------------- MODULE MC_SlackApp -----------------------------
(* SlackApp on a small instance. *)
EXTENDS SlackApp, TLC

Symmetry == Permutations(Calls) \cup Permutations(Instances)
=============================================================================
