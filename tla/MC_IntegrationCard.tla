-------------------------- MODULE MC_IntegrationCard --------------------------
(* IntegrationCard on a small instance. *)
EXTENDS IntegrationCard, TLC

Symmetry == Permutations(Values)
=============================================================================
