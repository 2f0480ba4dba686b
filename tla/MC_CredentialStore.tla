-------------------------- MODULE MC_CredentialStore --------------------------
(* CredentialStore on a small instance. *)
EXTENDS CredentialStore, TLC

Symmetry == Permutations(Vals) \cup Permutations(Workers)
=============================================================================
