-------------------------- MODULE MCAccessLifecycle --------------------------
(* Symmetry for TLC's runs of AccessLifecycle. *)
EXTENDS AccessLifecycle, TLC

Symmetry == Permutations(Requests)
=============================================================================
