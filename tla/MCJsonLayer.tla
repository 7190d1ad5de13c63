----------------------------- MODULE MCJsonLayer -----------------------------
(* Symmetry for TLC's safety runs of JsonLayer. *)
EXTENDS JsonLayer, TLC

Symmetry == Permutations(Threads)
=============================================================================
