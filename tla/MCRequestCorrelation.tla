------------------------ MODULE MCRequestCorrelation ------------------------
(* Symmetry for TLC's runs of RequestCorrelation. *)
EXTENDS RequestCorrelation, TLC

Symmetry == Permutations(Requests) \cup Permutations(BaselineIds) \cup Permutations(Traces)
=============================================================================
