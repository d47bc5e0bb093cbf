----------------------------- MODULE MCSharedCache -----------------------------
(* Instances of SharedCache for TLC.                                       *)
EXTENDS SharedCache, TLC

Symmetry == Permutations(Servers) \cup Permutations(Requests)
=============================================================================
