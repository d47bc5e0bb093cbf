----------------------------- MODULE MCPageShells -----------------------------
(* Instances of PageShells for TLC.                                        *)
EXTENDS PageShells
=============================================================================
