--------------------------- MODULE MCHighWaterMark --------------------------
(* Instances of the log entities for the model checker. *)
EXTENDS HighWaterMark, TLC

RunSymmetry == Permutations(Runs)
=============================================================================
