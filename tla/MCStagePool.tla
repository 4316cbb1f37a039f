----------------------------- MODULE MCStagePool ----------------------------
(* Instances of a pool stage for the model checker. *)
EXTENDS StagePool

CONSTANTS a, b, c

\* Two chunks, one of them with two inputs.
TwoSlices == [i \in {a, b, c} |-> IF i = c THEN 2 ELSE 1]

\* Up to two records of a, up to one of b or c.
SomeSources == {n \in [{a, b, c} -> 0..2] : n[b] + n[c] < 2}
=============================================================================
