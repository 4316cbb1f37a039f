--------------------------- MODULE MCControlPlane ---------------------------
(***************************************************************************)
(* Instances of ControlPlane for TLC.                                      *)
(***************************************************************************)
EXTENDS ControlProperties, TLC

CONSTANTS r1, r2, s1

\* Both runs want the same slot, in requests of their own.
OneSlot   == [r \in Runs |-> s1]
Requests  == {{r} : r \in Runs}

TaskSymmetry == Permutations(Tasks)
=============================================================================
