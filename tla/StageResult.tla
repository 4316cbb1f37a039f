----------------------------- MODULE StageResult ----------------------------
(***************************************************************************)
(* What the module loop relies on when it has started a pool stage: the    *)
(* stage ends at most once, with one of the outcomes the loop is written   *)
(* for, and the chunks it then uploads do not change any more.             *)
(***************************************************************************)
EXTENDS StageOutcomes

VARIABLE outcome    \* {} while the stage runs, then the one it has ended with

Running == outcome = {}

End == outcome = {} /\ \E o \in PoolOutcomes : outcome' = {o}

Stage == Running /\ [][End]_outcome
=============================================================================
