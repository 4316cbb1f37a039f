---------------------------- MODULE StageOutcomes ---------------------------
(***************************************************************************)
(* What a stage hands to the module loop when it ends: the status of its   *)
(* manifest, and whether it left chunks to upload (StageExecutor.psm1).    *)
(***************************************************************************)

\* An inline stage that fails hands over nothing, whatever it has written.
InlineOutcomes == {<<"success", TRUE>>, <<"success", FALSE>>, <<"failed", FALSE>>}

\* Inputs that were skipped or failed may have flushed records before; a stage
\* that is partial has read something.
PoolOutcomes == InlineOutcomes \cup {<<"partial", TRUE>>}
                               \cup ({"skipped", "failed"} \X BOOLEAN)
=============================================================================
