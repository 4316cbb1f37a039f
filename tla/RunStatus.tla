------------------------------ MODULE RunStatus ------------------------------
(***************************************************************************)
(* The status vocabularies of the dispatcher (Services/Constants.cs) and   *)
(* the pure functions of RunTracker.cs that map what a container or ACA    *)
(* reports onto the status of a task, and the tasks of a run onto the      *)
(* status of the run.  Error texts are left out.                           *)
(***************************************************************************)
EXTENDS Naturals, Sequences

None == "none"        \* a record that has not been written

TaskStatuses ==
  {"succeeded", "partial", "skipped", "failed", "timed_out",
   "dispatch_failed", "cancelled", "cancellation_failed"}

RunStatuses ==
  {"completed", "completed_with_errors", "failed", "cancelled", "timed_out",
   "cancellation_failed"}

EntityRollupStatuses == {"success", "skipped", "partial", "failed"}

AcaTerminal == {"Succeeded", "Failed", "Stopped", "Degraded"}

\* A task left data behind, or legitimately had nothing to do.
Landed == {"succeeded", "partial", "skipped"}
Clean  == {"succeeded", "skipped"}

(***************************************************************************)
(* The run's status from the set of its tasks' statuses: the operator's    *)
(* intent dominates, then the mix of outcomes.                             *)
(***************************************************************************)
ComputeRunStatus(statuses) ==
  CASE "timed_out" \in statuses       -> "timed_out"
    [] /\ "timed_out" \notin statuses
       /\ "cancelled" \in statuses    -> "cancelled"
    [] OTHER ->
         IF statuses \cap Landed = {} THEN "failed"
         ELSE IF ~(statuses \subseteq Clean) THEN "completed_with_errors"
         ELSE "completed"

\* Severity of an entity status; one the code does not know counts as failed.
Rank(s) == CASE s = "success" -> 0
             [] s = "skipped" -> 1
             [] s = "partial" -> 2
             [] OTHER         -> 3

(***************************************************************************)
(* The first status of greatest severity, "failed" when there is none.     *)
(***************************************************************************)
SeverityMax(s) ==
  IF s = <<>> THEN "failed"
  ELSE s[CHOOSE i \in 1..Len(s) :
           /\ \A j \in 1..Len(s) : Rank(s[j]) <= Rank(s[i])
           /\ \A j \in 1..(i-1) : Rank(s[j]) < Rank(s[i])]

MapEntityStatus(s) == CASE s = "success" -> "succeeded"
                        [] s = "partial" -> "partial"
                        [] s = "skipped" -> "skipped"
                        [] OTHER         -> "failed"

\* The task status a terminal run-state blob stands for.
MapRunStateBlob(blob) ==
  IF blob.runError THEN "failed" ELSE MapEntityStatus(SeverityMax(blob.entities))

\* The task status of an execution that ended; None while it has not.
MapAcaTerminalStatus(aca) ==
  CASE aca = "Succeeded"                         -> "succeeded"
    [] aca \in {"Failed", "Stopped", "Degraded"} -> "failed"
    [] OTHER                                     -> None
==============================================================================
