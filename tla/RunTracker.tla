----------------------------- MODULE RunTracker -----------------------------
(***************************************************************************)
(* RunTracker.CheckClaimAsync: the finalisation of one claim, as a listing *)
(* saw it.  Every read and write of it is a step: what was read first may  *)
(* be stale when the history is written and the claim deleted.             *)
(***************************************************************************)
EXTENDS ControlStore

VARIABLE
  trk      \* the claim being checked, and what has been resolved of it

trackVars == <<trk>>

\* res[t]: None until the task is looked at, then its status or "unresolved".
\* poll: the task whose blob did not settle it, to be asked of ACA.
NoTask   == "no_task"
Resolved == TaskStatuses \cup {None, "unresolved"}

ASSUME TrackerAssumption == NoTask \notin Tasks

NoCheck == [at |-> "idle", claim |-> NoClaim, timedOut |-> FALSE,
            trigger |-> None, poll |-> NoTask,
            res |-> [t \in Tasks |-> None], failed |-> FALSE]

TrkAt == {"idle", "read_intent", "resolve", "write_run", "write_tasks",
          "delete_claim", "delete_intent"}

TrkRun == trk.claim.run
TrkFinish == trk' = NoCheck

\* CheckClaimAsync is entered: the clock is read once, here.
Checking(c) ==
  trk' = [NoCheck EXCEPT !.at = "read_intent", !.claim = c, !.timedOut = late[c.run]]

\* The trigger of the run's cancel intent, None without one.
TrkReadIntent ==
  /\ trk.at = "read_intent"
  /\ trk' = [trk EXCEPT !.at = "resolve", !.trigger = intent[TrkRun].trigger]
  /\ UNCHANGED storeVars

-----------------------------------------------------------------------------
(* One expected task after the other.                                      *)

Pending(t) == trk.at = "resolve" /\ trk.poll = NoTask /\ trk.res[t] = None

Settle(t, status) == trk' = [trk EXCEPT !.res[t] = status, !.poll = NoTask]

\* The start failed, as the claim says: no reads.
ResolveDispatchFailed(t) ==
  /\ Pending(t)
  /\ trk.claim.task[t] = "error"
  /\ Settle(t, "dispatch_failed")
  /\ UNCHANGED storeVars

\* Mutant: a task without a name counts as timed out at once.
ResolveFromBlobHasty(t) ==
  /\ Pending(t)
  /\ trk.claim.task[t] # "error"
  /\ IF BlobTerminal(TrkRun, t)
     THEN Settle(t, MapEntityStatus(blob[TrkRun][t]))
     ELSE IF trk.claim.task[t] = "named"
     THEN trk' = [trk EXCEPT !.poll = t]
     ELSE Settle(t, IF trk.trigger = "manual" THEN "cancelled" ELSE "timed_out")
  /\ UNCHANGED storeVars

\* The run-state blob is read.  If it does not settle a task, a name leads
\* to ACA; without one only the deadline resolves the task.
ResolveFromBlob(t) ==
  /\ Pending(t)
  /\ trk.claim.task[t] # "error"
  /\ IF BlobTerminal(TrkRun, t)
     THEN Settle(t, MapEntityStatus(blob[TrkRun][t]))
     ELSE IF trk.claim.task[t] = "named"
     THEN trk' = [trk EXCEPT !.poll = t]
     ELSE Settle(t, IF ~trk.timedOut THEN "unresolved"
                    ELSE IF trk.trigger = "manual" THEN "cancelled"
                    ELSE "timed_out")
  /\ UNCHANGED storeVars

\* A stop that landed is the cancel's, if there was an intent.
StoppedStatus == CASE trk.trigger = "timeout" -> "timed_out"
                   [] trk.trigger = "manual"  -> "cancelled"
                   [] OTHER                   -> MapAcaTerminalStatus("Stopped")

ResolveFromAca(t) ==
  LET e == exec[TrkRun][t] IN
  /\ trk.at = "resolve" /\ trk.poll = t
  /\ Settle(t, CASE e = "Stopped" -> StoppedStatus
                 [] e = "Gone"    -> "failed"
                 [] MapAcaTerminalStatus(e) # None /\ e # "Stopped"
                                  -> MapAcaTerminalStatus(e)
                 [] OTHER         -> "unresolved")
  /\ UNCHANGED storeVars

\* The status call fails: as if the execution were still running.
AcaUnreachable(t) ==
  /\ trk.at = "resolve" /\ trk.poll = t
  /\ Fault
  /\ Settle(t, "unresolved")
  /\ UNCHANGED <<claim, intent, runRec, taskRec, exec, blob, late>>

-----------------------------------------------------------------------------
(* Finalisation.                                                           *)

\* Mutant: one settled task is enough.
AnyLookedAt == trk.at = "resolve" /\ \E t \in Tasks : trk.res[t] # None

AllLookedAt == trk.at = "resolve" /\ \A t \in Tasks : trk.res[t] # None
AnyUnresolved == \E t \in Tasks : trk.res[t] = "unresolved"

Defer ==
  /\ AllLookedAt /\ AnyUnresolved
  /\ TrkFinish
  /\ UNCHANGED storeVars

\* Mutant: the flushes are read again for the run, after the tasks were settled.
FinalStatusReadAgain ==
  ComputeRunStatus({IF BlobTerminal(TrkRun, t) THEN MapEntityStatus(blob[TrkRun][t])
                    ELSE trk.res[t] : t \in Tasks})

FinalStatus == ComputeRunStatus({trk.res[t] : t \in Tasks})

\* Mutant: the result of the write is not looked at.
TrkWriteRunUnchecked ==
  /\ AllLookedAt /\ ~AnyUnresolved
  /\ \/ WriteRun(TrkRun, FinalStatus) /\ UNCHANGED faults
     \/ Fault /\ UNCHANGED runRec
  /\ trk' = [trk EXCEPT !.at = "write_tasks"]
  /\ UNCHANGED <<claim, intent, taskRec, exec, blob, late>>

TrkWriteRun ==
  /\ AllLookedAt /\ ~AnyUnresolved
  /\ \/ /\ WriteRun(TrkRun, FinalStatus)
        /\ trk' = [trk EXCEPT !.at = "write_tasks"]
        /\ UNCHANGED faults
     \/ /\ Fault
        /\ trk' = [trk EXCEPT !.at = "write_tasks", !.failed = TRUE]
        /\ UNCHANGED runRec
  /\ UNCHANGED <<claim, intent, taskRec, exec, blob, late>>

\* Mutant: the claim is not retained when the task records failed.
TrkWriteTasksUnretained ==
  /\ trk.at = "write_tasks"
  /\ \/ WriteTasks(TrkRun, trk.res) /\ UNCHANGED faults
     \/ Fault /\ UNCHANGED taskRec
  /\ trk' = [trk EXCEPT !.at = "delete_claim"]
  /\ UNCHANGED <<claim, intent, runRec, exec, blob, late>>

\* The claim is retained when either write failed.
TrkWriteTasks ==
  /\ trk.at = "write_tasks"
  /\ \/ /\ WriteTasks(TrkRun, trk.res)
        /\ IF trk.failed THEN TrkFinish
           ELSE trk' = [trk EXCEPT !.at = "delete_claim"]
        /\ UNCHANGED faults
     \/ Fault /\ TrkFinish /\ UNCHANGED taskRec
  /\ UNCHANGED <<claim, intent, runRec, exec, blob, late>>

\* ClaimWriter.DeleteAsync: by the path of the slot, whatever it holds; a
\* failure is logged and ignored.
TrkDeleteClaim ==
  /\ trk.at = "delete_claim"
  /\ \/ /\ claim' = [claim EXCEPT ![SlotOf[TrkRun]] = NoClaim]
        /\ UNCHANGED faults
     \/ Fault /\ UNCHANGED claim
  /\ IF trk.trigger = None THEN TrkFinish
     ELSE trk' = [trk EXCEPT !.at = "delete_intent"]
  /\ UNCHANGED <<intent, runRec, taskRec, exec, blob, late>>

\* Only an intent that was there when the check began.
TrkDeleteIntent ==
  /\ trk.at = "delete_intent"
  /\ \/ DeleteIntent(TrkRun) /\ UNCHANGED faults
     \/ Fault /\ UNCHANGED intent
  /\ TrkFinish
  /\ UNCHANGED <<claim, runRec, taskRec, exec, blob, late>>

\* A read throws: the claim is left for the next tick.
CheckThrows ==
  /\ \/ trk.at = "read_intent"
     \/ \E t \in Tasks : Pending(t) /\ trk.claim.task[t] # "error"
  /\ Fault
  /\ TrkFinish
  /\ UNCHANGED <<claim, intent, runRec, taskRec, exec, blob, late>>

TrackStep ==
  \/ TrkReadIntent
  \/ \E t \in Tasks : \/ ResolveDispatchFailed(t) \/ ResolveFromBlob(t)
                      \/ ResolveFromAca(t) \/ AcaUnreachable(t)
  \/ Defer \/ TrkWriteRun \/ TrkWriteTasks
  \/ TrkDeleteClaim \/ TrkDeleteIntent \/ CheckThrows

TrackerInit == trk = NoCheck

TrackerTypeOK ==
  trk \in [at : TrkAt, claim : Claims, timedOut : BOOLEAN,
           trigger : CancelTriggers \cup {None}, poll : Tasks \cup {NoTask},
           res : [Tasks -> Resolved], failed : BOOLEAN]
=============================================================================
