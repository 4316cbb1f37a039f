-------------------------- MODULE ControlProperties --------------------------
(***************************************************************************)
(* What the dispatcher's control plane is meant to guarantee, and what its *)
(* comments say it does.                                                   *)
(***************************************************************************)
EXTENDS ControlPlane

Recorded == {r \in Runs : runRec[r] # None /\ taskRec[r] # NoTaskRec}

\* An execution that may still write data: it runs, and has not said it is done.
Working(r, t) == Live(r, t) /\ ~BlobTerminal(r, t)

\* A run whose executions are tracked: their names were persisted.
Tracked(r) == {t \in Tasks : pc[r] = "dispatched" /\ ref[r][t] = "named"}

ForceReleased(r) == runRec[r] = "cancellation_failed"

-----------------------------------------------------------------------------
(* Safety.                                                                 *)

(* Without force, two runs of one slot never work at the same time, unless *)
(* the first was force-released or lost track of its executions.  The      *)
(* overlap protection of RunExecutor rests on the tracker not releasing    *)
(* the slot while an execution works.                                      *)
OneRunPerSlot ==
  \A q, r \in Runs :
    /\ q # r
    /\ SlotOf[q] = SlotOf[r]
    /\ \E t \in Tracked(q) : Working(q, t)
    /\ \E t \in Tracked(r) : Working(r, t)
    => forced[q] \/ forced[r] \/ ForceReleased(q) \/ ForceReleased(r)

(* A run that was dispatched without force is either still claimed or has  *)
(* both its history records: no order of ticks, crashes and failed calls   *)
(* makes a run disappear (RunTracker retains the claim until the history   *)
(* is written; nobody else may take the slot meanwhile).                   *)
NoLostRun ==
  \A r \in Runs :
    pc[r] \in {"claimed", "starting", "dispatched"} => Active(r) \/ r \in Recorded

(* The tracker records a run only when each execution it tracks has ended  *)
(* or flushed its terminal state, whatever deadline passed or cancel came. *)
RecordedMeansEnded ==
  \A r \in Runs :
    runRec[r] # None /\ ~ForceReleased(r) => \A t \in Tracked(r) : ~Working(r, t)

\* What a task's status in the history rests on: the deadline, the intent or
\* the release; otherwise what its start, its flush or its execution came to.
TaskHasCause(r, t, status) ==
  /\ status = "timed_out"                => late[r]
  /\ status = "cancelled"                => intent[r].gen > 0
  /\ status = "cancellation_failed"      => AllowRelease /\ intent[r].gen > 0
  /\ status = "dispatch_failed"          => ref[r][t] = "error"
  /\ status \in {"partial", "skipped"}   => blob[r][t] = status
  /\ status = "succeeded" => blob[r][t] = "success" \/ exec[r][t] \in {"Succeeded", "Gone"}
  /\ status = "failed"    => blob[r][t] = "failed" \/ exec[r][t] \in {"Failed", "Stopped", "Gone"}

(* A recorded status has its cause, for the run and for each of its tasks: *)
(* timed_out a deadline that passed, cancelled a cancel intent that was    *)
(* created, cancellation_failed an operator's release of a run that was to *)
(* be cancelled.  Any other status of a task rests on its own start, flush *)
(* or execution, however stale the claim and the reads of the check were.  *)
StatusHasCause ==
  \A r \in Runs :
    /\ runRec[r] = "timed_out" => late[r]
    /\ runRec[r] = "cancelled" => intent[r].gen > 0
    /\ ForceReleased(r)        => AllowRelease /\ intent[r].gen > 0
    /\ \A t \in Tasks : TaskHasCause(r, t, taskRec[r][t])

(* Until a call fails, the record of a run is the sum of the records of    *)
(* its tasks, which are written after it, unless an operator's release     *)
(* wrote one of the two (RunTracker, ForceReleaseRunFunction).  A write    *)
(* that fails is made again from what the next check finds, and the two    *)
(* may differ then.                                                        *)
RecordsAgree ==
  faults = MaxFaults =>
    \A r \in Recorded :
      LET statuses == {taskRec[r][t] : t \in Tasks} IN
      \/ runRec[r] = ComputeRunStatus(statuses)
      \/ ForceReleased(r) \/ "cancellation_failed" \in statuses

-----------------------------------------------------------------------------
(* What a step may never do.                                               *)

StateRank(i) == CASE i.state = "cancel_requested" -> 1
                  [] i.state = "cancel_submitted" -> 2
                  [] i.state = "cancel_stalled"   -> 3
                  [] OTHER                        -> 0

(* While an intent exists no writer takes it back: the inline submission   *)
(* and the reconciler race on stale reads, and the loser's write changes   *)
(* nothing (CancelIntentStore.TryUpdateAsync).  The count never drops      *)
(* within a state, and an intent stalls only after the threshold.          *)
IntentNeverRegresses ==
  [][\A r \in Runs :
       HasIntent(r) /\ intent'[r].state # "absent" =>
         /\ intent'[r].trigger = intent[r].trigger
         /\ StateRank(intent'[r]) >= StateRank(intent[r])
         /\ intent'[r].state = intent[r].state => intent'[r].count >= intent[r].count
         /\ intent'[r].state = "cancel_stalled" /\ intent[r].state # "cancel_stalled" =>
              intent[r].state = "cancel_submitted" /\ intent'[r].count >= StallThreshold]_vars

(* A claim changes hands only by force, from exactly the claim the forcing *)
(* request saw; any other write over a claim is its own run's second write *)
(* (ClaimWriter's two conditional writes).                                 *)
ClaimChangesHands ==
  [][\A s \in Slots :
       claim[s] # NoClaim /\ claim'[s] # NoClaim /\ claim'[s] # claim[s] =>
         LET new == claim'[s].run IN
         \/ forced[new] /\ seen[new] = claim[s]
         \/ new = claim[s].run /\ claim[s] = NewClaim(new)]_vars

(* As long as no call has failed, a cancel intent is dropped only once its *)
(* run holds no claim any more: the finalisation and the force-release     *)
(* delete the claim first, and the reconciler drops intents of runs it     *)
(* finds without a claim (RunCanceller.ReconcileIntentAsync).              *)
IntentOutlivesClaim ==
  [][\A r \in Runs :
       HasIntent(r) /\ intent'[r].state = "absent" /\ faults = MaxFaults => ~Active(r)]_vars

-----------------------------------------------------------------------------
(* Refinement: without force the claims are a lock.                        *)

Lock == INSTANCE SlotLock WITH holder <- [s \in Slots |-> claim[s].run],
                               closed <- Recorded

(* Every behaviour of the dispatcher without force and force-release is a  *)
(* behaviour of SlotLock: a slot is released only after the history of the *)
(* run that holds it is complete, and no run is recorded after that.       *)
ClaimsAreLocks == Lock!Locking

-----------------------------------------------------------------------------
(* Liveness.  The host keeps calling the timer, a pass that is throttled   *)
(* runs on a later tick, started calls end, and ACA carries out the stops  *)
(* it accepts.  Nothing makes a container finish on its own.               *)

Fairness ==
  /\ WF_vars(ExecutorStep /\ UNCHANGED <<cancelVars, trackVars, planeVars>>)
  /\ \A p \in Callers : WF_vars(RequestStep(p) /\ UNCHANGED <<execVars, trackVars, planeVars>>)
  /\ WF_vars(ReconcileStep /\ UNCHANGED <<execVars, trackVars, planeVars>>)
  /\ WF_vars(TrackStep /\ UNCHANGED <<execVars, cancelVars, planeVars>>)
  /\ WF_vars(TimerStep)
  /\ SF_vars(TickReconciles)
  /\ \A p \in Operators : WF_vars(ReleaseStep(p))
  /\ \A r \in Runs, t \in Tasks :
       WF_vars(StopLands(r, t) /\ UNCHANGED <<execVars, cancelVars, trackVars, planeVars>>)

FairSpec == Spec /\ Fairness

(* A claim is released once its deadline has passed, however the dispatch  *)
(* went and even if the containers never finish: the stops and the nudges  *)
(* of a stalled cancel see to it.                                          *)
ClaimReleased == \A r \in Runs : Active(r) /\ late[r] ~> ~Active(r)

(* The cancel intent of a run that was dispatched goes away, without the   *)
(* deadline's help and also when it was requested before the names of the  *)
(* executions were persisted: by IntentOutlivesClaim the run has then been *)
(* finalised.  So does the intent of a run that has no claim any more; a   *)
(* run whose dispatch died may need its deadline.                          *)
IntentResolved ==
  \A r \in Runs :
    HasIntent(r) /\ (pc[r] = "dispatched" \/ ~Active(r) \/ late[r]) ~> ~HasIntent(r)

(* A run record is followed by the task records of the run: a failed write *)
(* retains the claim, and a later tick completes the history.              *)
HistoryCompletes ==
  \A r \in Runs : runRec[r] # None ~> taskRec[r] # NoTaskRec
=============================================================================
