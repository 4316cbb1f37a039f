---------------------------- MODULE ControlPlane ----------------------------
(***************************************************************************)
(* The dispatcher as it runs: requests that dispatch runs (RunExecutor),   *)
(* the one-minute timer that reconciles cancel intents and then checks the *)
(* active claims (IngestTimerFunction over RunCanceller and RunTracker),   *)
(* the cancel and force-release endpoints, and the containers.  They share *)
(* the control blobs only.                                                 *)
(***************************************************************************)
EXTENDS RunExecutor, RunCanceller, RunTracker

CONSTANTS
  AllowRelease,   \* operators use the force-release endpoint
  SlowDispatch    \* a timeout may pass while the run is still being dispatched

ASSUME PlaneAssumption == AllowRelease \in BOOLEAN /\ SlowDispatch \in BOOLEAN

VARIABLES
  tick,       \* the timer's tick: its phase and what it has listed
  release     \* operator -> its force-release call in progress

planeVars == <<tick, release>>
vars == <<storeVars, execVars, cancelVars, trackVars, planeVars>>

TickAt  == {"idle", "pass_a", "pass_b", "list", "check"}
NoTick  == [at |-> "idle", claims |-> {}, intents |-> {}]

RelAt     == {"idle", "find", "drop", "write_run", "write_tasks",
              "delete_claim", "delete_intent"}
NoRelease == [at |-> "idle", run |-> NoRun, claim |-> NoClaim, failed |-> FALSE]

-----------------------------------------------------------------------------
(* The timer.  The host runs one tick at a time.                           *)

\* A listing of the claims; a blob whose read fails is left out of it.
Listing(found) ==
  \/ found = ActiveClaims /\ UNCHANGED faults
  \/ \E c \in ActiveClaims : found = ActiveClaims \ {c} /\ Fault

\* Mutant: deadlines are not detected.
OverdueNever(claims) == {}

Overdue(claims) == {c \in claims : late[c.run]}

\* Pass A of ReconcileAsync, every other tick: the claims past their deadline.
TickReconciles ==
  /\ tick.at = "idle"
  /\ \E found \in SUBSET ActiveClaims :
       /\ Listing(found)
       /\ tick' = [NoTick EXCEPT !.at = "pass_a", !.claims = Overdue(found)]
  /\ UNCHANGED <<claim, intent, runRec, taskRec, exec, blob, late, release,
                 execVars, cancelVars, trackVars>>

\* The pass is throttled, or its listing throws.
TickSkipsReconcile ==
  /\ tick.at = "idle"
  /\ tick' = [NoTick EXCEPT !.at = "list"]
  /\ UNCHANGED <<storeVars, release, execVars, cancelVars, trackVars>>

PassA(c) ==
  /\ tick.at = "pass_a" /\ req[Timer].at = "idle"
  /\ c \in tick.claims
  /\ tick' = [tick EXCEPT !.claims = @ \ {c}]
  /\ IF HasIntent(c.run) THEN UNCHANGED req ELSE Requesting(Timer, c.run, "timeout")
  /\ UNCHANGED <<storeVars, rec, release, execVars, trackVars>>

IntentsFound == {[run |-> r, intent |-> intent[r]] : r \in {q \in Runs : HasIntent(q)}}

PassAEnds ==
  /\ tick.at = "pass_a" /\ req[Timer].at = "idle" /\ tick.claims = {}
  /\ tick' = [tick EXCEPT !.at = "pass_b", !.intents = IntentsFound]
  /\ UNCHANGED <<storeVars, release, execVars, cancelVars, trackVars>>

PassB(f) ==
  /\ tick.at = "pass_b" /\ rec.at = "idle"
  /\ f \in tick.intents
  /\ tick' = [tick EXCEPT !.intents = @ \ {f}]
  /\ Reconciling(f.run, f.intent)
  /\ UNCHANGED <<storeVars, req, release, execVars, trackVars>>

PassBEnds ==
  /\ tick.at = "pass_b" /\ rec.at = "idle" /\ tick.intents = {}
  /\ tick' = [tick EXCEPT !.at = "list"]
  /\ UNCHANGED <<storeVars, release, execVars, cancelVars, trackVars>>

\* CheckActiveRunsAsync
TickLists ==
  /\ tick.at = "list"
  /\ \E found \in SUBSET ActiveClaims :
       /\ Listing(found)
       /\ tick' = [NoTick EXCEPT !.at = "check", !.claims = found]
  /\ UNCHANGED <<claim, intent, runRec, taskRec, exec, blob, late, release,
                 execVars, cancelVars, trackVars>>

Check(c) ==
  /\ tick.at = "check" /\ trk.at = "idle"
  /\ c \in tick.claims
  /\ tick' = [tick EXCEPT !.claims = @ \ {c}]
  /\ Checking(c)
  /\ UNCHANGED <<storeVars, release, execVars, cancelVars>>

TickEnds ==
  /\ tick.at = "check" /\ trk.at = "idle" /\ tick.claims = {}
  /\ tick' = NoTick
  /\ UNCHANGED <<storeVars, release, execVars, cancelVars, trackVars>>

TimerDies ==
  /\ tick.at # "idle"
  /\ Fault
  /\ tick' = NoTick /\ trk' = NoCheck /\ rec' = NoReconcile
  /\ Finish(Timer)
  /\ UNCHANGED <<claim, intent, runRec, taskRec, exec, blob, late, release, execVars>>

TimerStep ==
  \/ TickReconciles \/ TickSkipsReconcile \/ PassAEnds \/ PassBEnds
  \/ \E c \in tick.claims : PassA(c) \/ Check(c)
  \/ \E f \in tick.intents : PassB(f)
  \/ TickLists \/ TickEnds \/ TimerDies

-----------------------------------------------------------------------------
(* The endpoints.                                                          *)

\* CancelRun; without a claim the answer is 404 or 409 and nothing changes.
OperatorCancels(p, r) ==
  /\ req[p].at = "idle" /\ release[p].at = "idle"
  /\ Active(r)
  /\ Requesting(p, r, "manual")
  /\ UNCHANGED <<storeVars, rec, execVars, trackVars, planeVars>>

RelGoto(p, label) == release' = [release EXCEPT ![p].at = label]
RelFinish(p)      == release' = [release EXCEPT ![p] = NoRelease]

\* ForceReleaseRun acts on a stalled intent only.
OperatorReleases(p, r) ==
  /\ AllowRelease
  /\ req[p].at = "idle" /\ release[p].at = "idle"
  /\ intent[r].state = "cancel_stalled"
  /\ release' = [release EXCEPT ![p] = [NoRelease EXCEPT !.at = "find", !.run = r]]
  /\ UNCHANGED <<storeVars, execVars, cancelVars, trackVars, tick>>

RelFind(p) ==
  LET r == release[p].run IN
  /\ release[p].at = "find"
  /\ \/ /\ Active(r)
        /\ release' = [release EXCEPT ![p].at = "write_run",
                                      ![p].claim = claim[SlotOf[r]]]
        /\ UNCHANGED faults
     \/ ~Active(r) /\ RelGoto(p, "drop") /\ UNCHANGED faults
     \/ Active(r) /\ Fault /\ RelGoto(p, "drop")
  /\ UNCHANGED <<claim, intent, runRec, taskRec, exec, blob, late,
                 execVars, cancelVars, trackVars, tick>>

RelWriteRun(p) ==
  /\ release[p].at = "write_run"
  /\ \/ /\ WriteRun(release[p].run, "cancellation_failed")
        /\ RelGoto(p, "write_tasks")
        /\ UNCHANGED faults
     \/ /\ Fault
        /\ release' = [release EXCEPT ![p].at = "write_tasks", ![p].failed = TRUE]
        /\ UNCHANGED runRec
  /\ UNCHANGED <<claim, intent, taskRec, exec, blob, late,
                 execVars, cancelVars, trackVars, tick>>

\* Mutant: the intent is deleted in place of the claim, which comes later.
RelWriteTasksIntentFirst(p) ==
  /\ release[p].at = "write_tasks"
  /\ WriteTasks(release[p].run, [t \in Tasks |-> "cancellation_failed"])
  /\ RelGoto(p, IF release[p].failed THEN "drop" ELSE "delete_intent")
  /\ UNCHANGED <<claim, intent, runRec, exec, blob, late, faults,
                 execVars, cancelVars, trackVars, tick>>

\* A failed write answers 500 and retains the claim and the intent.
RelWriteTasks(p) ==
  /\ release[p].at = "write_tasks"
  /\ \/ /\ WriteTasks(release[p].run, [t \in Tasks |-> "cancellation_failed"])
        /\ IF release[p].failed THEN RelFinish(p) ELSE RelGoto(p, "delete_claim")
        /\ UNCHANGED faults
     \/ Fault /\ RelFinish(p) /\ UNCHANGED taskRec
  /\ UNCHANGED <<claim, intent, runRec, exec, blob, late,
                 execVars, cancelVars, trackVars, tick>>

RelDeleteClaim(p) ==
  /\ release[p].at = "delete_claim"
  /\ \/ /\ claim' = [claim EXCEPT ![SlotOf[release[p].run]] = NoClaim]
        /\ UNCHANGED faults
     \/ Fault /\ UNCHANGED claim
  /\ RelGoto(p, "delete_intent")
  /\ UNCHANGED <<intent, runRec, taskRec, exec, blob, late,
                 execVars, cancelVars, trackVars, tick>>

\* The last step of both paths; the deletion may fail.
RelDeleteIntent(p) ==
  /\ release[p].at \in {"drop", "delete_intent"}
  /\ \/ DeleteIntent(release[p].run) /\ UNCHANGED faults
     \/ Fault /\ UNCHANGED intent
  /\ RelFinish(p)
  /\ UNCHANGED <<claim, runRec, taskRec, exec, blob, late,
                 execVars, cancelVars, trackVars, tick>>

RelDies(p) ==
  /\ release[p].at # "idle"
  /\ Fault
  /\ RelFinish(p)
  /\ UNCHANGED <<claim, intent, runRec, taskRec, exec, blob, late,
                 execVars, cancelVars, trackVars, tick>>

ReleaseStep(p) ==
  \/ RelFind(p) \/ RelWriteRun(p) \/ RelWriteTasks(p)
  \/ RelDeleteClaim(p) \/ RelDeleteIntent(p) \/ RelDies(p)

EndpointStep ==
  \E p \in Operators :
    \/ \E r \in Runs : OperatorCancels(p, r) \/ OperatorReleases(p, r)
    \/ ReleaseStep(p)

-----------------------------------------------------------------------------
(* The clock passes startedAt + resolvedTimeoutSeconds.  Unless SlowDispatch, *)
(* a timeout is longer than a dispatch and a tick: then no tick still holds *)
(* a claim listed before the second write when the deadline comes.          *)

DeadlinePasses(r) ==
  /\ pc[r] # "idle" /\ ~late[r]
  /\ \/ SlowDispatch
     \/ pc[r] \in Ended /\ NewClaim(r) \notin tick.claims
  /\ late' = [late EXCEPT ![r] = TRUE]
  /\ UNCHANGED <<claim, intent, runRec, taskRec, exec, blob, faults,
                 execVars, cancelVars, trackVars, planeVars>>

-----------------------------------------------------------------------------

Init ==
  /\ StoreInit /\ ExecutorInit /\ CancellerInit /\ TrackerInit
  /\ tick = NoTick
  /\ release = [p \in Operators |-> NoRelease]

Next ==
  \/ ContainerStep /\ UNCHANGED <<execVars, cancelVars, trackVars, planeVars>>
  \/ ExecutorStep /\ UNCHANGED <<cancelVars, trackVars, planeVars>>
  \/ \E p \in Callers : RequestStep(p) /\ UNCHANGED <<execVars, trackVars, planeVars>>
  \/ ReconcileStep /\ UNCHANGED <<execVars, trackVars, planeVars>>
  \/ TrackStep /\ UNCHANGED <<execVars, cancelVars, planeVars>>
  \/ TimerStep
  \/ EndpointStep
  \/ \E r \in Runs : DeadlinePasses(r)

Spec == Init /\ [][Next]_vars

TypeOK ==
  /\ StoreTypeOK /\ ExecutorTypeOK /\ CancellerTypeOK /\ TrackerTypeOK
  /\ tick \in [at : TickAt, claims : SUBSET Claims,
               intents : SUBSET [run : Runs, intent : Intents]]
  /\ release \in [Operators -> [at : RelAt, run : Runs \cup {NoRun},
                                claim : Claims, failed : BOOLEAN]]
=============================================================================
