---------------------------- MODULE RunCanceller ----------------------------
(***************************************************************************)
(* RunCanceller: the cancel request, which an operator's call and the      *)
(* timer both make, and the reconciler's step for one intent, with the     *)
(* ClaimReader and CancelIntentStore calls they make.  A caller of the     *)
(* request is a member of Callers; the reconciler is one process, for the  *)
(* host runs one timer tick at a time.                                     *)
(***************************************************************************)
EXTENDS ControlStore

CONSTANTS
  Operators,    \* concurrent calls of the API endpoints
  Timer,        \* the timer's own use of RequestCancelAsync
  StallThreshold

Callers == Operators \cup {Timer}

ASSUME CancellerAssumption ==
  /\ Timer \notin Operators
  /\ StallThreshold \in Nat \ {0}

VARIABLES
  req,      \* caller -> its RequestCancelAsync in progress
  rec       \* ReconcileIntentAsync in progress

cancelVars == <<req, rec>>

NoRequest == [at |-> "idle", run |-> NoRun, trigger |-> None,
              claim |-> NoClaim, intent |-> NoIntent(0)]
NoReconcile == [at |-> "idle", run |-> NoRun, intent |-> NoIntent(0), claim |-> NoClaim]

ReqAt == {"idle", "find", "create", "read_existing", "stop", "bump", "advance"}
RecAt == {"idle", "find", "drop", "act", "bump", "advance"}

Finish(p)    == req' = [req EXCEPT ![p] = NoRequest]
ReqGoto(p, label) == req' = [req EXCEPT ![p].at = label]

\* What a caller starts: TryFindByRunIdAsync is its first call.
Requesting(p, r, x) ==
  req' = [req EXCEPT ![p] = [NoRequest EXCEPT !.at = "find", !.run = r, !.trigger = x]]

-----------------------------------------------------------------------------
(* RequestCancelAsync                                                      *)

\* A claim blob that cannot be read is missing from the listing (Fault).
ReqFind(p) ==
  LET r == req[p].run IN
  /\ req[p].at = "find"
  /\ \/ /\ Active(r)
        /\ req' = [req EXCEPT ![p].at = "create", ![p].claim = claim[SlotOf[r]]]
        /\ UNCHANGED faults
     \/ ~Active(r) /\ Finish(p) /\ UNCHANGED faults
     \/ Active(r) /\ Fault /\ Finish(p)
  /\ UNCHANGED <<rec, claim, intent, runRec, taskRec, exec, blob, late>>

ReqCreate(p) ==
  LET r == req[p].run
      new == Requested(intent[r].gen + 1, req[p].trigger)
  IN
  /\ req[p].at = "create"
  /\ \/ /\ ~HasIntent(r) /\ intent[r].gen < MaxGen
        /\ intent' = [intent EXCEPT ![r] = new]
        /\ req' = [req EXCEPT ![p].at = "stop", ![p].intent = new]
     \/ /\ HasIntent(r)
        /\ ReqGoto(p, "read_existing")
        /\ UNCHANGED intent
     \/ /\ ~HasIntent(r) /\ intent[r].gen = MaxGen    \* the bound
        /\ Finish(p)
        /\ UNCHANGED intent
  /\ UNCHANGED <<rec, claim, runRec, taskRec, exec, blob, late, faults>>

\* Gone again, or past cancel_requested: answered as it is.
ReqReadExisting(p) ==
  LET r == req[p].run IN
  /\ req[p].at = "read_existing"
  /\ IF intent[r].state = "cancel_requested"
     THEN req' = [req EXCEPT ![p].at = "stop", ![p].intent = intent[r]]
     ELSE Finish(p)
  /\ UNCHANGED <<rec, storeVars>>

ReqStop(p) ==
  /\ req[p].at = "stop"
  /\ \/ /\ SubmitStops(req[p].claim, Named(req[p].claim))
        /\ ReqGoto(p, "advance")
        /\ UNCHANGED faults
     \/ \E accepted \in SUBSET Named(req[p].claim) :
          /\ accepted # Named(req[p].claim)
          /\ Fault
          /\ SubmitStops(req[p].claim, accepted)
          /\ ReqGoto(p, "bump")
  /\ UNCHANGED <<rec, claim, intent, runRec, taskRec, blob, late>>

\* A lost update changes nothing but the answer.
ReqUpdate(p) ==
  LET i == req[p].intent IN
  /\ req[p].at \in {"bump", "advance"}
  /\ TryUpdateIntent(req[p].run, i,
                     IF req[p].at = "bump" THEN Bumped(i) ELSE Submitted(i))
  /\ Finish(p)
  /\ UNCHANGED <<rec, claim, runRec, taskRec, exec, blob, late, faults>>

\* Any call of the request but the listing throws, or its host dies.
ReqDies(p) ==
  /\ req[p].at \notin {"idle", "find"}
  /\ Fault
  /\ Finish(p)
  /\ UNCHANGED <<rec, claim, intent, runRec, taskRec, exec, blob, late>>

RequestStep(p) ==
  \/ ReqFind(p) \/ ReqCreate(p) \/ ReqReadExisting(p)
  \/ ReqStop(p) \/ ReqUpdate(p) \/ ReqDies(p)

-----------------------------------------------------------------------------
(* ReconcileIntentAsync, for an intent as the listing of Pass B saw it.    *)

Reconciling(r, i) == rec' = [NoReconcile EXCEPT !.at = "find", !.run = r, !.intent = i]
RecFinish         == rec' = NoReconcile
RecGoto(label)    == rec' = [rec EXCEPT !.at = label]

\* Mutant: the intent of a finished run is left alone.
RecFindNoDrop ==
  LET r == rec.run IN
  /\ rec.at = "find"
  /\ IF Active(r) THEN rec' = [rec EXCEPT !.at = "act", !.claim = claim[SlotOf[r]]]
     ELSE RecFinish
  /\ UNCHANGED <<req, storeVars>>

RecFind ==
  LET r == rec.run IN
  /\ rec.at = "find"
  /\ \/ /\ Active(r)
        /\ rec' = [rec EXCEPT !.at = "act", !.claim = claim[SlotOf[r]]]
        /\ UNCHANGED faults
     \/ ~Active(r) /\ RecGoto("drop") /\ UNCHANGED faults
     \/ Active(r) /\ Fault /\ RecGoto("drop")
  /\ UNCHANGED <<req, claim, intent, runRec, taskRec, exec, blob, late>>

\* The claim is gone: so is the run.
RecDrop ==
  /\ rec.at = "drop"
  /\ DeleteIntent(rec.run)
  /\ RecFinish
  /\ UNCHANGED <<req, claim, runRec, taskRec, exec, blob, late, faults>>

\* cancel_requested: submit the stops again.
RecResubmit ==
  /\ rec.at = "act" /\ rec.intent.state = "cancel_requested"
  /\ \/ /\ SubmitStops(rec.claim, Named(rec.claim))
        /\ RecGoto("advance")
        /\ UNCHANGED faults
     \/ \E accepted \in SUBSET Named(rec.claim) :
          /\ accepted # Named(rec.claim)
          /\ Fault
          /\ SubmitStops(rec.claim, accepted)
          /\ RecGoto("bump")
  /\ UNCHANGED <<req, claim, intent, runRec, taskRec, blob, late>>

RecUpdate ==
  LET i == rec.intent IN
  /\ rec.at \in {"bump", "advance"}
  /\ TryUpdateIntent(rec.run, i, IF rec.at = "bump" THEN Bumped(i) ELSE Submitted(i))
  /\ RecFinish
  /\ UNCHANGED <<req, claim, runRec, taskRec, exec, blob, late, faults>>

\* cancel_submitted: wait for the executions to end, but not forever.
RecWait ==
  LET i == rec.intent
      waited == IF i.count + 1 >= StallThreshold
                THEN [Bumped(i) EXCEPT !.state = "cancel_stalled"]
                ELSE Bumped(i)
  IN
  /\ rec.at = "act" /\ i.state = "cancel_submitted"
  /\ TryUpdateIntent(rec.run, i, waited)
  /\ RecFinish
  /\ UNCHANGED <<req, claim, runRec, taskRec, exec, blob, late, faults>>

\* cancel_stalled: keep nudging ACA; the answers are not looked at.
RecNudge ==
  /\ rec.at = "act" /\ rec.intent.state = "cancel_stalled"
  /\ \/ SubmitStops(rec.claim, Named(rec.claim)) /\ UNCHANGED faults
     \/ \E accepted \in SUBSET Named(rec.claim) :
          /\ accepted # Named(rec.claim)
          /\ Fault
          /\ SubmitStops(rec.claim, accepted)
  /\ RecFinish
  /\ UNCHANGED <<req, claim, intent, runRec, taskRec, blob, late>>

\* A storage call throws, or the deletion is lost: on to the next intent.
RecFails ==
  /\ rec.at \notin {"idle", "find"}
  /\ Fault
  /\ RecFinish
  /\ UNCHANGED <<req, claim, intent, runRec, taskRec, exec, blob, late>>

ReconcileStep ==
  \/ RecFind \/ RecDrop \/ RecResubmit \/ RecUpdate
  \/ RecWait \/ RecNudge \/ RecFails

CancellerInit == req = [p \in Callers |-> NoRequest] /\ rec = NoReconcile

CancellerTypeOK ==
  /\ req \in [Callers -> [at : ReqAt, run : Runs \cup {NoRun},
                          trigger : CancelTriggers \cup {None},
                          claim : Claims, intent : Intents]]
  /\ rec \in [at : RecAt, run : Runs \cup {NoRun}, intent : Intents, claim : Claims]
=============================================================================
