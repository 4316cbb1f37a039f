----------------------------- MODULE RunExecutor -----------------------------
(***************************************************************************)
(* RunExecutor.ExecuteAsync from its claim phase on, with the ClaimWriter  *)
(* it calls: one request dispatches a batch of runs, one per tenant.  Each *)
(* run claims its slot, starts its executions and persists their names in  *)
(* a second, conditional write of the claim.                               *)
(***************************************************************************)
EXTENDS ControlStore

CONSTANTS
  Batches,         \* the runs of each request: a partition of Runs
  AllowForce       \* requests may carry force=true

ASSUME ExecutorAssumption ==
  /\ Batches \subseteq SUBSET Runs
  /\ \A r \in Runs : \E b \in Batches : r \in b
  /\ \A a, b \in Batches : a # b => a \cap b = {}
  /\ AllowForce \in BOOLEAN

VARIABLES
  pc,       \* run -> where its dispatch is
  forced,   \* run -> its request carried force=true
  seen,     \* run -> the claim its HEAD found (force only)
  ref       \* run -> task -> outcome of StartJob, not yet persisted

execVars == <<pc, forced, seen, ref>>

Claiming   == {"claiming", "force_new", "force_over"}
Rejections == {"rejected_exists", "rejected_concurrent"}
Joining    == {"claimed", "threw"} \cup Rejections
\* "dead": the request ended by an exception or a crash; its claim, if it
\* had one, stays.
Ended      == {"dispatched", "untracked", "dead", "threw"} \cup Rejections
PCs        == {"idle", "starting"} \cup Claiming \cup Joining \cup Ended

Goto(r, label) == pc' = [pc EXCEPT ![r] = label]
PutClaim(r, c) == claim' = [claim EXCEPT ![SlotOf[r]] = c]

\* The request's runs reach the claim phase; startedAt is stamped before it.
Request(b) ==
  /\ \A r \in b : pc[r] = "idle"
  /\ pc' = [r \in Runs |-> IF r \in b THEN "claiming" ELSE pc[r]]
  /\ \E f \in {FALSE, AllowForce} :
       forced' = [r \in Runs |-> IF r \in b THEN f ELSE forced[r]]
  /\ UNCHANGED <<seen, ref, storeVars>>

-----------------------------------------------------------------------------
(* ClaimWriter.TryCreateAsync                                              *)

\* Mutant: the PUT carries no condition.
PutAlways(r, rejection) == PutClaim(r, NewClaim(r)) /\ Goto(r, "claimed")

\* PUT If-None-Match: * on the slot; a loser gets the given rejection.
PutIfAbsent(r, rejection) ==
  IF claim[SlotOf[r]] = NoClaim
  THEN PutClaim(r, NewClaim(r)) /\ Goto(r, "claimed")
  ELSE Goto(r, rejection) /\ UNCHANGED claim

Create(r) ==
  /\ pc[r] = "claiming" /\ ~forced[r]
  /\ PutIfAbsent(r, "rejected_exists")
  /\ UNCHANGED <<forced, seen, ref, intent, runRec, taskRec, exec, blob, late, faults>>

ForceHead(r) ==
  /\ pc[r] = "claiming" /\ forced[r]
  /\ seen' = [seen EXCEPT ![r] = claim[SlotOf[r]]]
  /\ Goto(r, IF claim[SlotOf[r]] = NoClaim THEN "force_new" ELSE "force_over")
  /\ UNCHANGED <<forced, ref, storeVars>>

ForceCreate(r) ==
  /\ pc[r] = "force_new"
  /\ PutIfAbsent(r, "rejected_concurrent")
  /\ UNCHANGED <<forced, seen, ref, intent, runRec, taskRec, exec, blob, late, faults>>

\* Mutant: the overwrite carries no condition.
ForceOverwriteBlind(r) ==
  /\ pc[r] = "force_over"
  /\ PutClaim(r, NewClaim(r)) /\ Goto(r, "claimed")
  /\ UNCHANGED <<forced, seen, ref, intent, runRec, taskRec, exec, blob, late, faults>>

\* PUT If-Match with the ETag of the HEAD.
ForceOverwrite(r) ==
  /\ pc[r] = "force_over"
  /\ IF claim[SlotOf[r]] = seen[r]
     THEN PutClaim(r, NewClaim(r)) /\ Goto(r, "claimed")
     ELSE Goto(r, "rejected_concurrent") /\ UNCHANGED claim
  /\ UNCHANGED <<forced, seen, ref, intent, runRec, taskRec, exec, blob, late, faults>>

\* A storage call of the claim phase throws.
ClaimThrows(r) ==
  /\ pc[r] \in Claiming
  /\ Fault
  /\ Goto(r, "threw")
  /\ UNCHANGED <<forced, seen, ref, claim, intent, runRec, taskRec, exec, blob, late>>

\* The PUT lands but its response is lost; the SDK's retry finds the blob
\* there (or changed) and the writer reports a rejection.
ClaimResponseLost(r) ==
  /\ \/ pc[r] = "claiming" /\ ~forced[r] /\ claim[SlotOf[r]] = NoClaim
     \/ pc[r] = "force_new" /\ claim[SlotOf[r]] = NoClaim
     \/ pc[r] = "force_over" /\ claim[SlotOf[r]] = seen[r]
  /\ Fault
  /\ PutClaim(r, NewClaim(r))
  /\ Goto(r, IF forced[r] THEN "rejected_concurrent" ELSE "rejected_exists")
  /\ UNCHANGED <<forced, seen, ref, intent, runRec, taskRec, exec, blob, late>>

-----------------------------------------------------------------------------
(* Task.WhenAll over the claims of the batch: when one of them threw, the  *)
(* request ends there and the claims of its siblings stay behind.          *)

Join(b) ==
  /\ \E r \in b : pc[r] = "claimed"
  /\ \A r \in b : pc[r] \in Joining
  /\ LET next == IF \E r \in b : pc[r] = "threw" THEN "dead" ELSE "starting"
     IN  pc' = [r \in Runs |-> IF r \in b /\ pc[r] = "claimed" THEN next ELSE pc[r]]
  /\ UNCHANGED <<forced, seen, ref, storeVars>>

-----------------------------------------------------------------------------
(* DispatchTenantAsync                                                     *)

SetRef(r, t, outcome) == ref' = [ref EXCEPT ![r][t] = outcome]

Start(r, t) ==
  /\ pc[r] = "starting" /\ ref[r][t] = "null"
  /\ SetRef(r, t, "named")
  /\ Ends(r, t, "Running")
  /\ UNCHANGED <<pc, forced, seen, claim, intent, runRec, taskRec, blob, late, faults>>

\* No template, a refused start, or a start whose answer is lost: then the
\* execution runs and the claim will say it failed to dispatch.
StartFails(r, t) ==
  /\ pc[r] = "starting" /\ ref[r][t] = "null"
  /\ Fault
  /\ SetRef(r, t, "error")
  /\ UNCHANGED exec \/ Ends(r, t, "Running")
  /\ UNCHANGED <<pc, forced, seen, claim, intent, runRec, taskRec, blob, late>>

AllStarted(r) == pc[r] = "starting" /\ \A t \in Tasks : ref[r][t] # "null"

\* UpdateExecutionNamesAsync: PUT If-Match with the ETag of the first write.
SecondWrite(r) ==
  /\ AllStarted(r)
  /\ IF claim[SlotOf[r]] = NewClaim(r)
     THEN /\ PutClaim(r, [run |-> r, task |-> ref[r]])
          /\ Goto(r, "dispatched")
     ELSE Goto(r, "untracked") /\ UNCHANGED claim
  /\ UNCHANGED <<forced, seen, ref, intent, runRec, taskRec, exec, blob, late, faults>>

\* The second write lands, its response is lost and the retry reports 412.
SecondWriteResponseLost(r) ==
  /\ AllStarted(r)
  /\ claim[SlotOf[r]] = NewClaim(r)
  /\ Fault
  /\ PutClaim(r, [run |-> r, task |-> ref[r]])
  /\ Goto(r, "untracked")
  /\ UNCHANGED <<forced, seen, ref, intent, runRec, taskRec, exec, blob, late>>

\* The second write throws: the request fails with the claim in place.
SecondWriteThrows(r) ==
  /\ AllStarted(r)
  /\ Fault
  /\ Goto(r, "dead")
  /\ UNCHANGED <<forced, seen, ref, claim, intent, runRec, taskRec, exec, blob, late>>

\* The host that serves the request dies.
HostDies(b) ==
  /\ \E r \in b : pc[r] \notin Ended \cup {"idle"}
  /\ Fault
  /\ pc' = [r \in Runs |-> IF r \in b /\ pc[r] \notin Ended THEN "dead" ELSE pc[r]]
  /\ UNCHANGED <<forced, seen, ref, claim, intent, runRec, taskRec, exec, blob, late>>

DispatchRun(r) ==
  \/ Create(r) \/ ForceHead(r) \/ ForceCreate(r) \/ ForceOverwrite(r)
  \/ ClaimThrows(r) \/ ClaimResponseLost(r)
  \/ \E t \in Tasks : Start(r, t) \/ StartFails(r, t)
  \/ SecondWrite(r) \/ SecondWriteResponseLost(r) \/ SecondWriteThrows(r)

ExecutorStep ==
  \/ \E b \in Batches : Request(b) \/ Join(b) \/ HostDies(b)
  \/ \E r \in Runs : DispatchRun(r)

ExecutorInit ==
  /\ pc     = [r \in Runs |-> "idle"]
  /\ forced = [r \in Runs |-> FALSE]
  /\ seen   = [r \in Runs |-> NoClaim]
  /\ ref    = [r \in Runs |-> [t \in Tasks |-> "null"]]

ExecutorTypeOK ==
  /\ pc     \in [Runs -> PCs]
  /\ forced \in [Runs -> BOOLEAN]
  /\ seen   \in [Runs -> Claims]
  /\ ref    \in [Runs -> [Tasks -> TaskRefs]]
==============================================================================
