---------------------------- MODULE ControlProofs ----------------------------
(***************************************************************************)
(* Proofs about the control plane, for every value of its constants, in    *)
(* three parts: the types, the claims and what becomes of a run, and the   *)
(* records the control plane leaves.                                       *)
(***************************************************************************)
EXTENDS ControlProperties, TLAPS

(***************************************************************************)
(* The types are inductive only together with what makes them so: a run    *)
(* that a process acts on is one of Runs and not the run of an absent      *)
(* claim, and the tracker writes no record before every task is settled.   *)
(***************************************************************************)
ClaimOK ==
  \A s \in Slots : claim[s] # NoClaim => /\ claim[s].run \in Runs
                                         /\ SlotOf[claim[s].run] = s

ActingOK ==
  /\ \A p \in Callers : req[p].at # "idle" => req[p].run \in Runs
  /\ rec.at # "idle" => rec.run \in Runs
  /\ \A p \in Operators : release[p].at # "idle" => release[p].run \in Runs
  /\ trk.at # "idle" => TrkRun \in Runs
  /\ \A c \in tick.claims : c.run \in Runs

SettledOK ==
  trk.at \in {"write_tasks", "delete_claim", "delete_intent"} =>
    \A t \in Tasks : trk.res[t] \in TaskStatuses

TypeInv == TypeOK /\ ClaimOK /\ ActingOK /\ SettledOK

-----------------------------------------------------------------------------
(* What the pure functions return.                                         *)

(* The roll-up of any set of task statuses is a status of a run            *)
(* (RunTracker.ComputeRunStatus).                                          *)
LEMMA RunStatusType ==
  ASSUME NEW S PROVE ComputeRunStatus(S) \in RunStatuses
  BY DEF ComputeRunStatus, RunStatuses

(* Every entity status maps to a status of a task (MapEntityStatus).       *)
LEMMA EntityStatusType ==
  ASSUME NEW s PROVE MapEntityStatus(s) \in TaskStatuses
  BY DEF MapEntityStatus, TaskStatuses

(* Every execution status maps to a task status or to none yet.            *)
LEMMA AcaStatusType ==
  ASSUME NEW e PROVE MapAcaTerminalStatus(e) \in TaskStatuses \cup {None}
  BY DEF MapAcaTerminalStatus, TaskStatuses, None

(* A new claim is a claim, and so is the absent one.                       *)
LEMMA NewClaimType ==
  ASSUME NEW r \in Runs \cup {NoRun} PROVE NewClaim(r) \in Claims
  BY DEF NewClaim, Claims, TaskRefs

(* A found claim is the claim of its run, and the claims listed name runs. *)
LEMMA FoundClaims ==
  ASSUME TypeOK, ClaimOK
  PROVE  /\ ActiveClaims \subseteq Claims
         /\ \A c \in ActiveClaims : c.run \in Runs
         /\ \A r \in Runs : claim[SlotOf[r]] \in Claims
  BY StoreAssumption DEF TypeOK, StoreTypeOK, ClaimOK, ActiveClaims

-----------------------------------------------------------------------------
(* The initial states are well typed.                                      *)
LEMMA InitTypes == Init => TypeInv
  <1> SUFFICES ASSUME Init PROVE TypeInv
    OBVIOUS
  <1> USE StoreAssumption, PlaneAssumption
  <1> USE DEF Init, StoreInit, ExecutorInit, CancellerInit, TrackerInit, NoTick, NoRelease,
              NoRequest, NoReconcile, NoCheck, NoIntent, NoTaskRec
  <1>1. NoClaim \in Claims
    BY NewClaimType DEF NoClaim
  <1>2. StoreTypeOK
    BY <1>1 DEF StoreTypeOK, Intents, CancelStates, None, ExecStates, BlobStates
  <1>3. ExecutorTypeOK
    BY <1>1 DEF ExecutorTypeOK, PCs, TaskRefs
  <1>4. CancellerTypeOK
    BY <1>1 DEF CancellerTypeOK, ReqAt, RecAt, Intents, CancelStates, None
  <1>5. TrackerTypeOK
    BY <1>1 DEF TrackerTypeOK, TrkAt, Resolved, None
  <1>6. TypeOK
    BY <1>1, <1>2, <1>3, <1>4, <1>5 DEF TypeOK, TickAt, RelAt
  <1>7. ClaimOK /\ ActingOK /\ SettledOK
    BY DEF ClaimOK, ActingOK, SettledOK
  <1> QED BY <1>6, <1>7 DEF TypeInv

-----------------------------------------------------------------------------
(* Every step keeps the types: one lemma for each part of Next.            *)

LEMMA ContainerTypes ==
  ASSUME TypeInv, ContainerStep, UNCHANGED <<execVars, cancelVars, trackVars, planeVars>>
  PROVE  TypeInv'
  <1> USE StoreAssumption
  <1> USE DEF TypeInv, TypeOK, StoreTypeOK, Ends, Uploads, Fault, execVars, cancelVars,
              trackVars, planeVars
  <1>1. PICK r \in Runs, t \in Tasks :
          \/ ContainerBeats(r, t) \/ ContainerFinishes(r, t) \/ ContainerExits(r, t)
          \/ ContainerLosesFlush(r, t) \/ StopLands(r, t) \/ ExecutionVanishes(r, t)
    BY DEF ContainerStep
  <1>2. /\ UNCHANGED <<claim, intent, runRec, taskRec, late>>
        /\ exec' \in [Runs -> [Tasks -> ExecStates]]
        /\ blob' \in [Runs -> [Tasks -> BlobStates]]
        /\ faults' \in 0..MaxFaults
    <2>1. CASE ContainerBeats(r, t)
      BY <2>1 DEF ContainerBeats, BlobStates
    <2>2. CASE ContainerFinishes(r, t)
      BY <2>2 DEF ContainerFinishes, BlobStates
    <2>3. CASE ContainerExits(r, t)
      <3>1. PICK how \in {"Succeeded", "Failed"} : Ends(r, t, how)
        BY <2>3 DEF ContainerExits
      <3>2. UNCHANGED <<claim, intent, runRec, taskRec, blob, late, faults>>
        BY <2>3 DEF ContainerExits
      <3> QED BY <3>1, <3>2 DEF ExecStates
    <2>4. CASE ContainerLosesFlush(r, t)
      BY <2>4 DEF ContainerLosesFlush, ExecStates
    <2>5. CASE StopLands(r, t)
      BY <2>5 DEF StopLands, ExecStates
    <2>6. CASE ExecutionVanishes(r, t)
      BY <2>6 DEF ExecutionVanishes, ExecStates
    <2> QED BY <1>1, <2>1, <2>2, <2>3, <2>4, <2>5, <2>6
  <1>3. ClaimOK' /\ ActingOK' /\ SettledOK'
    BY <1>2 DEF ClaimOK, ActingOK, SettledOK, TrkRun
  <1> QED BY <1>2, <1>3 DEF ExecutorTypeOK, CancellerTypeOK, TrackerTypeOK

(* A write of a run's own claim into its slot keeps the claims in place.   *)
LEMMA PutClaimType ==
  ASSUME TypeInv, NEW r \in Runs, NEW c \in Claims, c.run = r, PutClaim(r, c)
  PROVE  claim' \in [Slots -> Claims] /\ ClaimOK'
  BY StoreAssumption DEF TypeInv, TypeOK, StoreTypeOK, ClaimOK, PutClaim

(* A step of a run's dispatch leads to a known point of it.                *)
LEMMA GotoType ==
  ASSUME TypeInv, NEW r \in Runs, NEW label \in PCs, Goto(r, label)
  PROVE  pc' \in [Runs -> PCs]
  BY DEF TypeInv, TypeOK, ExecutorTypeOK, Goto

(* The steps of a dispatch.                                                *)
LEMMA ExecutorTypes ==
  ASSUME TypeInv, ExecutorStep, UNCHANGED <<cancelVars, trackVars, planeVars>>
  PROVE  TypeInv'
  <1> USE StoreAssumption, ExecutorAssumption
  <1> DEFINE ClaimsKept == claim' \in [Slots -> Claims] /\ ClaimOK'
             StoreKept  == /\ UNCHANGED <<intent, runRec, taskRec, blob, late>>
                           /\ exec' \in [Runs -> [Tasks -> ExecStates]]
                           /\ faults' \in 0..MaxFaults
  <1>1. \A r \in Runs : /\ NewClaim(r) \in Claims /\ NewClaim(r).run = r
                         /\ [run |-> r, task |-> ref[r]] \in Claims
                         /\ claim[SlotOf[r]] \in Claims
    BY NewClaimType DEF NewClaim, Claims, TypeInv, TypeOK, StoreTypeOK, ExecutorTypeOK
  <1>2. UNCHANGED claim => ClaimsKept
    BY DEF TypeInv, TypeOK, StoreTypeOK, ClaimOK
  <1>3. UNCHANGED <<intent, runRec, taskRec, exec, blob, late>> /\ (UNCHANGED faults \/ Fault)
        => StoreKept
    BY DEF TypeInv, TypeOK, StoreTypeOK, Fault
  <1>4. {"idle", "claiming", "force_new", "force_over", "claimed", "threw", "rejected_exists",
         "rejected_concurrent", "starting", "dispatched", "untracked", "dead"} \subseteq PCs
    BY DEF PCs, Claiming, Joining, Ended, Rejections
  <1>5. ClaimsKept /\ StoreKept /\ ExecutorTypeOK'
    <2>1. ASSUME NEW b \in Batches, Request(b) \/ Join(b) \/ HostDies(b)
          PROVE  <1>5!:
      <3>1. ClaimsKept /\ StoreKept
        BY <2>1, <1>2, <1>3 DEF Request, Join, HostDies, storeVars
      <3>2. pc \in [Runs -> PCs] /\ forced \in [Runs -> BOOLEAN]
        BY DEF TypeInv, TypeOK, ExecutorTypeOK
      <3>3. CASE Request(b)
        <4>1. UNCHANGED <<seen, ref>> /\ pc' \in [Runs -> PCs]
          BY <3>2, <3>3, <1>4 DEF Request
        <4>2. PICK f \in BOOLEAN : forced' = [r \in Runs |-> IF r \in b THEN f ELSE forced[r]]
          BY <3>3 DEF Request
        <4>3. forced' \in [Runs -> BOOLEAN]
          BY <3>2, <4>2
        <4> QED BY <3>1, <4>1, <4>3 DEF TypeInv, TypeOK, ExecutorTypeOK
      <3>4. CASE Join(b)
        <4>1. PICK x \in {"dead", "starting"} :
                pc' = [r \in Runs |-> IF r \in b /\ pc[r] = "claimed" THEN x ELSE pc[r]]
          BY <3>4 DEF Join
        <4>2. pc' \in [Runs -> PCs]
          BY <3>2, <4>1, <1>4
        <4> QED BY <3>1, <3>4, <4>2 DEF Join, TypeInv, TypeOK, ExecutorTypeOK
      <3>5. CASE HostDies(b)
        <4>1. pc' \in [Runs -> PCs]
          BY <3>2, <3>5, <1>4 DEF HostDies
        <4> QED BY <3>1, <3>5, <4>1 DEF HostDies, TypeInv, TypeOK, ExecutorTypeOK
      <3> QED BY <2>1, <3>3, <3>4, <3>5
    <2>2. ASSUME NEW r \in Runs, Create(r) \/ ForceCreate(r) \/ ForceOverwrite(r)
          PROVE  <1>5!:
      <3>1. CASE PutClaim(r, NewClaim(r)) /\ Goto(r, "claimed")
        <4>1. ClaimsKept
          BY <3>1, <1>1, PutClaimType
        <4>2. pc' \in [Runs -> PCs]
          BY <3>1, <1>4, GotoType
        <4> QED BY <2>2, <4>1, <4>2, <1>3 DEF Create, ForceCreate, ForceOverwrite, TypeInv, TypeOK,
                   ExecutorTypeOK
      <3>2. CASE UNCHANGED claim /\ \E x \in Rejections : Goto(r, x)
        <4>1. ClaimsKept /\ pc' \in [Runs -> PCs]
          BY <3>2, <1>2, <1>4, GotoType DEF Rejections
        <4> QED BY <2>2, <4>1, <1>3 DEF Create, ForceCreate, ForceOverwrite,
                 TypeInv, TypeOK, ExecutorTypeOK
      <3> QED BY <2>2, <3>1, <3>2 DEF Create, ForceCreate, ForceOverwrite, PutIfAbsent, Rejections
    <2>3. ASSUME NEW r \in Runs, ForceHead(r) PROVE <1>5!:
      <3>1. pc' \in [Runs -> PCs]
        BY <2>3, <1>4, GotoType DEF ForceHead
      <3>2. ClaimsKept /\ StoreKept
        BY <2>3, <1>2, <1>3 DEF ForceHead, storeVars
      <3> QED BY <2>3, <1>1, <3>1, <3>2 DEF ForceHead, TypeInv, TypeOK, ExecutorTypeOK
    <2>4. ASSUME NEW r \in Runs, ClaimThrows(r) \/ SecondWriteThrows(r) PROVE <1>5!:
      <3>1. pc' \in [Runs -> PCs]
        BY <2>4, <1>4, GotoType DEF ClaimThrows, SecondWriteThrows
      <3>2. ClaimsKept /\ StoreKept
        BY <2>4, <1>2, <1>3 DEF ClaimThrows, SecondWriteThrows
      <3> QED BY <2>4, <3>1, <3>2 DEF ClaimThrows, SecondWriteThrows,
               TypeInv, TypeOK, ExecutorTypeOK
    <2>5. ASSUME NEW r \in Runs, ClaimResponseLost(r) PROVE <1>5!:
      <3>1. ClaimsKept
        BY <2>5, <1>1, PutClaimType DEF ClaimResponseLost
      <3>2. pc' \in [Runs -> PCs]
        BY <2>5, <1>4, GotoType DEF ClaimResponseLost
      <3> QED BY <2>5, <3>1, <3>2, <1>3 DEF ClaimResponseLost, TypeInv, TypeOK, ExecutorTypeOK
    <2>6. ASSUME NEW r \in Runs, NEW t \in Tasks, Start(r, t) \/ StartFails(r, t)
          PROVE  <1>5!:
      <3>1. UNCHANGED <<pc, forced, seen, claim, intent, runRec, taskRec, blob, late>>
        BY <2>6 DEF Start, StartFails
      <3>2. StoreKept
        <4>1. exec' \in [Runs -> [Tasks -> ExecStates]]
          <5>1. UNCHANGED exec \/ Ends(r, t, "Running")
            BY <2>6 DEF Start, StartFails
          <5>2. exec \in [Runs -> [Tasks -> ExecStates]] /\ "Running" \in ExecStates
            BY DEF ExecStates, TypeInv, TypeOK, StoreTypeOK
          <5> QED BY <5>1, <5>2 DEF Ends
        <4>2. UNCHANGED faults \/ Fault
          BY <2>6 DEF Start, StartFails
        <4> QED BY <3>1, <4>1, <4>2 DEF Fault, TypeInv, TypeOK, StoreTypeOK
      <3>3. ref' \in [Runs -> [Tasks -> TaskRefs]]
        <4>1. PICK x \in {"named", "error"} : SetRef(r, t, x)
          BY <2>6 DEF Start, StartFails
        <4> QED BY <4>1 DEF SetRef, TaskRefs, TypeInv, TypeOK, ExecutorTypeOK
      <3> QED BY <3>1, <3>2, <3>3, <1>2 DEF TypeInv, TypeOK, ExecutorTypeOK
    <2>7. ASSUME NEW r \in Runs, SecondWrite(r) \/ SecondWriteResponseLost(r) PROVE <1>5!:
      <3>1. UNCHANGED <<forced, seen, ref>> /\ StoreKept
        BY <2>7, <1>3 DEF SecondWrite, SecondWriteResponseLost
      <3>2. pc' \in [Runs -> PCs]
        <4>1. PICK x \in {"dispatched", "untracked"} : Goto(r, x)
          BY <2>7 DEF SecondWrite, SecondWriteResponseLost
        <4> QED BY <4>1, <1>4, GotoType
      <3>3. ClaimsKept
        <4>1. UNCHANGED claim \/ PutClaim(r, [run |-> r, task |-> ref[r]])
          BY <2>7 DEF SecondWrite, SecondWriteResponseLost
        <4> QED BY <4>1, <1>1, <1>2, PutClaimType
      <3> QED BY <3>1, <3>2, <3>3 DEF TypeInv, TypeOK, ExecutorTypeOK
    <2> QED BY <2>1, <2>2, <2>3, <2>4, <2>5, <2>6, <2>7 DEF ExecutorStep, DispatchRun
  <1>6. UNCHANGED <<req, rec, trk, tick, release>>
    BY DEF cancelVars, trackVars, planeVars
  <1>7. ActingOK' /\ SettledOK'
    BY <1>6 DEF ActingOK, SettledOK, TrkRun, TypeInv
  <1> QED
    BY <1>5, <1>6, <1>7 DEF TypeInv, TypeOK, StoreTypeOK, CancellerTypeOK, TrackerTypeOK

-----------------------------------------------------------------------------
(* What the writes to an intent and the stop requests keep.                *)

LEMMA IntentTypes ==
  /\ \A g \in Nat : NoIntent(g) \in Intents
  /\ \A g \in Nat, x \in CancelTriggers \cup {None} : Requested(g, x) \in Intents
  /\ \A i \in Intents : Bumped(i) \in Intents /\ Submitted(i) \in Intents
  /\ \A i \in Intents : [Bumped(i) EXCEPT !.state = "cancel_stalled"] \in Intents
  <1> USE DEF Intents, CancelStates
  <1>1. \A g \in Nat : NoIntent(g) \in Intents
    BY DEF NoIntent
  <1>2. \A g \in Nat, x \in CancelTriggers \cup {None} : Requested(g, x) \in Intents
    BY DEF Requested
  <1>3. ASSUME NEW i \in Intents
        PROVE  /\ Bumped(i) \in Intents /\ Submitted(i) \in Intents
               /\ [Bumped(i) EXCEPT !.state = "cancel_stalled"] \in Intents
    <2>1. i.count + 1 \in Nat
      BY <1>3
    <2> QED BY <1>3, <2>1 DEF Bumped, Submitted
  <1> QED BY <1>1, <1>2, <1>3

(* A conditional write of an intent keeps the type of the intents.         *)
LEMMA UpdateType ==
  ASSUME TypeInv, NEW r, NEW old, NEW new \in Intents, TryUpdateIntent(r, old, new)
  PROVE  intent' \in [Runs -> Intents]
  BY DEF TryUpdateIntent, TypeInv, TypeOK, StoreTypeOK

(* So does the deletion of an intent.                                      *)
LEMMA DeleteType ==
  ASSUME TypeInv, NEW r \in Runs, DeleteIntent(r)
  PROVE  intent' \in [Runs -> Intents]
  <1>1. intent \in [Runs -> Intents] /\ intent[r].gen \in Nat
    BY DEF TypeInv, TypeOK, StoreTypeOK, Intents
  <1> QED BY <1>1, IntentTypes DEF DeleteIntent

(* A stop request leaves every execution in a known state.                 *)
LEMMA StopsType ==
  ASSUME TypeInv, NEW c, NEW S, SubmitStops(c, S)
  PROVE  exec' \in [Runs -> [Tasks -> ExecStates]]
  <1>1. exec \in [Runs -> [Tasks -> ExecStates]] /\ "Stopping" \in ExecStates
    BY DEF TypeInv, TypeOK, StoreTypeOK, ExecStates
  <1> QED BY <1>1 DEF SubmitStops

(* The budget of faults never goes below zero.                             *)
LEMMA FaultType ==
  ASSUME TypeInv, UNCHANGED faults \/ Fault
  PROVE  faults' \in 0..MaxFaults
  BY StoreAssumption DEF TypeInv, TypeOK, StoreTypeOK, Fault

(* A request that ends leaves the other requests as they were.             *)
LEMMA FinishType ==
  ASSUME TypeInv, NEW p \in Callers, Finish(p)
  PROVE  /\ req' \in [Callers -> [at : ReqAt, run : Runs \cup {NoRun},
                                  trigger : CancelTriggers \cup {None},
                                  claim : Claims, intent : Intents]]
         /\ \A q \in Callers : req'[q].at # "idle" => req'[q].run \in Runs
  <1>1. NoRequest \in [at : ReqAt, run : Runs \cup {NoRun},
                       trigger : CancelTriggers \cup {None},
                       claim : Claims, intent : Intents]
    BY IntentTypes, NewClaimType DEF NoRequest, ReqAt, NoClaim
  <1>2. NoRequest.at = "idle"
    BY DEF NoRequest
  <1> QED BY <1>1, <1>2 DEF Finish, TypeInv, TypeOK, CancellerTypeOK, ActingOK

(* The reconciler at rest is well typed.                                   *)
LEMMA NoReconcileType ==
  NoReconcile \in [at : RecAt, run : Runs \cup {NoRun}, intent : Intents, claim : Claims]
  BY IntentTypes, NewClaimType DEF NoReconcile, RecAt, NoClaim

(* The steps of a cancel request.                                          *)
LEMMA RequestTypes ==
  ASSUME TypeInv, NEW p \in Callers, RequestStep(p),
         UNCHANGED <<execVars, trackVars, planeVars>>
  PROVE  TypeInv'
  <1> DEFINE Req == [at : ReqAt, run : Runs \cup {NoRun}, trigger : CancelTriggers \cup {None},
                     claim : Claims, intent : Intents]
             ReqKept == /\ req' \in [Callers -> Req]
                        /\ \A q \in Callers : req'[q].at # "idle" => req'[q].run \in Runs
             StoreKept == /\ UNCHANGED <<claim, runRec, taskRec, blob, late>>
                          /\ intent' \in [Runs -> Intents]
                          /\ exec' \in [Runs -> [Tasks -> ExecStates]]
                          /\ faults' \in 0..MaxFaults
  <1>1. /\ req \in [Callers -> Req]
        /\ \A q \in Callers : req[q].at # "idle" => req[q].run \in Runs
        /\ intent \in [Runs -> Intents]
        /\ exec \in [Runs -> [Tasks -> ExecStates]]
        /\ \A r \in Runs : claim[SlotOf[r]] \in Claims
    BY FoundClaims DEF TypeInv, TypeOK, CancellerTypeOK, ActingOK, StoreTypeOK
  <1>2. ASSUME NEW label \in ReqAt, req[p].at # "idle", ReqGoto(p, label)
        PROVE  ReqKept
    <2>1. req' = [req EXCEPT ![p].at = label] /\ req[p] \in Req
      BY <1>1, <1>2 DEF ReqGoto
    <2>2. [req[p] EXCEPT !.at = label] \in Req /\ req[p].run \in Runs
      BY <1>1, <1>2, <2>1
    <2>3. req' \in [Callers -> Req]
      BY <1>1, <2>1, <2>2
    <2>4. ASSUME NEW q \in Callers, req'[q].at # "idle" PROVE req'[q].run \in Runs
      <3>1. CASE q = p
        BY <1>1, <2>1, <2>2, <3>1
      <3>2. CASE q # p
        <4>1. req'[q] = req[q]
          BY <1>1, <2>1, <3>2
        <4> QED BY <1>1, <2>4, <4>1
      <3> QED BY <3>1, <3>2
    <2> QED BY <2>3, <2>4
  <1>3. Finish(p) => ReqKept
    BY FinishType
  <1>4. UNCHANGED faults \/ Fault => faults' \in 0..MaxFaults
    BY FaultType
  <1>5. {"idle", "find", "create", "read_existing", "stop", "bump", "advance"} \subseteq ReqAt
    BY DEF ReqAt
  <1>6. ReqKept /\ StoreKept /\ UNCHANGED rec
    <2>1. CASE ReqFind(p)
      <3>1. UNCHANGED <<rec, claim, intent, runRec, taskRec, exec, blob, late>>
        BY <2>1 DEF ReqFind
      <3>2. UNCHANGED faults \/ Fault
        BY <2>1 DEF ReqFind
      <3>3. ReqKept
        <4>1. req[p].run \in Runs
          BY <2>1, <1>1 DEF ReqFind
        <4>2. CASE req' = [req EXCEPT ![p].at = "create", ![p].claim = claim[SlotOf[req[p].run]]]
          <5> DEFINE found == [req[p] EXCEPT !.at = "create", !.claim = claim[SlotOf[req[p].run]]]
          <5>1. found \in Req /\ found.run \in Runs
            BY <4>1, <1>1, <1>5
          <5>2. req' = [req EXCEPT ![p] = found]
            BY <4>2, <1>1
          <5> HIDE DEF found
          <5>3. req' \in [Callers -> Req]
            BY <5>1, <5>2, <1>1
          <5>4. \A q \in Callers : req'[q] = IF q = p THEN found ELSE req[q]
            BY <5>2, <1>1
          <5> QED BY <5>1, <5>3, <5>4, <1>1
        <4> QED BY <2>1, <4>2, <1>3 DEF ReqFind
      <3> QED BY <3>1, <3>2, <3>3, <1>1, <1>4
    <2>2. CASE ReqCreate(p)
      <3>1. UNCHANGED <<rec, claim, runRec, taskRec, exec, blob, late, faults>>
        BY <2>2 DEF ReqCreate
      <3>2. req[p].run \in Runs /\ intent[req[p].run].gen + 1 \in Nat
        BY <2>2, <1>1 DEF ReqCreate, Intents
      <3>3. Requested(intent[req[p].run].gen + 1, req[p].trigger) \in Intents
        BY <3>2, <1>1, IntentTypes
      <3> DEFINE new == Requested(intent[req[p].run].gen + 1, req[p].trigger)
      <3>4. CASE /\ intent' = [intent EXCEPT ![req[p].run] = new]
                 /\ req' = [req EXCEPT ![p].at = "stop", ![p].intent = new]
        <4> HIDE DEF new
        <4>1. intent' \in [Runs -> Intents]
          BY <3>4, <3>3, <1>1 DEF new
        <4>2. ReqKept
          <5>1. new \in Intents
            BY <3>3 DEF new
          <5> QED BY <3>2, <3>4, <5>1, <1>1, <1>5
        <4> QED BY <3>1, <4>1, <4>2, <1>1, <1>4
      <3>5. CASE UNCHANGED intent /\ (ReqGoto(p, "read_existing") \/ Finish(p))
        <4>1. ReqKept
          BY <2>2, <3>5, <1>2, <1>3, <1>5 DEF ReqCreate
        <4> QED BY <3>1, <3>5, <4>1, <1>1, <1>4
      <3> QED BY <2>2, <3>4, <3>5 DEF ReqCreate
    <2>3. CASE ReqReadExisting(p)
      <3>1. req[p].run \in Runs /\ intent[req[p].run] \in Intents
        BY <2>3, <1>1 DEF ReqReadExisting
      <3>2. ASSUME req' = [req EXCEPT ![p].at = "stop", ![p].intent = intent[req[p].run]]
            PROVE  ReqKept
        BY <3>1, <3>2, <1>1, <1>5
      <3>3. ReqKept
        BY <2>3, <3>2, <1>3 DEF ReqReadExisting
      <3> QED BY <2>3, <3>3, <1>1, <1>4 DEF ReqReadExisting, storeVars
    <2>4. CASE ReqStop(p)
      <3>1. ReqKept
        BY <2>4, <1>2, <1>5 DEF ReqStop
      <3>2. exec' \in [Runs -> [Tasks -> ExecStates]]
        BY <2>4, StopsType DEF ReqStop
      <3>3. UNCHANGED faults \/ Fault
        BY <2>4 DEF ReqStop
      <3> QED BY <2>4, <3>1, <3>2, <3>3, <1>1, <1>4 DEF ReqStop
    <2>5. CASE ReqUpdate(p)
      <3>1. req[p].intent \in Intents
        BY <1>1
      <3>2. intent' \in [Runs -> Intents]
        BY <2>5, <3>1, IntentTypes, UpdateType DEF ReqUpdate
      <3> QED BY <2>5, <3>2, <1>1, <1>3, <1>4 DEF ReqUpdate
    <2>6. CASE ReqDies(p)
      BY <2>6, <1>1, <1>3, <1>4 DEF ReqDies
    <2> QED BY <2>1, <2>2, <2>3, <2>4, <2>5, <2>6 DEF RequestStep
  <1>7. UNCHANGED <<pc, forced, seen, ref, trk, tick, release>>
    BY DEF execVars, trackVars, planeVars
  <1>8. ClaimOK' /\ ActingOK' /\ SettledOK'
    BY <1>6, <1>7 DEF TypeInv, ClaimOK, ActingOK, SettledOK, TrkRun
  <1> QED
    BY <1>6, <1>7, <1>8 DEF TypeInv, TypeOK, StoreTypeOK, ExecutorTypeOK, CancellerTypeOK,
                            TrackerTypeOK

(* The steps of the reconciler.                                            *)
LEMMA ReconcileTypes ==
  ASSUME TypeInv, ReconcileStep, UNCHANGED <<execVars, trackVars, planeVars>>
  PROVE  TypeInv'
  <1> DEFINE RecKept == /\ rec' \in [at : RecAt, run : Runs \cup {NoRun}, intent : Intents,
                                      claim : Claims]
                        /\ rec'.at # "idle" => rec'.run \in Runs
             StoreKept == /\ UNCHANGED <<claim, runRec, taskRec, blob, late>>
                          /\ intent' \in [Runs -> Intents]
                          /\ exec' \in [Runs -> [Tasks -> ExecStates]]
                          /\ faults' \in 0..MaxFaults
  <1>1. /\ rec \in [at : RecAt, run : Runs \cup {NoRun}, intent : Intents, claim : Claims]
        /\ rec.at # "idle" => rec.run \in Runs
        /\ intent \in [Runs -> Intents]
        /\ exec \in [Runs -> [Tasks -> ExecStates]]
        /\ \A r \in Runs : claim[SlotOf[r]] \in Claims
    BY FoundClaims DEF TypeInv, TypeOK, CancellerTypeOK, ActingOK, StoreTypeOK
  <1>2. \A label \in RecAt : rec.at # "idle" /\ RecGoto(label) => RecKept
    BY <1>1 DEF RecGoto
  <1>3. RecFinish => RecKept
    <2>1. NoReconcile.at = "idle"
      BY DEF NoReconcile
    <2> QED BY <2>1, NoReconcileType DEF RecFinish
  <1>4. UNCHANGED faults \/ Fault => faults' \in 0..MaxFaults
    BY FaultType
  <1>5. {"idle", "find", "drop", "act", "bump", "advance"} \subseteq RecAt
    BY DEF RecAt
  <1>6. RecKept /\ StoreKept /\ UNCHANGED req
    <2>1. CASE RecFind
      <3>1. rec.run \in Runs /\ UNCHANGED <<req, claim, intent, runRec, taskRec, exec, blob, late>>
        BY <2>1, <1>1 DEF RecFind
      <3>2. UNCHANGED faults \/ Fault
        BY <2>1 DEF RecFind
      <3>3. RecKept
        <4>1. CASE rec' = [rec EXCEPT !.at = "act", !.claim = claim[SlotOf[rec.run]]]
          BY <3>1, <4>1, <1>1, <1>5
        <4> QED BY <2>1, <4>1, <1>2, <1>5 DEF RecFind
      <3> QED BY <3>1, <3>2, <3>3, <1>1, <1>4
    <2>2. CASE RecDrop
      <3>1. intent' \in [Runs -> Intents]
        BY <2>2, <1>1, DeleteType DEF RecDrop
      <3> QED BY <2>2, <3>1, <1>1, <1>3, <1>4 DEF RecDrop
    <2>3. CASE RecResubmit
      <3>1. RecKept
        BY <2>3, <1>2, <1>5 DEF RecResubmit
      <3>2. exec' \in [Runs -> [Tasks -> ExecStates]]
        BY <2>3, StopsType DEF RecResubmit
      <3>3. UNCHANGED faults \/ Fault
        BY <2>3 DEF RecResubmit
      <3> QED BY <2>3, <3>1, <3>2, <3>3, <1>1, <1>4 DEF RecResubmit
    <2>4. CASE RecUpdate
      <3>1. intent' \in [Runs -> Intents]
        BY <2>4, <1>1, IntentTypes, UpdateType DEF RecUpdate
      <3> QED BY <2>4, <3>1, <1>1, <1>3, <1>4 DEF RecUpdate
    <2>5. CASE RecWait
      <3>1. PICK new \in Intents : TryUpdateIntent(rec.run, rec.intent, new)
        BY <2>5, <1>1, IntentTypes DEF RecWait
      <3>2. intent' \in [Runs -> Intents]
        BY <3>1, UpdateType
      <3> QED BY <2>5, <3>2, <1>1, <1>3, <1>4 DEF RecWait
    <2>6. CASE RecNudge
      <3>1. exec' \in [Runs -> [Tasks -> ExecStates]]
        BY <2>6, StopsType DEF RecNudge
      <3>2. UNCHANGED faults \/ Fault
        BY <2>6 DEF RecNudge
      <3> QED BY <2>6, <3>1, <3>2, <1>1, <1>3, <1>4 DEF RecNudge
    <2>7. CASE RecFails
      BY <2>7, <1>1, <1>3, <1>4 DEF RecFails
    <2> QED BY <2>1, <2>2, <2>3, <2>4, <2>5, <2>6, <2>7 DEF ReconcileStep
  <1>7. UNCHANGED <<pc, forced, seen, ref, trk, tick, release>>
    BY DEF execVars, trackVars, planeVars
  <1>8. ClaimOK' /\ ActingOK' /\ SettledOK'
    BY <1>6, <1>7 DEF TypeInv, ClaimOK, ActingOK, SettledOK, TrkRun
  <1> QED
    BY <1>6, <1>7, <1>8 DEF TypeInv, TypeOK, StoreTypeOK, ExecutorTypeOK, CancellerTypeOK,
                            TrackerTypeOK

-----------------------------------------------------------------------------
(* The tracker at rest is well typed.                                      *)
LEMMA NoCheckType == NoCheck \in [at : TrkAt, claim : Claims, timedOut : BOOLEAN,
                                  trigger : CancelTriggers \cup {None},
                                  poll : Tasks \cup {NoTask},
                                  res : [Tasks -> Resolved], failed : BOOLEAN]
  BY NewClaimType DEF NoCheck, NoClaim, TrkAt, Resolved

(* The steps of the tracker: a task is settled with a known status, and a  *)
(* record is written only from settled tasks.                              *)
LEMMA TrackTypes ==
  ASSUME TypeInv, TrackStep, UNCHANGED <<execVars, cancelVars, planeVars>>
  PROVE  TypeInv'
  <1> DEFINE Trk == [at : TrkAt, claim : Claims, timedOut : BOOLEAN,
                     trigger : CancelTriggers \cup {None}, poll : Tasks \cup {NoTask},
                     res : [Tasks -> Resolved], failed : BOOLEAN]
             TrkKept == /\ trk' \in Trk
                        /\ trk'.at # "idle" => trk'.claim.run \in Runs
                        /\ SettledOK'
             StoreKept == /\ UNCHANGED <<exec, blob, late>>
                          /\ claim' \in [Slots -> Claims]
                          /\ ClaimOK'
                          /\ intent' \in [Runs -> Intents]
                          /\ runRec' \in [Runs -> RunStatuses \cup {None}]
                          /\ taskRec' \in [Runs -> [Tasks -> TaskStatuses \cup {None}]]
                          /\ faults' \in 0..MaxFaults
  <1>1. /\ trk \in Trk
        /\ trk.at # "idle" => trk.claim.run \in Runs
        /\ SettledOK
        /\ claim \in [Slots -> Claims] /\ ClaimOK
        /\ intent \in [Runs -> Intents]
        /\ runRec \in [Runs -> RunStatuses \cup {None}]
        /\ taskRec \in [Runs -> [Tasks -> TaskStatuses \cup {None}]]
    BY DEF TypeInv, TypeOK, TrackerTypeOK, ActingOK, TrkRun, StoreTypeOK
  <1>2. UNCHANGED faults \/ Fault => faults' \in 0..MaxFaults
    BY FaultType
  <1>3. TrkFinish => TrkKept
    <2>1. NoCheck.at = "idle"
      BY DEF NoCheck
    <2> QED BY <2>1, NoCheckType DEF TrkFinish, SettledOK
  <1>4. {"idle", "read_intent", "resolve", "write_run", "write_tasks",
         "delete_claim", "delete_intent"} \subseteq TrkAt
    BY DEF TrkAt
  <1>5. ASSUME NEW t \in Tasks, NEW x \in Resolved, trk.at = "resolve", Settle(t, x)
        PROVE  TrkKept
    BY <1>1, <1>5 DEF Settle, SettledOK
  <1>6. UNCHANGED claim => claim' \in [Slots -> Claims] /\ ClaimOK'
    BY <1>1 DEF ClaimOK
  <1>7. /\ TaskStatuses \subseteq Resolved /\ "unresolved" \in Resolved
        /\ {"cancelled", "timed_out", "dispatch_failed", "failed"} \subseteq TaskStatuses
    BY DEF Resolved, TaskStatuses
  <1>8. TrkKept /\ StoreKept
    <2>1. CASE TrkReadIntent
      <3>1. trk.claim.run \in Runs /\ intent[trk.claim.run].trigger \in CancelTriggers \cup {None}
        BY <2>1, <1>1 DEF TrkReadIntent, Intents
      <3>2. TrkKept
        BY <2>1, <3>1, <1>1, <1>4 DEF TrkReadIntent, TrkRun, SettledOK
      <3> QED BY <2>1, <3>2, <1>1, <1>2, <1>6 DEF TrkReadIntent, storeVars
    <2>2. ASSUME NEW t \in Tasks, ResolveDispatchFailed(t) \/ ResolveFromBlob(t)
          PROVE  <1>8!:
      <3>1. trk.at = "resolve" /\ UNCHANGED storeVars
        BY <2>2 DEF ResolveDispatchFailed, ResolveFromBlob, Pending
      <3>2. \/ \E x \in Resolved : Settle(t, x)
            \/ trk' = [trk EXCEPT !.poll = t]
        BY <2>2, <1>7, EntityStatusType DEF ResolveDispatchFailed, ResolveFromBlob
      <3>3. trk' = [trk EXCEPT !.poll = t] => TrkKept
        BY <3>1, <1>1 DEF SettledOK
      <3>4. TrkKept
        BY <3>1, <3>2, <3>3, <1>5
      <3> QED BY <3>1, <3>4, <1>1, <1>2, <1>6 DEF storeVars
    <2>3. ASSUME NEW t \in Tasks, ResolveFromAca(t) PROVE <1>8!:
      <3>1. trk.at = "resolve" /\ UNCHANGED storeVars
        BY <2>3 DEF ResolveFromAca
      <3>2. StoppedStatus \in Resolved
        BY <1>7, AcaStatusType DEF StoppedStatus, Resolved
      <3>3. PICK x : Settle(t, x) /\ (x \in TaskStatuses \/ x = StoppedStatus \/ x = "unresolved")
        BY <2>3, <1>7, AcaStatusType DEF ResolveFromAca
      <3>4. TrkKept
        BY <3>1, <3>2, <3>3, <1>5, <1>7
      <3> QED BY <3>1, <3>4, <1>1, <1>2, <1>6 DEF storeVars
    <2>4. ASSUME NEW t \in Tasks, AcaUnreachable(t) PROVE <1>8!:
      <3>1. TrkKept
        BY <2>4, <1>5, <1>7 DEF AcaUnreachable
      <3> QED BY <2>4, <3>1, <1>1, <1>2, <1>6 DEF AcaUnreachable
    <2>5. CASE Defer
      BY <2>5, <1>1, <1>2, <1>3, <1>6 DEF Defer, storeVars
    <2>6. CASE TrkWriteRun
      <3>1. \A t \in Tasks : trk.res[t] \in TaskStatuses
        BY <2>6, <1>1 DEF TrkWriteRun, AllLookedAt, AnyUnresolved, Resolved
      <3>2. trk.at = "resolve" /\ trk.claim.run \in Runs
        BY <2>6, <1>1 DEF TrkWriteRun, AllLookedAt
      <3>3. TrkKept
        BY <2>6, <3>1, <3>2, <1>1, <1>4 DEF TrkWriteRun, SettledOK
      <3>4. runRec' \in [Runs -> RunStatuses \cup {None}]
        BY <2>6, <1>1, RunStatusType DEF TrkWriteRun, WriteRun, FinalStatus
      <3>5. UNCHANGED faults \/ Fault
        BY <2>6 DEF TrkWriteRun
      <3> QED BY <2>6, <3>3, <3>4, <3>5, <1>1, <1>2, <1>6 DEF TrkWriteRun
    <2>7. CASE TrkWriteTasks
      <3>1. trk.res \in [Tasks -> TaskStatuses]
        BY <2>7, <1>1 DEF TrkWriteTasks, SettledOK
      <3>2. taskRec' \in [Runs -> [Tasks -> TaskStatuses \cup {None}]]
        <4>1. \A x : x \in [Tasks -> TaskStatuses] => x \in [Tasks -> TaskStatuses \cup {None}]
          OBVIOUS
        <4> QED BY <2>7, <3>1, <4>1, <1>1 DEF TrkWriteTasks, WriteTasks
      <3>3. TrkKept
        <4>1. ASSUME trk' = [trk EXCEPT !.at = "delete_claim"] PROVE TrkKept
          <5>1. trk.at = "write_tasks"
            BY <2>7 DEF TrkWriteTasks
          <5> QED BY <3>1, <4>1, <5>1, <1>1, <1>4 DEF SettledOK
        <4> QED BY <2>7, <4>1, <1>3 DEF TrkWriteTasks
      <3>4. UNCHANGED faults \/ Fault
        BY <2>7 DEF TrkWriteTasks
      <3> QED BY <2>7, <3>2, <3>3, <3>4, <1>1, <1>2, <1>6 DEF TrkWriteTasks
    <2>8. CASE TrkDeleteClaim
      <3>1. claim' \in [Slots -> Claims] /\ ClaimOK'
        <4>1. NoClaim \in Claims
          BY NewClaimType DEF NoClaim
        <4> QED BY <2>8, <4>1, <1>1 DEF TrkDeleteClaim, ClaimOK
      <3>2. TrkKept
        <4>1. ASSUME trk' = [trk EXCEPT !.at = "delete_intent"] PROVE TrkKept
          <5>1. trk.at = "delete_claim"
            BY <2>8 DEF TrkDeleteClaim
          <5> QED BY <4>1, <5>1, <1>1, <1>4 DEF SettledOK
        <4> QED BY <2>8, <4>1, <1>3 DEF TrkDeleteClaim
      <3>3. UNCHANGED faults \/ Fault
        BY <2>8 DEF TrkDeleteClaim
      <3> QED BY <2>8, <3>1, <3>2, <3>3, <1>1, <1>2 DEF TrkDeleteClaim
    <2>9. CASE TrkDeleteIntent
      <3>1. TrkRun \in Runs
        BY <2>9, <1>1 DEF TrkDeleteIntent, TrkRun
      <3>2. intent' \in [Runs -> Intents]
        BY <2>9, <3>1, <1>1, DeleteType DEF TrkDeleteIntent
      <3>3. UNCHANGED faults \/ Fault
        BY <2>9 DEF TrkDeleteIntent
      <3> QED BY <2>9, <3>2, <3>3, <1>1, <1>2, <1>3, <1>6 DEF TrkDeleteIntent
    <2>10. CASE CheckThrows
      BY <2>10, <1>1, <1>2, <1>3, <1>6 DEF CheckThrows
    <2> QED BY <2>1, <2>2, <2>3, <2>4, <2>5, <2>6, <2>7, <2>8, <2>9, <2>10 DEF TrackStep
  <1>9. UNCHANGED <<pc, forced, seen, ref, req, rec, tick, release>>
    BY DEF execVars, cancelVars, planeVars
  <1>10. ActingOK'
    BY <1>8, <1>9 DEF TypeInv, ActingOK, TrkRun
  <1> QED
    BY <1>8, <1>9, <1>10 DEF TypeInv, TypeOK, StoreTypeOK, ExecutorTypeOK, CancellerTypeOK,
                             TrackerTypeOK

-----------------------------------------------------------------------------
(* A request that the timer or an operator starts is about a run.          *)
LEMMA RequestingType ==
  ASSUME TypeInv, NEW p \in Callers, NEW r \in Runs, NEW x \in CancelTriggers,
         Requesting(p, r, x)
  PROVE  /\ req' \in [Callers -> [at : ReqAt, run : Runs \cup {NoRun},
                                  trigger : CancelTriggers \cup {None},
                                  claim : Claims, intent : Intents]]
         /\ \A q \in Callers : req'[q].at # "idle" => req'[q].run \in Runs
  <1> DEFINE new == [NoRequest EXCEPT !.at = "find", !.run = r, !.trigger = x]
  <1>1. new \in [at : ReqAt, run : Runs \cup {NoRun}, trigger : CancelTriggers \cup {None},
                 claim : Claims, intent : Intents]
    BY IntentTypes, NewClaimType DEF NoRequest, ReqAt, NoClaim
  <1>2. new.run \in Runs
    BY DEF NoRequest
  <1>3. req' = [req EXCEPT ![p] = new]
    BY DEF Requesting
  <1> HIDE DEF new
  <1> QED BY <1>1, <1>2, <1>3 DEF TypeInv, TypeOK, CancellerTypeOK, ActingOK

(* The steps of the timer: what it lists and hands on are claims and       *)
(* intents of runs.                                                        *)
LEMMA TimerTypes ==
  ASSUME TypeInv, TimerStep
  PROVE  TypeInv'
  <1> DEFINE Tick == [at : TickAt, claims : SUBSET Claims,
                      intents : SUBSET [run : Runs, intent : Intents]]
             TickKept == tick' \in Tick /\ \A c \in tick'.claims : c.run \in Runs
             ReqKept == /\ req' \in [Callers -> [at : ReqAt, run : Runs \cup {NoRun},
                                       trigger : CancelTriggers \cup {None},
                                       claim : Claims, intent : Intents]]
                        /\ \A q \in Callers : req'[q].at # "idle" => req'[q].run \in Runs
             RecKept == /\ rec' \in [at : RecAt, run : Runs \cup {NoRun}, intent : Intents,
                                      claim : Claims]
                        /\ rec'.at # "idle" => rec'.run \in Runs
             TrkKept == TrackerTypeOK' /\ (trk'.at # "idle" => trk'.claim.run \in Runs)
                        /\ SettledOK'
             Kept == TickKept /\ ReqKept /\ RecKept /\ TrkKept
             Rest == /\ UNCHANGED <<claim, intent, runRec, taskRec, exec, blob, late, release>>
                     /\ UNCHANGED execVars
                     /\ faults' \in 0..MaxFaults
  <1>1. /\ tick \in Tick
        /\ \A c \in tick.claims : c.run \in Runs /\ c \in Claims
        /\ intent \in [Runs -> Intents]
        /\ late \in [Runs -> BOOLEAN]
        /\ ActiveClaims \subseteq Claims
        /\ \A c \in ActiveClaims : c.run \in Runs
    BY FoundClaims DEF TypeInv, TypeOK, StoreTypeOK, ActingOK
  <1>2. /\ UNCHANGED req => ReqKept
        /\ UNCHANGED rec => RecKept
        /\ UNCHANGED trk => TrkKept
    BY DEF TypeInv, TypeOK, CancellerTypeOK, TrackerTypeOK, ActingOK, SettledOK, TrkRun
  <1>3. UNCHANGED faults \/ Fault => faults' \in 0..MaxFaults
    BY FaultType
  <1>4. \A a \in TickAt, C \in SUBSET ActiveClaims :
          tick' = [NoTick EXCEPT !.at = a, !.claims = C] => TickKept
    BY <1>1 DEF NoTick
  <1>5. \A a \in TickAt : tick' = [tick EXCEPT !.at = a] => TickKept
    BY <1>1
  <1>6. \A c : tick' = [tick EXCEPT !.claims = @ \ {c}] => TickKept
    BY <1>1
  <1>7. {"idle", "pass_a", "pass_b", "list", "check"} \subseteq TickAt
    BY DEF TickAt
  <1>8. UNCHANGED cancelVars => UNCHANGED <<req, rec>>
    BY DEF cancelVars
  <1>9. UNCHANGED trackVars => UNCHANGED trk
    BY DEF trackVars
  <1>10. UNCHANGED storeVars =>
           UNCHANGED <<claim, intent, runRec, taskRec, exec, blob, late, faults>>
    BY DEF storeVars
  <1>11. Timer \in Callers
    BY DEF Callers
  <1>12. Kept /\ Rest
    <2>1. CASE TickReconciles
      <3>1. PICK found \in SUBSET ActiveClaims :
              tick' = [NoTick EXCEPT !.at = "pass_a", !.claims = Overdue(found)]
        BY <2>1 DEF TickReconciles
      <3>2. Overdue(found) \subseteq ActiveClaims
        BY DEF Overdue
      <3>3. TickKept
        BY <3>1, <3>2, <1>4, <1>7
      <3>4. UNCHANGED faults \/ Fault
        BY <2>1 DEF TickReconciles, Listing
      <3> QED BY <2>1, <3>3, <3>4, <1>2, <1>3, <1>8, <1>9 DEF TickReconciles
    <2>2. CASE TickSkipsReconcile
      <3>1. TickKept
        BY <2>2, <1>1, <1>7 DEF TickSkipsReconcile, NoTick
      <3> QED BY <2>2, <3>1, <1>2, <1>3, <1>8, <1>9, <1>10 DEF TickSkipsReconcile
    <2>3. ASSUME NEW c \in tick.claims, PassA(c) PROVE <1>12!:
      <3>1. TickKept
        BY <2>3, <1>6 DEF PassA
      <3>2. ReqKept
        BY <2>3, <1>1, <1>2, <1>11, RequestingType DEF PassA, CancelTriggers
      <3> QED BY <2>3, <3>1, <3>2, <1>2, <1>3, <1>9, <1>10 DEF PassA
    <2>4. ASSUME NEW c \in tick.claims, Check(c) PROVE <1>12!:
      <3>1. TickKept
        BY <2>4, <1>6 DEF Check
      <3>2. TrkKept
        <4> DEFINE new == [NoCheck EXCEPT !.at = "read_intent", !.claim = c,
                                          !.timedOut = late[c.run]]
        <4>1. c \in Claims /\ c.run \in Runs /\ late[c.run] \in BOOLEAN /\ "read_intent" \in TrkAt
          BY <1>1 DEF TrkAt
        <4>2. new \in [at : TrkAt, claim : Claims, timedOut : BOOLEAN,
                       trigger : CancelTriggers \cup {None}, poll : Tasks \cup {NoTask},
                       res : [Tasks -> Resolved], failed : BOOLEAN]
          BY <4>1, NoCheckType
        <4>3. new.at = "read_intent" /\ new.claim = c
          BY DEF NoCheck
        <4>4. trk' = new
          BY <2>4 DEF Check, Checking
        <4> HIDE DEF new
        <4> QED BY <4>1, <4>2, <4>3, <4>4 DEF TrackerTypeOK, SettledOK
      <3> QED BY <2>4, <3>1, <3>2, <1>2, <1>3, <1>8, <1>10 DEF Check
    <2>5. ASSUME NEW f \in tick.intents, PassB(f) PROVE <1>12!:
      <3>1. f \in [run : Runs, intent : Intents]
        BY <1>1
      <3>2. TickKept
        BY <2>5, <1>1 DEF PassB
      <3>3. RecKept
        BY <2>5, <3>1, NoReconcileType DEF PassB, Reconciling, RecAt
      <3> QED BY <2>5, <3>2, <3>3, <1>2, <1>3, <1>9, <1>10 DEF PassB
    <2>6. CASE PassAEnds
      <3>1. IntentsFound \subseteq [run : Runs, intent : Intents]
        BY <1>1 DEF IntentsFound
      <3>2. TickKept
        BY <2>6, <3>1, <1>1, <1>7 DEF PassAEnds
      <3> QED BY <2>6, <3>2, <1>2, <1>3, <1>8, <1>9, <1>10 DEF PassAEnds
    <2>7. CASE PassBEnds
      <3>1. TickKept
        BY <2>7, <1>5, <1>7 DEF PassBEnds
      <3> QED BY <2>7, <3>1, <1>2, <1>3, <1>8, <1>9, <1>10 DEF PassBEnds
    <2>8. CASE TickLists
      <3>1. TickKept
        BY <2>8, <1>4, <1>7 DEF TickLists
      <3>2. UNCHANGED faults \/ Fault
        BY <2>8 DEF TickLists, Listing
      <3> QED BY <2>8, <3>1, <3>2, <1>2, <1>3, <1>8, <1>9 DEF TickLists
    <2>9. CASE TickEnds
      <3>1. TickKept
        BY <2>9, <1>7 DEF TickEnds, NoTick
      <3> QED BY <2>9, <3>1, <1>2, <1>3, <1>8, <1>9, <1>10 DEF TickEnds
    <2>10. CASE TimerDies
      <3>1. TickKept
        BY <2>10, <1>7 DEF TimerDies, NoTick
      <3>2. ReqKept
        BY <2>10, <1>11, FinishType DEF TimerDies
      <3>3. RecKept
        BY <2>10, NoReconcileType DEF TimerDies, NoReconcile
      <3>4. TrkKept
        <4>1. NoCheck.at = "idle"
          BY DEF NoCheck
        <4> QED BY <2>10, <4>1, NoCheckType DEF TimerDies, TrackerTypeOK, SettledOK
      <3> QED BY <2>10, <3>1, <3>2, <3>3, <3>4, <1>3 DEF TimerDies
    <2> QED BY <2>1, <2>2, <2>3, <2>4, <2>5, <2>6, <2>7, <2>8, <2>9, <2>10 DEF TimerStep
  <1>13. UNCHANGED <<pc, forced, seen, ref>>
    BY <1>12 DEF execVars
  <1>14. ClaimOK' /\ ActingOK'
    BY <1>12 DEF TypeInv, ClaimOK, ActingOK, TrkRun
  <1> QED
    BY <1>12, <1>13, <1>14 DEF TypeInv, TypeOK, StoreTypeOK, ExecutorTypeOK, CancellerTypeOK

(* The steps of the cancel and force-release endpoints.                    *)
LEMMA EndpointTypes ==
  ASSUME TypeInv, EndpointStep
  PROVE  TypeInv'
  <1> DEFINE Rel == [at : RelAt, run : Runs \cup {NoRun}, claim : Claims, failed : BOOLEAN]
             RelKept == /\ release' \in [Operators -> Rel]
                        /\ \A q \in Operators : release'[q].at # "idle" => release'[q].run \in Runs
             ReqKept == /\ req' \in [Callers -> [at : ReqAt, run : Runs \cup {NoRun},
                                       trigger : CancelTriggers \cup {None},
                                       claim : Claims, intent : Intents]]
                        /\ \A q \in Callers : req'[q].at # "idle" => req'[q].run \in Runs
             StoreKept == /\ UNCHANGED <<exec, blob, late>>
                          /\ claim' \in [Slots -> Claims] /\ ClaimOK'
                          /\ intent' \in [Runs -> Intents]
                          /\ runRec' \in [Runs -> RunStatuses \cup {None}]
                          /\ taskRec' \in [Runs -> [Tasks -> TaskStatuses \cup {None}]]
                          /\ faults' \in 0..MaxFaults
             Rest == UNCHANGED execVars /\ UNCHANGED rec /\ UNCHANGED trackVars /\ UNCHANGED tick
             Kept == RelKept /\ ReqKept /\ StoreKept /\ Rest
  <1>1. /\ release \in [Operators -> Rel]
        /\ \A q \in Operators : release[q].at # "idle" => release[q].run \in Runs
        /\ claim \in [Slots -> Claims] /\ ClaimOK
        /\ intent \in [Runs -> Intents]
        /\ runRec \in [Runs -> RunStatuses \cup {None}]
        /\ taskRec \in [Runs -> [Tasks -> TaskStatuses \cup {None}]]
        /\ \A r \in Runs : claim[SlotOf[r]] \in Claims
    BY FoundClaims DEF TypeInv, TypeOK, StoreTypeOK, ActingOK
  <1>2. UNCHANGED faults \/ Fault => faults' \in 0..MaxFaults
    BY FaultType
  <1>3. UNCHANGED claim => claim' \in [Slots -> Claims] /\ ClaimOK'
    BY <1>1 DEF ClaimOK
  <1>4. UNCHANGED req => ReqKept
    BY DEF TypeInv, TypeOK, CancellerTypeOK, ActingOK
  <1>5. UNCHANGED cancelVars => UNCHANGED <<req, rec>>
    BY DEF cancelVars
  <1>6. UNCHANGED storeVars =>
           UNCHANGED <<claim, intent, runRec, taskRec, exec, blob, late, faults>>
    BY DEF storeVars
  <1>7. {"idle", "find", "drop", "write_run", "write_tasks", "delete_claim", "delete_intent"}
        \subseteq RelAt
    BY DEF RelAt
  <1>8. NoRelease \in Rel /\ NoRelease.at = "idle"
    BY NewClaimType DEF NoRelease, RelAt, NoClaim
  <1>9. ASSUME NEW p \in Operators
        PROVE  /\ RelFinish(p) => RelKept
               /\ \A label \in RelAt : release[p].at # "idle" /\ RelGoto(p, label) => RelKept
    <2>1. RelFinish(p) => RelKept
      <3>1. SUFFICES ASSUME RelFinish(p) PROVE RelKept
        OBVIOUS
      <3>2. release' = [release EXCEPT ![p] = NoRelease]
        BY <3>1 DEF RelFinish
      <3> QED BY <3>2, <1>1, <1>8
    <2>2. ASSUME NEW label \in RelAt, release[p].at # "idle", RelGoto(p, label) PROVE RelKept
      BY <2>2, <1>1 DEF RelGoto
    <2> QED BY <2>1, <2>2
  <1>10. {"cancellation_failed"} \subseteq TaskStatuses \cap RunStatuses
    BY DEF TaskStatuses, RunStatuses
  <1>11. Kept
    <2>1. ASSUME NEW p \in Operators, NEW r \in Runs, OperatorCancels(p, r) PROVE Kept
      <3>1. ReqKept
        BY <2>1, RequestingType DEF OperatorCancels, Callers, CancelTriggers
      <3>2. RelKept
        BY <2>1, <1>1 DEF OperatorCancels, planeVars
      <3> QED BY <2>1, <3>1, <3>2, <1>1, <1>2, <1>3, <1>6 DEF OperatorCancels, planeVars
    <2>2. ASSUME NEW p \in Operators, NEW r \in Runs, OperatorReleases(p, r) PROVE Kept
      <3> DEFINE new == [NoRelease EXCEPT !.at = "find", !.run = r]
      <3>1. new \in Rel /\ new.run = r
        BY <1>8, <1>7 DEF NoRelease
      <3>2. release' = [release EXCEPT ![p] = new]
        BY <2>2 DEF OperatorReleases
      <3> HIDE DEF new
      <3>3. RelKept
        BY <3>1, <3>2, <1>1
      <3> QED BY <2>2, <3>3, <1>1, <1>2, <1>3, <1>4, <1>5, <1>6 DEF OperatorReleases
    <2>3. ASSUME NEW p \in Operators, RelFind(p) PROVE Kept
      <3>1. release[p].run \in Runs
        BY <2>3, <1>1 DEF RelFind
      <3>2. ASSUME release' = [release EXCEPT ![p].at = "write_run",
                                              ![p].claim = claim[SlotOf[release[p].run]]]
            PROVE  RelKept
        BY <3>1, <3>2, <1>1, <1>7
      <3>3. RelKept
        BY <2>3, <3>2, <1>7, <1>9 DEF RelFind
      <3>4. UNCHANGED faults \/ Fault
        BY <2>3 DEF RelFind
      <3> QED BY <2>3, <3>3, <3>4, <1>1, <1>2, <1>3, <1>4, <1>5 DEF RelFind
    <2>4. ASSUME NEW p \in Operators, RelWriteRun(p) PROVE Kept
      <3>1. runRec' \in [Runs -> RunStatuses \cup {None}]
        BY <2>4, <1>1, <1>10 DEF RelWriteRun, WriteRun
      <3>2. ASSUME release' = [release EXCEPT ![p].at = "write_tasks", ![p].failed = TRUE]
            PROVE  RelKept
        <4> DEFINE new == [release[p] EXCEPT !.at = "write_tasks", !.failed = TRUE]
        <4>1. release[p].run \in Runs /\ release[p] \in Rel
          BY <2>4, <1>1 DEF RelWriteRun
        <4>2. new \in Rel /\ new.run \in Runs
          BY <4>1, <1>7
        <4>3. release' = [release EXCEPT ![p] = new]
          BY <3>2
        <4> HIDE DEF new
        <4> QED BY <4>2, <4>3, <1>1
      <3>3. RelKept
        BY <2>4, <3>2, <1>7, <1>9 DEF RelWriteRun
      <3>4. UNCHANGED faults \/ Fault
        BY <2>4 DEF RelWriteRun
      <3> QED BY <2>4, <3>1, <3>3, <3>4, <1>1, <1>2, <1>3, <1>4, <1>5 DEF RelWriteRun
    <2>5. ASSUME NEW p \in Operators, RelWriteTasks(p) PROVE Kept
      <3>1. taskRec' \in [Runs -> [Tasks -> TaskStatuses \cup {None}]]
        BY <2>5, <1>1, <1>10 DEF RelWriteTasks, WriteTasks
      <3>2. RelKept
        BY <2>5, <1>7, <1>9 DEF RelWriteTasks
      <3>3. UNCHANGED faults \/ Fault
        BY <2>5 DEF RelWriteTasks
      <3> QED BY <2>5, <3>1, <3>2, <3>3, <1>1, <1>2, <1>3, <1>4, <1>5 DEF RelWriteTasks
    <2>6. ASSUME NEW p \in Operators, RelDeleteClaim(p) PROVE Kept
      <3>1. claim' \in [Slots -> Claims] /\ ClaimOK'
        <4>1. NoClaim \in Claims
          BY NewClaimType DEF NoClaim
        <4> QED BY <2>6, <4>1, <1>1 DEF RelDeleteClaim, ClaimOK
      <3>2. RelKept
        BY <2>6, <1>7, <1>9 DEF RelDeleteClaim
      <3>3. UNCHANGED faults \/ Fault
        BY <2>6 DEF RelDeleteClaim
      <3> QED BY <2>6, <3>1, <3>2, <3>3, <1>1, <1>2, <1>4, <1>5 DEF RelDeleteClaim
    <2>7. ASSUME NEW p \in Operators, RelDeleteIntent(p) PROVE Kept
      <3>1. release[p].run \in Runs
        BY <2>7, <1>1 DEF RelDeleteIntent
      <3>2. intent' \in [Runs -> Intents]
        BY <2>7, <3>1, <1>1, DeleteType DEF RelDeleteIntent
      <3>3. UNCHANGED faults \/ Fault
        BY <2>7 DEF RelDeleteIntent
      <3> QED BY <2>7, <3>2, <3>3, <1>1, <1>2, <1>3, <1>4, <1>5, <1>9 DEF RelDeleteIntent
    <2>8. ASSUME NEW p \in Operators, RelDies(p) PROVE Kept
      BY <2>8, <1>1, <1>2, <1>3, <1>4, <1>5, <1>9 DEF RelDies
    <2> QED BY <2>1, <2>2, <2>3, <2>4, <2>5, <2>6, <2>7, <2>8 DEF EndpointStep, ReleaseStep
  <1>12. UNCHANGED <<pc, forced, seen, ref, trk>>
    BY <1>11 DEF execVars, trackVars
  <1>13. ActingOK' /\ SettledOK'
    BY <1>11, <1>12 DEF TypeInv, ActingOK, SettledOK, TrkRun
  <1> QED
    BY <1>11, <1>12, <1>13 DEF TypeInv, TypeOK, StoreTypeOK, ExecutorTypeOK, CancellerTypeOK,
                               TrackerTypeOK

-----------------------------------------------------------------------------
(* Every step of the control plane keeps the types.                        *)
LEMMA NextTypes == TypeInv /\ [Next]_vars => TypeInv'
  <1> SUFFICES ASSUME TypeInv, [Next]_vars PROVE TypeInv'
    OBVIOUS
  <1>1. ASSUME NEW r \in Runs, DeadlinePasses(r) PROVE TypeInv'
    <2>1. late' \in [Runs -> BOOLEAN]
      BY <1>1 DEF DeadlinePasses, TypeInv, TypeOK, StoreTypeOK
    <2>2. UNCHANGED <<claim, intent, runRec, taskRec, exec, blob, faults,
                      pc, forced, seen, ref, req, rec, trk, tick, release>>
      BY <1>1 DEF DeadlinePasses, execVars, cancelVars, trackVars, planeVars
    <2>3. ClaimOK' /\ ActingOK' /\ SettledOK'
      BY <2>2 DEF TypeInv, ClaimOK, ActingOK, SettledOK, TrkRun
    <2> QED BY <2>1, <2>2, <2>3 DEF TypeInv, TypeOK, StoreTypeOK, ExecutorTypeOK,
                                    CancellerTypeOK, TrackerTypeOK
  <1>2. CASE UNCHANGED vars
    <2>1. UNCHANGED <<claim, intent, runRec, taskRec, exec, blob, late, faults,
                      pc, forced, seen, ref, req, rec, trk, tick, release>>
      BY <1>2 DEF vars, storeVars, execVars, cancelVars, trackVars, planeVars
    <2>2. ClaimOK' /\ ActingOK' /\ SettledOK'
      BY <2>1 DEF TypeInv, ClaimOK, ActingOK, SettledOK, TrkRun
    <2> QED BY <2>1, <2>2 DEF TypeInv, TypeOK, StoreTypeOK, ExecutorTypeOK,
                              CancellerTypeOK, TrackerTypeOK
  <1> QED BY <1>1, <1>2, ContainerTypes, ExecutorTypes, RequestTypes, ReconcileTypes,
             TrackTypes, TimerTypes, EndpointTypes DEF Next

(* Whatever the constants, every blob of the control plane and every       *)
(* process that works on it stays within its vocabulary; in particular the *)
(* tracker never writes an unresolved task or a run that does not exist    *)
(* into the history.                                                       *)
THEOREM PlaneTypes == Spec => []TypeOK
  <1>1. Spec => []TypeInv
    BY InitTypes, NextTypes, PTL DEF Spec
  <1>2. TypeInv => TypeOK
    BY DEF TypeInv
  <1> QED BY <1>1, <1>2, PTL

-----------------------------------------------------------------------------
(***************************************************************************)
(* The claim of a slot is a lock, for every value of the constants and     *)
(* whatever happens in the other slots, as long as nothing takes the claim *)
(* away: a request with force may overwrite a claim it found, and a        *)
(* force-release deletes the claim of a slot by its path.  While the slot  *)
(* is free of both no run of it is lost, and its claim implements          *)
(* SlotLock.                                                               *)
(***************************************************************************)

RunsOf(s) == {r \in Runs : SlotOf[r] = s}

\* Nothing takes the claim of s away: no overwrite of it is about to be sent,
\* and no force-release of a run of s is past its lookup.
Peaceful(s) ==
  /\ \A r \in RunsOf(s) : pc[r] # "force_over"
  /\ \A p \in Operators :
       release[p].at \in {"write_run", "write_tasks", "delete_claim"} =>
         release[p].run \notin RunsOf(s)

\* The part of NoLostRun that is about s.
KeepsRuns(s) ==
  \A r \in RunsOf(s) :
    pc[r] \in {"claimed", "starting", "dispatched"} => Active(r) \/ r \in Recorded

\* SlotLock for the runs of s alone.
LockOf(s) == INSTANCE SlotLock WITH Runs   <- RunsOf(s),
                                    Slots  <- {s},
                                    SlotOf <- [r \in RunsOf(s) |-> s],
                                    holder <- [x \in {s} |-> claim[x].run],
                                    closed <- Recorded \cap RunsOf(s)

Wanting == {"idle", "claiming", "force_new"}
Held    == {"claimed", "starting", "dispatched"}

\* A run that still has to claim its slot has no claim and no history.
FreshOK(s) ==
  \A r \in RunsOf(s) : Active(r) \/ r \in Recorded => pc[r] \notin Wanting

\* What a tick has listed and not yet checked is still claimed: only the tick
\* itself deletes claims, and it checks each listed run once.
ListedOK(s) ==
  tick.at = "check" =>
    \A c \in tick.claims :
      c.run \in RunsOf(s) =>
        /\ Active(c.run)
        /\ trk.at # "idle" => c.run # TrkRun
        /\ \A d \in tick.claims : d.run = c.run => d = c

\* The run being checked keeps its claim until the check deletes it, and by
\* then its history is complete.
CheckedOK(s) ==
  trk.at # "idle" =>
    /\ tick.at = "check"
    /\ TrkRun \in RunsOf(s) =>
         /\ trk.at # "delete_intent" => Active(TrkRun)
         /\ trk.at = "write_tasks" /\ ~trk.failed => runRec[TrkRun] # None
         /\ trk.at = "delete_claim" => TrkRun \in Recorded

LockInv(s) == KeepsRuns(s) /\ FreshOK(s) /\ ListedOK(s) /\ CheckedOK(s)

\* A step of SlotLock for s, or nothing it can see.
LockStep(s) ==
  [LockOf(s)!Step]_<<[x \in {s} |-> claim[x].run], Recorded \cap RunsOf(s)>>

-----------------------------------------------------------------------------
(* Which actions may change which variable: of every variable the sections *)
(* below look at, who writes it (RunExecutor, RunTracker, the endpoints).  *)
LEMMA WhoChanges ==
  ASSUME [Next]_vars
  PROVE  /\ UNCHANGED late \/ \E r \in Runs : DeadlinePasses(r)
         /\ UNCHANGED runRec \/ TrkWriteRun \/ \E p \in Operators : RelWriteRun(p)
         /\ UNCHANGED taskRec \/ TrkWriteTasks \/ \E p \in Operators : RelWriteTasks(p)
         /\ UNCHANGED trk \/ TrackStep \/ (\E c \in tick.claims : Check(c)) \/ TimerDies
         /\ UNCHANGED tick \/ TimerStep
         /\ \/ UNCHANGED release
            \/ \E p \in Operators : ReleaseStep(p) \/ \E r \in Runs : OperatorReleases(p, r)
         /\ UNCHANGED <<pc, forced, ref>> \/ ExecutorStep
         /\ \/ UNCHANGED claim
            \/ ExecutorStep \/ TrkDeleteClaim \/ \E p \in Operators : RelDeleteClaim(p)
         /\ UNCHANGED blob \/ ContainerStep
  <1> USE DEF storeVars, execVars, cancelVars, trackVars, planeVars
  <1>1. CASE ContainerStep /\ UNCHANGED <<execVars, cancelVars, trackVars, planeVars>>
    <2>1. UNCHANGED <<late, runRec, taskRec, claim>>
      BY <1>1 DEF ContainerStep, ContainerBeats, ContainerFinishes, ContainerExits,
         ContainerLosesFlush, StopLands, ExecutionVanishes
    <2> QED BY <1>1, <2>1
  <1>2. CASE ExecutorStep /\ UNCHANGED <<cancelVars, trackVars, planeVars>>
    <2>1. UNCHANGED <<late, runRec, taskRec, blob>>
      BY <1>2 DEF ExecutorStep, DispatchRun, Request, Join, HostDies, Create, ForceHead,
         ForceCreate, ForceOverwrite, ClaimThrows, ClaimResponseLost, Start, StartFails,
         SecondWrite, SecondWriteResponseLost, SecondWriteThrows
    <2> QED BY <1>2, <2>1
  <1>3. ASSUME NEW p \in Callers, RequestStep(p), UNCHANGED <<execVars, trackVars, planeVars>>
        PROVE  UNCHANGED <<late, runRec, taskRec, claim, blob, trk, tick, release, pc, forced, ref>>
    BY <1>3 DEF RequestStep, ReqFind, ReqCreate, ReqReadExisting, ReqStop, ReqUpdate, ReqDies
  <1>4. CASE ReconcileStep /\ UNCHANGED <<execVars, trackVars, planeVars>>
    <2>1. UNCHANGED <<late, runRec, taskRec, claim, blob>>
      BY <1>4 DEF ReconcileStep, RecFind, RecDrop, RecResubmit, RecUpdate, RecWait, RecNudge,
         RecFails
    <2> QED BY <1>4, <2>1
  <1>5. CASE TrackStep /\ UNCHANGED <<execVars, cancelVars, planeVars>>
    <2>1. /\ UNCHANGED <<late, blob>>
          /\ UNCHANGED runRec \/ TrkWriteRun
          /\ UNCHANGED taskRec \/ TrkWriteTasks
          /\ UNCHANGED claim \/ TrkDeleteClaim
      BY <1>5 DEF TrackStep, TrkReadIntent, ResolveDispatchFailed, ResolveFromBlob,
         ResolveFromAca, AcaUnreachable, Defer, TrkWriteRun, TrkWriteTasks, TrkDeleteClaim,
         TrkDeleteIntent, CheckThrows
    <2> QED BY <1>5, <2>1
  <1>6. CASE TimerStep
    <2>1. UNCHANGED <<late, runRec, taskRec, claim, blob, release, pc, forced, ref>>
      BY <1>6 DEF TimerStep, TickReconciles, TickSkipsReconcile, PassA, PassAEnds, PassB,
         PassBEnds, TickLists, Check, TickEnds, TimerDies
    <2>2. UNCHANGED trk \/ (\E c \in tick.claims : Check(c)) \/ TimerDies
      BY <1>6 DEF TimerStep, TickReconciles, TickSkipsReconcile, PassA, PassAEnds, PassB,
         PassBEnds, TickLists, TickEnds
    <2> QED BY <1>6, <2>1, <2>2
  <1>7. CASE EndpointStep
    <2>1. ASSUME NEW p \in Operators, NEW r \in Runs, OperatorCancels(p, r)
          PROVE  UNCHANGED <<late, runRec, taskRec, claim, blob, trk, tick, release, pc,
                      forced, ref>>
      BY <2>1 DEF OperatorCancels
    <2>2. ASSUME NEW p \in Operators, NEW r \in Runs, OperatorReleases(p, r)
          PROVE  UNCHANGED <<late, runRec, taskRec, claim, blob, trk, tick, pc, forced, ref>>
      BY <2>2 DEF OperatorReleases
    <2>3. ASSUME NEW p \in Operators, ReleaseStep(p)
          PROVE  /\ UNCHANGED <<late, blob, trk, tick, pc, forced, ref>>
                 /\ UNCHANGED runRec \/ RelWriteRun(p)
                 /\ UNCHANGED taskRec \/ RelWriteTasks(p)
                 /\ UNCHANGED claim \/ RelDeleteClaim(p)
      BY <2>3 DEF ReleaseStep, RelFind, RelWriteRun, RelWriteTasks, RelDeleteClaim,
         RelDeleteIntent, RelDies
    <2> QED BY <1>7, <2>1, <2>2, <2>3 DEF EndpointStep
  <1>8. ASSUME NEW r \in Runs, DeadlinePasses(r)
        PROVE  UNCHANGED <<runRec, taskRec, claim, blob, trk, tick, release, pc, forced, ref>>
    BY <1>8 DEF DeadlinePasses
  <1>9. CASE UNCHANGED vars
    BY <1>9 DEF vars
  <1> QED BY <1>1, <1>2, <1>3, <1>4, <1>5, <1>6, <1>7, <1>8, <1>9 DEF Next

-----------------------------------------------------------------------------
(* Nothing is claimed, recorded or in progress at first.                   *)
LEMMA InitLock == Init => \A s \in Slots : LockInv(s) /\ LockOf(s)!Free
  BY StoreAssumption DEF Init, StoreInit, ExecutorInit, TrackerInit, NoTick, NoCheck, NoClaim,
     NewClaim, LockInv, KeepsRuns, FreshOK, ListedOK, CheckedOK, Active, Recorded, RunsOf,
     LockOf!Free

(* A step of SlotLock: a run takes the free slot, the history of the run   *)
(* that holds it becomes complete, it is released after that; or neither   *)
(* the claim nor the records change.                                       *)
LEMMA SlotStepMeans ==
  ASSUME NEW s \in Slots
  PROVE  LockStep(s) <=>
           \/ \E r \in RunsOf(s) :
                \/ /\ claim[s].run = NoRun /\ r \notin Recorded
                   /\ claim'[s].run = r /\ Recorded' \cap RunsOf(s) = Recorded \cap RunsOf(s)
                \/ /\ claim[s].run = r /\ claim'[s].run = claim[s].run
                   /\ Recorded' \cap RunsOf(s) = (Recorded \cap RunsOf(s)) \cup {r}
           \/ /\ claim[s].run \in Recorded \cap RunsOf(s) /\ claim'[s].run = NoRun
              /\ Recorded' \cap RunsOf(s) = Recorded \cap RunsOf(s)
           \/ claim'[s].run = claim[s].run /\ Recorded' \cap RunsOf(s) = Recorded \cap RunsOf(s)
  <1> DEFINE holder == [x \in {s} |-> claim[x].run]
             closed == Recorded \cap RunsOf(s)
  <1>1. /\ holder[s] = claim[s].run /\ holder'[s] = claim'[s].run
        /\ \A h : holder' = [holder EXCEPT ![s] = h] <=> claim'[s].run = h
        /\ holder' = holder <=> claim'[s].run = claim[s].run
    OBVIOUS
  <1>2. \A r \in RunsOf(s) : [q \in RunsOf(s) |-> s][r] = s
    OBVIOUS
  <1>3. closed' = Recorded' \cap RunsOf(s)
    BY DEF RunsOf
  <1> HIDE DEF holder, closed
  <1>4. LockStep(s) <=>
          \/ \E r \in RunsOf(s) :
               \/ /\ holder[[q \in RunsOf(s) |-> s][r]] = NoRun /\ r \notin closed
                  /\ holder' = [holder EXCEPT ![[q \in RunsOf(s) |-> s][r]] = r]
                  /\ closed' = closed
               \/ /\ holder[[q \in RunsOf(s) |-> s][r]] = r
                  /\ closed' = closed \cup {r} /\ holder' = holder
          \/ \E x \in {s} : /\ holder[x] \in closed /\ closed' = closed
                            /\ holder' = [holder EXCEPT ![x] = NoRun]
          \/ closed' = closed /\ holder' = holder
    BY DEF LockStep, LockOf!Step, LockOf!Acquire, LockOf!Close, LockOf!Release, holder, closed
  <1> QED BY <1>1, <1>2, <1>3, <1>4 DEF closed

(* A step of the processes that leaves the claim, the records and the      *)
(* dispatches of s alone, and whose tick and check have nothing new of s.  *)
LEMMA SlotFrame ==
  ASSUME NEW s \in Slots, LockInv(s), UNCHANGED claim[s],
         \A r \in RunsOf(s) : UNCHANGED <<pc[r], runRec[r], taskRec[r]>>,
         UNCHANGED tick,
         \/ trk' = trk \/ trk'.at = "idle"
         \/ trk.at # "idle" /\ TrkRun' = TrkRun /\ TrkRun \notin RunsOf(s)
  PROVE  LockInv(s)' /\ LockStep(s)
  <1>1. \A r \in RunsOf(s) : (Active(r)' <=> Active(r)) /\ (r \in Recorded' <=> r \in Recorded)
    BY DEF Active, Recorded, RunsOf
  <1>2. RunsOf(s)' = RunsOf(s)
    BY DEF RunsOf
  <1>3. KeepsRuns(s)' /\ FreshOK(s)'
    BY <1>1, <1>2 DEF LockInv, KeepsRuns, FreshOK
  <1>4. trk' = trk => TrkRun' = TrkRun
    BY DEF TrkRun
  <1>5. ListedOK(s)'
    BY <1>1, <1>2, <1>4 DEF LockInv, ListedOK
  <1>6. CheckedOK(s)'
    <2>1. CASE trk' = trk
      BY <1>1, <1>2, <1>4, <2>1 DEF LockInv, CheckedOK, RunsOf
    <2>2. CASE trk'.at = "idle"
      BY <2>2 DEF CheckedOK
    <2>3. CASE trk.at # "idle" /\ TrkRun' = TrkRun /\ TrkRun \notin RunsOf(s)
      BY <1>2, <2>3 DEF LockInv, CheckedOK
    <2> QED BY <2>1, <2>2, <2>3
  <1>7. Recorded' \cap RunsOf(s) = Recorded \cap RunsOf(s)
    BY <1>1
  <1>8. LockStep(s)
    BY <1>7, SlotStepMeans
  <1> QED BY <1>3, <1>5, <1>6, <1>8 DEF LockInv

(* A step of a dispatch that takes no claim from a run of s keeps LockInv. *)
LEMMA DispatchFrame ==
  ASSUME TypeInv, NEW s \in Slots, LockInv(s), UNCHANGED <<runRec, taskRec, trk, tick>>,
         \A q \in RunsOf(s) : Active(q) => Active(q)',
         \A q \in RunsOf(s) : pc'[q] \in Held => pc[q] \in Held \/ Active(q)',
         \A q \in RunsOf(s) : pc'[q] \in Wanting => pc[q] \in Wanting /\ (Active(q)' => Active(q))
  PROVE  LockInv(s)'
  <1>1. UNCHANGED Recorded /\ RunsOf(s)' = RunsOf(s) /\ TrkRun' = TrkRun
    BY DEF Recorded, RunsOf, TrkRun
  <1>2. KeepsRuns(s)'
    BY <1>1 DEF LockInv, KeepsRuns, Held
  <1>3. FreshOK(s)'
    BY <1>1 DEF LockInv, FreshOK
  <1>4. ListedOK(s)'
    BY <1>1 DEF LockInv, ListedOK
  <1>5. CheckedOK(s)'
    BY <1>1 DEF LockInv, CheckedOK
  <1> QED BY <1>2, <1>3, <1>4, <1>5 DEF LockInv

(* The steps of a dispatch: a claim is put only where there is none, or in *)
(* place of the same run's; the overwrite is not for s.                    *)
LEMMA DispatchLock ==
  ASSUME TypeInv, NEW s \in Slots, LockInv(s), Peaceful(s), ExecutorStep,
         UNCHANGED <<cancelVars, trackVars, planeVars>>
  PROVE  LockInv(s)' /\ LockStep(s)
  <1> DEFINE NoneTaken == \A q \in RunsOf(s) : Active(q) => Active(q)'
             HeldKept  == \A q \in RunsOf(s) : pc'[q] \in Held => pc[q] \in Held \/ Active(q)'
             FreshKept == \A q \in RunsOf(s) : pc'[q] \in Wanting =>
                            pc[q] \in Wanting /\ (Active(q)' => Active(q))
             Kept == NoneTaken /\ HeldKept /\ FreshKept /\ LockStep(s)
  <1>1. UNCHANGED <<runRec, taskRec, trk, tick>> /\ UNCHANGED Recorded
    <2>1. UNCHANGED <<runRec, taskRec>>
      BY DEF ExecutorStep, DispatchRun, Request, Join, HostDies, Create, ForceHead, ForceCreate,
         ForceOverwrite, ClaimThrows, ClaimResponseLost, Start, StartFails, SecondWrite,
         SecondWriteResponseLost, SecondWriteThrows, storeVars
    <2> QED BY <2>1 DEF cancelVars, trackVars, planeVars, Recorded
  <1>2. pc \in [Runs -> PCs] /\ claim \in [Slots -> Claims]
    BY DEF TypeInv, TypeOK, ExecutorTypeOK, StoreTypeOK
  <1>3. \A q \in RunsOf(s) : /\ q \in Runs /\ SlotOf[q] = s
                             /\ Active(q) <=> claim[s].run = q
                             /\ Active(q)' <=> claim'[s].run = q
    BY DEF Active, RunsOf
  <1>4. UNCHANGED claim[s] => /\ NoneTaken /\ LockStep(s)
                                 /\ \A q \in RunsOf(s) : Active(q)' => Active(q)
    BY <1>1, <1>3, SlotStepMeans
  <1>5. ASSUME UNCHANGED claim[s],
               \A q \in RunsOf(s) : pc'[q] \in Held => pc[q] \in Held,
               \A q \in RunsOf(s) : pc'[q] \in Wanting => pc[q] \in Wanting
        PROVE  Kept
    BY <1>4, <1>5
  <1>6. ASSUME NEW r \in Runs, NEW label, Goto(r, label)
        PROVE  /\ \A q \in Runs \ {r} : pc'[q] = pc[q]
               /\ pc'[r] = label
    BY <1>2, <1>6 DEF Goto
  <1>7. \A r \in Runs : NewClaim(r).run = r /\ NoClaim.run = NoRun
    BY DEF NewClaim, NoClaim
  <1>8. ASSUME NEW b \in Batches, Request(b) PROVE Kept
    <2>1. /\ pc' = [r \in Runs |-> IF r \in b THEN "claiming" ELSE pc[r]] /\ UNCHANGED claim
          /\ \A r \in b : pc[r] = "idle"
      BY <1>8 DEF Request, storeVars
    <2> QED BY <1>3, <1>5, <2>1 DEF Held, Wanting
  <1>9. ASSUME NEW b \in Batches, Join(b) PROVE Kept
    <2>1. PICK x \in {"dead", "starting"} :
            pc' = [r \in Runs |-> IF r \in b /\ pc[r] = "claimed" THEN x ELSE pc[r]]
      BY <1>9 DEF Join
    <2>2. UNCHANGED claim
      BY <1>9 DEF Join, storeVars
    <2> QED BY <1>3, <1>5, <2>1, <2>2 DEF Held, Wanting
  <1>10. ASSUME NEW b \in Batches, HostDies(b) PROVE Kept
    <2>1. /\ pc' = [r \in Runs |-> IF r \in b /\ pc[r] \notin Ended THEN "dead" ELSE pc[r]]
          /\ UNCHANGED claim
      BY <1>10 DEF HostDies
    <2> QED BY <1>3, <1>5, <2>1 DEF Held, Wanting
  <1>11. ASSUME NEW r \in Runs, r \notin RunsOf(s), DispatchRun(r) PROVE Kept
    <2>1. UNCHANGED claim \/ \E c : PutClaim(r, c)
      BY <1>11 DEF DispatchRun, Create, ForceHead, ForceCreate, ForceOverwrite, PutIfAbsent,
         ClaimThrows, ClaimResponseLost, Start, StartFails, SecondWrite,
         SecondWriteResponseLost, SecondWriteThrows, storeVars
    <2>2. UNCHANGED pc \/ \E label : Goto(r, label)
      BY <1>11 DEF DispatchRun, Create, ForceHead, ForceCreate, ForceOverwrite, PutIfAbsent,
         ClaimThrows, ClaimResponseLost, Start, StartFails, SecondWrite,
         SecondWriteResponseLost, SecondWriteThrows
    <2>3. UNCHANGED claim[s]
      BY <1>2, <1>11, <2>1 DEF PutClaim, RunsOf
    <2>4. \A q \in RunsOf(s) : pc'[q] = pc[q]
      BY <1>3, <1>6, <1>11, <2>2
    <2> QED BY <1>5, <2>3, <2>4
  <1>12. ASSUME NEW r \in RunsOf(s), pc[r] \in Wanting, claim[s] = NoClaim,
                PutClaim(r, NewClaim(r)),
                NEW label \in {"claimed", "rejected_exists", "rejected_concurrent"}, Goto(r, label)
         PROVE  Kept
    <2>1. claim'[s].run = r /\ claim[s].run = NoRun /\ r \in Runs
      BY <1>2, <1>3, <1>7, <1>12 DEF PutClaim
    <2>2. r \notin Recorded
      BY <1>12 DEF LockInv, FreshOK
    <2>3. LockStep(s)
      BY <1>1, <2>1, <2>2, SlotStepMeans
    <2>4. (\A q \in Runs \ {r} : pc'[q] = pc[q]) /\ pc'[r] = label
      BY <1>6, <1>12, <2>1
    <2>5. NoneTaken
      BY <1>3, <2>1, StoreAssumption
    <2>6. HeldKept
      BY <1>3, <2>1, <2>4
    <2>7. FreshKept
      BY <1>3, <2>1, <2>4 DEF Wanting
    <2> QED BY <2>3, <2>5, <2>6, <2>7
  <1>13. ASSUME NEW r \in RunsOf(s), DispatchRun(r) PROVE Kept
    <2>1. r \in Runs /\ SlotOf[r] = s /\ pc[r] # "force_over"
      BY <1>3 DEF Peaceful
    <2>2. ASSUME NEW label \in {"rejected_exists", "rejected_concurrent", "threw", "dead",
                                "untracked"},
                 Goto(r, label), UNCHANGED claim
          PROVE  Kept
      BY <1>3, <1>5, <1>6, <2>1, <2>2 DEF Held, Wanting
    <2>3. ASSUME Create(r) \/ ForceCreate(r) PROVE Kept
      <3>1. pc[r] \in Wanting
        BY <2>3 DEF Create, ForceCreate, Wanting
      <3>2. PICK label \in {"rejected_exists", "rejected_concurrent"} : PutIfAbsent(r, label)
        BY <2>3 DEF Create, ForceCreate
      <3> QED BY <1>12, <2>1, <2>2, <3>1, <3>2 DEF PutIfAbsent
    <2>4. ASSUME ForceHead(r) PROVE Kept
      <3>1. /\ UNCHANGED claim /\ pc[r] = "claiming"
            /\ \E label \in {"force_new", "force_over"} : Goto(r, label)
        BY <2>4 DEF ForceHead, storeVars
      <3> QED BY <1>3, <1>5, <1>6, <2>1, <3>1 DEF Held, Wanting
    <2>5. ~ForceOverwrite(r)
      BY <2>1 DEF ForceOverwrite
    <2>6. ASSUME ClaimThrows(r) \/ SecondWriteThrows(r) PROVE Kept
      BY <2>2, <2>6 DEF ClaimThrows, SecondWriteThrows
    <2>7. ASSUME ClaimResponseLost(r) PROVE Kept
      <3>1. /\ pc[r] \in Wanting /\ claim[s] = NoClaim /\ PutClaim(r, NewClaim(r))
            /\ \E label \in {"rejected_exists", "rejected_concurrent"} : Goto(r, label)
        BY <2>1, <2>7 DEF ClaimResponseLost, Wanting
      <3> QED BY <1>12, <3>1
    <2>8. ASSUME NEW t \in Tasks, Start(r, t) \/ StartFails(r, t) PROVE Kept
      <3>1. UNCHANGED <<pc, claim>>
        BY <2>8 DEF Start, StartFails
      <3> QED BY <1>5, <3>1
    <2>9. ASSUME SecondWrite(r) \/ SecondWriteResponseLost(r) PROVE Kept
      <3>1. /\ pc[r] = "starting"
            /\ \E label \in {"dispatched", "untracked"} : Goto(r, label)
            /\ \/ UNCHANGED claim /\ Goto(r, "untracked")
               \/ /\ claim[s] = NewClaim(r)
                  /\ PutClaim(r, [run |-> r, task |-> ref[r]])
        BY <2>1, <2>9 DEF SecondWrite, SecondWriteResponseLost, AllStarted
      <3>2. CASE /\ claim[s] = NewClaim(r)
                 /\ PutClaim(r, [run |-> r, task |-> ref[r]])
        <4>1. claim'[s].run = claim[s].run
          BY <1>2, <1>7, <2>1, <3>2 DEF PutClaim
        <4>2. NoneTaken /\ LockStep(s) /\ \A q \in RunsOf(s) : Active(q)' => Active(q)
          BY <1>1, <1>3, <4>1, SlotStepMeans
        <4>3. /\ \A q \in RunsOf(s) \ {r} : pc'[q] = pc[q]
              /\ pc[r] \in Held /\ pc'[r] \notin Wanting
          BY <1>3, <1>6, <2>1, <3>1 DEF Held, Wanting
        <4> QED BY <4>2, <4>3
      <3> QED BY <2>2, <3>1, <3>2
    <2> QED BY <1>13, <2>3, <2>4, <2>5, <2>6, <2>7, <2>8, <2>9 DEF DispatchRun
  <1>14. Kept
    BY <1>8, <1>9, <1>10, <1>11, <1>13 DEF ExecutorStep
  <1> HIDE DEF NoneTaken, HeldKept, FreshKept
  <1>15. NoneTaken /\ HeldKept /\ FreshKept /\ LockStep(s)
    BY <1>14
  <1> USE DEF NoneTaken, HeldKept, FreshKept
  <1> QED BY <1>1, <1>15, DispatchFrame

-----------------------------------------------------------------------------
(* The steps of the tracker: the history of the checked run is written     *)
(* while the run holds its claim, and the claim that is deleted is that of *)
(* a run with a complete history.                                          *)
LEMMA TrackLock ==
  ASSUME TypeInv, NEW s \in Slots, LockInv(s), TrackStep,
         UNCHANGED <<execVars, cancelVars, planeVars>>
  PROVE  LockInv(s)' /\ LockStep(s)
  <1>1. UNCHANGED <<pc, tick>> /\ RunsOf(s)' = RunsOf(s) /\ \A q \in RunsOf(s) : UNCHANGED pc[q]
    BY DEF execVars, planeVars, RunsOf
  <1>2. /\ trk.at # "idle" => TrkRun \in Runs /\ tick.at = "check"
        /\ claim \in [Slots -> Claims]
        /\ runRec \in [Runs -> RunStatuses \cup {None}]
        /\ taskRec \in [Runs -> [Tasks -> TaskStatuses \cup {None}]]
        /\ trk \in [at : TrkAt, claim : Claims, timedOut : BOOLEAN,
                     trigger : CancelTriggers \cup {None}, poll : Tasks \cup {NoTask},
                     res : [Tasks -> Resolved], failed : BOOLEAN]
    BY DEF TypeInv, TypeOK, StoreTypeOK, TrackerTypeOK, ActingOK, LockInv, CheckedOK
  <1>3. None \notin TaskStatuses /\ None \notin RunStatuses /\ NoCheck.at = "idle"
    BY DEF None, TaskStatuses, RunStatuses, NoCheck
  <1>4. \A q \in RunsOf(s) : /\ q \in Runs /\ SlotOf[q] = s
                             /\ Active(q) <=> claim[s].run = q
                             /\ Active(q)' <=> claim'[s].run = q
    BY DEF Active, RunsOf
  \* Where a check is, and what it may write.
  <1>5. /\ trk.at # "idle"
        /\ trk'.at = "idle" \/ TrkRun' = TrkRun
    <2>1. (\E t \in Tasks : \/ ResolveDispatchFailed(t) \/ ResolveFromBlob(t)
                            \/ ResolveFromAca(t) \/ AcaUnreachable(t)) =>
            /\ trk.at = "resolve"
            /\ (\E t \in Tasks : (\E x : Settle(t, x)) \/ trk' = [trk EXCEPT !.poll = t])
      BY DEF ResolveDispatchFailed, ResolveFromBlob, ResolveFromAca, AcaUnreachable, Pending
    <2>2. (\E t \in Tasks : (\E x : Settle(t, x)) \/ trk' = [trk EXCEPT !.poll = t]) =>
            TrkRun' = TrkRun
      BY <1>2 DEF Settle, TrkRun
    <2> QED BY <1>2, <1>3, <2>1, <2>2 DEF TrackStep, TrkReadIntent, Defer, TrkWriteRun, AllLookedAt,
               TrkWriteTasks, TrkDeleteClaim, TrkDeleteIntent, CheckThrows, Pending, TrkFinish,
               TrkRun
  <1>6. /\ claim' = claim \/ claim' = [claim EXCEPT ![SlotOf[TrkRun]] = NoClaim]
        /\ \A q \in Runs : q # TrkRun => UNCHANGED <<runRec[q], taskRec[q]>>
    BY <1>2 DEF TrackStep, TrkReadIntent, ResolveDispatchFailed, ResolveFromBlob, ResolveFromAca,
       AcaUnreachable, Defer, TrkWriteRun, TrkWriteTasks, TrkDeleteClaim, TrkDeleteIntent,
       CheckThrows, storeVars, WriteRun, WriteTasks
  <1>7. CASE TrkRun \notin RunsOf(s)
    <2>1. UNCHANGED claim[s]
      BY <1>2, <1>5, <1>6, <1>7, StoreAssumption DEF RunsOf
    <2>2. \A r \in RunsOf(s) : UNCHANGED <<pc[r], runRec[r], taskRec[r]>>
      BY <1>1, <1>4, <1>6, <1>7
    <2> QED BY <1>1, <1>5, <1>7, <2>1, <2>2, SlotFrame
  <1>8. CASE TrkRun \in RunsOf(s)
    <2>1. /\ TrkRun \in Runs /\ SlotOf[TrkRun] = s /\ tick.at = "check"
          /\ trk.at # "delete_intent" => claim[s].run = TrkRun
      BY <1>2, <1>4, <1>5, <1>8 DEF LockInv, CheckedOK
    <2>2. ASSUME UNCHANGED <<claim, runRec, taskRec>>,
                 \/ trk'.at = "idle"
                 \/ /\ TrkRun' = TrkRun /\ trk'.at \in {"resolve", "delete_intent"}
                    /\ trk'.at = "delete_intent" \/ trk.at # "delete_intent"
          PROVE  LockInv(s)' /\ LockStep(s)
      <3>1. UNCHANGED Recorded /\ (Recorded \cap RunsOf(s))' = Recorded \cap RunsOf(s)
        BY <1>1, <2>2 DEF Recorded
      <3>2. KeepsRuns(s)' /\ FreshOK(s)' /\ LockStep(s)
        BY <1>1, <2>2, <3>1, SlotStepMeans DEF LockInv, KeepsRuns, FreshOK, Active
      <3>3. ListedOK(s)'
        BY <1>1, <1>5, <2>2 DEF LockInv, ListedOK, Active
      <3>4. CheckedOK(s)'
        BY <1>1, <1>4, <2>1, <2>2 DEF CheckedOK
      <3> QED BY <3>2, <3>3, <3>4 DEF LockInv
    <2>3. CASE TrkReadIntent
      <3>1. /\ UNCHANGED <<claim, runRec, taskRec>>
            /\ trk.at = "read_intent" /\ trk'.at = "resolve" /\ TrkRun' = TrkRun
        BY <1>2, <2>3 DEF TrkReadIntent, storeVars, TrkRun
      <3> QED BY <2>2, <3>1
    <2>4. ASSUME NEW t \in Tasks, \/ ResolveDispatchFailed(t) \/ ResolveFromBlob(t)
                                  \/ ResolveFromAca(t) \/ AcaUnreachable(t)
          PROVE  LockInv(s)' /\ LockStep(s)
      <3>1. UNCHANGED <<claim, runRec, taskRec>> /\ trk.at = "resolve"
        BY <2>4 DEF ResolveDispatchFailed, ResolveFromBlob, ResolveFromAca, AcaUnreachable,
           storeVars, Pending
      <3>2. (\E x : Settle(t, x)) \/ trk' = [trk EXCEPT !.poll = t]
        BY <2>4 DEF ResolveDispatchFailed, ResolveFromBlob, ResolveFromAca, AcaUnreachable
      <3>3. trk'.at = "resolve" /\ TrkRun' = TrkRun
        BY <1>2, <3>1, <3>2 DEF Settle, TrkRun
      <3> QED BY <2>2, <3>1, <3>3
    <2>5. CASE Defer \/ CheckThrows \/ TrkDeleteIntent
      <3>1. UNCHANGED <<claim, runRec, taskRec>> /\ trk' = NoCheck
        BY <2>5 DEF Defer, CheckThrows, TrkDeleteIntent, TrkFinish, storeVars
      <3> QED BY <1>3, <2>2, <3>1
    \* A record of the run completes its history, or changes nothing SlotLock sees.
    <2>6. ASSUME UNCHANGED claim, trk.at # "delete_intent",
                 TrkRun \in Recorded' \/ TrkRun \notin Recorded
          PROVE  /\ LockStep(s)
                 /\ KeepsRuns(s)' /\ FreshOK(s)'
      <3>1. \A q \in RunsOf(s) : q # TrkRun => (q \in Recorded' <=> q \in Recorded)
        BY <1>4, <1>6 DEF Recorded
      <3>2. \/ Recorded' \cap RunsOf(s) = Recorded \cap RunsOf(s)
            \/ Recorded' \cap RunsOf(s) = (Recorded \cap RunsOf(s)) \cup {TrkRun}
        BY <1>8, <2>6, <3>1
      <3>3. LockStep(s)
        BY <1>8, <2>1, <2>6, <3>2, SlotStepMeans
      <3>4. KeepsRuns(s)' /\ FreshOK(s)'
        BY <1>1, <1>4, <2>1, <2>6, <3>1 DEF LockInv, KeepsRuns, FreshOK
      <3> QED BY <3>3, <3>4
    <2>7. CASE TrkWriteRun
      <3>1. /\ trk.at = "resolve" /\ UNCHANGED <<claim, taskRec>>
            /\ trk'.at = "write_tasks" /\ TrkRun' = TrkRun
        BY <1>2, <2>7 DEF TrkWriteRun, AllLookedAt, TrkRun
      <3>2. runRec[TrkRun] # None => runRec'[TrkRun] = runRec[TrkRun]
        BY <1>2, <2>1, <2>7 DEF TrkWriteRun, WriteRun
      <3>3. ~trk'.failed => runRec'[TrkRun] # None
        <4>1. CASE WriteRun(TrkRun, FinalStatus)
          BY <4>1, <2>1, <1>2, <1>3, RunStatusType DEF WriteRun, FinalStatus
        <4>2. CASE trk' = [trk EXCEPT !.at = "write_tasks", !.failed = TRUE]
          BY <4>2, <1>2
        <4> QED BY <2>7, <4>1, <4>2 DEF TrkWriteRun
      <3>4. TrkRun \in Recorded' \/ TrkRun \notin Recorded
        BY <2>1, <3>1, <3>2 DEF Recorded
      <3>5. ListedOK(s)'
        BY <1>1, <1>5, <3>1 DEF LockInv, ListedOK, Active
      <3>6. CheckedOK(s)'
        BY <1>1, <1>4, <2>1, <3>1, <3>3 DEF CheckedOK
      <3> QED BY <2>6, <3>1, <3>4, <3>5, <3>6 DEF LockInv
    <2>8. CASE TrkWriteTasks
      <3>1. /\ trk.at = "write_tasks" /\ UNCHANGED <<claim, runRec>>
            /\ trk'.at = "idle" \/ (trk'.at = "delete_claim" /\ TrkRun' = TrkRun)
        BY <1>2, <1>3, <2>8 DEF TrkWriteTasks, TrkFinish, TrkRun
      <3>2. taskRec[TrkRun] # NoTaskRec => taskRec'[TrkRun] = taskRec[TrkRun]
        BY <1>2, <2>1, <2>8 DEF TrkWriteTasks, WriteTasks
      <3>3. trk'.at = "delete_claim" => TrkRun \in Recorded'
        <4> SUFFICES ASSUME trk'.at = "delete_claim" PROVE TrkRun \in Recorded'
          OBVIOUS
        <4>1. WriteTasks(TrkRun, trk.res) /\ ~trk.failed
          BY <1>3, <2>8 DEF TrkWriteTasks, TrkFinish
        <4>2. trk.res # NoTaskRec
          BY <3>1, <1>3, StoreAssumption DEF TypeInv, SettledOK, NoTaskRec
        <4>3. taskRec'[TrkRun] # NoTaskRec
          BY <4>1, <4>2, <2>1, <1>2 DEF WriteTasks
        <4>4. runRec[TrkRun] # None
          BY <1>8, <3>1, <4>1 DEF LockInv, CheckedOK
        <4> QED BY <2>1, <3>1, <4>3, <4>4 DEF Recorded
      <3>4. TrkRun \in Recorded' \/ TrkRun \notin Recorded
        BY <2>1, <3>1, <3>2 DEF Recorded
      <3>5. ListedOK(s)'
        BY <1>1, <1>5, <3>1 DEF LockInv, ListedOK, Active
      <3>6. CheckedOK(s)'
        BY <1>1, <1>4, <2>1, <3>1, <3>3 DEF CheckedOK
      <3> QED BY <2>6, <3>1, <3>4, <3>5, <3>6 DEF LockInv
    <2>9. CASE TrkDeleteClaim
      <3>1. /\ trk.at = "delete_claim" /\ UNCHANGED <<runRec, taskRec>>
            /\ trk'.at = "idle" \/ (trk'.at = "delete_intent" /\ TrkRun' = TrkRun)
        BY <1>2, <1>3, <2>9 DEF TrkDeleteClaim, TrkFinish, TrkRun
      <3>2. UNCHANGED Recorded /\ TrkRun \in Recorded
        BY <1>8, <3>1 DEF Recorded, LockInv, CheckedOK
      <3>3. CASE UNCHANGED claim
        BY <2>2, <3>1, <3>3
      <3>4. CASE claim' = [claim EXCEPT ![SlotOf[TrkRun]] = NoClaim]
        <4>1. claim'[s].run = NoRun /\ NoRun \notin Runs
          BY <1>2, <2>1, <3>4, StoreAssumption DEF NoClaim, NewClaim
        <4>2. \A q \in RunsOf(s) : ~Active(q)' /\ (Active(q) => q = TrkRun)
          BY <1>4, <2>1, <3>1, <4>1
        <4>3. LockStep(s)
          BY <1>8, <2>1, <3>1, <3>2, <4>1, SlotStepMeans
        <4>4. KeepsRuns(s)' /\ FreshOK(s)'
          BY <1>1, <3>2, <4>2 DEF LockInv, KeepsRuns, FreshOK
        <4>5. ListedOK(s)'
          BY <1>1, <1>5, <4>2 DEF LockInv, ListedOK
        <4>6. CheckedOK(s)'
          BY <1>1, <2>1, <3>1 DEF CheckedOK
        <4> QED BY <4>3, <4>4, <4>5, <4>6 DEF LockInv
      <3> QED BY <2>9, <3>3, <3>4 DEF TrkDeleteClaim
    <2> QED BY <2>3, <2>4, <2>5, <2>7, <2>8, <2>9 DEF TrackStep
  <1> QED BY <1>7, <1>8

(* The steps of the timer: a tick checks only what its listing found, and  *)
(* nothing of it is released while the tick holds it.                      *)
LEMMA TimerLock ==
  ASSUME TypeInv, NEW s \in Slots, LockInv(s), TimerStep
  PROVE  LockInv(s)' /\ LockStep(s)
  <1>1. UNCHANGED <<claim, runRec, taskRec, pc, forced, release>>
    BY DEF TimerStep, TickReconciles, TickSkipsReconcile, PassA, PassAEnds, PassB, PassBEnds,
       TickLists, Check, TickEnds, TimerDies, storeVars, execVars
  <1>2. UNCHANGED Recorded /\ RunsOf(s)' = RunsOf(s) /\ RunsOf(s) \subseteq Runs
    BY <1>1 DEF Recorded, RunsOf
  <1>3. KeepsRuns(s)' /\ FreshOK(s)' /\ LockStep(s)
    BY <1>1, <1>2, SlotStepMeans DEF LockInv, KeepsRuns, FreshOK, Active
  <1>4. trk.at # "idle" => tick.at = "check"
    BY DEF LockInv, CheckedOK
  <1>5. ASSUME UNCHANGED trk, trk.at = "idle", tick'.at # "check"
        PROVE  ListedOK(s)' /\ CheckedOK(s)'
    BY <1>5 DEF ListedOK, CheckedOK
  <1>6. tick \in [at : TickAt, claims : SUBSET Claims,
                  intents : SUBSET [run : Runs, intent : Intents]]
    BY DEF TypeInv, TypeOK
  <1>7. CASE TickReconciles \/ TickSkipsReconcile
    BY <1>3, <1>4, <1>5, <1>7 DEF TickReconciles, TickSkipsReconcile, NoTick, trackVars, LockInv
  <1>8. ASSUME NEW c \in tick.claims, PassA(c) PROVE LockInv(s)' /\ LockStep(s)
    <2>1. tick'.at = tick.at
      BY <1>6, <1>8 DEF PassA
    <2> QED BY <1>3, <1>4, <1>5, <1>8, <2>1 DEF PassA, trackVars, LockInv
  <1>9. ASSUME NEW f \in tick.intents, PassB(f) PROVE LockInv(s)' /\ LockStep(s)
    <2>1. tick'.at = tick.at
      BY <1>6, <1>9 DEF PassB
    <2> QED BY <1>3, <1>4, <1>5, <1>9, <2>1 DEF PassB, trackVars, LockInv
  <1>10. CASE PassAEnds \/ PassBEnds
    <2>1. tick'.at \in {"pass_b", "list"} /\ tick.at \in {"pass_a", "pass_b"}
      BY <1>6, <1>10 DEF PassAEnds, PassBEnds
    <2> QED BY <1>3, <1>4, <1>5, <1>10, <2>1 DEF PassAEnds, PassBEnds, trackVars, LockInv
  <1>11. CASE TickLists
    <2>1. trk.at = "idle" /\ trk' = trk
      BY <1>4, <1>11 DEF TickLists, trackVars
    <2>2. PICK found \in SUBSET ActiveClaims :
            tick' = [NoTick EXCEPT !.at = "check", !.claims = found]
      BY <1>11 DEF TickLists
    <2>3. tick'.claims \subseteq ActiveClaims
      BY <2>2 DEF NoTick
    <2>4. \A c \in ActiveClaims : claim[SlotOf[c.run]] = c
      BY DEF ActiveClaims, TypeInv, ClaimOK
    <2>5. ListedOK(s)'
      BY <1>1, <1>2, <2>1, <2>3, <2>4 DEF ListedOK, Active
    <2> QED BY <1>3, <2>1, <2>5 DEF CheckedOK, LockInv
  <1>12. ASSUME NEW c \in tick.claims, Check(c) PROVE LockInv(s)' /\ LockStep(s)
    <2>1. /\ tick.at = "check" /\ trk.at = "idle"
          /\ tick' = [tick EXCEPT !.claims = @ \ {c}]
          /\ trk' = [NoCheck EXCEPT !.at = "read_intent", !.claim = c, !.timedOut = late[c.run]]
      BY <1>12 DEF Check, Checking
    <2>2. tick'.at = "check" /\ tick'.claims = tick.claims \ {c}
      BY <2>1, <1>6
    <2>3. trk'.at = "read_intent" /\ trk'.claim = c
      BY <2>1 DEF NoCheck
    <2>4. ListedOK(s)'
      BY <1>1, <1>2, <1>12, <2>1, <2>2, <2>3 DEF LockInv, ListedOK, Active, TrkRun
    <2>5. CheckedOK(s)'
      BY <1>1, <1>2, <1>12, <2>1, <2>2, <2>3 DEF LockInv, ListedOK, CheckedOK, Active, TrkRun
    <2> QED BY <1>3, <2>4, <2>5 DEF LockInv
  <1>13. CASE TickEnds
    BY <1>3, <1>4, <1>5, <1>13 DEF TickEnds, NoTick, trackVars, LockInv
  <1>14. CASE TimerDies
    BY <1>3, <1>14 DEF TimerDies, NoTick, NoCheck, ListedOK, CheckedOK, LockInv
  <1> QED BY <1>7, <1>8, <1>9, <1>10, <1>11, <1>12, <1>13, <1>14 DEF TimerStep

(* The endpoints: the release of a run of another slot writes nothing of s *)
(* and deletes another claim.                                              *)
LEMMA EndpointLock ==
  ASSUME TypeInv, NEW s \in Slots, LockInv(s), Peaceful(s), EndpointStep
  PROVE  LockInv(s)' /\ LockStep(s)
  <1> USE DEF storeVars, execVars, trackVars, planeVars
  <1>1. claim \in [Slots -> Claims] /\ \A q \in RunsOf(s) : q \in Runs /\ SlotOf[q] = s
    BY DEF TypeInv, TypeOK, StoreTypeOK, RunsOf
  <1>2. ASSUME UNCHANGED <<claim, runRec, taskRec, pc, tick, trk>>
        PROVE  LockInv(s)' /\ LockStep(s)
    BY <1>2, SlotFrame
  <1>3. ASSUME NEW p \in Operators, NEW r \in Runs,
               OperatorCancels(p, r) \/ OperatorReleases(p, r)
        PROVE  LockInv(s)' /\ LockStep(s)
    BY <1>2, <1>3 DEF OperatorCancels, OperatorReleases
  <1>4. ASSUME NEW p \in Operators, RelFind(p) \/ RelDeleteIntent(p) \/ RelDies(p)
        PROVE  LockInv(s)' /\ LockStep(s)
    BY <1>2, <1>4 DEF RelFind, RelDeleteIntent, RelDies
  <1>5. ASSUME NEW p \in Operators, RelWriteRun(p) \/ RelWriteTasks(p) \/ RelDeleteClaim(p)
        PROVE  LockInv(s)' /\ LockStep(s)
    <2>1. /\ release[p].run \in Runs \ RunsOf(s)
          /\ UNCHANGED <<pc, tick, trk>>
      BY <1>5 DEF RelWriteRun, RelWriteTasks, RelDeleteClaim, Peaceful, TypeInv, ActingOK
    <2>2. UNCHANGED claim[s]
      BY <1>1, <1>5, <2>1, StoreAssumption DEF RelWriteRun, RelWriteTasks, RelDeleteClaim, RunsOf
    <2>3. \A q \in RunsOf(s) : UNCHANGED <<runRec[q], taskRec[q]>>
      BY <1>1, <1>5, <2>1 DEF RelWriteRun, RelWriteTasks, RelDeleteClaim, WriteRun, WriteTasks,
         TypeInv, TypeOK, StoreTypeOK
    <2> QED BY <2>1, <2>2, <2>3, SlotFrame
  <1> QED BY <1>3, <1>4, <1>5 DEF EndpointStep, ReleaseStep

-----------------------------------------------------------------------------
(* Every step keeps LockInv and is a step of SlotLock or invisible to it.  *)
LEMMA NextLock ==
  ASSUME TypeInv, NEW s \in Slots, LockInv(s), Peaceful(s), [Next]_vars
  PROVE  LockInv(s)' /\ LockStep(s)
  <1> USE DEF storeVars, execVars, cancelVars, trackVars, planeVars
  <1>1. ASSUME UNCHANGED <<claim, runRec, taskRec, pc, tick, trk>>
        PROVE  LockInv(s)' /\ LockStep(s)
    BY <1>1, SlotFrame
  <1>2. CASE ContainerStep /\ UNCHANGED <<execVars, cancelVars, trackVars, planeVars>>
    BY <1>1, <1>2 DEF ContainerStep, ContainerBeats, ContainerFinishes, ContainerExits,
       ContainerLosesFlush, StopLands, ExecutionVanishes
  <1>3. CASE ExecutorStep /\ UNCHANGED <<cancelVars, trackVars, planeVars>>
    BY <1>3, DispatchLock
  <1>4. ASSUME NEW p \in Callers, RequestStep(p), UNCHANGED <<execVars, trackVars, planeVars>>
        PROVE  LockInv(s)' /\ LockStep(s)
    BY <1>1, <1>4 DEF RequestStep, ReqFind, ReqCreate, ReqReadExisting, ReqStop, ReqUpdate, ReqDies
  <1>5. CASE ReconcileStep /\ UNCHANGED <<execVars, trackVars, planeVars>>
    BY <1>1, <1>5 DEF ReconcileStep, RecFind, RecDrop, RecResubmit, RecUpdate, RecWait, RecNudge,
       RecFails
  <1>6. CASE TrackStep /\ UNCHANGED <<execVars, cancelVars, planeVars>>
    BY <1>6, TrackLock
  <1>7. ASSUME NEW r \in Runs, DeadlinePasses(r) PROVE LockInv(s)' /\ LockStep(s)
    BY <1>1, <1>7 DEF DeadlinePasses
  <1>8. CASE UNCHANGED vars
    BY <1>1, <1>8 DEF vars
  <1> QED BY <1>2, <1>3, <1>4, <1>5, <1>6, <1>7, <1>8, TimerLock, EndpointLock DEF Next

(* In a slot that nothing takes a claim from no run is lost, whatever      *)
(* calls fail, wherever the hosts die and whatever is forced or released   *)
(* in other slots.  A request with force that finds its slot free is among *)
(* the runs this covers.                                                   *)
THEOREM PeacefulSlotsKeepRuns ==
  ASSUME NEW s \in Slots
  PROVE  Spec => ([]Peaceful(s) => []KeepsRuns(s))
  <1>1. TypeInv /\ LockInv(s) /\ Peaceful(s) /\ [Next]_vars => (TypeInv /\ LockInv(s))'
    BY NextTypes, NextLock
  <1>2. Init => TypeInv /\ LockInv(s)
    BY InitTypes, InitLock
  <1>3. LockInv(s) => KeepsRuns(s)
    BY DEF LockInv
  <1> QED BY <1>1, <1>2, <1>3, PTL DEF Spec

(* Such a slot is a lock, seen alone: it passes to the next run only after *)
(* the history of the run that held it is complete, and no run takes it    *)
(* after that.                                                             *)
THEOREM PeacefulSlotsAreLocks ==
  ASSUME NEW s \in Slots
  PROVE  Spec => ([]Peaceful(s) => LockOf(s)!Locking)
  <1>1. LockStep(s) <=>
          [LockOf(s)!Step]_<<[x \in {s} |-> claim[x].run], Recorded \cap RunsOf(s)>>
    BY DEF LockStep
  <1>2. TypeInv /\ LockInv(s) /\ Peaceful(s) /\ [Next]_vars =>
          /\ (TypeInv /\ LockInv(s))'
          /\ [LockOf(s)!Step]_<<[x \in {s} |-> claim[x].run], Recorded \cap RunsOf(s)>>
    BY <1>1, NextTypes, NextLock
  <1>3. Init => TypeInv /\ LockInv(s) /\ LockOf(s)!Free
    BY InitTypes, InitLock
  <1> QED BY <1>2, <1>3, PTL DEF Spec, LockOf!Locking

-----------------------------------------------------------------------------
(* Without force and force-release every slot is left in peace, and the    *)
(* claims of all slots together implement SlotLock.                        *)

Unforced ==
  /\ \A r \in Runs : ~forced[r] /\ pc[r] \notin {"force_new", "force_over"}
  /\ \A p \in Operators : release[p].at = "idle"

AllLocks == \A s \in Slots : LockInv(s)

(* No overwrite and no release is ever in progress.                        *)
LEMMA UnforcedKept ==
  ASSUME TypeInv, Unforced, [Next]_vars, ~AllowForce, ~AllowRelease PROVE Unforced'
  <1>1. pc \in [Runs -> PCs] /\ forced \in [Runs -> BOOLEAN]
    BY DEF TypeInv, TypeOK, ExecutorTypeOK
  <1>2. UNCHANGED release
    <2>1. \A p \in Operators, r \in Runs : ~OperatorReleases(p, r)
      BY DEF OperatorReleases
    <2>2. \A p \in Operators : ~ReleaseStep(p)
      BY DEF Unforced, ReleaseStep, RelFind, RelWriteRun, RelWriteTasks, RelDeleteClaim,
         RelDeleteIntent, RelDies
    <2> QED BY <2>1, <2>2, WhoChanges
  <1>3. CASE UNCHANGED <<pc, forced, ref>>
    BY <1>2, <1>3 DEF Unforced
  <1>4. ASSUME NEW b \in Batches, Request(b) PROVE Unforced'
    <2>1. PICK f \in {FALSE, AllowForce} :
            forced' = [r \in Runs |-> IF r \in b THEN f ELSE forced[r]]
      BY <1>4 DEF Request
    <2>2. ~f
      BY <2>1
    <2>3. pc' = [r \in Runs |-> IF r \in b THEN "claiming" ELSE pc[r]]
      BY <1>4 DEF Request
    <2> QED BY <1>1, <1>2, <2>1, <2>2, <2>3 DEF Unforced
  <1>5. ASSUME NEW b \in Batches, Join(b) \/ HostDies(b) PROVE Unforced'
    BY <1>1, <1>2, <1>5 DEF Join, HostDies, Unforced
  <1>6. ASSUME NEW r \in Runs, DispatchRun(r) PROVE Unforced'
    <2>1. UNCHANGED forced /\ ~forced[r] /\ pc[r] \notin {"force_new", "force_over"}
      BY <1>6 DEF Unforced, DispatchRun, Create, ForceHead, ForceCreate, ForceOverwrite,
          ClaimThrows, ClaimResponseLost, Start, StartFails, SecondWrite,
          SecondWriteResponseLost, SecondWriteThrows
    <2>2. \/ UNCHANGED pc
          \/ \E label \in {"claimed", "rejected_exists", "threw", "dispatched",
                        "untracked", "dead"} :
               Goto(r, label)
      BY <1>6, <2>1 DEF DispatchRun, Create, ForceHead, ForceCreate, ForceOverwrite, PutIfAbsent,
         ClaimThrows, ClaimResponseLost, Start, StartFails, SecondWrite,
         SecondWriteResponseLost, SecondWriteThrows
    <2> QED BY <1>1, <1>2, <2>1, <2>2 DEF Unforced, Goto
  <1> QED BY <1>3, <1>4, <1>5, <1>6, WhoChanges DEF ExecutorStep

LEMMA UnforcedIsPeaceful == Unforced => \A s \in Slots : Peaceful(s)
  BY DEF Unforced, Peaceful, RunsOf

LEMMA LocksHold ==
  ASSUME ~AllowForce, ~AllowRelease PROVE Spec => [](TypeInv /\ Unforced /\ AllLocks)
  <1>1. TypeInv /\ Unforced /\ AllLocks /\ [Next]_vars => (TypeInv /\ Unforced /\ AllLocks)'
    BY NextTypes, UnforcedKept, UnforcedIsPeaceful, NextLock DEF AllLocks
  <1>2. Init => TypeInv /\ Unforced /\ AllLocks
    BY InitTypes, InitLock DEF Init, ExecutorInit, NoRelease, Unforced, AllLocks
  <1> QED BY <1>1, <1>2, PTL DEF Spec

(* Without force and force-release no run is lost: whatever calls fail and *)
(* wherever the hosts die, a run that was claimed keeps its claim until    *)
(* both its history records are written.                                   *)
THEOREM RunsAreNotLost ==
  ASSUME ~AllowForce, ~AllowRelease
  PROVE  Spec => []NoLostRun
  <1>1. AllLocks => NoLostRun
    BY StoreAssumption DEF AllLocks, LockInv, KeepsRuns, RunsOf, NoLostRun
  <1> QED BY <1>1, LocksHold, PTL

\* A step that leaves the claims of the other slots and the records of their
\* runs alone.
OnlySlot(s) ==
  /\ \A x \in Slots \ {s} : UNCHANGED claim[x]
  /\ \A q \in Runs \ RunsOf(s) : q \in Recorded' <=> q \in Recorded

(* Every step is about one slot, or about none.                            *)
LEMMA OneSlotAtATime ==
  ASSUME TypeInv, [Next]_vars
  PROVE  \/ UNCHANGED <<claim, Recorded>>
         \/ \E s \in Slots : OnlySlot(s)
  <1>1. UNCHANGED <<runRec, taskRec>> => UNCHANGED Recorded
    BY DEF Recorded
  <1>2. claim \in [Slots -> Claims]
    BY DEF TypeInv, TypeOK, StoreTypeOK
  <1>3. ASSUME NEW r \in Runs, UNCHANGED claim \/ (\E c : claim' = [claim EXCEPT ![SlotOf[r]] = c]),
               \A q \in Runs \ {r} : UNCHANGED <<runRec[q], taskRec[q]>>
        PROVE  \E s \in Slots : OnlySlot(s)
    <2>1. PICK s \in Slots : s = SlotOf[r]
      BY StoreAssumption
    <2>2. \A x \in Slots \ {s} : UNCHANGED claim[x]
      BY <1>2, <1>3, <2>1
    <2>3. \A q \in Runs \ RunsOf(s) : q \in Recorded' <=> q \in Recorded
      BY <1>3, <2>1 DEF RunsOf, Recorded
    <2> QED BY <2>2, <2>3 DEF OnlySlot
  <1>4. ASSUME NEW r \in Runs, DispatchRun(r), UNCHANGED <<cancelVars, trackVars, planeVars>>
        PROVE  \E s \in Slots : OnlySlot(s)
    <2>1. UNCHANGED <<runRec, taskRec>>
      BY <1>4 DEF DispatchRun, Create, ForceHead, ForceCreate, ForceOverwrite, ClaimThrows,
         ClaimResponseLost, Start, StartFails, SecondWrite, SecondWriteResponseLost,
         SecondWriteThrows, storeVars
    <2>2. UNCHANGED claim \/ \E c : claim' = [claim EXCEPT ![SlotOf[r]] = c]
      BY <1>4 DEF DispatchRun, Create, ForceHead, ForceCreate, ForceOverwrite, PutIfAbsent,
         ClaimThrows, ClaimResponseLost, Start, StartFails, SecondWrite,
         SecondWriteResponseLost, SecondWriteThrows, PutClaim, storeVars
    <2> QED BY <1>3, <2>1, <2>2
  <1>5. ASSUME NEW b \in Batches, Request(b) \/ Join(b) \/ HostDies(b)
        PROVE  UNCHANGED <<claim, runRec, taskRec>>
    BY <1>5 DEF Request, Join, HostDies, storeVars
  <1>6. CASE TrackStep
    <2>1. TrkRun \in Runs \/ UNCHANGED <<claim, runRec, taskRec>>
      BY <1>6 DEF TrackStep, TrkReadIntent, ResolveDispatchFailed, ResolveFromBlob, ResolveFromAca,
         AcaUnreachable, Defer, TrkWriteRun, AllLookedAt, TrkWriteTasks, TrkDeleteClaim,
         TrkDeleteIntent, CheckThrows, storeVars, TypeInv, ActingOK
    <2>2. /\ claim' = claim \/ claim' = [claim EXCEPT ![SlotOf[TrkRun]] = NoClaim]
          /\ \A q \in Runs : q # TrkRun => UNCHANGED <<runRec[q], taskRec[q]>>
      BY <1>6 DEF TrackStep, TrkReadIntent, ResolveDispatchFailed, ResolveFromBlob, ResolveFromAca,
         AcaUnreachable, Defer, TrkWriteRun, TrkWriteTasks, TrkDeleteClaim, TrkDeleteIntent,
         CheckThrows, storeVars, WriteRun, WriteTasks, TypeInv, TypeOK, StoreTypeOK
    <2>3. CASE TrkRun \in Runs
      BY <1>3, <2>2, <2>3
    <2> QED BY <1>1, <2>1, <2>3
  <1>7. ASSUME NEW p \in Operators, RelWriteRun(p) \/ RelWriteTasks(p) \/ RelDeleteClaim(p)
        PROVE  \E s \in Slots : OnlySlot(s)
    <2>1. release[p].run \in Runs
      BY <1>7 DEF RelWriteRun, RelWriteTasks, RelDeleteClaim, TypeInv, ActingOK
    <2>2. /\ claim' = claim \/ claim' = [claim EXCEPT ![SlotOf[release[p].run]] = NoClaim]
          /\ \A q \in Runs : q # release[p].run => UNCHANGED <<runRec[q], taskRec[q]>>
      BY <1>7 DEF RelWriteRun, RelWriteTasks, RelDeleteClaim, WriteRun, WriteTasks, TypeInv, TypeOK,
         StoreTypeOK
    <2> QED BY <1>3, <2>1, <2>2
  <1>8. \/ UNCHANGED <<claim, runRec, taskRec>> \/ TrackStep
        \/ ExecutorStep /\ UNCHANGED <<cancelVars, trackVars, planeVars>>
        \/ \E p \in Operators : RelWriteRun(p) \/ RelWriteTasks(p) \/ RelDeleteClaim(p)
    <2> USE DEF storeVars
    <2>1. ContainerStep \/ ReconcileStep \/ TimerStep \/ (\E p \in Callers : RequestStep(p))
            => UNCHANGED <<claim, runRec, taskRec>>
      BY DEF ContainerStep, ContainerBeats, ContainerFinishes, ContainerExits, ContainerLosesFlush,
         StopLands, ExecutionVanishes, ReconcileStep, RecFind, RecDrop, RecResubmit, RecUpdate,
         RecWait, RecNudge, RecFails, RequestStep, ReqFind, ReqCreate, ReqReadExisting, ReqStop,
         ReqUpdate, ReqDies, TimerStep, TickReconciles, TickSkipsReconcile, PassA, PassAEnds,
         PassB, PassBEnds, TickLists, Check, TickEnds, TimerDies
    <2>2. EndpointStep =>
            \/ UNCHANGED <<claim, runRec, taskRec>>
            \/ \E p \in Operators : RelWriteRun(p) \/ RelWriteTasks(p) \/ RelDeleteClaim(p)
      BY DEF EndpointStep, OperatorCancels, OperatorReleases, ReleaseStep, RelFind, RelDeleteIntent,
         RelDies
    <2>3. (\E r \in Runs : DeadlinePasses(r)) \/ UNCHANGED vars =>
            UNCHANGED <<claim, runRec, taskRec>>
      BY DEF DeadlinePasses, vars
    <2> QED BY <2>1, <2>2, <2>3 DEF Next
  <1> QED BY <1>1, <1>4, <1>5, <1>6, <1>7, <1>8 DEF ExecutorStep

(* The steps of the slots are those of SlotLock for all of them.           *)
LEMMA JointStep ==
  ASSUME TypeInv, [Next]_vars, \A s \in Slots : LockStep(s)
  PROVE  [Lock!Step]_<<[s \in Slots |-> claim[s].run], Recorded>>
  <1> DEFINE holder == [s \in Slots |-> claim[s].run]
  <1>1. CASE UNCHANGED <<claim, Recorded>>
    BY <1>1
  <1>2. ASSUME NEW s \in Slots, OnlySlot(s) PROVE [Lock!Step]_<<holder, Recorded>>
    <2>1. \A h : claim'[s].run = h <=> holder' = [holder EXCEPT ![s] = h]
      BY <1>2 DEF OnlySlot
    <2>2. claim'[s].run = claim[s].run <=> holder' = holder
      BY <1>2 DEF OnlySlot
    <2>3. /\ Recorded' \cap RunsOf(s) = Recorded \cap RunsOf(s) => Recorded' = Recorded
          /\ \A r \in RunsOf(s) : Recorded' \cap RunsOf(s) = (Recorded \cap RunsOf(s)) \cup {r} =>
                                    Recorded' = Recorded \cup {r}
      BY <1>2 DEF OnlySlot, Recorded, RunsOf
    <2>4. \/ \E r \in RunsOf(s) :
               \/ /\ claim[s].run = NoRun /\ r \notin Recorded
                  /\ claim'[s].run = r /\ Recorded' \cap RunsOf(s) = Recorded \cap RunsOf(s)
               \/ /\ claim[s].run = r /\ claim'[s].run = claim[s].run
                  /\ Recorded' \cap RunsOf(s) = (Recorded \cap RunsOf(s)) \cup {r}
          \/ /\ claim[s].run \in Recorded /\ claim'[s].run = NoRun
             /\ Recorded' \cap RunsOf(s) = Recorded \cap RunsOf(s)
          \/ claim'[s].run = claim[s].run /\ Recorded' \cap RunsOf(s) = Recorded \cap RunsOf(s)
      <3>1. (Recorded \cap RunsOf(s))' = Recorded' \cap RunsOf(s)
        BY DEF RunsOf
      <3>2. LockStep(s)
        BY <1>2
      <3> QED BY <3>1, <3>2, SlotStepMeans
    <2>5. \A r \in RunsOf(s) : r \in Runs /\ SlotOf[r] = s
      BY DEF RunsOf
    <2>6. holder[s] = claim[s].run
      OBVIOUS
    <2> HIDE DEF holder
    <2>7. ASSUME NEW r \in RunsOf(s), claim[s].run = NoRun, r \notin Recorded, claim'[s].run = r,
                 Recorded' = Recorded
          PROVE  Lock!Acquire(r)
      BY <2>1, <2>5, <2>6, <2>7 DEF Lock!Acquire, holder
    <2>8. ASSUME NEW r \in RunsOf(s), claim[s].run = r, claim'[s].run = claim[s].run,
                 Recorded' = Recorded \cup {r}
          PROVE  Lock!Close(r)
      BY <2>2, <2>5, <2>6, <2>8 DEF Lock!Close, holder
    <2>9. ASSUME claim[s].run \in Recorded, claim'[s].run = NoRun, Recorded' = Recorded
          PROVE  Lock!Release(s)
      BY <2>1, <2>6, <2>9 DEF Lock!Release, holder
    <2> QED BY <2>2, <2>3, <2>4, <2>5, <2>7, <2>8, <2>9 DEF Lock!Step
  <1> QED BY <1>1, <1>2, OneSlotAtATime

(* Without force and force-release the control plane implements SlotLock:  *)
(* a slot passes to the next run only after the history of the run that    *)
(* held it is complete, and no run takes a slot after that.                *)
THEOREM ClaimsImplementLocks ==
  ASSUME ~AllowForce, ~AllowRelease
  PROVE  Spec => ClaimsAreLocks
  <1>1. TypeInv /\ Unforced /\ AllLocks /\ [Next]_vars =>
          [Lock!Step]_<<[s \in Slots |-> claim[s].run], Recorded>>
    BY UnforcedIsPeaceful, NextLock, JointStep DEF AllLocks
  <1>2. Init => Lock!Free
    BY StoreAssumption DEF Init, StoreInit, Lock!Free, Recorded, NoClaim, NewClaim
  <1> QED BY <1>1, <1>2, LocksHold, PTL DEF Spec, ClaimsAreLocks, Lock!Locking

-----------------------------------------------------------------------------
(***************************************************************************)
(* The other safety properties of the control plane, for every value of    *)
(* the constants: an intent is never taken back, a recorded status has its *)
(* cause, a recorded run has ended, and so no two runs of a slot work at   *)
(* the same time; a claim changes hands by force only, and an intent does  *)
(* not go before the claim of its run.                                     *)
(***************************************************************************)

-----------------------------------------------------------------------------
(* Intents.                                                                *)

\* Whoever is about to write back an intent saw it in state cancel_requested.
WritersOK ==
  /\ \A p \in Callers : req[p].at \in {"stop", "bump", "advance"} =>
                          req[p].intent.state = "cancel_requested"
  /\ rec.at \in {"bump", "advance"} => rec.intent.state = "cancel_requested"

\* The pass that waits for the executions to end.
Waited(i) == IF i.count + 1 >= StallThreshold
             THEN [Bumped(i) EXCEPT !.state = "cancel_stalled"]
             ELSE Bumped(i)

\* What a step may do to an intent.
IntentMoves(r) ==
  \/ intent'[r] = intent[r]
  \/ intent'[r] = NoIntent(intent[r].gen)
  \/ /\ ~HasIntent(r)
     /\ \E p \in Callers : /\ req[p].at = "create" /\ req[p].run = r
                           /\ intent'[r] = Requested(intent[r].gen + 1, req[p].trigger)
  \/ /\ intent[r].state = "cancel_requested"
     /\ intent'[r] \in {Bumped(intent[r]), Submitted(intent[r])}
  \/ intent[r].state = "cancel_submitted" /\ intent'[r] = Waited(intent[r])

(* At first nobody is about to write an intent.                            *)
LEMMA InitWriters == Init => WritersOK
  BY DEF Init, CancellerInit, NoRequest, NoReconcile, WritersOK

(* Two requests of different callers do not touch each other.              *)
LEMMA RequestWriters ==
  ASSUME TypeInv, WritersOK, NEW p \in Callers, RequestStep(p)
  PROVE  WritersOK' /\ \A r \in Runs : IntentMoves(r)
  <1>1. /\ req \in [Callers -> [at : ReqAt, run : Runs \cup {NoRun},
                                trigger : CancelTriggers \cup {None},
                                claim : Claims, intent : Intents]]
        /\ intent \in [Runs -> Intents]
        /\ req[p].at # "idle" => req[p].run \in Runs
    BY DEF TypeInv, TypeOK, CancellerTypeOK, StoreTypeOK, ActingOK
  <1>2. UNCHANGED rec
    BY DEF RequestStep, ReqFind, ReqCreate, ReqReadExisting, ReqStop, ReqUpdate, ReqDies
  <1>3. NoRequest.at = "idle"
    BY DEF NoRequest
  <1>4. Finish(p) => WritersOK'
    BY <1>1, <1>2, <1>3 DEF Finish, WritersOK
  <1>5. UNCHANGED intent => \A r \in Runs : IntentMoves(r)
    BY DEF IntentMoves
  <1>6. CASE ReqFind(p)
    <2>1. WritersOK'
      <3>1. CASE req' = [req EXCEPT ![p].at = "create", ![p].claim = claim[SlotOf[req[p].run]]]
        BY <3>1, <1>1, <1>2 DEF WritersOK
      <3> QED BY <1>6, <3>1, <1>4 DEF ReqFind
    <2> QED BY <1>6, <2>1, <1>5 DEF ReqFind
  <1>7. CASE ReqCreate(p)
    <2> DEFINE r == req[p].run
               new == Requested(intent[r].gen + 1, req[p].trigger)
    <2>1. r \in Runs /\ new.state = "cancel_requested"
      BY <1>1, <1>7 DEF ReqCreate, Requested
    <2>2. CASE /\ ~HasIntent(r)
               /\ intent' = [intent EXCEPT ![r] = new]
               /\ req' = [req EXCEPT ![p].at = "stop", ![p].intent = new]
      <3>1. WritersOK'
        BY <2>1, <2>2, <1>1, <1>2 DEF WritersOK
      <3>2. req[p].at = "create" /\ intent'[r] = new
        BY <1>1, <1>7, <2>1, <2>2 DEF ReqCreate
      <3>3. \A q \in Runs : IntentMoves(q)
        BY <1>1, <2>1, <2>2, <3>2 DEF IntentMoves
      <3> QED BY <3>1, <3>3
    <2>3. CASE ReqGoto(p, "read_existing") /\ UNCHANGED intent
      BY <2>3, <1>1, <1>2, <1>5 DEF ReqGoto, WritersOK
    <2> QED BY <1>7, <2>2, <2>3, <1>4, <1>5 DEF ReqCreate
  <1>8. CASE ReqReadExisting(p)
    <2>1. UNCHANGED intent
      BY <1>8 DEF ReqReadExisting, storeVars
    <2>2. WritersOK'
      <3>1. CASE /\ intent[req[p].run].state = "cancel_requested"
                 /\ req' = [req EXCEPT ![p].at = "stop", ![p].intent = intent[req[p].run]]
        BY <3>1, <1>1, <1>2 DEF WritersOK
      <3> QED BY <1>8, <3>1, <1>4 DEF ReqReadExisting
    <2> QED BY <2>1, <2>2, <1>5
  <1>9. CASE ReqStop(p)
    <2>1. req[p].at = "stop" /\ (ReqGoto(p, "advance") \/ ReqGoto(p, "bump")) /\ UNCHANGED intent
      BY <1>9 DEF ReqStop
    <2> QED BY <2>1, <1>1, <1>2, <1>5 DEF ReqGoto, WritersOK
  <1>10. CASE ReqUpdate(p)
    <2>1. /\ req[p].at \in {"bump", "advance"} /\ Finish(p)
          /\ req[p].intent.state = "cancel_requested"
      BY <1>10 DEF ReqUpdate, WritersOK
    <2>2. PICK new \in {Bumped(req[p].intent), Submitted(req[p].intent)} :
            intent' = [intent EXCEPT ![req[p].run] =
                         IF intent[req[p].run] = req[p].intent THEN new ELSE intent[req[p].run]]
      BY <1>10 DEF ReqUpdate, TryUpdateIntent
    <2>3. \A r \in Runs : IntentMoves(r)
      BY <2>1, <2>2, <1>1 DEF IntentMoves
    <2> QED BY <2>1, <2>3, <1>4
  <1>11. CASE ReqDies(p)
    BY <1>11, <1>4, <1>5 DEF ReqDies
  <1> QED BY <1>6, <1>7, <1>8, <1>9, <1>10, <1>11 DEF RequestStep

(* The reconciler's step for one intent.                                   *)
LEMMA ReconcileWriters ==
  ASSUME TypeInv, WritersOK, ReconcileStep
  PROVE  WritersOK' /\ \A r \in Runs : IntentMoves(r)
  <1>1. /\ rec \in [at : RecAt, run : Runs \cup {NoRun}, intent : Intents, claim : Claims]
        /\ intent \in [Runs -> Intents]
        /\ rec.at # "idle" => rec.run \in Runs
    BY DEF TypeInv, TypeOK, CancellerTypeOK, StoreTypeOK, ActingOK
  <1>2. UNCHANGED req
    BY DEF ReconcileStep, RecFind, RecDrop, RecResubmit, RecUpdate, RecWait, RecNudge, RecFails
  <1>3. RecFinish => WritersOK'
    BY <1>2 DEF RecFinish, NoReconcile, WritersOK
  <1>4. UNCHANGED intent => \A r \in Runs : IntentMoves(r)
    BY DEF IntentMoves
  <1>5. CASE RecFind
    <2>1. UNCHANGED intent /\ rec'.at \in {"act", "drop"}
      BY <1>5, <1>1 DEF RecFind, RecGoto
    <2> QED BY <2>1, <1>2, <1>4 DEF WritersOK
  <1>6. CASE RecDrop
    <2>1. rec.run \in Runs /\ RecFinish
      BY <1>1, <1>6 DEF RecDrop
    <2>2. \A r \in Runs : IntentMoves(r)
      BY <1>6, <2>1, <1>1 DEF RecDrop, DeleteIntent, IntentMoves
    <2> QED BY <2>1, <2>2, <1>3
  <1>7. CASE RecResubmit
    <2>1. UNCHANGED intent /\ rec.intent.state = "cancel_requested" /\ rec'.intent = rec.intent
      BY <1>7, <1>1 DEF RecResubmit, RecGoto
    <2> QED BY <2>1, <1>2, <1>4 DEF WritersOK
  <1>8. CASE RecUpdate
    <2>1. RecFinish /\ rec.run \in Runs /\ rec.intent.state = "cancel_requested"
      BY <1>8, <1>1 DEF RecUpdate, WritersOK
    <2>2. PICK new \in {Bumped(rec.intent), Submitted(rec.intent)} :
            intent' = [intent EXCEPT ![rec.run] =
                         IF intent[rec.run] = rec.intent THEN new ELSE intent[rec.run]]
      BY <1>8 DEF RecUpdate, TryUpdateIntent
    <2>3. \A r \in Runs : IntentMoves(r)
      BY <2>1, <2>2, <1>1 DEF IntentMoves
    <2> QED BY <2>1, <2>3, <1>3
  <1>9. CASE RecWait
    <2>1. RecFinish /\ rec.run \in Runs /\ rec.intent.state = "cancel_submitted"
      BY <1>9, <1>1 DEF RecWait
    <2>2. intent' = [intent EXCEPT ![rec.run] =
                       IF intent[rec.run] = rec.intent THEN Waited(rec.intent)
                       ELSE intent[rec.run]]
      BY <1>9 DEF RecWait, TryUpdateIntent, Waited
    <2>3. \A r \in Runs : IntentMoves(r)
      BY <2>1, <2>2, <1>1 DEF IntentMoves
    <2> QED BY <2>1, <2>3, <1>3
  <1>10. CASE RecNudge
    BY <1>10, <1>3, <1>4 DEF RecNudge
  <1>11. CASE RecFails
    BY <1>11, <1>3, <1>4 DEF RecFails
  <1> QED BY <1>5, <1>6, <1>7, <1>8, <1>9, <1>10, <1>11 DEF ReconcileStep

(* Every step of the control plane moves an intent in one of these ways.   *)
LEMMA NextWriters ==
  ASSUME TypeInv, WritersOK, [Next]_vars
  PROVE  WritersOK' /\ \A r \in Runs : IntentMoves(r)
  <1>1. UNCHANGED <<req, rec>> => WritersOK'
    BY DEF WritersOK
  <1>2. UNCHANGED intent => \A r \in Runs : IntentMoves(r)
    BY DEF IntentMoves
  <1>3. intent \in [Runs -> Intents]
    BY DEF TypeInv, TypeOK, StoreTypeOK
  <1>4. \A r \in Runs : DeleteIntent(r) => \A q \in Runs : IntentMoves(q)
    BY <1>3 DEF DeleteIntent, IntentMoves
  <1>5. \A p \in Callers : \A r, x : Requesting(p, r, x) /\ UNCHANGED rec => WritersOK'
    <2>1. \A r, x : [NoRequest EXCEPT !.at = "find", !.run = r, !.trigger = x].at = "find"
      BY DEF NoRequest
    <2> QED BY <2>1 DEF Requesting, WritersOK, TypeInv, TypeOK, CancellerTypeOK
  <1>6. CASE ContainerStep /\ UNCHANGED <<execVars, cancelVars, trackVars, planeVars>>
    <2>1. UNCHANGED intent
      BY <1>6 DEF ContainerStep, ContainerBeats, ContainerFinishes, ContainerExits,
         ContainerLosesFlush, StopLands, ExecutionVanishes
    <2> QED BY <1>6, <2>1, <1>1, <1>2 DEF cancelVars
  <1>7. CASE ExecutorStep /\ UNCHANGED <<cancelVars, trackVars, planeVars>>
    <2>1. UNCHANGED intent
      BY <1>7 DEF ExecutorStep, DispatchRun, Request, Join, HostDies, Create, ForceHead,
         ForceCreate, ForceOverwrite, ClaimThrows, ClaimResponseLost, Start, StartFails,
         SecondWrite, SecondWriteResponseLost, SecondWriteThrows, storeVars
    <2> QED BY <1>7, <2>1, <1>1, <1>2 DEF cancelVars
  <1>8. CASE TrackStep /\ UNCHANGED <<execVars, cancelVars, planeVars>>
    <2>1. UNCHANGED intent \/ TrkDeleteIntent
      BY <1>8 DEF TrackStep, TrkReadIntent, ResolveDispatchFailed, ResolveFromBlob,
         ResolveFromAca, AcaUnreachable, Defer, TrkWriteRun, TrkWriteTasks, TrkDeleteClaim,
         CheckThrows, storeVars
    <2>2. TrkDeleteIntent => \A r \in Runs : IntentMoves(r)
      <3>1. trk.at = "delete_intent" => TrkRun \in Runs
        BY DEF TypeInv, ActingOK
      <3> QED BY <3>1, <1>2, <1>4 DEF TrkDeleteIntent
    <2> QED BY <1>8, <2>1, <2>2, <1>1, <1>2 DEF cancelVars
  <1>9. CASE TimerStep
    <2>1. UNCHANGED intent
      BY <1>9 DEF TimerStep, TickReconciles, TickSkipsReconcile, PassA, PassAEnds, PassB,
         PassBEnds, TickLists, Check, TickEnds, TimerDies, storeVars
    <2>2. WritersOK'
      <3>1. ASSUME NEW c \in tick.claims, PassA(c) PROVE WritersOK'
        BY <3>1, <1>1, <1>5 DEF PassA, Callers
      <3>2. ASSUME NEW f \in tick.intents, PassB(f) PROVE WritersOK'
        BY <3>2 DEF PassB, Reconciling, NoReconcile, WritersOK
      <3>3. CASE TimerDies
        <4>1. NoRequest.at = "idle" /\ NoReconcile.at = "idle"
          BY DEF NoRequest, NoReconcile
        <4> QED BY <3>3, <4>1 DEF TimerDies, Finish, WritersOK, TypeInv, TypeOK, CancellerTypeOK
      <3> QED BY <1>9, <3>1, <3>2, <3>3, <1>1 DEF TimerStep, TickReconciles, TickSkipsReconcile,
                 PassAEnds, PassBEnds, TickLists, Check, TickEnds, cancelVars
    <2> QED BY <2>1, <2>2, <1>2
  <1>10. CASE EndpointStep
    <2>1. ASSUME NEW p \in Operators, NEW r \in Runs, OperatorCancels(p, r)
          PROVE  WritersOK' /\ UNCHANGED intent
      BY <2>1, <1>5 DEF OperatorCancels, Callers, storeVars
    <2>2. ASSUME NEW p \in Operators, NEW r \in Runs, OperatorReleases(p, r)
          PROVE  WritersOK' /\ UNCHANGED intent
      BY <2>2, <1>1 DEF OperatorReleases, storeVars, cancelVars
    <2>3. ASSUME NEW p \in Operators, ReleaseStep(p)
          PROVE  WritersOK' /\ \A r \in Runs : IntentMoves(r)
      <3>1. WritersOK'
        BY <2>3, <1>1 DEF ReleaseStep, RelFind, RelWriteRun, RelWriteTasks, RelDeleteClaim,
           RelDeleteIntent, RelDies, cancelVars
      <3>2. UNCHANGED intent \/ RelDeleteIntent(p)
        BY <2>3 DEF ReleaseStep, RelFind, RelWriteRun, RelWriteTasks, RelDeleteClaim, RelDies
      <3>3. RelDeleteIntent(p) => \A r \in Runs : IntentMoves(r)
        <4>1. release[p].at \in {"drop", "delete_intent"} => release[p].run \in Runs
          BY DEF TypeInv, ActingOK
        <4> QED BY <4>1, <1>2, <1>4 DEF RelDeleteIntent
      <3> QED BY <3>1, <3>2, <3>3, <1>2
    <2> QED BY <1>10, <2>1, <2>2, <2>3, <1>2 DEF EndpointStep
  <1>11. ASSUME NEW r \in Runs, DeadlinePasses(r) PROVE WritersOK' /\ UNCHANGED intent
    BY <1>11, <1>1 DEF DeadlinePasses, cancelVars
  <1>12. CASE UNCHANGED vars
    BY <1>12, <1>1, <1>2 DEF vars, storeVars, cancelVars
  <1> QED BY <1>2, <1>6, <1>7, <1>8, <1>9, <1>10, <1>11, <1>12, RequestWriters, ReconcileWriters
          DEF Next

(* Whoever writes last, an intent is never taken back to an earlier state. *)
THEOREM IntentsNeverRegress == Spec => IntentNeverRegresses
  <1> DEFINE Forward(r) ==
        HasIntent(r) /\ intent'[r].state # "absent" =>
          /\ intent'[r].trigger = intent[r].trigger
          /\ StateRank(intent'[r]) >= StateRank(intent[r])
          /\ intent'[r].state = intent[r].state => intent'[r].count >= intent[r].count
          /\ intent'[r].state = "cancel_stalled" /\ intent[r].state # "cancel_stalled" =>
               intent[r].state = "cancel_submitted" /\ intent'[r].count >= StallThreshold
  <1>1. ASSUME TypeInv, NEW r \in Runs, IntentMoves(r) PROVE Forward(r)
    <2>1. intent[r] \in Intents /\ intent[r].count \in Nat
      BY <1>1 DEF TypeInv, TypeOK, StoreTypeOK, Intents
    <2>2. CASE intent'[r] = intent[r]
      BY <2>1, <2>2 DEF StateRank
    <2>3. CASE intent'[r] = NoIntent(intent[r].gen)
      BY <2>3 DEF NoIntent
    <2>4. CASE intent[r].state = "cancel_requested"
               /\ intent'[r] \in {Bumped(intent[r]), Submitted(intent[r])}
      <3>1. CASE intent'[r] = Bumped(intent[r])
        <4>1. /\ intent'[r].state = intent[r].state /\ intent'[r].trigger = intent[r].trigger
              /\ intent'[r].count = intent[r].count + 1
          BY <3>1, <2>1 DEF Bumped, Intents
        <4> QED BY <4>1, <2>1, <2>4 DEF StateRank
      <3>2. CASE intent'[r] = Submitted(intent[r])
        <4>1. /\ intent'[r].state = "cancel_submitted"
              /\ intent'[r].trigger = intent[r].trigger
          BY <3>2, <2>1 DEF Submitted, Intents
        <4> QED BY <4>1, <2>4 DEF StateRank
      <3> QED BY <2>4, <3>1, <3>2
    <2>5. CASE intent[r].state = "cancel_submitted" /\ intent'[r] = Waited(intent[r])
      BY <2>1, <2>5, CancellerAssumption DEF Waited, Bumped, StateRank, Intents
    <2> QED BY <1>1, <2>2, <2>3, <2>4, <2>5 DEF IntentMoves
  <1>2. TypeInv /\ WritersOK /\ [Next]_vars => (TypeInv /\ WritersOK)' /\ \A r \in Runs : Forward(r)
    BY <1>1, NextTypes, NextWriters
  <1>3. TypeInv /\ WritersOK /\ [Next]_vars =>
          (TypeInv /\ WritersOK)' /\ [\A r \in Runs : Forward(r)]_vars
    BY <1>2
  <1> QED BY <1>3, InitTypes, InitWriters, PTL DEF Spec, IntentNeverRegresses

-----------------------------------------------------------------------------
(* Who changes what.                                                       *)

\* A deadline that has passed stays passed.
LEMMA LateStays ==
  ASSUME TypeInv, [Next]_vars, NEW r \in Runs, late[r] PROVE late'[r]
  BY WhoChanges DEF DeadlinePasses, TypeInv, TypeOK, StoreTypeOK

-----------------------------------------------------------------------------
(* A status has its cause.                                                 *)

\* Why the intent of a run, a request for one, a listed deadline, and what a
\* check or a release has found, is there.
IntentCause == \A r \in Runs : /\ intent[r].trigger = "timeout" => late[r]
                               /\ HasIntent(r) \/ intent[r].trigger # None => intent[r].gen > 0

RequestCause == \A p \in Callers :
                  req[p].at # "idle" /\ req[p].trigger = "timeout" => late[req[p].run]

ListCause == tick.at = "pass_a" => \A c \in tick.claims : late[c.run]

CheckCause ==
  trk.at # "idle" =>
    /\ trk.timedOut \/ trk.trigger = "timeout" => late[TrkRun]
    /\ trk.trigger = "manual" => intent[TrkRun].gen > 0
    /\ \A t \in Tasks : /\ trk.res[t] = "timed_out" => late[TrkRun]
                        /\ trk.res[t] = "cancelled" => intent[TrkRun].gen > 0

ReleaseCause ==
  \A p \in Operators :
    release[p].at # "idle" => AllowRelease /\ intent[release[p].run].gen > 0

\* The part of StatusHasCause that is about the run records.
RunHasCause ==
  \A r \in Runs :
    /\ runRec[r] = "timed_out" => late[r]
    /\ runRec[r] = "cancelled" => intent[r].gen > 0
    /\ ForceReleased(r)        => AllowRelease /\ intent[r].gen > 0

CauseInv == /\ RunHasCause /\ IntentCause /\ RequestCause /\ ListCause
            /\ CheckCause /\ ReleaseCause

(* At first there is neither a status nor a cause.                         *)
LEMMA InitCause == Init => CauseInv
  BY DEF Init, StoreInit, CancellerInit, TrackerInit, NoIntent, NoRequest, NoTick, NoRelease,
         NoCheck, None, CauseInv, RunHasCause, ForceReleased, IntentCause, HasIntent, RequestCause,
         ListCause, CheckCause, ReleaseCause

\* Intents are counted up, and one of a deadline comes from a request that saw it.
LEMMA IntentCauseKept ==
  ASSUME TypeInv, WritersOK, CauseInv, [Next]_vars
  PROVE  IntentCause' /\ \A r \in Runs : intent'[r].gen >= intent[r].gen
  <1> SUFFICES ASSUME NEW r \in Runs
               PROVE  /\ intent'[r].trigger = "timeout" => late'[r]
                      /\ intent'[r].state # "absent" \/ intent'[r].trigger # None =>
                           intent'[r].gen > 0
                      /\ intent'[r].gen >= intent[r].gen
    BY DEF IntentCause, HasIntent
  <1>1. /\ intent[r] \in Intents /\ intent[r].gen \in Nat
        /\ intent[r].trigger = "timeout" => late'[r]
        /\ intent[r].state # "absent" \/ intent[r].trigger # None => intent[r].gen > 0
    BY LateStays DEF TypeInv, TypeOK, StoreTypeOK, Intents, CauseInv, IntentCause, HasIntent
  <1>2. IntentMoves(r)
    BY NextWriters
  <1>3. CASE /\ intent'[r].trigger = intent[r].trigger
             /\ intent'[r].gen = intent[r].gen
             /\ intent'[r].state # "absent" => intent[r].state # "absent"
    BY <1>1, <1>3
  <1>4. CASE intent'[r] = NoIntent(intent[r].gen)
    BY <1>1, <1>4 DEF NoIntent, None
  <1>5. ASSUME NEW p \in Callers, req[p].at = "create", req[p].run = r,
               intent'[r] = Requested(intent[r].gen + 1, req[p].trigger)
        PROVE  /\ intent'[r].trigger = "timeout" => late'[r]
               /\ intent'[r].gen > 0 /\ intent'[r].gen >= intent[r].gen
    <2>1. intent'[r].trigger = req[p].trigger /\ intent'[r].gen = intent[r].gen + 1
      BY <1>5 DEF Requested
    <2> QED BY <1>1, <1>5, <2>1, LateStays DEF CauseInv, RequestCause
  <1>6. \A i \in Intents : /\ Bumped(i).trigger = i.trigger /\ Bumped(i).gen = i.gen
                           /\ Submitted(i).trigger = i.trigger /\ Submitted(i).gen = i.gen
                           /\ Waited(i).trigger = i.trigger /\ Waited(i).gen = i.gen
    BY DEF Bumped, Submitted, Waited, Intents
  <1> QED BY <1>1, <1>2, <1>3, <1>4, <1>5, <1>6 DEF IntentMoves

\* A request keeps what it was made for.  An operator makes one for a run that
\* is claimed, the timer for a claim it found past its deadline.
LEMMA RequestMoves ==
  ASSUME TypeInv, [Next]_vars, NEW p \in Callers
  PROVE  \/ req'[p].at = "idle"
         \/ /\ req[p].at # "idle"
            /\ req'[p].run = req[p].run /\ req'[p].trigger = req[p].trigger
         \/ \E r \in Runs : Active(r) /\ req'[p].run = r /\ req'[p].trigger = "manual"
         \/ /\ tick.at = "pass_a"
            /\ \E c \in tick.claims : req'[p].run = c.run /\ req'[p].trigger = "timeout"
  <1>1. /\ req \in [Callers -> [at : ReqAt, run : Runs \cup {NoRun},
                                trigger : CancelTriggers \cup {None},
                                claim : Claims, intent : Intents]]
        /\ \A q \in Callers : req[q].at # "idle" => req[q].run \in Runs
        /\ \A c \in tick.claims : c.run \in Runs
    BY DEF TypeInv, TypeOK, CancellerTypeOK, ActingOK
  <1>2. NoRequest.at = "idle"
    BY DEF NoRequest
  <1> DEFINE Same == /\ req[p].at # "idle"
                     /\ req'[p].run = req[p].run /\ req'[p].trigger = req[p].trigger
             Kept == req'[p].at = "idle" \/ Same
  <1>3. UNCHANGED req => Kept
    OBVIOUS
  <1>4. \A q \in Callers : Finish(q) => Kept
    BY <1>1, <1>2 DEF Finish
  <1>5. ASSUME NEW q \in Callers, NEW r, NEW x, Requesting(q, r, x)
        PROVE  Kept \/ (q = p /\ req'[p].run = r /\ req'[p].trigger = x)
    BY <1>1, <1>5 DEF Requesting, NoRequest
  <1>6. ASSUME NEW q \in Callers, RequestStep(q) PROVE Kept
    <2>2. Finish(q) \/ \E f \in ReqAt, c \in Claims, i \in Intents :
                 \/ req' = [req EXCEPT ![q].at = f, ![q].claim = c]
                 \/ req' = [req EXCEPT ![q].at = f, ![q].intent = i]
                 \/ req' = [req EXCEPT ![q].at = f]
      <3>1. {"create", "stop", "read_existing", "bump", "advance"} \subseteq ReqAt
        BY DEF ReqAt
      <3>2. req[q].at # "idle" => /\ claim[SlotOf[req[q].run]] \in Claims
                                  /\ intent[req[q].run] \in Intents
                                  /\ intent[req[q].run].gen + 1 \in Nat
        BY <1>1, FoundClaims DEF TypeInv, TypeOK, StoreTypeOK, Intents
      <3>3. req[q].at # "idle" =>
              Requested(intent[req[q].run].gen + 1, req[q].trigger) \in Intents
        BY <1>1, <3>2, IntentTypes
      <3>4. CASE ReqFind(q)
        BY <3>1, <3>2, <3>4, IntentTypes DEF ReqFind, NoRequest
      <3>5. CASE ReqCreate(q)
        BY <3>1, <3>2, <3>3, <3>5, NewClaimType DEF ReqCreate, ReqGoto
      <3>6. CASE ReqReadExisting(q)
        BY <3>1, <3>2, <3>6 DEF ReqReadExisting
      <3>7. CASE ReqStop(q)
        BY <3>1, <3>7, <3>2, <1>1 DEF ReqStop, ReqGoto
      <3>8. CASE ReqUpdate(q) \/ ReqDies(q)
        BY <3>8 DEF ReqUpdate, ReqDies
      <3> QED BY <1>6, <3>4, <3>5, <3>6, <3>7, <3>8 DEF RequestStep
    <2>3. CASE \E f \in ReqAt, c \in Claims, i \in Intents :
                 \/ req' = [req EXCEPT ![q].at = f, ![q].claim = c]
                 \/ req' = [req EXCEPT ![q].at = f, ![q].intent = i]
                 \/ req' = [req EXCEPT ![q].at = f]
      <3>1. req[q].at # "idle"
        BY <1>6 DEF RequestStep, ReqFind, ReqCreate, ReqReadExisting, ReqStop, ReqUpdate, ReqDies
      <3> QED BY <1>1, <2>3, <3>1
    <2> QED BY <2>2, <2>3, <1>4
  <1>7. ASSUME NEW c \in tick.claims, PassA(c)
        PROVE  Kept \/ (tick.at = "pass_a" /\ req'[p].run = c.run /\ req'[p].trigger = "timeout")
    BY <1>3, <1>5, <1>7 DEF PassA, Callers
  <1>8. CASE TimerStep
    <2>1. UNCHANGED req \/ TimerDies \/ \E c \in tick.claims : PassA(c)
      BY <1>8 DEF TimerStep, TickReconciles, TickSkipsReconcile, PassAEnds, PassB, PassBEnds,
         TickLists, Check, TickEnds, cancelVars
    <2>2. TimerDies => Kept
      BY <1>4 DEF TimerDies, Callers
    <2> QED BY <2>1, <2>2, <1>3, <1>7
  <1>9. ASSUME NEW q \in Operators, NEW r \in Runs, OperatorCancels(q, r)
        PROVE  Kept \/ (Active(r) /\ req'[p].run = r /\ req'[p].trigger = "manual")
    BY <1>5, <1>9 DEF OperatorCancels, Callers
  <1>10. \/ UNCHANGED req \/ TimerStep \/ (\E q \in Callers : RequestStep(q))
         \/ \E q \in Operators, r \in Runs : OperatorCancels(q, r)
    BY DEF Next, ReconcileStep, RecFind, RecDrop, RecResubmit, RecUpdate, RecWait, RecNudge,
       RecFails, EndpointStep, OperatorReleases, ReleaseStep, RelFind, RelWriteRun,
       RelWriteTasks, RelDeleteClaim, RelDeleteIntent, RelDies, DeadlinePasses, vars, cancelVars
  <1> QED BY <1>3, <1>6, <1>8, <1>9, <1>10

(* A request for a timeout is about a run whose deadline has passed.       *)
LEMMA RequestCauseKept ==
  ASSUME TypeInv, CauseInv, [Next]_vars PROVE RequestCause'
  <1> SUFFICES ASSUME NEW p \in Callers, req'[p].at # "idle", req'[p].trigger = "timeout"
               PROVE  late'[req'[p].run]
    BY DEF RequestCause
  <1>1. /\ req[p].at # "idle" => req[p].run \in Runs
        /\ \A c \in tick.claims : c.run \in Runs
    BY DEF TypeInv, ActingOK
  <1>2. /\ req[p].at # "idle" /\ req[p].trigger = "timeout" => late[req[p].run]
        /\ tick.at = "pass_a" => \A c \in tick.claims : late[c.run]
    BY DEF CauseInv, RequestCause, ListCause
  <1> QED BY <1>1, <1>2, RequestMoves, LateStays

\* Pass A holds claims past their deadline.
LEMMA ListCauseKept ==
  ASSUME TypeInv, CauseInv, [Next]_vars PROVE ListCause'
  <1>1. /\ tick \in [at : TickAt, claims : SUBSET Claims,
                     intents : SUBSET [run : Runs, intent : Intents]]
        /\ \A c \in tick.claims : c.run \in Runs
        /\ \A c \in ActiveClaims : c.run \in Runs
    BY FoundClaims DEF TypeInv, TypeOK, ActingOK
  <1>2. CASE TickReconciles
    <2>1. PICK found \in SUBSET ActiveClaims :
            tick' = [NoTick EXCEPT !.at = "pass_a", !.claims = Overdue(found)]
      BY <1>2 DEF TickReconciles
    <2>2. tick'.claims = Overdue(found)
      BY <2>1 DEF NoTick
    <2> QED BY <2>2, <1>1, LateStays DEF Overdue, ListCause
  <1>3. CASE tick'.at = "pass_a" => tick.at = "pass_a" /\ tick'.claims \subseteq tick.claims
    BY <1>1, <1>3, LateStays DEF ListCause, CauseInv
  <1>4. ASSUME NEW c \in tick.claims, PassA(c)
        PROVE  tick.at = "pass_a" /\ tick'.claims \subseteq tick.claims
    BY <1>1, <1>4 DEF PassA
  <1>5. ASSUME TimerStep, ~TickReconciles, ~(\E c \in tick.claims : PassA(c))
        PROVE  tick'.at # "pass_a" \/ UNCHANGED tick
    <2>1. TickSkipsReconcile \/ TickEnds \/ TimerDies => tick'.at # "pass_a"
      BY DEF TickSkipsReconcile, TickEnds, TimerDies, NoTick
    <2>2. PassAEnds \/ PassBEnds \/ TickLists => tick'.at # "pass_a"
      BY <1>1 DEF PassAEnds, PassBEnds, TickLists, NoTick
    <2>3. \A f \in tick.intents : PassB(f) => tick'.at # "pass_a"
      BY <1>1 DEF PassB
    <2>4. \A c \in tick.claims : Check(c) => tick'.at # "pass_a"
      BY <1>1 DEF Check
    <2> QED BY <1>5, <2>1, <2>2, <2>3, <2>4 DEF TimerStep
  <1> QED BY <1>2, <1>3, <1>4, <1>5, WhoChanges

-----------------------------------------------------------------------------
\* What a container or ACA reports never reads as a deadline or a cancel.
LEMMA ReportedStatus ==
  /\ \A s : MapEntityStatus(s) \notin {"timed_out", "cancelled"}
  /\ \A e : MapAcaTerminalStatus(e) \notin {"timed_out", "cancelled"}
  BY DEF MapEntityStatus, MapAcaTerminalStatus, None

\* The roll-up says timed_out or cancelled only of a task (ComputeRunStatus).
LEMMA RunStatusCause ==
  ASSUME NEW S
  PROVE  /\ ComputeRunStatus(S) \in {"timed_out", "cancelled"} => ComputeRunStatus(S) \in S
         /\ ComputeRunStatus(S) # "cancellation_failed"
  BY DEF ComputeRunStatus

\* A check knows a deadline from the clock it read, a cancel from the intent.
LEMMA CheckCauseKept ==
  ASSUME TypeInv, WritersOK, CauseInv, [Next]_vars PROVE CheckCause'
  <1>1. /\ trk \in [at : TrkAt, claim : Claims, timedOut : BOOLEAN,
                    trigger : CancelTriggers \cup {None}, poll : Tasks \cup {NoTask},
                    res : [Tasks -> Resolved], failed : BOOLEAN]
        /\ trk.at # "idle" => TrkRun \in Runs
        /\ \A c \in tick.claims : c.run \in Runs
    BY DEF TypeInv, TypeOK, TrackerTypeOK, ActingOK
  <1>2. \A r \in Runs : /\ late[r] => late'[r]
                        /\ intent[r].gen > 0 => intent'[r].gen > 0
    <2>1. \A r \in Runs : intent[r].gen \in Nat /\ intent'[r].gen \in Nat
      BY NextTypes DEF TypeInv, TypeOK, StoreTypeOK, Intents
    <2> QED BY <2>1, LateStays, IntentCauseKept
  <1>3. trk.at # "idle" =>
          /\ trk.timedOut \/ trk.trigger = "timeout" => late'[TrkRun]
          /\ trk.trigger = "manual" => intent'[TrkRun].gen > 0
          /\ \A t \in Tasks : /\ trk.res[t] = "timed_out" => late'[TrkRun]
                              /\ trk.res[t] = "cancelled" => intent'[TrkRun].gen > 0
    BY <1>1, <1>2 DEF CauseInv, CheckCause
  <1>4. TrkFinish => CheckCause'
    BY DEF TrkFinish, NoCheck, CheckCause
  <1>5. ASSUME trk.at # "idle", trk'.claim = trk.claim, trk'.timedOut = trk.timedOut,
               trk'.trigger = trk.trigger, trk'.res = trk.res
        PROVE  CheckCause'
    BY <1>3, <1>5 DEF CheckCause, TrkRun
  <1>6. ASSUME NEW t \in Tasks, NEW status, trk.at = "resolve", Settle(t, status),
               status = "timed_out" => trk.timedOut \/ trk.trigger = "timeout",
               status = "cancelled" => trk.trigger = "manual"
        PROVE  CheckCause'
    <2>1. /\ trk'.claim = trk.claim /\ trk'.timedOut = trk.timedOut
          /\ trk'.trigger = trk.trigger
          /\ \A u \in Tasks : trk'.res[u] = IF u = t THEN status ELSE trk.res[u]
      BY <1>1, <1>6 DEF Settle
    <2> QED BY <1>3, <1>6, <2>1 DEF CheckCause, TrkRun
  <1>7. CASE TrkReadIntent
    <2>1. /\ trk'.claim = trk.claim /\ trk'.timedOut = trk.timedOut /\ trk'.res = trk.res
          /\ trk'.trigger = intent[TrkRun].trigger /\ UNCHANGED <<intent, late>>
          /\ TrkRun \in Runs /\ trk.at # "idle"
      BY <1>1, <1>7 DEF TrkReadIntent, storeVars
    <2>2. /\ trk'.trigger = "timeout" => late'[TrkRun]
          /\ trk'.trigger = "manual" => intent'[TrkRun].gen > 0
      BY <2>1 DEF CauseInv, IntentCause, None
    <2> QED BY <1>3, <2>1, <2>2 DEF CheckCause, TrkRun
  <1>8. ASSUME NEW t \in Tasks, ResolveDispatchFailed(t) PROVE CheckCause'
    BY <1>6, <1>8 DEF ResolveDispatchFailed, Pending
  <1>9. ASSUME NEW t \in Tasks, ResolveFromBlob(t) PROVE CheckCause'
    <2>1. trk.at = "resolve"
      BY <1>9 DEF ResolveFromBlob, Pending
    <2>2. CASE Settle(t, MapEntityStatus(blob[TrkRun][t]))
      BY <2>1, <2>2, <1>6, ReportedStatus
    <2>3. CASE trk' = [trk EXCEPT !.poll = t]
      BY <1>1, <1>5, <2>1, <2>3
    <2>4. CASE Settle(t, IF ~trk.timedOut THEN "unresolved"
                         ELSE IF trk.trigger = "manual" THEN "cancelled"
                         ELSE "timed_out")
      BY <2>1, <2>4, <1>6
    <2> QED BY <1>9, <2>2, <2>3, <2>4 DEF ResolveFromBlob
  <1>10. ASSUME NEW t \in Tasks, ResolveFromAca(t) PROVE CheckCause'
    <2> DEFINE e == exec[TrkRun][t]
               status == CASE e = "Stopped" -> StoppedStatus
                           [] e = "Gone"    -> "failed"
                           [] MapAcaTerminalStatus(e) # None /\ e # "Stopped"
                                            -> MapAcaTerminalStatus(e)
                           [] OTHER         -> "unresolved"
    <2>1. /\ StoppedStatus = "timed_out" => trk.trigger = "timeout"
          /\ StoppedStatus = "cancelled" => trk.trigger = "manual"
      BY ReportedStatus DEF StoppedStatus
    <2>2. /\ status = "timed_out" => trk.trigger = "timeout"
          /\ status = "cancelled" => trk.trigger = "manual"
      BY <2>1, ReportedStatus DEF MapAcaTerminalStatus, None
    <2>3. trk.at = "resolve" /\ Settle(t, status)
      BY <1>10 DEF ResolveFromAca
    <2> QED BY <2>2, <2>3, <1>6
  <1>11. ASSUME NEW t \in Tasks, AcaUnreachable(t) PROVE CheckCause'
    BY <1>6, <1>11 DEF AcaUnreachable
  <1>12. CASE Defer \/ CheckThrows
    BY <1>4, <1>12 DEF Defer, CheckThrows
  <1>13. CASE TrkWriteRun \/ TrkWriteTasks \/ TrkDeleteClaim \/ TrkDeleteIntent
    <2>1. TrkFinish \/ /\ trk.at # "idle"
                       /\ \E l \in TrkAt, f \in BOOLEAN :
                            \/ trk' = [trk EXCEPT !.at = l]
                            \/ trk' = [trk EXCEPT !.at = l, !.failed = f]
      BY <1>13 DEF TrkWriteRun, AllLookedAt, TrkWriteTasks, TrkDeleteClaim, TrkDeleteIntent,
         TrkAt
    <2> QED BY <1>1, <1>4, <1>5, <2>1
  <1>14. ASSUME NEW c \in tick.claims, Check(c) PROVE CheckCause'
    <2>1. /\ trk'.claim = c /\ trk'.timedOut = late[c.run] /\ trk'.trigger = None
          /\ \A t \in Tasks : trk'.res[t] = None
          /\ c.run \in Runs
      BY <1>1, <1>14 DEF Check, Checking, NoCheck
    <2> QED BY <1>2, <2>1 DEF CheckCause, TrkRun, None
  <1>15. CASE TimerDies
    BY <1>15 DEF TimerDies, NoCheck, CheckCause
  <1>16. CASE UNCHANGED trk
    BY <1>3, <1>16 DEF CheckCause, TrkRun
  <1> QED BY <1>7, <1>8, <1>9, <1>10, <1>11, <1>12, <1>13, <1>14, <1>15, <1>16, WhoChanges
          DEF TrackStep

\* Only OperatorReleases starts a release, of a run whose intent has stalled.
LEMMA ReleaseCauseKept ==
  ASSUME TypeInv, WritersOK, CauseInv, [Next]_vars PROVE ReleaseCause'
  <1>1. release \in [Operators -> [at : RelAt, run : Runs \cup {NoRun},
                                   claim : Claims, failed : BOOLEAN]]
    BY DEF TypeInv, TypeOK
  <1>2. \A r \in Runs : intent[r].gen > 0 => intent'[r].gen > 0
    <2>1. \A r \in Runs : intent[r].gen \in Nat /\ intent'[r].gen \in Nat
      BY NextTypes DEF TypeInv, TypeOK, StoreTypeOK, Intents
    <2> QED BY <2>1, IntentCauseKept
  <1>3. \A p \in Operators : release[p].at # "idle" =>
          release[p].run \in Runs /\ AllowRelease /\ intent'[release[p].run].gen > 0
    BY <1>2 DEF TypeInv, ActingOK, CauseInv, ReleaseCause
  <1>4. CASE UNCHANGED release
    BY <1>3, <1>4 DEF ReleaseCause
  <1>5. ASSUME NEW p \in Operators, ReleaseStep(p) PROVE ReleaseCause'
    <2>1. /\ release[p].at # "idle" /\ \A q \in Operators \ {p} : release'[q] = release[q]
          /\ release'[p].at = "idle" \/ release'[p].run = release[p].run
      BY <1>1, <1>5 DEF ReleaseStep, RelFind, RelWriteRun, RelWriteTasks, RelDeleteClaim,
         RelDeleteIntent, RelDies, RelGoto, RelFinish, NoRelease
    <2> QED BY <1>3, <2>1 DEF ReleaseCause
  <1>6. ASSUME NEW p \in Operators, NEW r \in Runs, OperatorReleases(p, r) PROVE ReleaseCause'
    <2>1. /\ AllowRelease /\ intent'[r].gen > 0
          /\ release' = [release EXCEPT ![p] = [NoRelease EXCEPT !.at = "find", !.run = r]]
      BY <1>2, <1>6 DEF OperatorReleases, CauseInv, IntentCause, HasIntent
    <2>2. \A q \in Operators : release'[q] = release[q] \/ (q = p /\ release'[q].run = r)
      BY <1>1, <2>1 DEF NoRelease
    <2> QED BY <1>3, <2>1, <2>2 DEF ReleaseCause
  <1> QED BY <1>4, <1>5, <1>6, WhoChanges

\* The first writer of a run record had the cause, and the record stays.
LEMMA RunHasCauseKept ==
  ASSUME TypeInv, WritersOK, CauseInv, [Next]_vars PROVE RunHasCause'
  <1>1. runRec \in [Runs -> RunStatuses \cup {None}] /\ None \notin RunStatuses
    BY DEF TypeInv, TypeOK, StoreTypeOK, None, RunStatuses
  <1>2. \A r \in Runs : /\ late[r] => late'[r]
                        /\ intent[r].gen > 0 => intent'[r].gen > 0
    <2>1. \A r \in Runs : intent[r].gen \in Nat /\ intent'[r].gen \in Nat
      BY NextTypes DEF TypeInv, TypeOK, StoreTypeOK, Intents
    <2> QED BY <2>1, LateStays, IntentCauseKept
  <1>3. UNCHANGED runRec => RunHasCause'
    BY <1>2 DEF CauseInv, RunHasCause, ForceReleased
  <1>4. ASSUME NEW r \in Runs, NEW status, WriteRun(r, status),
               status = "timed_out" => late[r],
               status = "cancelled" => intent[r].gen > 0,
               status = "cancellation_failed" => AllowRelease /\ intent[r].gen > 0
        PROVE  RunHasCause'
    <2>1. \A q \in Runs : runRec'[q] = runRec[q] \/ (q = r /\ runRec'[q] = status)
      BY <1>1, <1>4 DEF WriteRun
    <2> QED BY <1>2, <1>4, <2>1 DEF CauseInv, RunHasCause, ForceReleased
  <1>5. CASE TrkWriteRun
    <2>1. TrkRun \in Runs /\ trk.at # "idle"
      BY <1>5 DEF TrkWriteRun, AllLookedAt, TypeInv, ActingOK
    <2>2. /\ FinalStatus \in {"timed_out", "cancelled"} =>
               \E t \in Tasks : trk.res[t] = FinalStatus
          /\ FinalStatus # "cancellation_failed"
      BY RunStatusCause DEF FinalStatus
    <2>3. /\ FinalStatus = "timed_out" => late[TrkRun]
          /\ FinalStatus = "cancelled" => intent[TrkRun].gen > 0
      BY <2>1, <2>2 DEF CauseInv, CheckCause
    <2> QED BY <1>3, <1>4, <1>5, <2>1, <2>2, <2>3 DEF TrkWriteRun
  <1>6. ASSUME NEW p \in Operators, RelWriteRun(p) PROVE RunHasCause'
    <2>1. release[p].run \in Runs /\ AllowRelease /\ intent[release[p].run].gen > 0
      BY <1>6 DEF RelWriteRun, TypeInv, ActingOK, CauseInv, ReleaseCause
    <2> QED BY <1>3, <1>4, <1>6, <2>1 DEF RelWriteRun
  <1> QED BY <1>3, <1>5, <1>6, WhoChanges

\* The runs have their causes throughout.
LEMMA NextCause ==
  TypeInv /\ WritersOK /\ CauseInv /\ [Next]_vars => (TypeInv /\ WritersOK /\ CauseInv)'
  BY NextTypes, NextWriters, IntentCauseKept, RequestCauseKept, ListCauseKept,
     CheckCauseKept, ReleaseCauseKept, RunHasCauseKept DEF CauseInv

-----------------------------------------------------------------------------
(* A recorded run has ended.                                               *)

\* The task will not work any more, or is not tracked: a state that lasts.
Over(r, t) == \/ ref[r][t] = "error"
              \/ pc[r] \in Ended \ {"dispatched"}
              \/ BlobTerminal(r, t)
              \/ ref[r][t] = "named" /\ ~Live(r, t)

\* A claim says nothing of its tasks yet, or what their starts came to.
Truthful(c) == \/ c = NewClaim(c.run)
               \/ /\ c.run \in Runs /\ c.task = ref[c.run]
                  /\ \A t \in Tasks : c.task[t] # "null"

\* A deadline is not shorter than a dispatch.
LateOK == \A r \in Runs : late[r] => pc[r] \in Ended

ClaimsTruthful == /\ \A s \in Slots : Truthful(claim[s])
                  /\ \A c \in tick.claims : Truthful(c)
                  /\ Truthful(trk.claim)

\* Who has dispatched has made its second write, and no listing from before
\* it outlives the deadline.
NamesKept ==
  \A r \in Runs : pc[r] = "dispatched" => /\ claim[SlotOf[r]] # NewClaim(r)
                                          /\ NewClaim(r) \in tick.claims => ~late[r]

\* A check settles only tasks that are over.
CheckOver ==
  trk.at # "idle" =>
    /\ trk.timedOut /\ trk.claim = NewClaim(TrkRun) => pc[TrkRun] \in Ended \ {"dispatched"}
    /\ trk.poll # NoTask => trk.claim.task[trk.poll] = "named"
    /\ \A t \in Tasks : trk.res[t] \in TaskStatuses => Over(TrkRun, t)

RecordOver == \A r \in Runs : runRec[r] # None /\ ~ForceReleased(r) => \A t \in Tasks : Over(r, t)

EndedInv == LateOK /\ ClaimsTruthful /\ NamesKept /\ CheckOver /\ RecordOver

(* At first no claim and no record says anything.                          *)
LEMMA InitEnded == Init => EndedInv
  BY StoreAssumption
     DEF Init, StoreInit, ExecutorInit, TrackerInit, NoTick, NoCheck, NoClaim, EndedInv, LateOK,
         ClaimsTruthful, Truthful, NewClaim, NamesKept, CheckOver, RecordOver

\* A dispatch that has ended stays ended, a start is not undone or repeated,
\* and only the second write of its claim makes a run dispatched.
LEMMA DispatchMoves ==
  ASSUME TypeInv, ExecutorStep, NEW r \in Runs
  PROVE  /\ pc[r] \in Ended => pc'[r] = pc[r]
         /\ \A t \in Tasks : ref[r][t] # "null" => /\ ref'[r][t] = ref[r][t]
                                                   /\ exec'[r][t] = exec[r][t]
         /\ pc'[r] = "dispatched" => pc[r] = "dispatched" \/ SecondWrite(r)
  <1>1. /\ pc \in [Runs -> PCs] /\ ref \in [Runs -> [Tasks -> TaskRefs]]
        /\ exec \in [Runs -> [Tasks -> ExecStates]]
    BY DEF TypeInv, TypeOK, ExecutorTypeOK, StoreTypeOK
  <1>2. ASSUME NEW b \in Batches, Request(b) \/ Join(b) \/ HostDies(b)
        PROVE  /\ pc[r] \in Ended => pc'[r] = pc[r]
               /\ pc'[r] = "dispatched" => pc[r] = "dispatched"
               /\ UNCHANGED <<ref, exec>>
    BY <1>2 DEF Request, Join, HostDies, Ended, Rejections, storeVars
  <1>3. ASSUME NEW q \in Runs, DispatchRun(q), q # r
        PROVE  pc'[r] = pc[r] /\ ref'[r] = ref[r] /\ exec'[r] = exec[r]
    BY <1>1, <1>3 DEF DispatchRun, Create, ForceHead, ForceCreate, ForceOverwrite, PutIfAbsent,
       ClaimThrows, ClaimResponseLost, Start, StartFails, SetRef, Ends, SecondWrite,
       SecondWriteResponseLost, SecondWriteThrows, Goto, storeVars
  <1>4. DispatchRun(r) => pc[r] \notin Ended
    BY DEF DispatchRun, Create, ForceHead, ForceCreate, ForceOverwrite, ClaimThrows,
       ClaimResponseLost, Start, StartFails, AllStarted, SecondWrite,
       SecondWriteResponseLost, SecondWriteThrows, Claiming, Ended, Rejections
  <1>5. ASSUME NEW t \in Tasks, Start(r, t) \/ StartFails(r, t)
        PROVE  /\ ref[r][t] = "null" /\ UNCHANGED pc
               /\ \A u \in Tasks \ {t} : ref'[r][u] = ref[r][u] /\ exec'[r][u] = exec[r][u]
    BY <1>1, <1>5 DEF Start, StartFails, SetRef, Ends
  <1>6. ASSUME DispatchRun(r), ~(\E t \in Tasks : Start(r, t) \/ StartFails(r, t))
        PROVE  UNCHANGED <<ref, exec>> /\ (pc'[r] # "dispatched" \/ SecondWrite(r))
    BY <1>1, <1>6 DEF DispatchRun, Create, ForceHead, ForceCreate, ForceOverwrite, PutIfAbsent,
       ClaimThrows, ClaimResponseLost, SecondWriteResponseLost, SecondWriteThrows, SecondWrite,
       Goto, storeVars
  <1>7. DispatchRun(r) => /\ \A t \in Tasks : ref[r][t] # "null" => /\ ref'[r][t] = ref[r][t]
                                                                  /\ exec'[r][t] = exec[r][t]
                          /\ pc'[r] = "dispatched" => SecondWrite(r)
    BY <1>4, <1>5, <1>6 DEF Ended
  <1> QED BY <1>2, <1>3, <1>4, <1>7 DEF ExecutorStep

\* A claim that is put is a new one, by a run that is not dispatched then, or
\* a second write, which says what every start came to.
LEMMA ClaimMoves ==
  ASSUME TypeInv, [Next]_vars, NEW s \in Slots
  PROVE  \/ claim'[s] \in {claim[s], NoClaim}
         \/ \E r \in Runs : claim'[s] = NewClaim(r) /\ pc'[r] # "dispatched"
         \/ \E r \in Runs : /\ claim'[s] = [run |-> r, task |-> ref[r]]
                            /\ AllStarted(r) /\ UNCHANGED ref
  <1> USE DEF PutClaim
  <1>1. claim \in [Slots -> Claims] /\ pc \in [Runs -> PCs]
    BY DEF TypeInv, TypeOK, StoreTypeOK, ExecutorTypeOK
  <1>2. CASE TrkDeleteClaim \/ \E p \in Operators : RelDeleteClaim(p)
    BY <1>1, <1>2 DEF TrkDeleteClaim, RelDeleteClaim
  <1>3. ASSUME NEW r \in Runs, PutClaim(r, NewClaim(r)), pc'[r] # "dispatched"
        PROVE  claim'[s] = claim[s]
               \/ \E q \in Runs : claim'[s] = NewClaim(q) /\ pc'[q] # "dispatched"
    BY <1>1, <1>3
  <1>4. ASSUME NEW r \in Runs, Create(r) \/ ForceCreate(r) \/ ForceOverwrite(r)
                               \/ ClaimResponseLost(r)
        PROVE  UNCHANGED claim \/ (PutClaim(r, NewClaim(r)) /\ pc'[r] # "dispatched")
    BY <1>1, <1>4 DEF Create, ForceCreate, ForceOverwrite, ClaimResponseLost, PutIfAbsent, Goto
  <1>5. ASSUME NEW r \in Runs, SecondWrite(r) \/ SecondWriteResponseLost(r)
        PROVE  \/ UNCHANGED claim
               \/ /\ PutClaim(r, [run |-> r, task |-> ref[r]])
                  /\ AllStarted(r) /\ UNCHANGED ref
    BY <1>5 DEF SecondWrite, SecondWriteResponseLost
  <1>6. ASSUME ExecutorStep,
               \A r \in Runs : ~(Create(r) \/ ForceCreate(r) \/ ForceOverwrite(r)
                                 \/ ClaimResponseLost(r) \/ SecondWrite(r)
                                 \/ SecondWriteResponseLost(r))
        PROVE  UNCHANGED claim
    BY <1>6 DEF ExecutorStep, Request, Join, HostDies, DispatchRun, ForceHead, ClaimThrows,
       Start, StartFails, SecondWriteThrows, storeVars
  <1>7. CASE ExecutorStep
    <2>1. ASSUME NEW r \in Runs, PutClaim(r, [run |-> r, task |-> ref[r]])
          PROVE  claim'[s] \in {claim[s], [run |-> r, task |-> ref[r]]}
      BY <1>1, <2>1
    <2> QED BY <1>3, <1>4, <1>5, <1>6, <1>7, <2>1
  <1> QED BY <1>2, <1>7, WhoChanges

\* A terminal blob stays, and an execution that has ended stays ended.
LEMMA ContainerMoves ==
  ASSUME TypeInv, [Next]_vars, NEW r \in Runs, NEW t \in Tasks
  PROVE  /\ BlobTerminal(r, t) => BlobTerminal(r, t)'
         /\ ref[r][t] # "null" /\ ~Live(r, t) => ~Live(r, t)'
         /\ ref[r][t] # "null" => ref'[r][t] = ref[r][t]
         /\ pc[r] \in Ended => pc'[r] = pc[r]
  <1>1. /\ blob \in [Runs -> [Tasks -> BlobStates]] /\ exec \in [Runs -> [Tasks -> ExecStates]]
    BY DEF TypeInv, TypeOK, StoreTypeOK
  <1>2. ASSUME ContainerStep
        PROVE  /\ BlobTerminal(r, t) => BlobTerminal(r, t)'
               /\ ~Live(r, t) => ~Live(r, t)'
    <2>1. PICK q \in Runs, u \in Tasks :
            \/ ContainerBeats(q, u) \/ ContainerFinishes(q, u) \/ ContainerExits(q, u)
            \/ ContainerLosesFlush(q, u) \/ StopLands(q, u) \/ ExecutionVanishes(q, u)
      BY <1>2 DEF ContainerStep
    <2>2. BlobTerminal(r, t) => BlobTerminal(r, t)'
      <3>1. "running" \notin EntityRollupStatuses /\ None \notin EntityRollupStatuses
        BY DEF EntityRollupStatuses, None
      <3>2. ContainerBeats(q, u) \/ ContainerFinishes(q, u) \/ UNCHANGED blob
        BY <2>1 DEF ContainerExits, ContainerLosesFlush, StopLands, ExecutionVanishes
      <3> QED BY <1>1, <3>1, <3>2, StoreAssumption
              DEF ContainerBeats, ContainerFinishes, Uploads, BlobTerminal
    <2>3. ~Live(r, t) => ~Live(r, t)'
      BY <1>1, <2>1 DEF ContainerBeats, ContainerFinishes, ContainerExits, ContainerLosesFlush,
         StopLands, ExecutionVanishes, Ends, Live
    <2> QED BY <2>2, <2>3
  <1>3. ASSUME NEW c, NEW S, SubmitStops(c, S)
        PROVE  ~Live(r, t) => ~Live(r, t)'
    <2>1. exec'[r][t] = exec[r][t] \/ exec[r][t] = "Running"
      BY <1>1, <1>3 DEF SubmitStops
    <2> QED BY <2>1 DEF Live
  <1>4. ASSUME ~ContainerStep, ~ExecutorStep
        PROVE  ~Live(r, t) => ~Live(r, t)'
    <2>1. UNCHANGED exec => (~Live(r, t) => ~Live(r, t)')
      BY DEF Live
    <2>2. \A p \in Callers : RequestStep(p) => (~Live(r, t) => ~Live(r, t)')
      BY <1>3, <2>1 DEF RequestStep, ReqFind, ReqCreate, ReqReadExisting, ReqStop, ReqUpdate,
         ReqDies, storeVars
    <2>3. ReconcileStep => (~Live(r, t) => ~Live(r, t)')
      BY <1>3, <2>1 DEF ReconcileStep, RecFind, RecDrop, RecResubmit, RecUpdate, RecWait,
         RecNudge, RecFails
    <2>4. TrackStep \/ TimerStep => UNCHANGED exec
      BY DEF TrackStep, TrkReadIntent, ResolveDispatchFailed, ResolveFromBlob, ResolveFromAca,
         AcaUnreachable, Defer, TrkWriteRun, TrkWriteTasks, TrkDeleteClaim, TrkDeleteIntent,
         CheckThrows, TimerStep, TickReconciles, TickSkipsReconcile, PassA, PassAEnds, PassB,
         PassBEnds, TickLists, Check, TickEnds, TimerDies, storeVars
    <2>5. EndpointStep => UNCHANGED exec
      BY DEF EndpointStep, OperatorCancels, OperatorReleases, ReleaseStep, RelFind, RelWriteRun,
         RelWriteTasks, RelDeleteClaim, RelDeleteIntent, RelDies, storeVars
    <2>6. (\E q \in Runs : DeadlinePasses(q)) \/ UNCHANGED vars => UNCHANGED exec
      BY DEF DeadlinePasses, vars, storeVars
    <2> QED BY <1>4, <2>1, <2>2, <2>3, <2>4, <2>5, <2>6 DEF Next
  <1>5. ref[r][t] # "null" /\ ~Live(r, t) => ~Live(r, t)'
    BY <1>2, <1>4, DispatchMoves DEF Live
  <1>6. UNCHANGED blob => (BlobTerminal(r, t) => BlobTerminal(r, t)')
    BY DEF BlobTerminal
  <1> QED BY <1>2, <1>5, <1>6, DispatchMoves, WhoChanges

(* What is over stays over: flushes, starts and ends are not taken back.   *)
LEMMA OverStays ==
  ASSUME TypeInv, [Next]_vars, NEW r \in Runs, NEW t \in Tasks, Over(r, t)
  PROVE  Over(r, t)'
  BY ContainerMoves DEF Over

\* So does what a claim says of its tasks.
LEMMA TruthfulStays ==
  ASSUME TypeInv, [Next]_vars, NEW c \in Claims, Truthful(c)
  PROVE  Truthful(c)'
  <1>1. CASE c = NewClaim(c.run)
    BY <1>1 DEF Truthful, NewClaim
  <1>2. CASE /\ c.run \in Runs /\ c.task = ref[c.run]
             /\ \A t \in Tasks : c.task[t] # "null"
    <2>1. ref \in [Runs -> [Tasks -> TaskRefs]] /\ ref' \in [Runs -> [Tasks -> TaskRefs]]
      BY NextTypes DEF TypeInv, TypeOK, ExecutorTypeOK
    <2>2. \A t \in Tasks : ref'[c.run][t] = ref[c.run][t]
      BY <1>2, ContainerMoves
    <2>3. ref'[c.run] = ref[c.run]
      BY <1>2, <2>1, <2>2
    <2> QED BY <1>2, <2>3 DEF Truthful
  <1> QED BY <1>1, <1>2 DEF Truthful

\* What a tick holds it held before or lists now; only the next check takes
\* up another claim, and it starts from nothing.
LEMMA ListMoves ==
  ASSUME TypeInv, [Next]_vars
  PROVE  /\ tick'.claims \subseteq tick.claims \cup ActiveClaims
         /\ tick'.claims \subseteq tick.claims \/ UNCHANGED <<pc, late, claim>>
  <1>1. tick \in [at : TickAt, claims : SUBSET Claims,
                  intents : SUBSET [run : Runs, intent : Intents]]
    BY DEF TypeInv, TypeOK
  <1>2. TickSkipsReconcile \/ TickEnds \/ TimerDies => tick'.claims = {}
    BY DEF TickSkipsReconcile, TickEnds, TimerDies, NoTick
  <1>3. PassAEnds \/ PassBEnds => tick'.claims = tick.claims
    BY <1>1 DEF PassAEnds, PassBEnds
  <1>4. \A f \in tick.intents : PassB(f) => tick'.claims = tick.claims
    BY <1>1 DEF PassB
  <1>5. \A c \in tick.claims : PassA(c) \/ Check(c) => tick'.claims \subseteq tick.claims
    BY <1>1 DEF PassA, Check
  <1>6. CASE TickReconciles
    <2>1. PICK found \in SUBSET ActiveClaims :
            tick' = [NoTick EXCEPT !.at = "pass_a", !.claims = Overdue(found)]
      BY <1>6 DEF TickReconciles
    <2> QED BY <1>6, <2>1 DEF TickReconciles, NoTick, Overdue, execVars
  <1>7. CASE TickLists
    <2>1. PICK found \in SUBSET ActiveClaims :
            tick' = [NoTick EXCEPT !.at = "check", !.claims = found]
      BY <1>7 DEF TickLists
    <2> QED BY <1>7, <2>1 DEF TickLists, NoTick, execVars
  <1> QED BY <1>2, <1>3, <1>4, <1>5, <1>6, <1>7, WhoChanges DEF TimerStep

(* A check keeps the claim and the clock it began with (CheckClaimAsync).  *)
LEMMA CheckMoves ==
  ASSUME TypeInv, [Next]_vars
  PROVE  \/ trk'.at = "idle" /\ trk'.claim = NoClaim
         \/ /\ trk.at = "idle" => trk'.at = "idle"
            /\ trk'.claim = trk.claim /\ trk'.timedOut = trk.timedOut
         \/ /\ trk'.claim \in tick.claims /\ trk'.timedOut = late[trk'.claim.run]
            /\ trk'.poll = NoTask /\ (\A t \in Tasks : trk'.res[t] = None)
            /\ UNCHANGED <<pc, late>>
  <1>1. trk \in [at : TrkAt, claim : Claims, timedOut : BOOLEAN,
                 trigger : CancelTriggers \cup {None}, poll : Tasks \cup {NoTask},
                 res : [Tasks -> Resolved], failed : BOOLEAN]
    BY DEF TypeInv, TypeOK, TrackerTypeOK
  <1>2. TrkFinish \/ TimerDies => trk'.at = "idle" /\ trk'.claim = NoClaim
    BY DEF TrkFinish, TimerDies, NoCheck
  <1>3. \A c \in tick.claims : Check(c) =>
          /\ trk'.claim = c /\ trk'.timedOut = late[c.run]
          /\ trk'.poll = NoTask /\ (\A t \in Tasks : trk'.res[t] = None)
          /\ UNCHANGED <<pc, late>>
    BY DEF Check, Checking, NoCheck, storeVars, execVars
  <1>4. CASE TrackStep
    <2> DEFINE Kept == /\ trk.at # "idle"
                       /\ TrkFinish \/ (trk'.claim = trk.claim /\ trk'.timedOut = trk.timedOut)
    <2>1. ASSUME NEW t \in Tasks, ResolveDispatchFailed(t) PROVE Kept
      BY <1>1, <2>1 DEF ResolveDispatchFailed, Pending, Settle
    <2>2. ASSUME NEW t \in Tasks, ResolveFromBlob(t) PROVE Kept
      BY <1>1, <2>2 DEF ResolveFromBlob, Pending, Settle
    <2>3. ASSUME NEW t \in Tasks, ResolveFromAca(t) \/ AcaUnreachable(t) PROVE Kept
      BY <1>1, <2>3 DEF ResolveFromAca, AcaUnreachable, Pending, Settle
    <2>4. ASSUME TrkReadIntent PROVE Kept
      BY <1>1, <2>4 DEF TrkReadIntent
    <2>5. ASSUME Defer \/ TrkWriteRun \/ TrkWriteTasks PROVE Kept
      BY <1>1, <2>5 DEF Defer, AllLookedAt, TrkWriteRun, TrkWriteTasks
    <2>6. ASSUME TrkDeleteClaim \/ TrkDeleteIntent \/ CheckThrows PROVE Kept
      BY <1>1, <2>6 DEF TrkDeleteClaim, TrkDeleteIntent, CheckThrows, Pending
    <2>7. Kept
      <3> HIDE DEF Kept
      <3> QED BY <1>4, <2>1, <2>2, <2>3, <2>4, <2>5, <2>6 DEF TrackStep
    <2> QED BY <2>7, <1>2
  <1> QED BY <1>2, <1>3, <1>4, WhoChanges

(* Neither a stored claim nor a listed copy comes to say anything false.   *)
LEMMA ClaimsTruthfulKept ==
  ASSUME TypeInv, ClaimsTruthful, [Next]_vars PROVE ClaimsTruthful'
  <1>1. /\ \A s \in Slots : claim[s] \in Claims
        /\ tick.claims \subseteq Claims /\ trk.claim \in Claims
        /\ ActiveClaims \subseteq Claims
    BY FoundClaims DEF TypeInv, TypeOK, StoreTypeOK, TrackerTypeOK
  <1>2. \A c \in Claims : Truthful(c) => Truthful(c)'
    BY TruthfulStays
  <1>3. \A r : Truthful(NewClaim(r))'
    BY DEF Truthful, NewClaim
  <1>4. ASSUME NEW s \in Slots PROVE Truthful(claim[s])'
    <2>1. ASSUME NEW r \in Runs, claim'[s] = [run |-> r, task |-> ref[r]],
                 AllStarted(r), UNCHANGED ref
          PROVE  Truthful(claim[s])'
      BY <2>1 DEF Truthful, AllStarted
    <2>2. claim'[s] = claim[s] => Truthful(claim[s])'
      BY <1>1, <1>2 DEF ClaimsTruthful
    <2> QED BY <1>3, <2>1, <2>2, ClaimMoves DEF NoClaim
  <1>5. \A c \in ActiveClaims : Truthful(c)'
    BY <1>1, <1>2 DEF ClaimsTruthful, ActiveClaims
  <1>6. ASSUME NEW c \in tick'.claims PROVE Truthful(c)'
    <2>1. tick'.claims \subseteq tick.claims \cup ActiveClaims
      BY ListMoves
    <2> QED BY <1>1, <1>2, <1>5, <2>1 DEF ClaimsTruthful
  <1>7. Truthful(trk.claim)'
    <2>1. trk'.claim \in {trk.claim, NoClaim} \cup tick.claims
      BY CheckMoves
    <2> QED BY <1>1, <1>2, <1>3, <2>1 DEF ClaimsTruthful, NoClaim
  <1> QED BY <1>4, <1>6, <1>7 DEF ClaimsTruthful

(* No deadline passes during a dispatch that still goes on.                *)
LEMMA LateOKKept ==
  ASSUME TypeInv, ~SlowDispatch, LateOK, [Next]_vars PROVE LateOK'
  <1>1. \A r \in Runs : pc[r] \in Ended => pc'[r] = pc[r]
    BY ContainerMoves, StoreAssumption
  <1>2. CASE UNCHANGED late
    BY <1>1, <1>2 DEF LateOK
  <1>3. ASSUME NEW r \in Runs, DeadlinePasses(r) PROVE LateOK'
    <2>1. pc[r] \in Ended /\ \A q \in Runs \ {r} : late'[q] = late[q]
      BY <1>3 DEF DeadlinePasses, TypeInv, TypeOK, StoreTypeOK
    <2> QED BY <1>1, <2>1 DEF LateOK
  <1> QED BY <1>2, <1>3, WhoChanges

\* The second write takes the place of the first.
LEMMA NamesKeptKept ==
  ASSUME TypeInv, ~SlowDispatch, LateOK, NamesKept, [Next]_vars PROVE NamesKept'
  <1> SUFFICES ASSUME NEW r \in Runs, pc'[r] = "dispatched"
               PROVE  /\ claim'[SlotOf[r]] # NewClaim(r)
                      /\ NewClaim(r) \in tick'.claims => ~late'[r]
    BY DEF NamesKept, NewClaim
  <1> DEFINE full == [run |-> r, task |-> ref[r]]
  <1>1. SlotOf[r] \in Slots /\ Tasks # {} /\ r # NoRun
    BY StoreAssumption
  <1>2. CASE SecondWrite(r)
    <2>1. /\ pc[r] = "starting" /\ UNCHANGED late
          /\ claim'[SlotOf[r]] = full
          /\ \A t \in Tasks : ref[r][t] # "null"
      BY <1>1, <1>2 DEF SecondWrite, AllStarted, PutClaim, Goto, TypeInv, TypeOK, StoreTypeOK,
         ExecutorTypeOK
    <2>2. ~late'[r]
      BY <2>1 DEF LateOK, Ended, Rejections
    <2>3. full # NewClaim(r)
      BY <1>1, <2>1 DEF NewClaim
    <2> QED BY <2>1, <2>2, <2>3
  <1>3. CASE pc[r] = "dispatched"
    <2>1. /\ claim[SlotOf[r]] # NewClaim(r)
          /\ NewClaim(r) \in tick.claims => ~late[r]
      BY <1>3 DEF NamesKept
    <2>2. claim'[SlotOf[r]] # NewClaim(r)
      <3>1. NoClaim # NewClaim(r) /\ \A q \in Runs : NewClaim(q) = NewClaim(r) => q = r
        BY <1>1 DEF NoClaim, NewClaim
      <3>2. ASSUME NEW q \in Runs, AllStarted(q)
            PROVE  [run |-> q, task |-> ref[q]] # NewClaim(r)
        BY <1>3, <3>2 DEF AllStarted, NewClaim
      <3> QED BY <1>1, <2>1, <3>1, <3>2, ClaimMoves
    <2>3. NewClaim(r) \notin ActiveClaims
      <3>1. ASSUME NEW s \in Slots, claim[s] = NewClaim(r) PROVE FALSE
        BY <1>1, <2>1, <3>1 DEF TypeInv, ClaimOK, NoClaim, NewClaim
      <3> QED BY <3>1 DEF ActiveClaims
    <2>4. ASSUME NewClaim(r) \in tick'.claims PROVE ~late'[r]
      <3>1. NewClaim(r) \in tick.claims
        BY <2>3, <2>4, ListMoves
      <3>2. ASSUME NEW q \in Runs, DeadlinePasses(q) PROVE late'[r] = late[r]
        BY <1>3, <3>1, <3>2 DEF DeadlinePasses, TypeInv, TypeOK, StoreTypeOK
      <3> QED BY <2>1, <3>1, <3>2, WhoChanges
    <2> QED BY <2>2, <2>4
  <1>4. ASSUME ExecutorStep, pc[r] # "dispatched" PROVE SecondWrite(r)
    BY <1>4, DispatchMoves
  <1> QED BY <1>2, <1>3, <1>4, WhoChanges

\* A check settles a task by its start, its blob or its execution, and by the
\* deadline alone only when the dispatch has failed.
LEMMA CheckOverKept ==
  ASSUME TypeInv, LateOK, ClaimsTruthful, NamesKept, CheckOver, [Next]_vars
  PROVE  CheckOver'
  <1>1. /\ trk \in [at : TrkAt, claim : Claims, timedOut : BOOLEAN,
                    trigger : CancelTriggers \cup {None}, poll : Tasks \cup {NoTask},
                    res : [Tasks -> Resolved], failed : BOOLEAN]
        /\ trk.at # "idle" => TrkRun \in Runs
        /\ \A c \in tick.claims : c.run \in Runs
    BY DEF TypeInv, TypeOK, TrackerTypeOK, ActingOK
  <1>2. /\ None \notin TaskStatuses /\ "unresolved" \notin TaskStatuses
        /\ NoTask \notin Tasks
    BY TrackerAssumption DEF None, TaskStatuses
  <1>3. \A r \in Runs : /\ \A t \in Tasks : Over(r, t) => Over(r, t)'
                        /\ pc[r] \in Ended => pc'[r] = pc[r]
    BY OverStays, ContainerMoves, StoreAssumption
  <1>4. trk'.at = "idle" => CheckOver'
    BY DEF CheckOver
  <1>5. ASSUME NEW r \in Runs, TrkRun = r, trk.at # "idle",
               trk'.claim = trk.claim, trk'.timedOut = trk.timedOut,
               trk'.poll # NoTask => trk.claim.task[trk'.poll] = "named",
               \A t \in Tasks : trk'.res[t] \in TaskStatuses =>
                                  trk.res[t] \in TaskStatuses \/ Over(r, t)
        PROVE  CheckOver'
    <2>1. TrkRun' = r
      BY <1>5 DEF TrkRun
    <2>2. \A t \in Tasks : trk'.res[t] \in TaskStatuses => Over(r, t)'
      BY <1>3, <1>5 DEF CheckOver
    <2>3. trk'.timedOut /\ trk'.claim = NewClaim(r) => pc'[r] \in Ended \ {"dispatched"}
      BY <1>3, <1>5 DEF CheckOver
    <2> QED BY <1>5, <2>1, <2>2, <2>3 DEF CheckOver
  <1>6. ASSUME trk.at # "idle", trk'.claim = trk.claim, trk'.timedOut = trk.timedOut,
               trk'.poll = trk.poll, trk'.res = trk.res
        PROVE  CheckOver'
    BY <1>1, <1>5, <1>6 DEF CheckOver
  <1>7. ASSUME NEW r \in Runs, TrkRun = r, trk.at # "idle",
               NEW t \in Tasks, NEW status, Settle(t, status),
               status \in TaskStatuses => Over(r, t)
        PROVE  CheckOver'
    <2>1. /\ trk'.claim = trk.claim /\ trk'.timedOut = trk.timedOut /\ trk'.poll = NoTask
          /\ \A u \in Tasks : trk'.res[u] = IF u = t THEN status ELSE trk.res[u]
      BY <1>1, <1>7 DEF Settle
    <2> QED BY <1>5, <1>7, <2>1
  <1>8. ASSUME NEW t \in Tasks, trk.claim.task[t] \in {"named", "error"}, TrkRun \in Runs
        PROVE  ref[TrkRun][t] = trk.claim.task[t]
    BY <1>8 DEF ClaimsTruthful, Truthful, NewClaim, TrkRun
  <1>9. ASSUME NEW t \in Tasks, ResolveDispatchFailed(t) PROVE CheckOver'
    <2>1. TrkRun \in Runs /\ trk.at # "idle" /\ ref[TrkRun][t] = "error"
      BY <1>1, <1>8, <1>9 DEF ResolveDispatchFailed, Pending
    <2> QED BY <1>7, <1>9, <2>1 DEF ResolveDispatchFailed, Over
  <1>10. ASSUME NEW t \in Tasks, ResolveFromBlob(t) PROVE CheckOver'
    <2>1. TrkRun \in Runs /\ trk.at # "idle" /\ trk.claim.task[t] # "error"
      BY <1>1, <1>10 DEF ResolveFromBlob, Pending
    <2>2. CASE BlobTerminal(TrkRun, t) /\ Settle(t, MapEntityStatus(blob[TrkRun][t]))
      BY <2>1, <2>2, <1>7 DEF Over
    <2>3. CASE trk.claim.task[t] = "named" /\ trk' = [trk EXCEPT !.poll = t]
      <3>1. /\ trk'.claim = trk.claim /\ trk'.timedOut = trk.timedOut
            /\ trk'.poll = t /\ trk'.res = trk.res
        BY <1>1, <2>3
      <3> QED BY <1>5, <2>1, <2>3, <3>1
    <2>4. CASE /\ trk.claim.task[t] # "named"
               /\ Settle(t, IF ~trk.timedOut THEN "unresolved"
                            ELSE IF trk.trigger = "manual" THEN "cancelled"
                            ELSE "timed_out")
      <3>1. trk.claim.task[t] = "null"
        BY <1>1, <2>1, <2>4 DEF Claims, TaskRefs
      <3>2. trk.claim = NewClaim(TrkRun)
        BY <3>1 DEF ClaimsTruthful, Truthful, TrkRun
      <3>3. trk.timedOut => Over(TrkRun, t)
        BY <2>1, <3>2 DEF CheckOver, Over
      <3>4. CASE trk.timedOut
        BY <1>7, <2>1, <2>4, <3>3, <3>4
      <3>5. CASE ~trk.timedOut
        BY <1>2, <1>7, <2>1, <2>4, <3>5
      <3> QED BY <3>4, <3>5
    <2> QED BY <1>10, <2>2, <2>3, <2>4 DEF ResolveFromBlob
  <1>11. ASSUME NEW t \in Tasks, ResolveFromAca(t) PROVE CheckOver'
    <2> DEFINE e == exec[TrkRun][t]
               status == CASE e = "Stopped" -> StoppedStatus
                           [] e = "Gone"    -> "failed"
                           [] MapAcaTerminalStatus(e) # None /\ e # "Stopped"
                                            -> MapAcaTerminalStatus(e)
                           [] OTHER         -> "unresolved"
    <2>1. /\ TrkRun \in Runs /\ trk.at # "idle" /\ trk.poll = t
          /\ Settle(t, status)
      BY <1>1, <1>11 DEF ResolveFromAca
    <2>2. ref[TrkRun][t] = "named"
      BY <1>2, <1>8, <2>1 DEF CheckOver
    <2>3. Live(TrkRun, t) => status = "unresolved"
      BY DEF Live, MapAcaTerminalStatus, None
    <2>4. status \in TaskStatuses => Over(TrkRun, t)
      BY <1>2, <2>2, <2>3 DEF Over
    <2> HIDE DEF status
    <2> QED BY <1>7, <2>1, <2>4
  <1>12. ASSUME NEW t \in Tasks, AcaUnreachable(t) PROVE CheckOver'
    BY <1>1, <1>2, <1>7, <1>12 DEF AcaUnreachable
  <1>13. CASE Defer \/ CheckThrows \/ TimerDies
    BY <1>4, <1>13 DEF Defer, CheckThrows, TimerDies, TrkFinish, NoCheck
  <1>14. CASE TrkReadIntent \/ TrkWriteRun \/ TrkWriteTasks \/ TrkDeleteClaim \/ TrkDeleteIntent
    <2>1. TrkFinish \/ /\ trk.at # "idle"
                       /\ \E l \in TrkAt, f \in BOOLEAN, x \in CancelTriggers \cup {None} :
                            \/ trk' = [trk EXCEPT !.at = l]
                            \/ trk' = [trk EXCEPT !.at = l, !.failed = f]
                            \/ trk' = [trk EXCEPT !.at = l, !.trigger = x]
      <3>1. TrkReadIntent => intent[TrkRun].trigger \in CancelTriggers \cup {None}
        BY <1>1 DEF TrkReadIntent, TypeInv, TypeOK, StoreTypeOK, Intents
      <3> QED BY <1>14, <3>1 DEF TrkReadIntent, TrkWriteRun, AllLookedAt, TrkWriteTasks,
                 TrkDeleteClaim, TrkDeleteIntent, TrkAt
    <2>2. TrkFinish => CheckOver'
      BY <1>4 DEF TrkFinish, NoCheck
    <2> QED BY <1>1, <1>6, <2>1, <2>2
  <1>15. ASSUME NEW c \in tick.claims, Check(c) PROVE CheckOver'
    <2>1. /\ trk'.claim = c /\ trk'.timedOut = late[c.run] /\ trk'.poll = NoTask
          /\ \A t \in Tasks : trk'.res[t] = None
          /\ c.run \in Runs /\ UNCHANGED pc
      BY <1>1, <1>15 DEF Check, Checking, NoCheck, execVars
    <2>2. late[c.run] /\ c = NewClaim(c.run) => pc[c.run] \in Ended \ {"dispatched"}
      BY <2>1, <1>15 DEF LateOK, NamesKept
    <2> QED BY <1>2, <2>1, <2>2 DEF CheckOver, TrkRun
  <1>16. CASE UNCHANGED trk
    BY <1>4, <1>6, <1>16
  <1> QED BY <1>9, <1>10, <1>11, <1>12, <1>13, <1>14, <1>15, <1>16, WhoChanges DEF TrackStep

\* The tracker records a run whose tasks are over; other records are releases.
LEMMA RecordOverKept ==
  ASSUME TypeInv, CheckOver, RecordOver, [Next]_vars PROVE RecordOver'
  <1>1. runRec \in [Runs -> RunStatuses \cup {None}] /\ None \notin RunStatuses
    BY DEF TypeInv, TypeOK, StoreTypeOK, None, RunStatuses
  <1>2. \A r \in Runs, t \in Tasks : Over(r, t) => Over(r, t)'
    BY OverStays
  <1>3. ASSUME NEW r \in Runs, NEW status, WriteRun(r, status),
               status # "cancellation_failed" => \A t \in Tasks : Over(r, t)
        PROVE  RecordOver'
    <2>1. \A q \in Runs : runRec'[q] = runRec[q] \/ (q = r /\ runRec'[q] = status)
      BY <1>1, <1>3 DEF WriteRun
    <2> QED BY <1>2, <1>3, <2>1 DEF RecordOver, ForceReleased
  <1>4. CASE UNCHANGED runRec
    BY <1>2, <1>4 DEF RecordOver, ForceReleased
  <1>5. CASE TrkWriteRun
    <2>1. TrkRun \in Runs /\ trk.at # "idle"
      BY <1>5 DEF TrkWriteRun, AllLookedAt, TypeInv, ActingOK
    <2>2. \A t \in Tasks : trk.res[t] \in TaskStatuses
      BY <1>5 DEF TrkWriteRun, AllLookedAt, AnyUnresolved, Resolved, TypeInv, TypeOK,
         TrackerTypeOK
    <2>3. \A t \in Tasks : Over(TrkRun, t)
      BY <2>1, <2>2 DEF CheckOver
    <2> QED BY <1>3, <1>4, <1>5, <2>1, <2>3 DEF TrkWriteRun
  <1>6. ASSUME NEW p \in Operators, RelWriteRun(p) PROVE RecordOver'
    <2>1. release[p].run \in Runs
      BY <1>6 DEF RelWriteRun, TypeInv, ActingOK
    <2> QED BY <1>3, <1>4, <1>6, <2>1 DEF RelWriteRun
  <1> QED BY <1>4, <1>5, <1>6, WhoChanges

\* The invariant of this section holds throughout.
LEMMA EndedHolds ==
  ASSUME ~SlowDispatch PROVE Spec => [](TypeInv /\ EndedInv)
  <1>1. TypeInv /\ EndedInv /\ [Next]_vars => (TypeInv /\ EndedInv)'
    BY NextTypes, LateOKKept, ClaimsTruthfulKept, NamesKeptKept, CheckOverKept, RecordOverKept
       DEF EndedInv
  <1> QED BY <1>1, InitTypes, InitEnded, PTL DEF Spec

\* A task that is over does not work, if the run is tracked.
LEMMA EndedMeans ==
  ASSUME EndedInv PROVE RecordedMeansEnded
  BY DEF EndedInv, RecordOver, RecordedMeansEnded, Tracked, Working, Over

(* RecordedMeansEnded, with force and force-release: a run is recorded by  *)
(* the tracker only when its tracked executions have ended, if a timeout   *)
(* is longer than a dispatch.                                              *)
THEOREM RecordedRunsHaveEnded ==
  ASSUME ~SlowDispatch PROVE Spec => []RecordedMeansEnded
  BY EndedHolds, EndedMeans, PTL

\* No run of s is recorded as force-released.
NeverReleased(s) == \A r \in RunsOf(s) : ~ForceReleased(r)

\* At most one run of s works with executions that are tracked.
NoOverlap(s) ==
  \A q, r \in RunsOf(s) :
    (\E t \in Tracked(q) : Working(q, t)) /\ (\E t \in Tracked(r) : Working(r, t)) => q = r

\* Only a release records cancellation_failed, and none writes of a run of s.
LEMMA NeverReleasedKept ==
  ASSUME TypeInv, NEW s \in Slots, NeverReleased(s), Peaceful(s), [Next]_vars
  PROVE  NeverReleased(s)'
  <1>1. RunsOf(s)' = RunsOf(s) /\ runRec \in [Runs -> RunStatuses \cup {None}]
    BY DEF RunsOf, TypeInv, TypeOK, StoreTypeOK
  <1>2. ASSUME NEW r \in Runs, NEW status, WriteRun(r, status),
               r \in RunsOf(s) => status # "cancellation_failed"
        PROVE  NeverReleased(s)'
    <2>1. \A q \in Runs : runRec'[q] = runRec[q] \/ (q = r /\ runRec'[q] = status)
      BY <1>1, <1>2 DEF WriteRun
    <2> QED BY <1>1, <1>2, <2>1 DEF NeverReleased, ForceReleased, RunsOf
  <1>3. CASE UNCHANGED runRec
    BY <1>1, <1>3 DEF NeverReleased, ForceReleased
  <1>4. CASE TrkWriteRun
    <2>1. TrkRun \in Runs
      BY <1>4 DEF TrkWriteRun, AllLookedAt, TypeInv, ActingOK
    <2>2. FinalStatus # "cancellation_failed"
      BY RunStatusCause DEF FinalStatus
    <2> QED BY <1>2, <1>3, <1>4, <2>1, <2>2 DEF TrkWriteRun
  <1>5. ASSUME NEW p \in Operators, RelWriteRun(p) PROVE NeverReleased(s)'
    <2>1. release[p].run \in Runs \ RunsOf(s)
      BY <1>5 DEF RelWriteRun, TypeInv, ActingOK, Peaceful
    <2> QED BY <1>2, <1>3, <1>5, <2>1 DEF RelWriteRun
  <1> QED BY <1>3, <1>4, <1>5, WhoChanges

(* In a slot that nothing takes a claim from no two runs work at the same  *)
(* time, without exception: not if one of them carried force and found the *)
(* slot free, and whatever is forced or released in other slots.  One of   *)
(* the two holds no claim, so its history is complete, and so it has ended *)
(* (RunExecutor's overlap protection, RunTracker.CheckClaimAsync).         *)
THEOREM PeacefulSlotsDoNotOverlap ==
  ASSUME NEW s \in Slots, ~SlowDispatch
  PROVE  Spec => ([]Peaceful(s) => []NoOverlap(s))
  <1>1. TypeInv /\ NeverReleased(s) /\ Peaceful(s) /\ [Next]_vars =>
          (TypeInv /\ NeverReleased(s))'
    BY NextTypes, NeverReleasedKept
  <1>2. Init => TypeInv /\ NeverReleased(s)
    BY InitTypes DEF Init, StoreInit, NeverReleased, ForceReleased, RunsOf, None
  <1>3. KeepsRuns(s) /\ NeverReleased(s) /\ RecordedMeansEnded => NoOverlap(s)
    BY DEF KeepsRuns, NeverReleased, RecordedMeansEnded, NoOverlap, Tracked, Recorded, Active,
       RunsOf
  <1>4. Spec => ([]Peaceful(s) => []KeepsRuns(s))
    BY PeacefulSlotsKeepRuns
  <1>5. Spec => []RecordedMeansEnded
    BY RecordedRunsHaveEnded
  <1> QED BY <1>1, <1>2, <1>3, <1>4, <1>5, PTL DEF Spec

(* OneRunPerSlot: without force and force-release no two runs of a slot    *)
(* work at the same time.  One of them holds no claim, so by NoLostRun it  *)
(* has been recorded, and by RecordedMeansEnded it has ended.              *)
THEOREM RunsDoNotOverlap ==
  ASSUME ~AllowForce, ~AllowRelease, ~SlowDispatch
  PROVE  Spec => []OneRunPerSlot
  <1>1. NoLostRun /\ RecordedMeansEnded => OneRunPerSlot
    BY DEF NoLostRun, RecordedMeansEnded, OneRunPerSlot, Tracked, Recorded, Active
  <1> QED BY <1>1, RunsAreNotLost, RecordedRunsHaveEnded, PTL

-----------------------------------------------------------------------------
(* A recorded status of a task has its cause.                              *)

\* An execution exists only after its start.
NotStartedOK == \A r \in Runs, t \in Tasks : ref[r][t] = "null" => exec[r][t] = None

\* What a check has settled, so far.
CheckTasks ==
  trk.at # "idle" => \A t \in Tasks : TaskHasCause(TrkRun, t, trk.res[t])

RecordTasks == \A r \in Runs, t \in Tasks : TaskHasCause(r, t, taskRec[r][t])

TasksInv == NotStartedOK /\ ClaimsTruthful /\ CheckTasks /\ RecordTasks

(* At first nothing is started, settled or recorded.                       *)
LEMMA InitTasks == Init => TasksInv
  <1> SUFFICES ASSUME Init PROVE TasksInv
    OBVIOUS
  <1>1. /\ \A r \in Runs, t \in Tasks : exec[r][t] = None /\ taskRec[r][t] = None
        /\ \A s \in Slots : claim[s] = NewClaim(NoRun)
        /\ tick.claims = {} /\ trk.claim = NewClaim(NoRun) /\ trk.at = "idle"
    BY DEF Init, StoreInit, TrackerInit, NoTaskRec, NoTick, NoCheck, NoClaim
  <1> QED BY <1>1 DEF TasksInv, NotStartedOK, ClaimsTruthful, Truthful, NewClaim, CheckTasks,
             RecordTasks, TaskHasCause, None

\* A start is made once, a terminal blob is not overwritten, and an execution
\* that has ended stays as it ended or vanishes.
LEMMA EvidenceMoves ==
  ASSUME TypeInv, NotStartedOK, [Next]_vars, NEW r \in Runs, NEW t \in Tasks
  PROVE  /\ BlobTerminal(r, t) => blob'[r][t] = blob[r][t]
         /\ ref[r][t] = "error" => ref'[r][t] = "error"
         /\ exec[r][t] \in {"Succeeded", "Failed", "Stopped", "Gone"} =>
              exec'[r][t] \in {exec[r][t], "Gone"}
         /\ ref'[r][t] = "null" => ref[r][t] = "null" /\ exec'[r][t] = None
  <1> DEFINE Over0(e) == e \in {"Succeeded", "Failed", "Stopped", "Gone"}
             Stays == /\ Over0(exec[r][t]) => exec'[r][t] \in {exec[r][t], "Gone"}
                      /\ exec[r][t] = None => exec'[r][t] = None
  <1>1. /\ blob \in [Runs -> [Tasks -> BlobStates]] /\ exec \in [Runs -> [Tasks -> ExecStates]]
        /\ ref \in [Runs -> [Tasks -> TaskRefs]] /\ pc \in [Runs -> PCs]
    BY DEF TypeInv, TypeOK, StoreTypeOK, ExecutorTypeOK
  <1>2. UNCHANGED exec => Stays
    OBVIOUS
  <1>3. ASSUME ContainerStep
        PROVE  /\ BlobTerminal(r, t) => blob'[r][t] = blob[r][t]
               /\ Stays
    <2>1. PICK q \in Runs, u \in Tasks :
            \/ ContainerBeats(q, u) \/ ContainerFinishes(q, u) \/ ContainerExits(q, u)
            \/ ContainerLosesFlush(q, u) \/ StopLands(q, u) \/ ExecutionVanishes(q, u)
      BY <1>3 DEF ContainerStep
    <2>2. BlobTerminal(r, t) => blob'[r][t] = blob[r][t]
      <3>1. None \notin EntityRollupStatuses
        BY DEF EntityRollupStatuses, None
      <3>2. ContainerBeats(q, u) \/ ContainerFinishes(q, u) \/ UNCHANGED blob
        BY <2>1 DEF ContainerExits, ContainerLosesFlush, StopLands, ExecutionVanishes
      <3> QED BY <1>1, <3>1, <3>2 DEF ContainerBeats, ContainerFinishes, Uploads, BlobTerminal
    <2>3. Stays
      BY <1>1, <2>1 DEF ContainerBeats, ContainerFinishes, ContainerExits, ContainerLosesFlush,
         StopLands, ExecutionVanishes, Ends, Live, None
    <2> QED BY <2>2, <2>3
  <1>4. ASSUME NEW c, NEW S, SubmitStops(c, S) PROVE Stays
    <2>1. exec'[r][t] = exec[r][t] \/ exec[r][t] = "Running"
      BY <1>1, <1>4 DEF SubmitStops
    <2> QED BY <2>1 DEF None
  <1>5. ASSUME ~ContainerStep, ~ExecutorStep PROVE Stays
    <2>1. \A p \in Callers : RequestStep(p) => Stays
      BY <1>2, <1>4 DEF RequestStep, ReqFind, ReqCreate, ReqReadExisting, ReqStop, ReqUpdate,
         ReqDies, storeVars
    <2>2. ReconcileStep => Stays
      BY <1>2, <1>4 DEF ReconcileStep, RecFind, RecDrop, RecResubmit, RecUpdate, RecWait,
         RecNudge, RecFails
    <2>3. TrackStep \/ TimerStep => UNCHANGED exec
      BY DEF TrackStep, TrkReadIntent, ResolveDispatchFailed, ResolveFromBlob, ResolveFromAca,
         AcaUnreachable, Defer, TrkWriteRun, TrkWriteTasks, TrkDeleteClaim, TrkDeleteIntent,
         CheckThrows, TimerStep, TickReconciles, TickSkipsReconcile, PassA, PassAEnds, PassB,
         PassBEnds, TickLists, Check, TickEnds, TimerDies, storeVars
    <2>4. EndpointStep => UNCHANGED exec
      BY DEF EndpointStep, OperatorCancels, OperatorReleases, ReleaseStep, RelFind, RelWriteRun,
         RelWriteTasks, RelDeleteClaim, RelDeleteIntent, RelDies, storeVars
    <2>5. (\E q \in Runs : DeadlinePasses(q)) \/ UNCHANGED vars => UNCHANGED exec
      BY DEF DeadlinePasses, vars, storeVars
    <2> HIDE DEF Stays
    <2> QED BY <1>2, <1>5, <2>1, <2>2, <2>3, <2>4, <2>5 DEF Next
  <1>6. ASSUME ExecutorStep
        PROVE  \/ ref'[r][t] = ref[r][t] /\ exec'[r][t] = exec[r][t]
               \/ ref[r][t] = "null" /\ ref'[r][t] # "null"
    <2>1. ASSUME NEW b \in Batches, Request(b) \/ Join(b) \/ HostDies(b)
          PROVE  UNCHANGED <<ref, exec>>
      BY <2>1 DEF Request, Join, HostDies, storeVars
    <2>2. ASSUME NEW q \in Runs, DispatchRun(q)
          PROVE  \/ UNCHANGED <<ref, exec>>
                 \/ \E u \in Tasks : Start(q, u) \/ StartFails(q, u)
      BY <2>2 DEF DispatchRun, Create, ForceHead, ForceCreate, ForceOverwrite, ClaimThrows,
         ClaimResponseLost, SecondWrite, SecondWriteResponseLost, SecondWriteThrows, storeVars
    <2>3. ASSUME NEW q \in Runs, NEW u \in Tasks, Start(q, u) \/ StartFails(q, u)
          PROVE  \/ ref'[r][t] = ref[r][t] /\ exec'[r][t] = exec[r][t]
                 \/ ref[r][t] = "null" /\ ref'[r][t] # "null"
      BY <1>1, <2>3 DEF Start, StartFails, SetRef, Ends
    <2> QED BY <1>6, <2>1, <2>2, <2>3 DEF ExecutorStep
  <1>7. /\ ref[r][t] = "null" => exec[r][t] = None
        /\ None \notin {"Succeeded", "Failed", "Stopped", "Gone"}
    BY DEF NotStartedOK, None
  <1>8. BlobTerminal(r, t) => blob'[r][t] = blob[r][t]
    BY <1>3, WhoChanges
  <1>9. ref'[r][t] = ref[r][t] \/ (ref[r][t] = "null" /\ ref'[r][t] # "null")
    BY <1>6, WhoChanges
  <1>10. Stays \/ (ref[r][t] = "null" /\ ref'[r][t] # "null")
    BY <1>3, <1>5, <1>6
  <1> QED BY <1>7, <1>8, <1>9, <1>10

\* So a cause lasts.
LEMMA TaskCauseStays ==
  ASSUME TypeInv, WritersOK, CauseInv, NotStartedOK, [Next]_vars,
         NEW r \in Runs, NEW t \in Tasks, NEW status, TaskHasCause(r, t, status)
  PROVE  TaskHasCause(r, t, status)'
  <1>1. /\ late[r] => late'[r]
        /\ intent[r].gen > 0 => intent'[r].gen > 0
    <2>1. intent[r].gen \in Nat /\ intent'[r].gen \in Nat
      BY NextTypes DEF TypeInv, TypeOK, StoreTypeOK, Intents
    <2> QED BY <2>1, LateStays, IntentCauseKept
  <1>2. /\ blob[r][t] \in {"success", "partial", "skipped", "failed"} => blob'[r][t] = blob[r][t]
        /\ ref[r][t] = "error" => ref'[r][t] = "error"
        /\ exec[r][t] \in {"Succeeded", "Failed", "Stopped", "Gone"} =>
             exec'[r][t] \in {exec[r][t], "Gone"}
    BY EvidenceMoves DEF BlobTerminal, EntityRollupStatuses
  <1> QED BY <1>1, <1>2 DEF TaskHasCause

\* What a flush or the end of an execution says is its cause.
LEMMA ReportedCause ==
  ASSUME NEW r, NEW t
  PROVE  /\ BlobTerminal(r, t) => TaskHasCause(r, t, MapEntityStatus(blob[r][t]))
         /\ exec[r][t] \in {"Succeeded", "Failed", "Stopped"} =>
              TaskHasCause(r, t, MapAcaTerminalStatus(exec[r][t]))
         /\ exec[r][t] = "Gone" => TaskHasCause(r, t, "failed")
         /\ TaskHasCause(r, t, "unresolved") /\ TaskHasCause(r, t, None)
         /\ MapAcaTerminalStatus(exec[r][t]) # None =>
              exec[r][t] \in {"Succeeded", "Failed", "Stopped", "Degraded"}
  BY DEF TaskHasCause, BlobTerminal, EntityRollupStatuses, MapEntityStatus, MapAcaTerminalStatus,
     None

\* A check settles a task by what it finds, and what it found stays true.
LEMMA CheckTasksKept ==
  ASSUME TypeInv, WritersOK, CauseInv, NotStartedOK, ClaimsTruthful, CheckTasks, [Next]_vars
  PROVE  CheckTasks'
  <1>1. /\ trk \in [at : TrkAt, claim : Claims, timedOut : BOOLEAN,
                    trigger : CancelTriggers \cup {None}, poll : Tasks \cup {NoTask},
                    res : [Tasks -> Resolved], failed : BOOLEAN]
        /\ trk.at # "idle" => TrkRun \in Runs
        /\ \A c \in tick.claims : c.run \in Runs
        /\ exec \in [Runs -> [Tasks -> ExecStates]]
    BY DEF TypeInv, TypeOK, TrackerTypeOK, StoreTypeOK, ActingOK
  <1>2. ASSUME trk.at # "idle", trk'.claim = trk.claim,
               \A t \in Tasks : trk'.res[t] = trk.res[t] \/ TaskHasCause(TrkRun, t, trk'.res[t])
        PROVE  CheckTasks'
    <2>1. PICK r \in Runs : r = TrkRun
      BY <1>1, <1>2
    <2>2. TrkRun' = r
      BY <1>2, <2>1 DEF TrkRun
    <2>3. ASSUME NEW t \in Tasks PROVE TaskHasCause(TrkRun, t, trk.res[t])'
      <3>1. PICK status : status = trk'.res[t]
        OBVIOUS
      <3>2. TaskHasCause(r, t, status)
        BY <1>2, <2>1, <3>1 DEF CheckTasks
      <3>3. TaskHasCause(r, t, status)'
        BY <3>2, TaskCauseStays
      <3> QED BY <2>2, <3>1, <3>3 DEF TaskHasCause
    <2> QED BY <2>3 DEF CheckTasks
  <1>3. trk'.at = "idle" => CheckTasks'
    BY DEF CheckTasks
  <1>4. ASSUME NEW t \in Tasks, NEW status, trk.at # "idle", Settle(t, status),
               TaskHasCause(TrkRun, t, status)
        PROVE  CheckTasks'
    <2>1. /\ trk'.claim = trk.claim
          /\ \A u \in Tasks : trk'.res[u] = IF u = t THEN status ELSE trk.res[u]
      BY <1>1, <1>4 DEF Settle
    <2> QED BY <1>2, <1>4, <2>1
  <1>5. ASSUME NEW t \in Tasks, ResolveDispatchFailed(t) PROVE CheckTasks'
    <2>1. trk.at # "idle" /\ trk.claim.task[t] = "error" /\ Settle(t, "dispatch_failed")
      BY <1>5 DEF ResolveDispatchFailed, Pending
    <2>2. ref[TrkRun][t] = "error"
      BY <2>1 DEF ClaimsTruthful, Truthful, NewClaim, TrkRun
    <2> QED BY <1>4, <2>1, <2>2 DEF TaskHasCause
  <1>6. ASSUME NEW t \in Tasks, ResolveFromBlob(t) PROVE CheckTasks'
    <2>1. trk.at # "idle"
      BY <1>6 DEF ResolveFromBlob, Pending
    <2>2. CASE BlobTerminal(TrkRun, t) /\ Settle(t, MapEntityStatus(blob[TrkRun][t]))
      BY <1>4, <2>1, <2>2, ReportedCause
    <2>3. CASE trk' = [trk EXCEPT !.poll = t]
      BY <1>1, <1>2, <2>1, <2>3
    <2>4. CASE Settle(t, IF ~trk.timedOut THEN "unresolved"
                         ELSE IF trk.trigger = "manual" THEN "cancelled"
                         ELSE "timed_out")
      <3>1. /\ trk.timedOut => late[TrkRun]
            /\ trk.trigger = "manual" => intent[TrkRun].gen > 0
        BY <2>1 DEF CauseInv, CheckCause
      <3>2. /\ late[TrkRun] => TaskHasCause(TrkRun, t, "timed_out")
            /\ intent[TrkRun].gen > 0 => TaskHasCause(TrkRun, t, "cancelled")
        BY DEF TaskHasCause
      <3> QED BY <1>4, <2>1, <2>4, <3>1, <3>2, ReportedCause
    <2> QED BY <1>6, <2>2, <2>3, <2>4 DEF ResolveFromBlob
  <1>7. ASSUME NEW t \in Tasks, ResolveFromAca(t) PROVE CheckTasks'
    <2> DEFINE e == exec[TrkRun][t]
               status == CASE e = "Stopped" -> StoppedStatus
                           [] e = "Gone"    -> "failed"
                           [] MapAcaTerminalStatus(e) # None /\ e # "Stopped"
                                            -> MapAcaTerminalStatus(e)
                           [] OTHER         -> "unresolved"
    <2>1. trk.at # "idle" /\ Settle(t, status) /\ TrkRun \in Runs
      BY <1>1, <1>7 DEF ResolveFromAca
    <2>2. e \in ExecStates /\ "Degraded" \notin ExecStates
      BY <1>1, <2>1 DEF ExecStates, None
    <2>3. e = "Stopped" => TaskHasCause(TrkRun, t, StoppedStatus)
      <3>1. /\ trk.trigger = "timeout" => late[TrkRun]
            /\ trk.trigger = "manual" => intent[TrkRun].gen > 0
        BY <2>1 DEF CauseInv, CheckCause
      <3>2. /\ late[TrkRun] => TaskHasCause(TrkRun, t, "timed_out")
            /\ intent[TrkRun].gen > 0 => TaskHasCause(TrkRun, t, "cancelled")
        BY DEF TaskHasCause
      <3> QED BY <3>1, <3>2, ReportedCause DEF StoppedStatus
    <2>4. TaskHasCause(TrkRun, t, status)
      BY <2>2, <2>3, ReportedCause
    <2> HIDE DEF status
    <2> QED BY <1>4, <2>1, <2>4
  <1>8. ASSUME NEW t \in Tasks, AcaUnreachable(t) PROVE CheckTasks'
    BY <1>4, <1>8, ReportedCause DEF AcaUnreachable
  <1>9. CASE Defer \/ CheckThrows \/ TimerDies
    BY <1>3, <1>9 DEF Defer, CheckThrows, TimerDies, TrkFinish, NoCheck
  <1>10. CASE TrkReadIntent \/ TrkWriteRun \/ TrkWriteTasks \/ TrkDeleteClaim \/ TrkDeleteIntent
    <2>1. TrkFinish \/ /\ trk.at # "idle"
                       /\ \E l \in TrkAt, f \in BOOLEAN, x \in CancelTriggers \cup {None} :
                            \/ trk' = [trk EXCEPT !.at = l]
                            \/ trk' = [trk EXCEPT !.at = l, !.failed = f]
                            \/ trk' = [trk EXCEPT !.at = l, !.trigger = x]
      <3>1. TrkReadIntent => intent[TrkRun].trigger \in CancelTriggers \cup {None}
        BY <1>1 DEF TrkReadIntent, TypeInv, TypeOK, StoreTypeOK, Intents
      <3> QED BY <1>10, <3>1 DEF TrkReadIntent, TrkWriteRun, AllLookedAt, TrkWriteTasks,
                 TrkDeleteClaim, TrkDeleteIntent, TrkAt
    <2>2. TrkFinish => CheckTasks'
      BY <1>3 DEF TrkFinish, NoCheck
    <2> QED BY <1>1, <1>2, <2>1, <2>2
  <1>11. ASSUME NEW c \in tick.claims, Check(c) PROVE CheckTasks'
    <2>1. \A t \in Tasks : trk'.res[t] = None
      BY <1>11 DEF Check, Checking, NoCheck
    <2> QED BY <2>1 DEF CheckTasks, TaskHasCause, None
  <1>12. CASE UNCHANGED trk
    BY <1>2, <1>3, <1>12
  <1> QED BY <1>5, <1>6, <1>7, <1>8, <1>9, <1>10, <1>11, <1>12, WhoChanges DEF TrackStep

\* The records of the tasks are those of a check, or of a release.
LEMMA RecordTasksKept ==
  ASSUME TypeInv, WritersOK, CauseInv, NotStartedOK, CheckTasks, RecordTasks, [Next]_vars
  PROVE  RecordTasks'
  <1>1. taskRec \in [Runs -> [Tasks -> TaskStatuses \cup {None}]]
    BY DEF TypeInv, TypeOK, StoreTypeOK
  <1>2. ASSUME NEW r \in Runs, NEW t \in Tasks, TaskHasCause(r, t, taskRec'[r][t])
        PROVE  TaskHasCause(r, t, taskRec[r][t])'
    <2>1. PICK status : status = taskRec'[r][t]
      OBVIOUS
    <2>2. TaskHasCause(r, t, status)'
      BY <1>2, <2>1, TaskCauseStays
    <2> QED BY <2>1, <2>2 DEF TaskHasCause
  <1>3. CASE UNCHANGED taskRec
    BY <1>2, <1>3 DEF RecordTasks
  <1>4. ASSUME NEW q \in Runs, NEW statuses, WriteTasks(q, statuses),
               \A t \in Tasks : TaskHasCause(q, t, statuses[t])
        PROVE  RecordTasks'
    <2>1. \A r \in Runs : taskRec'[r] = taskRec[r] \/ (r = q /\ taskRec'[r] = statuses)
      BY <1>1, <1>4 DEF WriteTasks
    <2>2. \A r \in Runs, t \in Tasks : TaskHasCause(r, t, taskRec'[r][t])
      BY <1>4, <2>1 DEF RecordTasks
    <2> QED BY <1>2, <2>2 DEF RecordTasks
  <1>5. CASE TrkWriteTasks
    <2>1. trk.at # "idle" /\ TrkRun \in Runs
      BY <1>5 DEF TrkWriteTasks, TypeInv, ActingOK
    <2>2. \A t \in Tasks : TaskHasCause(TrkRun, t, trk.res[t])
      BY <2>1 DEF CheckTasks
    <2> QED BY <1>3, <1>4, <1>5, <2>1, <2>2 DEF TrkWriteTasks
  <1>6. ASSUME NEW p \in Operators, RelWriteTasks(p) PROVE RecordTasks'
    <2>1. release[p].run \in Runs /\ AllowRelease /\ intent[release[p].run].gen > 0
      BY <1>6 DEF RelWriteTasks, TypeInv, ActingOK, CauseInv, ReleaseCause
    <2>2. \A t \in Tasks : TaskHasCause(release[p].run, t,
                                        [u \in Tasks |-> "cancellation_failed"][t])
      BY <2>1 DEF TaskHasCause
    <2> QED BY <1>3, <1>4, <1>6, <2>1, <2>2 DEF RelWriteTasks
  <1> QED BY <1>3, <1>5, <1>6, WhoChanges

\* An execution comes with its start.
LEMMA NotStartedKept ==
  ASSUME TypeInv, NotStartedOK, [Next]_vars PROVE NotStartedOK'
  BY EvidenceMoves DEF NotStartedOK

(* StatusHasCause, whatever is forced, released, delayed or lost: a        *)
(* recorded status of a run or of a task has its cause, across the stale   *)
(* claims and reads of RunTracker and RunCanceller.                        *)
THEOREM StatusesHaveCauses == Spec => []StatusHasCause
  <1> DEFINE Inv == TypeInv /\ WritersOK /\ CauseInv /\ TasksInv
  <1>1. Inv /\ [Next]_vars => Inv'
    BY NextCause, NotStartedKept, ClaimsTruthfulKept, CheckTasksKept, RecordTasksKept DEF TasksInv
  <1>2. Init => Inv
    BY InitTypes, InitWriters, InitCause, InitTasks
  <1>3. Inv => StatusHasCause
    BY DEF CauseInv, RunHasCause, TasksInv, RecordTasks, StatusHasCause
  <1> HIDE DEF Inv
  <1> QED BY <1>1, <1>2, <1>3, PTL DEF Spec

-----------------------------------------------------------------------------
(* The two records of a run agree.                                         *)

\* The budget of faults is not restored, and a fault is seen in it.
LEMMA FaultSeen ==
  ASSUME TypeInv, [Next]_vars, faults' = MaxFaults
  PROVE  faults = MaxFaults /\ ~Fault
  <1>1. faults \in 0..MaxFaults /\ MaxFaults \in Nat
    BY StoreAssumption DEF TypeInv, TypeOK, StoreTypeOK
  <1>2. ~Fault
    BY <1>1 DEF Fault
  <1> HIDE DEF Fault
  <1> USE DEF storeVars
  <1>3. ContainerStep => UNCHANGED faults
    BY <1>2 DEF ContainerStep, ContainerBeats, ContainerFinishes, ContainerExits,
       ContainerLosesFlush, StopLands, ExecutionVanishes
  <1>4. ExecutorStep => UNCHANGED faults
    BY <1>2 DEF ExecutorStep, DispatchRun, Request, Join, HostDies, Create, ForceHead,
       ForceCreate, ForceOverwrite, ClaimThrows, ClaimResponseLost, Start, StartFails,
       SecondWrite, SecondWriteResponseLost, SecondWriteThrows
  <1>5. \A p \in Callers : RequestStep(p) => UNCHANGED faults
    BY <1>2 DEF RequestStep, ReqFind, ReqCreate, ReqReadExisting, ReqStop, ReqUpdate, ReqDies
  <1>6. ReconcileStep => UNCHANGED faults
    BY <1>2 DEF ReconcileStep, RecFind, RecDrop, RecResubmit, RecUpdate, RecWait, RecNudge,
       RecFails
  <1>7. TrackStep => UNCHANGED faults
    BY <1>2 DEF TrackStep, TrkReadIntent, ResolveDispatchFailed, ResolveFromBlob,
       ResolveFromAca, AcaUnreachable, Defer, TrkWriteRun, TrkWriteTasks, TrkDeleteClaim,
       TrkDeleteIntent, CheckThrows
  <1>8. TimerStep => UNCHANGED faults
    BY <1>2 DEF TimerStep, TickReconciles, Listing, TickSkipsReconcile, PassA, PassAEnds, PassB,
       PassBEnds, TickLists, Check, TickEnds, TimerDies
  <1>9. EndpointStep => UNCHANGED faults
    BY <1>2 DEF EndpointStep, OperatorCancels, OperatorReleases, ReleaseStep, RelFind,
       RelWriteRun, RelWriteTasks, RelDeleteClaim, RelDeleteIntent, RelDies
  <1>10. (\E r \in Runs : DeadlinePasses(r)) \/ UNCHANGED vars => UNCHANGED faults
    BY DEF DeadlinePasses, vars
  <1> QED BY <1>2, <1>3, <1>4, <1>5, <1>6, <1>7, <1>8, <1>9, <1>10 DEF Next

\* A record that the tracker has written and whose tasks it is about to write.
BeingRecorded(r) ==
  trk.at = "write_tasks" /\ TrkRun = r /\ runRec[r] = FinalStatus /\ taskRec[r] = NoTaskRec

ReleaseRecords(r) == ForceReleased(r) \/ \E t \in Tasks : taskRec[r][t] = "cancellation_failed"

Summary(r) ==
  \/ runRec[r] = None /\ taskRec[r] = NoTaskRec
  \/ ReleaseRecords(r)
  \/ r \in Recorded /\ runRec[r] = ComputeRunStatus({taskRec[r][t] : t \in Tasks})
  \/ BeingRecorded(r)

SummaryOK ==
  faults = MaxFaults =>
    /\ trk.at = "write_tasks" => runRec[TrkRun] # None
    /\ \A r \in Runs : Summary(r)

LEMMA InitSummary == Init => SummaryOK
  BY DEF Init, StoreInit, TrackerInit, NoCheck, SummaryOK, Summary

\* The two records of a check are written one after the other.
LEMMA SummaryKept == ASSUME TypeInv, SummaryOK, [Next]_vars PROVE SummaryOK'
  <1> SUFFICES ASSUME faults' = MaxFaults
               PROVE  /\ trk'.at = "write_tasks" => runRec'[TrkRun'] # None
                      /\ \A r \in Runs : Summary(r)'
    BY DEF SummaryOK
  <1>1. /\ faults = MaxFaults /\ ~Fault
        /\ trk.at = "write_tasks" => runRec[TrkRun] # None
        /\ \A r \in Runs : Summary(r)
    BY FaultSeen DEF SummaryOK
  <1>2. /\ runRec \in [Runs -> RunStatuses \cup {None}] /\ None \notin RunStatuses
        /\ taskRec \in [Runs -> [Tasks -> TaskStatuses \cup {None}]] /\ None \notin TaskStatuses
        /\ trk.at # "idle" => TrkRun \in Runs
        /\ FinalStatus \in RunStatuses
    BY RunStatusType
       DEF TypeInv, TypeOK, StoreTypeOK, ActingOK, None, RunStatuses, TaskStatuses, FinalStatus
  <1>3. CASE TrkWriteRun
    <2>1. /\ trk.at = "resolve" /\ WriteRun(TrkRun, FinalStatus) /\ UNCHANGED taskRec
          /\ trk' = [trk EXCEPT !.at = "write_tasks"]
      BY <1>1, <1>3 DEF TrkWriteRun, AllLookedAt
    <2>2. PICK q \in Runs : q = TrkRun
      BY <1>2, <2>1
    <2>3. /\ trk'.at = "write_tasks" /\ TrkRun' = q /\ FinalStatus' = FinalStatus
      BY <2>1, <2>2 DEF TypeInv, TypeOK, TrackerTypeOK, TrkRun, FinalStatus
    <2>4. /\ \A r \in Runs \ {q} : UNCHANGED runRec[r]
          /\ runRec'[q] = IF runRec[q] = None THEN FinalStatus ELSE runRec[q]
      BY <1>2, <2>1, <2>2 DEF WriteRun
    <2>5. \A r \in Runs : ~BeingRecorded(r)
      BY <2>1 DEF BeingRecorded
    <2>6. Summary(q)'
      <3>1. CASE runRec[q] = None /\ taskRec[q] = NoTaskRec
        BY <2>1, <2>3, <2>4, <3>1 DEF Summary, BeingRecorded
      <3>2. CASE ReleaseRecords(q)
        BY <1>2, <2>1, <2>4, <3>2 DEF Summary, ReleaseRecords, ForceReleased, None
      <3>3. CASE q \in Recorded /\ runRec[q] = ComputeRunStatus({taskRec[q][t] : t \in Tasks})
        BY <2>1, <2>4, <3>3 DEF Summary, Recorded
      <3> QED BY <1>1, <2>5, <3>1, <3>2, <3>3 DEF Summary
    <2>7. ASSUME NEW r \in Runs \ {q} PROVE Summary(r)'
      BY <1>1, <2>1, <2>4, <2>5 DEF Summary, ReleaseRecords, ForceReleased, Recorded
    <2> QED BY <1>2, <2>2, <2>3, <2>4, <2>6, <2>7
  <1>4. CASE TrkWriteTasks
    <2>1. /\ trk.at = "write_tasks" /\ WriteTasks(TrkRun, trk.res) /\ UNCHANGED runRec
          /\ trk'.at # "write_tasks"
      BY <1>1, <1>4 DEF TrkWriteTasks, TrkFinish, NoCheck, TypeInv, TypeOK, TrackerTypeOK
    <2>2. PICK q \in Runs :
            q = TrkRun /\ runRec[q] # None /\ trk.res \in [Tasks -> TaskStatuses]
      BY <1>1, <1>2, <2>1 DEF TypeInv, TypeOK, TrackerTypeOK, SettledOK
    <2>3. /\ \A r \in Runs \ {q} : UNCHANGED taskRec[r]
          /\ taskRec'[q] = IF taskRec[q] = NoTaskRec THEN trk.res ELSE taskRec[q]
      BY <1>2, <2>1, <2>2 DEF WriteTasks
    <2>4. ASSUME NEW r \in Runs \ {q} PROVE Summary(r)'
      <3>1. UNCHANGED <<runRec[r], taskRec[r]>> /\ ~BeingRecorded(r)
        BY <2>1, <2>2, <2>3, <2>4 DEF BeingRecorded
      <3> QED BY <1>1, <3>1 DEF Summary, ReleaseRecords, ForceReleased, Recorded
    <2>5. CASE taskRec[q] # NoTaskRec
      <3>1. UNCHANGED taskRec[q] /\ ~BeingRecorded(q)
        BY <2>3, <2>5 DEF BeingRecorded
      <3> QED BY <1>1, <2>1, <2>2, <2>4, <3>1
              DEF Summary, ReleaseRecords, ForceReleased, Recorded
    <2>6. CASE taskRec[q] = NoTaskRec
      <3>1. \A t \in Tasks : taskRec[q][t] # "cancellation_failed"
        BY <2>6 DEF NoTaskRec, None
      <3>2. ForceReleased(q) \/ runRec[q] = ComputeRunStatus({trk.res[t] : t \in Tasks})
        BY <1>1, <2>2, <2>6, <3>1
           DEF Summary, ReleaseRecords, Recorded, BeingRecorded, FinalStatus
      <3>3. trk.res # NoTaskRec
        BY <1>2, <2>2, StoreAssumption DEF NoTaskRec
      <3> QED BY <2>1, <2>2, <2>3, <2>4, <2>6, <3>2, <3>3
              DEF Summary, ReleaseRecords, ForceReleased, Recorded
    <2> QED BY <2>5, <2>6
  <1>5. ASSUME NEW p \in Operators, RelWriteRun(p) \/ RelWriteTasks(p) PROVE
               /\ trk'.at = "write_tasks" => runRec'[TrkRun'] # None
               /\ \A r \in Runs : Summary(r)'
    <2>1. UNCHANGED trk /\ release[p].run \in Runs
      BY <1>5 DEF RelWriteRun, RelWriteTasks, trackVars, TypeInv, ActingOK
    <2>2. UNCHANGED TrkRun /\ UNCHANGED FinalStatus
      BY <2>1 DEF TrkRun, FinalStatus
    <2>3. \A r \in Runs : \/ UNCHANGED <<runRec[r], taskRec[r]>>
                          \/ ReleaseRecords(r)' /\ runRec'[r] \in {runRec[r], "cancellation_failed"}
      <3>1. CASE RelWriteRun(p)
        <4>1. WriteRun(release[p].run, "cancellation_failed") /\ UNCHANGED taskRec
          BY <1>1, <3>1 DEF RelWriteRun
        <4> QED BY <1>2, <2>1, <4>1 DEF WriteRun, ReleaseRecords, ForceReleased
      <3>2. CASE RelWriteTasks(p)
        <4>1. /\ WriteTasks(release[p].run, [t \in Tasks |-> "cancellation_failed"])
              /\ UNCHANGED runRec
          BY <1>1, <3>2 DEF RelWriteTasks
        <4>2. \A r \in Runs : \/ UNCHANGED taskRec[r]
                              \/ taskRec'[r] = [t \in Tasks |-> "cancellation_failed"]
          BY <1>2, <2>1, <4>1 DEF WriteTasks
        <4> QED BY <4>1, <4>2, StoreAssumption DEF ReleaseRecords
      <3> QED BY <1>5, <3>1, <3>2
    <2>4. trk'.at = "write_tasks" => runRec'[TrkRun'] # None
      BY <1>1, <1>2, <2>1, <2>2, <2>3 DEF None
    <2>5. ASSUME NEW r \in Runs PROVE Summary(r)'
      <3>1. CASE ReleaseRecords(r)'
        BY <3>1 DEF Summary
      <3>2. CASE UNCHANGED <<runRec[r], taskRec[r]>>
        BY <1>1, <2>1, <2>2, <3>2
           DEF Summary, ReleaseRecords, ForceReleased, Recorded, BeingRecorded
      <3> QED BY <2>3, <3>1, <3>2
    <2> QED BY <2>4, <2>5
  <1>6. ASSUME UNCHANGED <<runRec, taskRec>>,
               UNCHANGED trk \/ (trk.at # "write_tasks" /\ trk'.at # "write_tasks")
        PROVE  /\ trk'.at = "write_tasks" => runRec'[TrkRun'] # None
               /\ \A r \in Runs : Summary(r)'
    <2>1. \A r \in Runs : BeingRecorded(r) => BeingRecorded(r)'
      BY <1>6 DEF BeingRecorded, TrkRun, FinalStatus
    <2>2. \A r \in Runs : Summary(r)'
      BY <1>1, <1>6, <2>1 DEF Summary, ReleaseRecords, ForceReleased, Recorded
    <2> QED BY <1>1, <1>6, <2>2 DEF TrkRun
  <1>7. ASSUME TrackStep, ~TrkWriteRun, ~TrkWriteTasks
        PROVE  trk.at # "write_tasks" /\ trk'.at # "write_tasks"
    <2>1. ASSUME NEW t \in Tasks,
                 ResolveDispatchFailed(t) \/ ResolveFromBlob(t) \/ ResolveFromAca(t)
          PROVE  trk.at = "resolve" /\ trk'.at = "resolve"
      BY <2>1 DEF TypeInv, TypeOK, TrackerTypeOK, ResolveDispatchFailed, ResolveFromBlob,
         ResolveFromAca, Pending, Settle
    <2>2. CASE TrkReadIntent
      BY <2>2 DEF TypeInv, TypeOK, TrackerTypeOK, TrkReadIntent
    <2>4. CASE Defer \/ TrkDeleteIntent
      BY <2>4 DEF Defer, AllLookedAt, TrkDeleteIntent, TrkFinish, NoCheck
    <2>5. CASE TrkDeleteClaim
      BY <2>5 DEF TypeInv, TypeOK, TrackerTypeOK, TrkDeleteClaim, TrkFinish, NoCheck
    <2>3. ~CheckThrows /\ \A t \in Tasks : ~AcaUnreachable(t)
      BY <1>1 DEF CheckThrows, AcaUnreachable
    <2> QED BY <1>7, <2>1, <2>2, <2>3, <2>4, <2>5 DEF TrackStep
  <1>8. ASSUME NEW c \in tick.claims, Check(c)
        PROVE  trk.at # "write_tasks" /\ trk'.at # "write_tasks"
    BY <1>8 DEF Check, Checking, NoCheck
  <1>9. ~TimerDies
    BY <1>1 DEF TimerDies
  <1> QED BY <1>3, <1>4, <1>5, <1>6, <1>7, <1>8, <1>9, WhoChanges

(* Whatever is forced or released, and whenever: until a call fails, the   *)
(* tracker writes for a run the sum of what it writes for its tasks.       *)
THEOREM RecordsAgreeHolds == Spec => []RecordsAgree
  <1>1. TypeInv /\ SummaryOK /\ [Next]_vars => (TypeInv /\ SummaryOK)'
    BY NextTypes, SummaryKept
  <1>2. Init => TypeInv /\ SummaryOK
    BY InitTypes, InitSummary
  <1>3. SummaryOK => RecordsAgree
    BY DEF SummaryOK, Summary, ReleaseRecords, Recorded, BeingRecorded, RecordsAgree
  <1> QED BY <1>1, <1>2, <1>3, PTL DEF Spec

-----------------------------------------------------------------------------
(* Who may take a claim, and who an intent.                                *)

\* Only a request that carries force overwrites.
ForcingOK == \A r \in Runs : pc[r] \in {"force_new", "force_over"} => forced[r]

(* At first nobody forces.                                                 *)
LEMMA InitForcing == Init => ForcingOK
  BY DEF Init, ExecutorInit, ForcingOK

(* The conditional writes with force are steps of requests with force.     *)
LEMMA ForcingKept ==
  ASSUME TypeInv, ForcingOK, [Next]_vars PROVE ForcingOK'
  <1>1. pc \in [Runs -> PCs] /\ forced \in [Runs -> BOOLEAN]
    BY DEF TypeInv, TypeOK, ExecutorTypeOK
  <1>2. CASE UNCHANGED <<pc, forced>>
    BY <1>2 DEF ForcingOK
  <1>3. ASSUME NEW b \in Batches, Request(b) PROVE ForcingOK'
    BY <1>1, <1>3 DEF Request, ForcingOK
  <1>4. ASSUME NEW b \in Batches, Join(b) \/ HostDies(b) PROVE ForcingOK'
    BY <1>1, <1>4 DEF Join, HostDies, ForcingOK
  <1>5. ASSUME NEW r \in Runs, DispatchRun(r) PROVE ForcingOK'
    <2>1. /\ UNCHANGED forced
          /\ \A q \in Runs \ {r} : pc'[q] = pc[q]
          /\ pc'[r] \in {"force_new", "force_over"} => pc'[r] = pc[r] \/ forced[r]
      BY <1>1, <1>5 DEF DispatchRun, Create, ForceHead, ForceCreate, ForceOverwrite, PutIfAbsent,
         ClaimThrows, ClaimResponseLost, Start, StartFails, SecondWrite,
         SecondWriteResponseLost, SecondWriteThrows, Goto
    <2> QED BY <2>1 DEF ForcingOK
  <1> QED BY <1>2, <1>3, <1>4, <1>5, WhoChanges DEF ExecutorStep

(* ClaimChangesHands, for every value of the constants: the two            *)
(* conditional writes of ClaimWriter and the deletions are the only writes *)
(* of a claim.                                                             *)
THEOREM ClaimsChangeHandsByForce == Spec => ClaimChangesHands
  <1> DEFINE Hands(s) == claim[s] # NoClaim /\ claim'[s] # NoClaim /\ claim'[s] # claim[s] =>
                           LET new == claim'[s].run IN
                           \/ forced[new] /\ seen[new] = claim[s]
                           \/ new = claim[s].run /\ claim[s] = NewClaim(new)
  <1>1. ASSUME TypeInv, ForcingOK, [Next]_vars, NEW s \in Slots PROVE Hands(s)
    <2> USE DEF PutClaim
    <2>1. claim \in [Slots -> Claims]
      BY <1>1 DEF TypeInv, TypeOK, StoreTypeOK
    <2>2. UNCHANGED claim => Hands(s)
      OBVIOUS
    <2>3. TrkDeleteClaim \/ (\E p \in Operators : RelDeleteClaim(p)) => Hands(s)
      BY <2>1 DEF TrkDeleteClaim, RelDeleteClaim
    <2>4. ASSUME NEW r \in Runs, Create(r) \/ ForceCreate(r) PROVE Hands(s)
      BY <2>1, <2>4 DEF Create, ForceCreate, PutIfAbsent
    <2>5. ASSUME NEW r \in Runs, ForceOverwrite(r) PROVE Hands(s)
      BY <1>1, <2>1, <2>5 DEF ForceOverwrite, ForcingOK, NewClaim
    <2>6. ASSUME NEW r \in Runs, ClaimResponseLost(r) PROVE Hands(s)
      BY <1>1, <2>1, <2>6 DEF ClaimResponseLost, ForcingOK, NewClaim
    <2>7. ASSUME NEW r \in Runs, SecondWrite(r) \/ SecondWriteResponseLost(r) PROVE Hands(s)
      BY <2>1, <2>7 DEF SecondWrite, SecondWriteResponseLost, NewClaim
    <2>8. ASSUME ExecutorStep,
                 \A r \in Runs : ~(Create(r) \/ ForceCreate(r) \/ ForceOverwrite(r)
                                   \/ ClaimResponseLost(r) \/ SecondWrite(r)
                                   \/ SecondWriteResponseLost(r))
          PROVE  UNCHANGED claim
      BY <2>8 DEF ExecutorStep, Request, Join, HostDies, DispatchRun, ForceHead, ClaimThrows,
         Start, StartFails, SecondWriteThrows, storeVars
    <2> HIDE DEF Hands
    <2> QED BY <1>1, <2>2, <2>3, <2>4, <2>5, <2>6, <2>7, <2>8, WhoChanges
  <1>2. TypeInv /\ ForcingOK /\ [Next]_vars =>
          (TypeInv /\ ForcingOK)' /\ [\A s \in Slots : Hands(s)]_vars
    BY <1>1, NextTypes, ForcingKept
  <1> QED BY <1>2, InitTypes, InitForcing, PTL DEF Spec, ClaimChangesHands

\* The run's request has passed its claim phase: it never claims again.
HadClaim(r) == pc[r] \notin {"idle"} \cup Claiming

\* Intents, and whoever acts on one, are about runs that have had a claim.
PastOK ==
  /\ \A r \in Runs : Active(r) \/ HasIntent(r) => HadClaim(r)
  /\ \A p \in Callers : req[p].at # "idle" => HadClaim(req[p].run)
  /\ rec.at # "idle" => HadClaim(rec.run)
  /\ \A p \in Operators : release[p].at # "idle" => HadClaim(release[p].run)
  /\ trk.at # "idle" => HadClaim(TrkRun)
  /\ \A c \in tick.claims : HadClaim(c.run)
  /\ \A f \in tick.intents : HadClaim(f.run)

\* Whoever is about to delete an intent saw the claim gone, or deleted it.
GoneOK ==
  faults = MaxFaults =>
    /\ rec.at = "drop" => ~Active(rec.run)
    /\ trk.at = "delete_intent" => ~Active(TrkRun)
    /\ \A p \in Operators : release[p].at \in {"drop", "delete_intent"} => ~Active(release[p].run)

(* At first nobody acts on a run.                                          *)
LEMMA InitPast == Init => PastOK /\ GoneOK
  BY StoreAssumption
     DEF Init, StoreInit, ExecutorInit, CancellerInit, TrackerInit, NoTick, NoRelease, NoRequest,
         NoReconcile, NoCheck, NoIntent, NoClaim, NewClaim, PastOK, GoneOK, Active, HasIntent

\* A run that has had a claim does not get one again, and one that gets a
\* claim has had one from then on.
LEMMA ClaimedOnce ==
  ASSUME TypeInv, PastOK, [Next]_vars, NEW r \in Runs
  PROVE  /\ HadClaim(r) => HadClaim(r)'
         /\ HadClaim(r) /\ ~Active(r) => ~Active(r)'
         /\ Active(r)' => HadClaim(r)'
  <1>1. /\ pc \in [Runs -> PCs] /\ claim \in [Slots -> Claims]
        /\ SlotOf[r] \in Slots /\ r # NoRun
    BY StoreAssumption DEF TypeInv, TypeOK, ExecutorTypeOK, StoreTypeOK
  <1>2. HadClaim(r) => HadClaim(r)'
    <2>1. ASSUME NEW b \in Batches, Request(b) \/ Join(b) \/ HostDies(b)
          PROVE  HadClaim(r) => HadClaim(r)'
      BY <1>1, <2>1 DEF Request, Join, HostDies, HadClaim, Claiming
    <2>2. ASSUME NEW q \in Runs, DispatchRun(q)
          PROVE  HadClaim(r) => HadClaim(r)'
      BY <1>1, <2>2 DEF DispatchRun, Create, ForceHead, ForceCreate, ForceOverwrite, PutIfAbsent,
         ClaimThrows, ClaimResponseLost, Start, StartFails, SecondWrite,
         SecondWriteResponseLost, SecondWriteThrows, Goto, HadClaim, Claiming
    <2>3. UNCHANGED pc => (HadClaim(r) => HadClaim(r)')
      BY DEF HadClaim
    <2> QED BY <2>1, <2>2, <2>3, WhoChanges DEF ExecutorStep
  <1> DEFINE Once == Active(r)' => Active(r) \/ (~HadClaim(r) /\ HadClaim(r)')
  <1>3. UNCHANGED claim => Once
    BY DEF Active
  <1>4. TrkDeleteClaim \/ (\E p \in Operators : RelDeleteClaim(p)) => Once
    <2>1. TrkDeleteClaim \/ (\E p \in Operators : RelDeleteClaim(p)) =>
            claim'[SlotOf[r]] \in {claim[SlotOf[r]], NoClaim}
      BY <1>1 DEF TrkDeleteClaim, RelDeleteClaim
    <2> QED BY <1>1, <2>1 DEF Active, NoClaim, NewClaim
  <1>5. ASSUME NEW q \in Runs, NEW c, PutClaim(q, c), c.run = q PROVE q # r => Once
    BY <1>1, <1>5 DEF PutClaim, Active
  <1>6. ASSUME NEW q \in Runs, Create(q) \/ ForceCreate(q) \/ ForceOverwrite(q)
                               \/ ClaimResponseLost(q)
        PROVE  Once
    <2>1. \/ UNCHANGED claim
          \/ /\ PutClaim(q, NewClaim(q)) /\ pc[q] \in Claiming
             /\ pc'[q] \in {"claimed"} \cup Rejections
      BY <1>1, <1>6 DEF Create, ForceCreate, ForceOverwrite, ClaimResponseLost, PutIfAbsent, Goto,
         Claiming, Rejections
    <2>2. NewClaim(q).run = q
      BY DEF NewClaim
    <2> QED BY <1>3, <1>5, <2>1, <2>2 DEF HadClaim, Claiming, Rejections
  <1>7. ASSUME NEW q \in Runs, SecondWrite(q) \/ SecondWriteResponseLost(q) PROVE Once
    <2>1. UNCHANGED claim \/ (claim[SlotOf[q]] = NewClaim(q)
                              /\ PutClaim(q, [run |-> q, task |-> ref[q]]))
      BY <1>7 DEF SecondWrite, SecondWriteResponseLost
    <2> QED BY <1>3, <1>5, <2>1 DEF Active, NewClaim
  <1>8. ASSUME ExecutorStep,
               \A q \in Runs : ~(Create(q) \/ ForceCreate(q) \/ ForceOverwrite(q)
                                 \/ ClaimResponseLost(q) \/ SecondWrite(q)
                                 \/ SecondWriteResponseLost(q))
        PROVE  UNCHANGED claim
    BY <1>8 DEF ExecutorStep, Request, Join, HostDies, DispatchRun, ForceHead, ClaimThrows,
       Start, StartFails, SecondWriteThrows, storeVars
  <1>9. Once
    <2> HIDE DEF Once
    <2> QED BY <1>3, <1>4, <1>6, <1>7, <1>8, WhoChanges
  <1> QED BY <1>2, <1>9 DEF PastOK

\* What the reconciler, a release and a tick act on.
LEMMA ActedOn ==
  ASSUME TypeInv, [Next]_vars
  PROVE  /\ \/ rec'.at = "idle"
            \/ rec.at # "idle" /\ rec'.run = rec.run
            \/ \E f \in tick.intents : rec'.run = f.run /\ rec'.at = "find"
         /\ \A p \in Operators :
              \/ release'[p].at = "idle"
              \/ release[p].at # "idle" /\ release'[p].run = release[p].run
              \/ \E r \in Runs : /\ HasIntent(r) /\ release'[p].run = r
                                 /\ release'[p].at = "find"
         /\ \/ tick'.intents \subseteq tick.intents
            \/ \A f \in tick'.intents : f.run \in Runs /\ HasIntent(f.run)
  <1>1. /\ rec \in [at : RecAt, run : Runs \cup {NoRun}, intent : Intents, claim : Claims]
        /\ release \in [Operators -> [at : RelAt, run : Runs \cup {NoRun},
                                      claim : Claims, failed : BOOLEAN]]
        /\ tick \in [at : TickAt, claims : SUBSET Claims,
                     intents : SUBSET [run : Runs, intent : Intents]]
    BY DEF TypeInv, TypeOK, CancellerTypeOK
  <1>2. \/ rec'.at = "idle"
        \/ rec.at # "idle" /\ rec'.run = rec.run
        \/ \E f \in tick.intents : rec'.run = f.run /\ rec'.at = "find"
    <2>1. RecFinish \/ TimerDies => rec'.at = "idle"
      BY DEF RecFinish, TimerDies, NoReconcile
    <2>2. ReconcileStep => RecFinish \/ (rec.at # "idle" /\ rec'.run = rec.run)
      BY <1>1 DEF ReconcileStep, RecFind, RecDrop, RecResubmit, RecUpdate, RecWait, RecNudge,
         RecFails, RecGoto
    <2>3. ASSUME NEW f \in tick.intents, PassB(f)
          PROVE  rec'.run = f.run /\ rec'.at = "find"
      BY <2>3 DEF PassB, Reconciling, NoReconcile
    <2>4. TimerStep => UNCHANGED rec \/ TimerDies \/ \E f \in tick.intents : PassB(f)
      BY DEF TimerStep, TickReconciles, TickSkipsReconcile, PassA, PassAEnds, PassBEnds,
         TickLists, Check, TickEnds, cancelVars
    <2>5. \A p \in Callers : RequestStep(p) => UNCHANGED rec
      BY DEF RequestStep, ReqFind, ReqCreate, ReqReadExisting, ReqStop, ReqUpdate, ReqDies
    <2>6. EndpointStep => UNCHANGED rec
      BY DEF EndpointStep, OperatorCancels, OperatorReleases, ReleaseStep, RelFind, RelWriteRun,
         RelWriteTasks, RelDeleteClaim, RelDeleteIntent, RelDies, cancelVars
    <2>7. (\E r \in Runs : DeadlinePasses(r)) \/ UNCHANGED vars => UNCHANGED rec
      BY DEF DeadlinePasses, vars, cancelVars
    <2>8. UNCHANGED rec => rec'.at = "idle" \/ (rec.at # "idle" /\ rec'.run = rec.run)
      OBVIOUS
    <2> QED BY <2>1, <2>2, <2>3, <2>4, <2>5, <2>6, <2>7, <2>8 DEF Next, cancelVars
  <1>3. ASSUME NEW p \in Operators
        PROVE  \/ release'[p].at = "idle"
               \/ release[p].at # "idle" /\ release'[p].run = release[p].run
               \/ \E r \in Runs : /\ HasIntent(r) /\ release'[p].run = r
                                  /\ release'[p].at = "find"
    <2>1. ASSUME NEW q \in Operators, ReleaseStep(q)
          PROVE  \/ release'[p] = release[p]
                 \/ release'[p] = NoRelease
                 \/ release[p].at # "idle" /\ release'[p].run = release[p].run
      BY <1>1, <2>1 DEF ReleaseStep, RelFind, RelWriteRun, RelWriteTasks, RelDeleteClaim,
         RelDeleteIntent, RelDies, RelGoto, RelFinish
    <2>2. ASSUME NEW q \in Operators, NEW r \in Runs, OperatorReleases(q, r)
          PROVE  \/ release'[p] = release[p]
                 \/ HasIntent(r) /\ release'[p].run = r /\ release'[p].at = "find"
      BY <1>1, <2>2 DEF OperatorReleases, HasIntent, NoRelease
    <2> QED BY <2>1, <2>2, WhoChanges DEF NoRelease
  <1>4. \/ tick'.intents \subseteq tick.intents
        \/ \A f \in tick'.intents : f.run \in Runs /\ HasIntent(f.run)
    <2>1. TickSkipsReconcile \/ TickEnds \/ TimerDies \/ TickReconciles \/ TickLists =>
            tick'.intents = {}
      <3>1. \A l, S : [NoTick EXCEPT !.at = l, !.claims = S].intents = {}
        BY DEF NoTick
      <3>2. TickReconciles \/ TickLists => tick'.intents = {}
        BY <3>1 DEF TickReconciles, TickLists
      <3> QED BY <3>2 DEF TickSkipsReconcile, TickEnds, TimerDies, NoTick
    <2>2. PassBEnds \/ (\E c \in tick.claims : PassA(c) \/ Check(c)) =>
            tick'.intents = tick.intents
      BY <1>1 DEF PassBEnds, PassA, Check
    <2>3. \A f \in tick.intents : PassB(f) => tick'.intents \subseteq tick.intents
      BY <1>1 DEF PassB
    <2>4. PassAEnds => \A f \in tick'.intents : f.run \in Runs /\ HasIntent(f.run)
      BY <1>1 DEF PassAEnds, IntentsFound
    <2> QED BY <2>1, <2>2, <2>3, <2>4, WhoChanges DEF TimerStep
  <1> QED BY <1>2, <1>3, <1>4

(* An intent is created for a run found claimed, and all else starts from  *)
(* an intent, a listed claim or a listed intent.                           *)
LEMMA PastKept ==
  ASSUME TypeInv, WritersOK, PastOK, [Next]_vars PROVE PastOK'
  <1>1. /\ \A p \in Callers : req[p].at # "idle" => req[p].run \in Runs
        /\ rec.at # "idle" => rec.run \in Runs
        /\ \A p \in Operators : release[p].at # "idle" => release[p].run \in Runs
        /\ trk.at # "idle" => TrkRun \in Runs
        /\ \A c \in tick.claims : c.run \in Runs
        /\ \A c \in ActiveClaims : c.run \in Runs /\ Active(c.run)
        /\ \A f \in tick.intents : f.run \in Runs
    <2>1. \A c \in ActiveClaims : c.run \in Runs /\ Active(c.run)
      BY DEF TypeInv, ClaimOK, ActiveClaims, Active
    <2> QED BY <2>1 DEF TypeInv, TypeOK, ActingOK
  <1>2. \A r \in Runs : HadClaim(r) => HadClaim(r)'
    BY ClaimedOnce
  <1>3. \A r \in Runs : Active(r) \/ HasIntent(r) => HadClaim(r)'
    BY <1>2 DEF PastOK
  <1>4. ASSUME NEW r \in Runs, HasIntent(r)' PROVE HadClaim(r)'
    <2>1. HasIntent(r) \/ \E p \in Callers : req[p].at = "create" /\ req[p].run = r
      <3>1. IntentMoves(r)
        BY NextWriters
      <3>2. intent'[r] # NoIntent(intent[r].gen)
        BY <1>4 DEF HasIntent, NoIntent
      <3>3. intent'[r] = intent[r] => HasIntent(r)
        BY <1>4 DEF HasIntent
      <3>4. intent[r].state \in {"cancel_requested", "cancel_submitted"} => HasIntent(r)
        BY DEF HasIntent
      <3> QED BY <3>1, <3>2, <3>3, <3>4 DEF IntentMoves
    <2> QED BY <1>2, <1>3, <2>1 DEF PastOK
  <1>5. ASSUME NEW p \in Callers, req'[p].at # "idle" PROVE HadClaim(req[p].run)'
    <2>1. PICK r \in Runs : req'[p].run = r /\ HadClaim(r)'
      BY <1>1, <1>2, <1>3, <1>5, RequestMoves DEF PastOK
    <2> QED BY <2>1 DEF HadClaim
  <1>6. ASSUME rec'.at # "idle" PROVE HadClaim(rec.run)'
    <2>1. PICK r \in Runs : rec'.run = r /\ HadClaim(r)'
      BY <1>1, <1>2, <1>6, ActedOn DEF PastOK
    <2> QED BY <2>1 DEF HadClaim
  <1>7. ASSUME NEW p \in Operators, release'[p].at # "idle" PROVE HadClaim(release[p].run)'
    <2>1. PICK r \in Runs : release'[p].run = r /\ HadClaim(r)'
      BY <1>1, <1>2, <1>3, <1>7, ActedOn DEF PastOK
    <2> QED BY <2>1 DEF HadClaim
  <1>8. ASSUME trk'.at # "idle" PROVE HadClaim(TrkRun)'
    <2>1. PICK r \in Runs : trk'.claim.run = r /\ HadClaim(r)'
      BY <1>1, <1>2, <1>8, CheckMoves DEF PastOK, TrkRun
    <2> QED BY <2>1 DEF HadClaim, TrkRun
  <1>9. ASSUME NEW c \in tick'.claims PROVE HadClaim(c.run)'
    BY <1>1, <1>2, <1>3, ListMoves DEF PastOK
  <1>10. ASSUME NEW f \in tick'.intents PROVE HadClaim(f.run)'
    BY <1>1, <1>2, <1>3, ActedOn DEF PastOK
  <1> QED BY <1>4, <1>5, <1>6, <1>7, <1>8, <1>9, <1>10, ClaimedOnce DEF PastOK

\* How the reconciler, a check and a release come to delete an intent.
LEMMA BeforeDeleting ==
  ASSUME TypeInv, [Next]_vars, ~Fault
  PROVE  /\ rec'.at = "drop" => /\ rec'.run = rec.run
                                /\ rec.at = "drop" \/ (rec.at = "find" /\ ~Active(rec.run))
         /\ trk'.at = "delete_intent" =>
              /\ trk'.claim = trk.claim
              /\ \/ trk.at = "delete_intent"
                 \/ trk.at = "delete_claim" /\ claim'[SlotOf[TrkRun]] = NoClaim
         /\ \A p \in Operators : release'[p].at \in {"drop", "delete_intent"} =>
              /\ release'[p].run = release[p].run
              /\ \/ release[p].at \in {"drop", "delete_intent"}
                 \/ release[p].at = "find" /\ ~Active(release[p].run)
                 \/ /\ release[p].at = "delete_claim"
                    /\ claim'[SlotOf[release[p].run]] = NoClaim
  <1>1. /\ rec \in [at : RecAt, run : Runs \cup {NoRun}, intent : Intents, claim : Claims]
        /\ release \in [Operators -> [at : RelAt, run : Runs \cup {NoRun},
                                      claim : Claims, failed : BOOLEAN]]
        /\ trk \in [at : TrkAt, claim : Claims, timedOut : BOOLEAN,
                    trigger : CancelTriggers \cup {None}, poll : Tasks \cup {NoTask},
                    res : [Tasks -> Resolved], failed : BOOLEAN]
        /\ claim \in [Slots -> Claims]
    BY DEF TypeInv, TypeOK, CancellerTypeOK, TrackerTypeOK, StoreTypeOK
  <1> HIDE DEF Fault
  <1>2. ASSUME rec'.at = "drop"
        PROVE  /\ rec'.run = rec.run
               /\ rec.at = "drop" \/ (rec.at = "find" /\ ~Active(rec.run))
    <2>1. ~RecFinish /\ ~TimerDies
      BY <1>2 DEF RecFinish, TimerDies, NoReconcile
    <2>2. CASE ReconcileStep
      BY <1>1, <1>2, <2>1, <2>2 DEF ReconcileStep, RecFind, RecDrop, RecResubmit, RecUpdate,
         RecWait, RecNudge, RecFails, RecGoto
    <2>3. \A f \in tick.intents : ~PassB(f)
      BY <1>2 DEF PassB, Reconciling, NoReconcile
    <2>4. CASE TimerStep
      BY <1>2, <2>1, <2>3, <2>4 DEF TimerStep, TickReconciles, TickSkipsReconcile, PassA,
         PassAEnds, PassBEnds, TickLists, Check, TickEnds, cancelVars
    <2>5. UNCHANGED rec \/ ReconcileStep \/ TimerStep
      BY DEF Next, RequestStep, ReqFind, ReqCreate, ReqReadExisting, ReqStop, ReqUpdate, ReqDies,
         EndpointStep, OperatorCancels, OperatorReleases, ReleaseStep, RelFind, RelWriteRun,
         RelWriteTasks, RelDeleteClaim, RelDeleteIntent, RelDies, DeadlinePasses, vars, cancelVars
    <2> QED BY <1>2, <2>2, <2>4, <2>5
  <1>3. ASSUME trk'.at = "delete_intent"
        PROVE  /\ trk'.claim = trk.claim
               /\ \/ trk.at = "delete_intent"
                  \/ trk.at = "delete_claim" /\ claim'[SlotOf[TrkRun]] = NoClaim
    <2>1. ~TrkFinish /\ ~TimerDies /\ \A c : ~Check(c)
      <3>1. \A c : Check(c) => trk'.at = "read_intent"
        BY DEF Check, Checking, NoCheck
      <3>2. TrkFinish \/ TimerDies => trk'.at = "idle"
        BY DEF TrkFinish, TimerDies, NoCheck
      <3> QED BY <1>3, <3>1, <3>2
    <2>2. CASE TrkDeleteClaim
      <3>1. /\ trk' = [trk EXCEPT !.at = "delete_intent"] /\ trk.at = "delete_claim"
            /\ claim' = [claim EXCEPT ![SlotOf[TrkRun]] = NoClaim]
        BY <2>1, <2>2 DEF TrkDeleteClaim
      <3>2. SlotOf[TrkRun] \in Slots
        BY <3>1, StoreAssumption DEF TypeInv, ActingOK
      <3> QED BY <1>1, <3>1, <3>2
    <2>3. TrkReadIntent \/ TrkWriteRun \/ TrkWriteTasks => trk'.at # "delete_intent"
      BY <1>1, <2>1 DEF TrkReadIntent, TrkWriteRun, TrkWriteTasks
    <2>4. \A t \in Tasks : ResolveDispatchFailed(t) \/ ResolveFromBlob(t) \/ ResolveFromAca(t)
                             \/ AcaUnreachable(t) => trk'.at = trk.at
      BY <1>1 DEF ResolveDispatchFailed, ResolveFromBlob, ResolveFromAca, AcaUnreachable, Settle
    <2>5. CASE TrackStep
      <3>1. \A t \in Tasks : ResolveDispatchFailed(t) \/ ResolveFromBlob(t)
                               \/ ResolveFromAca(t) \/ AcaUnreachable(t) => trk.at = "resolve"
        BY DEF ResolveDispatchFailed, ResolveFromBlob, ResolveFromAca, AcaUnreachable, Pending
      <3> QED BY <1>3, <2>1, <2>2, <2>3, <2>4, <2>5, <3>1
              DEF TrackStep, Defer, CheckThrows, TrkDeleteIntent
    <2> QED BY <1>3, <2>1, <2>5, WhoChanges
  <1>4. ASSUME NEW p \in Operators, release'[p].at \in {"drop", "delete_intent"}
        PROVE  /\ release'[p].run = release[p].run
               /\ \/ release[p].at \in {"drop", "delete_intent"}
                  \/ release[p].at = "find" /\ ~Active(release[p].run)
                  \/ /\ release[p].at = "delete_claim"
                     /\ claim'[SlotOf[release[p].run]] = NoClaim
    <2>1. ~RelFinish(p)
      BY <1>1, <1>4 DEF RelFinish, NoRelease
    <2>2. CASE RelFind(p)
      BY <1>1, <1>4, <2>2 DEF RelFind, RelGoto
    <2>3. CASE RelDeleteClaim(p)
      <3>1. SlotOf[release[p].run] \in Slots
        BY <2>3, StoreAssumption DEF RelDeleteClaim, TypeInv, ActingOK
      <3> QED BY <1>1, <2>3, <3>1 DEF RelDeleteClaim, RelGoto
    <2>4. CASE RelWriteRun(p) \/ RelWriteTasks(p)
      BY <1>1, <1>4, <2>1, <2>4 DEF RelWriteRun, RelWriteTasks, RelGoto
    <2>5. CASE RelDeleteIntent(p) \/ RelDies(p)
      BY <2>1, <2>5 DEF RelDeleteIntent, RelDies
    <2>6. ASSUME NEW q \in Operators, ReleaseStep(q), q # p PROVE release'[p] = release[p]
      BY <1>1, <2>6 DEF ReleaseStep, RelFind, RelWriteRun, RelWriteTasks, RelDeleteClaim,
         RelDeleteIntent, RelDies, RelGoto, RelFinish
    <2>7. ASSUME NEW q \in Operators, NEW r \in Runs, OperatorReleases(q, r)
          PROVE  release'[p] = release[p]
      BY <1>1, <1>4, <2>7 DEF OperatorReleases, NoRelease
    <2> QED BY <1>4, <2>2, <2>3, <2>4, <2>5, <2>6, <2>7, WhoChanges DEF ReleaseStep
  <1> QED BY <1>2, <1>3, <1>4

(* The claim that was seen gone, or was deleted, does not come back.       *)
LEMMA GoneKept ==
  ASSUME TypeInv, PastOK, GoneOK, [Next]_vars PROVE GoneOK'
  <1> SUFFICES ASSUME faults' = MaxFaults
               PROVE  /\ rec'.at = "drop" => ~Active(rec.run)'
                      /\ trk'.at = "delete_intent" => ~Active(TrkRun)'
                      /\ \A p \in Operators : release'[p].at \in {"drop", "delete_intent"} =>
                                                ~Active(release[p].run)'
    BY DEF GoneOK
  <1>1. faults = MaxFaults /\ ~Fault
    BY FaultSeen
  <1>2. \A r \in Runs : /\ HadClaim(r) /\ ~Active(r) => ~Active(r)'
                        /\ claim'[SlotOf[r]] = NoClaim => ~Active(r)'
    <2>1. \A r \in Runs : claim'[SlotOf[r]] = NoClaim => ~Active(r)'
      BY StoreAssumption DEF Active, NoClaim, NewClaim
    <2> QED BY <2>1, ClaimedOnce
  <1>3. ASSUME rec'.at = "drop" PROVE ~Active(rec.run)'
    <2>1. /\ rec.run \in Runs /\ HadClaim(rec.run) /\ ~Active(rec.run)
          /\ rec'.run = rec.run
      BY <1>1, <1>3, BeforeDeleting DEF TypeInv, ActingOK, PastOK, GoneOK
    <2> QED BY <1>2, <2>1 DEF Active
  <1>4. ASSUME trk'.at = "delete_intent" PROVE ~Active(TrkRun)'
    <2>1. /\ TrkRun \in Runs /\ HadClaim(TrkRun) /\ trk'.claim = trk.claim
          /\ ~Active(TrkRun) \/ claim'[SlotOf[TrkRun]] = NoClaim
      BY <1>1, <1>4, BeforeDeleting DEF TypeInv, ActingOK, PastOK, GoneOK
    <2>2. PICK r \in Runs : TrkRun = r /\ trk'.claim.run = r /\ ~Active(r)'
      BY <1>2, <2>1 DEF TrkRun
    <2> QED BY <2>2 DEF Active, TrkRun
  <1>5. ASSUME NEW p \in Operators, release'[p].at \in {"drop", "delete_intent"}
        PROVE  ~Active(release[p].run)'
    <2>1. /\ release[p].run \in Runs /\ HadClaim(release[p].run)
          /\ release'[p].run = release[p].run
          /\ ~Active(release[p].run) \/ claim'[SlotOf[release[p].run]] = NoClaim
      BY <1>1, <1>5, BeforeDeleting DEF TypeInv, ActingOK, PastOK, GoneOK
    <2>2. PICK r \in Runs : release'[p].run = r /\ ~Active(r)'
      BY <1>2, <2>1
    <2> QED BY <2>2 DEF Active
  <1> QED BY <1>3, <1>4, <1>5

\* Who deletes an intent.
LEMMA WhoDeletes ==
  ASSUME TypeInv, [Next]_vars, NEW r \in Runs, HasIntent(r), intent'[r].state = "absent"
  PROVE  \/ rec.at = "drop" /\ rec.run = r
         \/ trk.at = "delete_intent" /\ TrkRun = r
         \/ \E p \in Operators : release[p].at \in {"drop", "delete_intent"} /\ release[p].run = r
  <1>1. intent \in [Runs -> Intents]
    BY DEF TypeInv, TypeOK, StoreTypeOK
  <1>2. intent'[r] # intent[r]
    BY DEF HasIntent
  <1>3. ASSUME NEW q, DeleteIntent(q) PROVE q = r
    BY <1>1, <1>2, <1>3 DEF DeleteIntent
  <1>4. ASSUME NEW q, NEW i, NEW new, TryUpdateIntent(q, i, new),
               i \in Intents /\ i.state # "absent" => new.state # "absent"
        PROVE  FALSE
    BY <1>1, <1>2, <1>4 DEF TryUpdateIntent, HasIntent
  <1>5. ASSUME NEW i \in Intents, i.state # "absent"
        PROVE  /\ Bumped(i).state # "absent" /\ Submitted(i).state # "absent"
               /\ Waited(i).state # "absent"
    <2>1. Bumped(i).state = i.state
      BY DEF Bumped, Intents
    <2> QED BY <1>5, <2>1 DEF Bumped, Submitted, Waited, Intents
  <1>6. ASSUME NEW q, NEW i
        PROVE  /\ ~TryUpdateIntent(q, i, Bumped(i))
               /\ ~TryUpdateIntent(q, i, Submitted(i))
               /\ ~TryUpdateIntent(q, i, Waited(i))
    <2>1. ~TryUpdateIntent(q, i, Bumped(i))
      BY <1>4, <1>5
    <2>2. ~TryUpdateIntent(q, i, Submitted(i))
      BY <1>4, <1>5
    <2>3. ~TryUpdateIntent(q, i, Waited(i))
      BY <1>4, <1>5
    <2> QED BY <2>1, <2>2, <2>3
  <1>7. ASSUME NEW p \in Callers, RequestStep(p) PROVE FALSE
    <2>1. ASSUME ReqCreate(p) PROVE FALSE
      BY <1>1, <1>2, <2>1 DEF ReqCreate, Requested, HasIntent
    <2>2. ~ReqUpdate(p)
      BY <1>6 DEF ReqUpdate
    <2>3. RequestStep(p) /\ ~ReqCreate(p) /\ ~ReqUpdate(p) => UNCHANGED intent
      BY DEF RequestStep, ReqFind, ReqReadExisting, ReqStop, ReqDies, storeVars
    <2> QED BY <1>2, <1>7, <2>1, <2>2, <2>3
  <1>8. ASSUME ReconcileStep PROVE rec.at = "drop" /\ rec.run = r
    <2>1. ~RecUpdate /\ ~RecWait
      <3>1. ~RecUpdate
        BY <1>6 DEF RecUpdate
      <3>2. RecWait => TryUpdateIntent(rec.run, rec.intent, Waited(rec.intent))
        BY DEF RecWait, Waited
      <3> QED BY <1>6, <3>1, <3>2
    <2>2. RecDrop => rec.at = "drop" /\ rec.run = r
      BY <1>3 DEF RecDrop
    <2>3. RecFind \/ RecResubmit \/ RecNudge \/ RecFails => UNCHANGED intent
      BY DEF RecFind, RecResubmit, RecNudge, RecFails
    <2> QED BY <1>2, <1>8, <2>1, <2>2, <2>3 DEF ReconcileStep
  <1>9. ASSUME TrackStep PROVE trk.at = "delete_intent" /\ TrkRun = r
    <2>1. TrkDeleteIntent \/ UNCHANGED intent
      BY <1>9 DEF TrackStep, TrkReadIntent, ResolveDispatchFailed, ResolveFromBlob,
         ResolveFromAca, AcaUnreachable, Defer, TrkWriteRun, TrkWriteTasks, TrkDeleteClaim,
         CheckThrows, storeVars
    <2> QED BY <1>2, <1>3, <2>1 DEF TrkDeleteIntent
  <1>10. ASSUME EndpointStep
         PROVE  \E p \in Operators : /\ release[p].at \in {"drop", "delete_intent"}
                                     /\ release[p].run = r
    <2>1. UNCHANGED intent \/ \E p \in Operators : RelDeleteIntent(p)
      BY <1>10 DEF EndpointStep, OperatorCancels, OperatorReleases, ReleaseStep, RelFind,
         RelWriteRun, RelWriteTasks, RelDeleteClaim, RelDies, storeVars
    <2> QED BY <1>2, <1>3, <2>1 DEF RelDeleteIntent
  <1>11. ContainerStep \/ ExecutorStep \/ TimerStep \/ (\E q \in Runs : DeadlinePasses(q))
           \/ UNCHANGED vars => UNCHANGED intent
    <2> USE DEF storeVars
    <2>1. ContainerStep \/ (\E q \in Runs : DeadlinePasses(q)) \/ UNCHANGED vars =>
            UNCHANGED intent
      BY DEF ContainerStep, ContainerBeats, ContainerFinishes, ContainerExits,
         ContainerLosesFlush, StopLands, ExecutionVanishes, DeadlinePasses, vars
    <2>2. ExecutorStep => UNCHANGED intent
      BY DEF ExecutorStep, DispatchRun, Request, Join, HostDies, Create, ForceHead,
         ForceCreate, ForceOverwrite, ClaimThrows, ClaimResponseLost, Start, StartFails,
         SecondWrite, SecondWriteResponseLost, SecondWriteThrows
    <2>3. TimerStep => UNCHANGED intent
      BY DEF TimerStep, TickReconciles, TickSkipsReconcile, PassA, PassAEnds, PassB, PassBEnds,
         TickLists, Check, TickEnds, TimerDies
    <2> QED BY <2>1, <2>2, <2>3
  <1> QED BY <1>2, <1>7, <1>8, <1>9, <1>10, <1>11 DEF Next

(* IntentOutlivesClaim, for every value of the constants: while no call    *)
(* has failed, whoever drops an intent has seen the claim of its run gone, *)
(* and a run that has lost its claim never gets one again.                 *)
THEOREM IntentsOutliveClaims == Spec => IntentOutlivesClaim
  <1> DEFINE Outlives(r) == HasIntent(r) /\ intent'[r].state = "absent" /\ faults = MaxFaults =>
                              ~Active(r)
  <1>1. ASSUME TypeInv, GoneOK, [Next]_vars, NEW r \in Runs PROVE Outlives(r)
    BY <1>1, WhoDeletes DEF GoneOK
  <1>2. TypeInv /\ WritersOK /\ PastOK /\ GoneOK /\ [Next]_vars =>
          (TypeInv /\ WritersOK /\ PastOK /\ GoneOK)' /\ [\A r \in Runs : Outlives(r)]_vars
    BY <1>1, NextTypes, NextWriters, PastKept, GoneKept
  <1> QED BY <1>2, InitTypes, InitWriters, InitPast, PTL DEF Spec, IntentOutlivesClaim
=============================================================================
