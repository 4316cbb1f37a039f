---------------------------- MODULE ControlStore ----------------------------
(***************************************************************************)
(* What the processes of the dispatcher share: the control blobs (claims,  *)
(* cancel intents, run history, run state) and the container executions    *)
(* that ACA runs.  The dispatcher keeps nothing else between two calls.    *)
(*                                                                         *)
(* A blob's ETag changes with every write.  Here an ETag is the blob's     *)
(* content: a claim is written at most twice, with different contents, and *)
(* an intent carries the number of its creation in gen, so no content      *)
(* comes back.                                                             *)
(***************************************************************************)
EXTENDS RunStatus, FiniteSets

CONSTANTS
  Runs,       \* run ids; each names one dispatch of one tenant
  Slots,      \* (job, tenant, run type): the path of a claim blob
  Tasks,      \* container types a run is split into
  SlotOf,     \* the slot each run is dispatched into
  NoRun,      \* the run of an absent claim
  Outcomes,   \* entity roll-ups containers end with: subset of EntityRollupStatuses
  MaxFaults,  \* bound: failing or ambiguous calls, lost uploads and crashes
  MaxGen      \* bound: cancel intents created for one run

ASSUME StoreAssumption ==
  /\ SlotOf \in [Runs -> Slots]
  /\ Tasks # {}
  /\ NoRun \notin Runs
  /\ Outcomes \subseteq EntityRollupStatuses
  /\ MaxFaults \in Nat
  /\ MaxGen \in Nat

VARIABLES
  claim,      \* slot -> the claim blob
  intent,     \* run -> the cancel intent blob
  runRec,     \* run -> status in the run record of the history, or None
  taskRec,    \* run -> task -> status in the task records, or None
  exec,       \* run -> task -> the ACA execution
  blob,       \* run -> task -> the run-state blob: None, "running" or a roll-up
  late,       \* run -> its resolved timeout has passed
  faults      \* faults that may still happen

storeVars == <<claim, intent, runRec, taskRec, exec, blob, late, faults>>

-----------------------------------------------------------------------------
(* Claims: an expected task has neither name nor error until the second    *)
(* write, then exactly one of the two.                                     *)

TaskRefs == {"null", "named", "error"}
Claims   == [run : Runs \cup {NoRun}, task : [Tasks -> TaskRefs]]

NewClaim(r) == [run |-> r, task |-> [t \in Tasks |-> "null"]]
NoClaim     == NewClaim(NoRun)
Named(c)    == {t \in Tasks : c.task[t] = "named"}

ActiveClaims == {claim[s] : s \in Slots} \ {NoClaim}
Active(r)    == claim[SlotOf[r]].run = r

-----------------------------------------------------------------------------
(* Cancel intents.  An absent intent keeps the number of the last one.     *)

CancelStates   == {"absent", "cancel_requested", "cancel_submitted", "cancel_stalled"}
CancelTriggers == {"timeout", "manual"}

Intents == [state : CancelStates, trigger : CancelTriggers \cup {None},
            count : Nat, gen : Nat]

NoIntent(g)     == [state |-> "absent", trigger |-> None, count |-> 0, gen |-> g]
Requested(g, x) == [state |-> "cancel_requested", trigger |-> x, count |-> 0, gen |-> g]
HasIntent(r)    == intent[r].state # "absent"

DeleteIntent(r) == intent' = [intent EXCEPT ![r] = NoIntent(@.gen)]

\* Mutant: the ETag is not sent.
UpdateIntentBlind(r, seen, new) == intent' = [intent EXCEPT ![r] = new]

\* Write with If-Match: lost when the blob is no longer the one that was read.
TryUpdateIntent(r, seen, new) ==
  intent' = [intent EXCEPT ![r] = IF @ = seen THEN new ELSE @]

Bumped(i)    == [i EXCEPT !.count = @ + 1]
Submitted(i) == [i EXCEPT !.state = "cancel_submitted", !.count = 0]

-----------------------------------------------------------------------------
(* History records are written once: the first writer wins.                *)

NoTaskRec == [t \in Tasks |-> None]

WriteRun(r, status) ==
  runRec' = [runRec EXCEPT ![r] = IF @ = None THEN status ELSE @]

WriteTasks(r, statuses) ==
  taskRec' = [taskRec EXCEPT ![r] = IF @ = NoTaskRec THEN statuses ELSE @]

-----------------------------------------------------------------------------
(* A fault: one unit of the budget is spent.                               *)

Fault == faults > 0 /\ faults' = faults - 1

-----------------------------------------------------------------------------
(* ACA and the containers.                                                 *)

ExecStates == {None, "Running", "Stopping", "Succeeded", "Failed", "Stopped", "Gone"}
BlobStates == {None, "running"} \cup EntityRollupStatuses

Live(r, t)         == exec[r][t] \in {"Running", "Stopping"}
BlobTerminal(r, t) == blob[r][t] \in EntityRollupStatuses

Ends(r, t, how)     == exec' = [exec EXCEPT ![r][t] = how]
Uploads(r, t, what) == blob' = [blob EXCEPT ![r][t] = what]

\* A mid-run flush of the heartbeat.
ContainerBeats(r, t) ==
  /\ Live(r, t)
  /\ blob[r][t] = None
  /\ Uploads(r, t, "running")
  /\ UNCHANGED <<claim, intent, runRec, taskRec, exec, late, faults>>

\* Stop-Heartbeat: the terminal flush, which precedes the exit.
ContainerFinishes(r, t) ==
  /\ Live(r, t)
  /\ ~BlobTerminal(r, t)
  /\ \E o \in Outcomes : Uploads(r, t, o)
  /\ UNCHANGED <<claim, intent, runRec, taskRec, exec, late, faults>>

\* The exit code is 1 only when the script itself threw; entities that failed
\* leave it 0.  A stop request that was accepted does not change the code.
ContainerExits(r, t) ==
  /\ Live(r, t)
  /\ BlobTerminal(r, t)
  /\ \/ Ends(r, t, "Succeeded")
     \/ blob[r][t] = "failed" /\ Ends(r, t, "Failed")
  /\ UNCHANGED <<claim, intent, runRec, taskRec, blob, late, faults>>

\* The container dies, or its terminal flush fails five times.
ContainerLosesFlush(r, t) ==
  /\ Live(r, t)
  /\ ~BlobTerminal(r, t)
  /\ Fault
  /\ \E how \in {"Failed", "Succeeded"} : Ends(r, t, how)
  /\ UNCHANGED <<claim, intent, runRec, taskRec, blob, late>>

\* ACA carries out a stop it accepted.
StopLands(r, t) ==
  /\ exec[r][t] = "Stopping"
  /\ Ends(r, t, "Stopped")
  /\ UNCHANGED <<claim, intent, runRec, taskRec, blob, late, faults>>

\* Retention expires, or the job is redeployed.
ExecutionVanishes(r, t) ==
  /\ exec[r][t] \notin {None, "Gone"}
  /\ Fault
  /\ Ends(r, t, "Gone")
  /\ UNCHANGED <<claim, intent, runRec, taskRec, blob, late>>

ContainerStep ==
  \E r \in Runs, t \in Tasks :
    \/ ContainerBeats(r, t)
    \/ ContainerFinishes(r, t)
    \/ ContainerExits(r, t)
    \/ ContainerLosesFlush(r, t)
    \/ StopLands(r, t)
    \/ ExecutionVanishes(r, t)

-----------------------------------------------------------------------------
(* Stop requests for the named tasks of a claim, in parallel: accepted is  *)
(* the set of those ACA takes.  One that has ended already is taken too.   *)

SubmitStops(c, accepted) ==
  exec' = [exec EXCEPT ![c.run] =
             [t \in Tasks |-> IF t \in accepted /\ @[t] = "Running"
                              THEN "Stopping" ELSE @[t]]]

StoreInit ==
  /\ claim   = [s \in Slots |-> NoClaim]
  /\ intent  = [r \in Runs |-> NoIntent(0)]
  /\ runRec  = [r \in Runs |-> None]
  /\ taskRec = [r \in Runs |-> NoTaskRec]
  /\ exec    = [r \in Runs |-> [t \in Tasks |-> None]]
  /\ blob    = [r \in Runs |-> [t \in Tasks |-> None]]
  /\ late    = [r \in Runs |-> FALSE]
  /\ faults  = MaxFaults

StoreTypeOK ==
  /\ claim   \in [Slots -> Claims]
  /\ intent  \in [Runs -> Intents]
  /\ runRec  \in [Runs -> RunStatuses \cup {None}]
  /\ taskRec \in [Runs -> [Tasks -> TaskStatuses \cup {None}]]
  /\ exec    \in [Runs -> [Tasks -> ExecStates]]
  /\ blob    \in [Runs -> [Tasks -> BlobStates]]
  /\ late    \in [Runs -> BOOLEAN]
  /\ faults  \in 0..MaxFaults
=============================================================================
