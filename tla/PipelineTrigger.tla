--------------------------- MODULE PipelineTrigger --------------------------
(***************************************************************************)
(* trigger_dlt_pipeline.py and the pipelines it drives.  A pass calls the  *)
(* script for one pipeline after the other, bronze, silver, gold, and      *)
(* stops when a call raises.  The script starts an update and polls it     *)
(* until it ends or the time is up; the update runs on its own.            *)
(*                                                                         *)
(* Layer 0 is the landing container, layer k the tables of pipeline k.     *)
(* data[k] counts the landings every table of the layer reflects.  What    *)
(* calls the script (a data factory, says its header) and the pipeline     *)
(* service are external.                                                   *)
(***************************************************************************)
EXTENDS Naturals, Sequences

CONSTANTS
    LastLayer,      \* the number of pipelines: 3
    MaxPolls,       \* max_wait_minutes * 60 / poll_interval_seconds: 240
    MaxLandings,    \* bound: ingest runs that land files
    MaxPasses,      \* bound: passes
    MaxUpdates      \* bound: updates of one pipeline

ASSUME RefreshAssumption ==
    /\ LastLayer \in Nat \ {0}
    /\ MaxPolls \in Nat
    /\ MaxLandings \in Nat
    /\ MaxPasses \in Nat
    /\ MaxUpdates \in Nat

VARIABLES
    data,       \* per layer, the landings it reflects
    updates,    \* per pipeline, its updates: their state and what they began from
    pc,         \* where the script is: "idle", "post", "poll", "done", "raised",
                \* or "blocked" in a request
    stage,      \* the pipeline it was called for
    update_id,  \* the update it started
    elapsed,    \* polls made
    asked,      \* the landings at the start of the pass
    passes

script == <<pc, stage, update_id, elapsed>>
vars == <<data, updates, script, asked, passes>>

Pipelines == 1..LastLayer
EndStates == {"COMPLETED", "FAILED", "CANCELED"}
UpdateStates == EndStates \cup {"RUNNING"}

Active(p) == \E i \in DOMAIN updates[p] : updates[p][i].state = "RUNNING"

Init ==
    /\ data = [k \in 0..LastLayer |-> 0]
    /\ updates = [p \in Pipelines |-> <<>>]
    /\ pc = "idle"
    /\ stage = 1
    /\ update_id = 0
    /\ elapsed = 0
    /\ asked = 0
    /\ passes = 0

-----------------------------------------------------------------------------
(* The surroundings *)

\* An ingest run lands its files.
Land ==
    /\ data[0] < MaxLandings
    /\ data' = [data EXCEPT ![0] = @ + 1]
    /\ UNCHANGED <<updates, script, asked, passes>>

\* One update of a pipeline at a time.
Started(p) ==
    /\ ~Active(p)
    /\ Len(updates[p]) < MaxUpdates
    /\ updates' = [updates EXCEPT ![p] = Append(@, [state |-> "RUNNING", from |-> data[p - 1]])]

\* Somebody starts an update in the workspace.
StartedElsewhere(p) ==
    /\ Started(p)
    /\ UNCHANGED <<data, script, asked, passes>>

\* An update that completes has read at least what its source held at its
\* start; one that does not leaves some table as it was.
UpdateEnds(p, i, state) ==
    /\ updates[p][i].state = "RUNNING"
    /\ updates' = [updates EXCEPT ![p][i].state = state]
    /\ IF state = "COMPLETED"
       THEN \E v \in updates[p][i].from..data[p - 1] :
               v >= data[p] /\ data' = [data EXCEPT ![p] = v]
       ELSE data' = data
    /\ UNCHANGED <<script, asked, passes>>

-----------------------------------------------------------------------------
(* The script *)

\* The script is called for a pipeline.
Call(p) ==
    /\ pc' = "post"
    /\ stage' = p
    /\ update_id' = 0
    /\ elapsed' = 0

Raise == pc' = "raised" /\ UNCHANGED <<stage, update_id, elapsed>>

BeginPass ==
    /\ pc \notin {"post", "poll", "blocked"}
    /\ passes < MaxPasses
    /\ passes' = passes + 1
    /\ asked' = data[0]
    /\ Call(1)
    /\ UNCHANGED <<data, updates>>

\* The update is accepted; the connection may break before the answer, which raises.
PostAccepted ==
    /\ pc = "post"
    /\ Started(stage)
    /\ \/ Raise
       \/ /\ pc' = "poll"
          /\ update_id' = Len(updates[stage]) + 1
          /\ elapsed' = 0
          /\ UNCHANGED stage
    /\ UNCHANGED <<data, asked, passes>>

\* Any other status, an update that is still active for one, raises.
PostRefused ==
    /\ pc = "post"
    /\ Raise
    /\ UNCHANGED <<data, updates, asked, passes>>

\* trigger_pipeline returns True: the next call of the pass.
Returned ==
    IF stage < LastLayer THEN Call(stage + 1)
    ELSE pc' = "done" /\ UNCHANGED <<stage, update_id, elapsed>>

\* Mutant: a status that cannot be read counts as completed.
PollUnanswered ==
    /\ pc = "poll"
    /\ elapsed < MaxPolls
    /\ Returned
    /\ UNCHANGED <<data, updates, asked, passes>>

\* A poll answered with another status: a warning, and on.  A connection that
\* fails raises.
PollWarned ==
    /\ pc = "poll"
    /\ elapsed < MaxPolls
    /\ \/ elapsed' = elapsed + 1 /\ UNCHANGED <<pc, stage, update_id>>
       \/ Raise
    /\ UNCHANGED <<data, updates, asked, passes>>

PollAnswered ==
    /\ pc = "poll"
    /\ elapsed < MaxPolls
    /\ LET state == updates[stage][update_id].state IN
       \/ state = "COMPLETED" /\ Returned
       \/ state \in {"FAILED", "CANCELED"} /\ Raise
       \/ /\ state = "RUNNING"
          /\ elapsed' = elapsed + 1
          /\ UNCHANGED <<pc, stage, update_id>>
    /\ UNCHANGED <<data, updates, asked, passes>>

\* Mutant: the script stays until the update has ended.
TimedOutAfterUpdate ==
    /\ pc = "poll"
    /\ elapsed >= MaxPolls
    /\ updates[stage][update_id].state # "RUNNING"
    /\ Raise
    /\ UNCHANGED <<data, updates, asked, passes>>

\* The time is up: the script raises, the update goes on.
TimedOut ==
    /\ pc = "poll"
    /\ elapsed >= MaxPolls
    /\ Raise
    /\ UNCHANGED <<data, updates, asked, passes>>

\* A request has no timeout: without an answer or an error the script stays in
\* it, while elapsed does not count.  An update may have started.
RequestBlocks ==
    /\ \/ pc = "post" /\ (Started(stage) \/ UNCHANGED updates)
       \/ pc = "poll" /\ elapsed < MaxPolls /\ UNCHANGED updates
    /\ pc' = "blocked"
    /\ UNCHANGED <<data, stage, update_id, elapsed, asked, passes>>

ScriptStep ==
    \/ PostAccepted \/ PostRefused \/ PollWarned \/ PollAnswered \/ TimedOut
    \/ RequestBlocks

Next ==
    \/ Land
    \/ \E p \in Pipelines : StartedElsewhere(p)
    \/ \E p \in Pipelines : \E i \in DOMAIN updates[p], s \in EndStates : UpdateEnds(p, i, s)
    \/ BeginPass
    \/ ScriptStep

Spec == Init /\ [][Next]_vars

\* A running script goes on to the end of its request, or blocks in it.
FairSpec == Spec /\ WF_vars(ScriptStep)

-----------------------------------------------------------------------------
(* Properties *)

(* The variables have their types; the script only polls an update it has  *)
(* started.                                                                *)
TypeOK ==
    /\ data \in [0..LastLayer -> Nat]
    /\ updates \in [Pipelines -> Seq([state : UpdateStates, from : Nat])]
    /\ pc \in {"idle", "post", "poll", "done", "raised", "blocked"}
    /\ stage \in Pipelines
    /\ update_id \in Nat
    /\ elapsed \in 0..MaxPolls
    /\ asked \in Nat
    /\ passes \in Nat
    /\ pc = "poll" => update_id \in DOMAIN updates[stage]

(* When the last call of a pass returns, gold reflects everything that had *)
(* landed when the pass began, whatever other updates ran meanwhile and    *)
(* however long earlier ones went on: no layer was read before the update  *)
(* of the layer below it had completed.                                    *)
PassIsFresh == pc = "done" => data[LastLayer] >= asked

(* A call returns or raises, whether or not its update ever ends, its polls *)
(* are warned about, or somebody else's updates run: the only thing that   *)
(* keeps it for ever is a single request that neither answers nor fails    *)
(* (requests.post and requests.get are called without a timeout).          *)
PassEnds == (pc \in {"post", "poll"}) ~> (pc \in {"done", "raised", "blocked"})
=============================================================================
