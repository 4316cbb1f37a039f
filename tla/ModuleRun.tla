----------------------------- MODULE ModuleRun ------------------------------
(***************************************************************************)
(* One task of a run inside its container: the module loop of              *)
(* Invoke-Ingestion.ps1 with its upload and manifest sinks, and the stage  *)
(* loop of StageExecutor.psm1 that calls them.                             *)
(*                                                                         *)
(* A stage ends with one of its outcomes (StagePool is a pool stage in     *)
(* detail).  Its chunks are uploaded, its manifest is written, its status  *)
(* is folded into the run and into the rollup of its entity, which is what *)
(* the dispatcher will read.  A throw anywhere in between lands in the     *)
(* module's catch, which writes failed manifests for what is missing.      *)
(***************************************************************************)
EXTENDS RunStatus, StageOutcomes, SequencesExt

CONSTANTS
    Tasks,     \* per task its modules, and of each its $executionOrder
    Parent,    \* InputFrom, NoStage for a root
    Pool,      \* stages that run on the pool
    EntityOf,  \* the requested entity of a stage, None for a prerequisite
    NoStage

Stages == UNION {UNION {Range(order) : order \in Range(modules)} : modules \in Tasks}

ASSUME ModuleAssumption ==
    /\ \A task \in Tasks : task \in Seq(Seq(Stages))
    /\ Parent \in [Stages -> Stages \cup {NoStage}] /\ NoStage \notin Stages
    /\ Pool = {s \in Stages : Parent[s] # NoStage}
    /\ DOMAIN EntityOf = Stages

\* $stageToRoot: the folder of a stage is that of its root.
Root[s \in Stages] == IF Parent[s] = NoStage THEN s ELSE Root[Parent[s]]

\* A manifest belongs to an entity and a landing folder.
Key(s) == <<EntityOf[s], Root[s]>>

\* A stage is run once, after its parent and in the same module; an entity
\* belongs to one module, and its stages have different roots.
ASSUME PlanAssumption ==
    /\ \A task \in Tasks : \A m, n \in DOMAIN task : \A i \in DOMAIN task[m], j \in DOMAIN task[n] :
         LET s == task[m][i]
             t == task[n][j]
         IN /\ s = t => m = n /\ i = j
            /\ Parent[s] # NoStage => \E k \in 1..(i - 1) : task[m][k] = Parent[s]
            /\ EntityOf[s] = EntityOf[t] /\ EntityOf[s] # None => m = n
    /\ \A s, t \in Stages : EntityOf[s] # None /\ Key(s) = Key(t) => s = t

VARIABLES
    modules,       \* the task: $orderedModulePaths
    pc,            \* "stage", "upload", "manifest", "catch", "ended", "fatal"
    module, next,  \* position of the two loops
    result,        \* the result being emitted
    failedStages,  \* $failedStages of the module
    groups,        \* $manifestGroups of the module: by key, status and chunk count
    landed,        \* stages whose chunks are in the container
    manifests,     \* the manifests in the container, by key
    unwritten,     \* manifests whose write threw
    hasFailure, hasPartial,
    rollup,        \* per entity: $summaryEntities, and so the heartbeat
    cancelled      \* ~$global:IngestRunning

run == <<modules, module, next, cancelled>>
rollups == <<hasFailure, hasPartial, rollup>>
written == <<groups, landed, manifests, unwritten, rollups>>
vars == <<pc, run, result, failedStages, written>>

ModuleStages(n) == Range(modules[n])
Requested == {s \in UNION {ModuleStages(n) : n \in DOMAIN modules} : EntityOf[s] # None}
Keys(n) == {Key(s) : s \in ModuleStages(n) \cap Requested}
Entities == {EntityOf[s] : s \in Requested}

Result(s, status, chunks) ==
    [stage |-> s, key |-> Key(s), status |-> status, chunks |-> chunks]
Nothing == [stage |-> NoStage, key |-> <<None, NoStage>>, status |-> "success",
            chunks |-> FALSE]
AllKeys == UNION {Keys(n) : n \in DOMAIN modules}

TypeInv ==
    /\ modules \in Tasks
    /\ pc \in {"stage", "upload", "manifest", "catch", "ended", "fatal"}
    /\ module \in 1..(Len(modules) + 1) /\ next \in Nat
    /\ result \in [stage : Stages \cup {NoStage}, key : AllKeys \cup {Nothing.key},
                   status : EntityRollupStatuses, chunks : BOOLEAN]
    /\ failedStages \subseteq Stages /\ landed \subseteq Stages
    /\ \A f \in {groups, manifests} :
         /\ DOMAIN f \subseteq AllKeys
         /\ Range(f) \subseteq [status : EntityRollupStatuses, chunks : BOOLEAN]
    /\ unwritten \subseteq AllKeys
    /\ {hasFailure, hasPartial, cancelled} \subseteq BOOLEAN
    /\ rollup \in [Entities -> EntityRollupStatuses \cup {"running"}]

Init ==
    /\ modules \in Tasks
    /\ pc = "stage" /\ module = 1 /\ next = 1
    /\ result = Nothing /\ failedStages = {}
    /\ groups = <<>> /\ landed = {} /\ manifests = <<>> /\ unwritten = {}
    /\ hasFailure = FALSE /\ hasPartial = FALSE
    /\ rollup = [e \in Entities |-> "running"]
    /\ cancelled = FALSE

-----------------------------------------------------------------------------
(* The stages of a module                                                  *)

InModule == pc = "stage" /\ module <= Len(modules)
Finished == InModule /\ next > Len(modules[module])

Ancestors[s \in Stages] ==
    IF Parent[s] = NoStage THEN {} ELSE {Parent[s]} \cup Ancestors[Parent[s]]

Outcomes(s) == IF s \in Pool THEN PoolOutcomes ELSE InlineOutcomes

\* Mutant: a stage all of whose inputs were absent did not fail.
StopsDescendantsUnlessSkipped(status) == status = "failed"

\* The stage joins $failedStages; AllItemsExhausted counts as a failure.
StopsDescendants(status) == status \in {"failed", "skipped"}

StageEnds(s, status, chunks) ==
    /\ failedStages' = IF StopsDescendants(status) THEN failedStages \cup {s}
                       ELSE failedStages
    /\ next' = next + 1
    /\ IF s \in Requested
       THEN pc' = "upload" /\ result' = Result(s, status, chunks)
       ELSE UNCHANGED <<pc, result>>
    /\ UNCHANGED <<written, modules, module, cancelled>>

SkipStage ==
    /\ InModule /\ ~Finished
    /\ LET s == modules[module][next] IN
         /\ Ancestors[s] \cap failedStages # {}
         /\ StageEnds(s, "skipped", FALSE)

RunStage ==
    /\ InModule /\ ~Finished
    /\ LET s == modules[module][next] IN
         /\ Ancestors[s] \cap failedStages = {}
         /\ \E o \in Outcomes(s) : StageEnds(s, o[1], o[2])

\* The module throws between two stages: its import, its plan, its pools.
ModuleThrows ==
    /\ InModule
    /\ pc' = "catch"
    /\ UNCHANGED <<run, result, failedStages, written>>

\* SIGTERM: the module under way is finished, the next one is not started.
Cancel ==
    /\ ~cancelled /\ pc \notin {"ended", "fatal"}
    /\ cancelled' = TRUE
    /\ UNCHANGED <<pc, modules, module, next, result, failedStages, written>>

\* The module returned, or its catch did; $manifestGroups is reset.
EndModule ==
    /\ module' = module + 1 /\ next' = 1
    /\ failedStages' = {} /\ groups' = <<>> /\ result' = Nothing
    /\ pc' = IF cancelled \/ module = Len(modules) THEN "ended" ELSE "stage"
    /\ UNCHANGED <<modules, landed, manifests, unwritten, rollups, cancelled>>

ModuleReturns == Finished /\ EndModule

-----------------------------------------------------------------------------
(* The sinks                                                               *)

\* Mutant: a failed upload is logged.
UploadAnyway ==
    /\ pc = "upload" /\ pc' = "manifest"
    /\ \/ landed' = IF result.chunks THEN landed \cup {result.stage} ELSE landed
       \/ UNCHANGED landed
    /\ UNCHANGED <<run, result, failedStages, groups, manifests, unwritten, rollups>>

\* $uploadSink, for every chunk of the stage.
Upload ==
    /\ pc = "upload"
    /\ \/ /\ landed' = IF result.chunks THEN landed \cup {result.stage} ELSE landed
          /\ pc' = "manifest"
       \/ /\ result.chunks
          /\ pc' = "catch" /\ UNCHANGED landed
    /\ UNCHANGED <<run, result, failedStages, groups, manifests, unwritten, rollups>>

Worse(s, t) == IF Rank(t) > Rank(s) THEN t ELSE s

\* Add-ResultToManifestGroups.
Grouped(r) ==
    IF r.key \notin DOMAIN groups THEN [status |-> r.status, chunks |-> r.chunks]
    ELSE [status |-> Worse(groups[r.key].status, r.status),
          chunks |-> groups[r.key].chunks \/ r.chunks]

\* f with another value at key.
With(f, key, value) == [k \in DOMAIN f \cup {key} |-> IF k = key THEN value ELSE f[k]]

\* Mutant: the flags follow the last manifest.
FoldLast(entity, status) ==
    /\ hasFailure' = (status = "failed")
    /\ hasPartial' = (status = "partial")
    /\ rollup' = [rollup EXCEPT ![entity] =
                    IF @ = "running" THEN status ELSE Worse(@, status)]

\* Mutant: the rollup of an entity is that of its last folder.
FoldReplacing(entity, status) ==
    /\ hasFailure' = (hasFailure \/ status = "failed")
    /\ hasPartial' = (hasPartial \/ status = "partial")
    /\ rollup' = [rollup EXCEPT ![entity] = status]

\* The run's flags, and the rollup of the entity over all its folders.
Fold(entity, status) ==
    /\ hasFailure' = (hasFailure \/ status = "failed")
    /\ hasPartial' = (hasPartial \/ status = "partial")
    /\ rollup' = [rollup EXCEPT ![entity] =
                    IF @ = "running" THEN status ELSE Worse(@, status)]

\* $manifestSink: the group first, then the manifest, then the summary.
ManifestSink(r) ==
    LET g == Grouped(r) IN
    /\ groups' = With(groups, r.key, g)
    /\ manifests' = With(manifests, r.key, g)
    /\ Fold(r.key[1], g.status)
    /\ UNCHANGED <<landed, unwritten>>

ManifestSinkThrows(r) ==
    /\ groups' = With(groups, r.key, Grouped(r))
    /\ unwritten' = unwritten \cup {r.key}
    /\ UNCHANGED <<landed, manifests, rollups>>

WriteManifest ==
    /\ pc = "manifest"
    /\ \/ ManifestSink(result) /\ pc' = "stage"
       \/ ManifestSinkThrows(result) /\ pc' = "catch"
    /\ result' = Nothing
    /\ UNCHANGED <<run, failedStages>>

-----------------------------------------------------------------------------
(* The catch of a module                                                   *)

\* Mutant: one folder per entity.
MissingByEntity ==
    {key \in Keys(module) : \A other \in DOMAIN groups : other[1] # key[1]}

\* Mutant: without the skip of what was emitted.
MissingOrNot == Keys(module)

\* Keys no result was emitted for.
Missing == Keys(module) \ DOMAIN groups

Synthesize ==
    /\ pc = "catch"
    /\ \E key \in Missing :
         LET r == [key |-> key, status |-> "failed", chunks |-> FALSE] IN
         \/ ManifestSink(r) /\ UNCHANGED pc
         \/ ManifestSinkThrows(r) /\ pc' = "fatal"
    /\ UNCHANGED <<run, result, failedStages>>

CatchReturns ==
    /\ pc = "catch" /\ Missing = {}
    /\ EndModule

Next ==
    \/ SkipStage \/ RunStage \/ ModuleThrows \/ Cancel \/ ModuleReturns
    \/ Upload \/ WriteManifest \/ Synthesize \/ CatchReturns

Spec == Init /\ [][Next]_vars

-----------------------------------------------------------------------------
(* What the task ends with                                                 *)

\* $runStatus.
RunResult == IF hasFailure THEN "failed" ELSE IF hasPartial THEN "partial" ELSE "success"

\* The status the dispatcher gives the task (RunTracker, MapRunStateBlob).
TaskStatus ==
    MapRunStateBlob([runError |-> pc = "fatal", entities |-> SetToSeq(Range(rollup))])

AllStarted == pc = "ended" /\ module > Len(modules)

\* A manifest comes after what it counts: where the container holds one with
\* chunks, it holds the chunks, whichever upload threw.
ManifestAfterChunks ==
    \A key \in DOMAIN manifests : manifests[key].chunks => \E s \in landed : Key(s) = key

\* A manifest is final: whatever throws afterwards, the catch of the module does
\* not "overwrite the success manifest at the same blob path".
ManifestsStand ==
    [][\A key \in DOMAIN manifests :
         key \in DOMAIN manifests' /\ manifests'[key] = manifests[key]]_manifests

\* No stage claims success below one that gave it nothing, "misleading" as that
\* would be (StageExecutor.psm1): its ancestors all have records.
NoSuccessBelowFailure ==
    \A s \in Requested : \A a \in Ancestors[s] \cap Requested :
        /\ {Key(s), Key(a)} \subseteq DOMAIN manifests
        /\ manifests[Key(s)].status \in {"success", "partial"}
        => manifests[Key(a)].status \in {"success", "partial"}

\* The dispatcher calls the task succeeded or skipped only if every folder of
\* every requested entity has its manifest and none tells of a failure, after
\* a cancellation or the end of the whole script, too.  The one gap are
\* manifests whose write threw: the other folder of the entity speaks for them.
CleanTaskIsComplete ==
    pc \in {"ended", "fatal"} /\ TaskStatus \in Clean =>
        \A key \in AllKeys \ unwritten :
            /\ key \in DOMAIN manifests
            /\ manifests[key].status \in {"success", "skipped"}

Ended(statuses) == {manifests[key].status : key \in DOMAIN manifests} \cap statuses # {}

\* The status of the run is that of its worst manifest.
RunResultIsWorst ==
    pc = "ended" => /\ RunResult = "failed" <=> Ended({"failed"})
                    /\ RunResult = "success" <=> ~Ended({"failed", "partial"})

\* "Synthetic failed results so every requested entity gets a manifest"
\* (Invoke-Ingestion.ps1): once all modules have run, every requested entity
\* has one in each of its folders, unless it was the write of that one that threw:
\* the sink enters the group first, so the catch takes it for emitted.
EveryEntityGetsManifest ==
    AllStarted => DOMAIN manifests = AllKeys \ unwritten

\* What the container tells of the task is true.
TaskIsTold ==
    /\ TypeInv
    /\ ManifestAfterChunks /\ EveryEntityGetsManifest
    /\ NoSuccessBelowFailure /\ RunResultIsWorst
=============================================================================
