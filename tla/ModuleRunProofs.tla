--------------------------- MODULE ModuleRunProofs ---------------------------
(***************************************************************************)
(* TaskIsTold, CleanTaskIsComplete and ManifestsStand for any task whose   *)
(* plan is as PlanAssumption has it, any set of requested entities and any *)
(* results of the stages.                                                  *)
(*                                                                         *)
(* A key is of one stage, and a stage has one place in its task, after its *)
(* ancestors (the first part).  So the loop enters each group once, when   *)
(* those of the ancestors are entered already (LoopOK, GroupsOK), and the  *)
(* manifests are those of the modules before, and of the groups (TriedOK). *)
(***************************************************************************)
EXTENDS ModuleRun, FiniteSetTheorems, TLAPS

Good == {"success", "partial"}

\* Position of the last stage the loop is done with.
Done == IF pc \in {"upload", "manifest"} THEN next - 2 ELSE next - 1

\* Keys of the modules before this one, and of those whose manifest was tried.
Past == UNION {Keys(n) : n \in 1..(module - 1)}
Tried == DOMAIN manifests \cup unwritten

InLoop == pc \in {"stage", "upload", "manifest"} /\ module <= Len(modules)

PlaceOK ==
  /\ pc \in {"catch", "upload", "manifest", "fatal"} => module <= Len(modules)
  /\ next >= 1
  /\ InLoop => next <= Len(modules[module]) + 1

\* What is being emitted is the result of the stage before next: it has stopped its
\* descendants, or nothing had stopped it.
ResultOK ==
  pc \in {"upload", "manifest"} =>
    /\ next >= 2
    /\ result.stage = modules[module][next - 1] /\ result.stage \in Requested
    /\ result.key = Key(result.stage)
    /\ IF result.status \in Good THEN Ancestors[result.stage] \cap failedStages = {}
                                 ELSE result.stage \in failedStages
    /\ pc = "manifest" /\ result.chunks => result.stage \in landed

\* The loop has entered the group of each requested stage it is done with, and the
\* stages that stop others are in $failedStages.
LoopOK ==
  InLoop =>
    /\ \A i \in 1..Done : modules[module][i] \in Requested =>
         /\ Key(modules[module][i]) \in DOMAIN groups
         /\ groups[Key(modules[module][i])].status \notin Good =>
              modules[module][i] \in failedStages
    /\ \A key \in DOMAIN groups : \E i \in 1..Done : key = Key(modules[module][i])

\* A group of the module is that of a requested stage whose requested ancestors have
\* records when it has, and its manifest was tried.
GroupsOK ==
  /\ module > Len(modules) => DOMAIN groups = {}
  /\ module <= Len(modules) => DOMAIN groups \subseteq Keys(module)
  /\ DOMAIN groups \subseteq Tried
  /\ \A key \in DOMAIN groups \cap DOMAIN manifests : manifests[key] = groups[key]
  /\ \A s \in Requested : \A a \in Ancestors[s] \cap Requested :
       Key(s) \in DOMAIN groups /\ groups[Key(s)].status \in Good =>
         Key(a) \in DOMAIN groups /\ groups[Key(a)].status \in Good

\* Each key before the module was tried, in it those with a group, after it none.
TriedOK ==
  /\ Tried = Past \cup DOMAIN groups
  /\ DOMAIN manifests \cap unwritten = {}

FlagsOK ==
  /\ hasFailure <=> Ended({"failed"})
  /\ hasPartial <=> Ended({"partial"})

\* The rollup of an entity is as bad as any of its manifests.
RollupOK ==
  /\ \A key \in DOMAIN manifests :
       /\ rollup[key[1]] # "running"
       /\ Rank(manifests[key].status) <= Rank(rollup[key[1]])
  /\ \A e \in Entities : rollup[e] # "running" => \E key \in DOMAIN manifests : key[1] = e

EndOK == pc = "ended" => DOMAIN groups = {}

CursorType ==
  /\ modules \in Tasks
  /\ pc \in {"stage", "upload", "manifest", "catch", "ended", "fatal"}
  /\ module \in 1..(Len(modules) + 1) /\ next \in Nat
  /\ result \in [stage : Stages \cup {NoStage}, key : AllKeys \cup {Nothing.key},
                 status : EntityRollupStatuses, chunks : BOOLEAN]
  /\ failedStages \subseteq Stages /\ cancelled \in BOOLEAN

Told == [status : EntityRollupStatuses, chunks : BOOLEAN]
BooksType ==
  /\ landed \subseteq Stages
  /\ DOMAIN groups \subseteq AllKeys /\ \A key \in DOMAIN groups : groups[key] \in Told
  /\ DOMAIN manifests \subseteq AllKeys /\ \A key \in DOMAIN manifests : manifests[key] \in Told
  /\ unwritten \subseteq AllKeys
  /\ hasFailure \in BOOLEAN /\ hasPartial \in BOOLEAN
  /\ rollup \in [Entities -> EntityRollupStatuses \cup {"running"}]

\* What the sinks write.
Books ==
  /\ BooksType /\ GroupsOK /\ TriedOK /\ FlagsOK /\ RollupOK
  /\ ManifestAfterChunks /\ NoSuccessBelowFailure

Cursor == CursorType /\ PlaceOK /\ ResultOK /\ LoopOK /\ EndOK

TaskInv == Cursor /\ Books

\* A result the sink may be given: its key has no group, its chunks are in the
\* container, and with records it stands below groups with records.
Emitted(r) ==
  /\ module <= Len(modules)
  /\ r.key \in Keys(module) \ DOMAIN groups
  /\ r.status \in EntityRollupStatuses /\ r.chunks \in BOOLEAN
  /\ r.chunks => \E s \in landed : Key(s) = r.key
  /\ r.status \in Good => \A s \in Requested : Key(s) = r.key =>
       \A a \in Ancestors[s] \cap Requested :
         Key(a) \in DOMAIN groups /\ groups[Key(a)].status \in Good

-----------------------------------------------------------------------------
(* Places and ancestors.                                                   *)

(* A task is a sequence of sequences of stages.                            *)
LEMMA PlanType ==
  ASSUME NEW task \in Tasks
  PROVE  /\ Len(task) \in Nat /\ DOMAIN task = 1..Len(task)
         /\ \A n \in 1..Len(task) :
              /\ Len(task[n]) \in Nat /\ DOMAIN task[n] = 1..Len(task[n])
              /\ \A i \in 1..Len(task[n]) : task[n][i] \in Stages
              /\ Range(task[n]) = {task[n][i] : i \in 1..Len(task[n])}
<1>1. task \in Seq(Seq(Stages))
  BY ModuleAssumption
<1>2. Len(task) \in Nat /\ DOMAIN task = 1..Len(task)
  BY <1>1
<1>3. \A n \in 1..Len(task) : task[n] \in Seq(Stages)
  BY <1>1
<1>4. ASSUME NEW n \in 1..Len(task)
      PROVE  /\ Len(task[n]) \in Nat /\ DOMAIN task[n] = 1..Len(task[n])
             /\ \A i \in 1..Len(task[n]) : task[n][i] \in Stages
             /\ Range(task[n]) = {task[n][i] : i \in 1..Len(task[n])}
  <2>1. Len(task[n]) \in Nat /\ DOMAIN task[n] = 1..Len(task[n])
    BY <1>3
  <2>2. \A i \in 1..Len(task[n]) : task[n][i] \in Stages
    BY <1>3
  <2>3. QED
    BY <2>1, <2>2 DEF Range
<1>5. QED
  BY <1>2, <1>4

(* A stage has one place in its task.                                      *)
LEMMA OnePlace ==
  ASSUME NEW task \in Tasks, NEW m \in 1..Len(task), NEW n \in 1..Len(task),
         NEW i \in 1..Len(task[m]), NEW j \in 1..Len(task[n])
  PROVE  /\ task[m][i] = task[n][j] => m = n /\ i = j
         /\ EntityOf[task[m][i]] = EntityOf[task[n][j]] /\ EntityOf[task[m][i]] # None => m = n
<1>1. m \in DOMAIN task /\ n \in DOMAIN task /\ i \in DOMAIN task[m] /\ j \in DOMAIN task[n]
  BY PlanType
<1>2. QED
  BY <1>1, PlanAssumption

(* Its parent is before it.                                                *)
LEMMA ParentBefore ==
  ASSUME NEW task \in Tasks, NEW n \in 1..Len(task), NEW i \in 1..Len(task[n]),
         Parent[task[n][i]] # NoStage
  PROVE  \E k \in 1..(i - 1) : task[n][k] = Parent[task[n][i]]
<1>1. n \in DOMAIN task /\ i \in DOMAIN task[n]
  BY PlanType
<1>2. QED
  BY <1>1, PlanAssumption

(* Ancestors solves its equation: the least set of stages that has the     *)
(* parent, and the parent of each of its stages, does.                     *)
LEMMA AncestorsDef ==
  Ancestors = [s \in Stages |->
    IF Parent[s] = NoStage THEN {} ELSE {Parent[s]} \cup Ancestors[Parent[s]]]
<1> DEFINE Eq(f) == f = [s \in Stages |->
             IF Parent[s] = NoStage THEN {} ELSE {Parent[s]} \cup f[Parent[s]]]
           Up(S) == \A b \in S : Parent[b] # NoStage => Parent[b] \in S
           Above(p) == {a \in Stages : \A S \in SUBSET Stages : Up(S) /\ p \in S => a \in S}
           g == [s \in Stages |-> IF Parent[s] = NoStage THEN {} ELSE Above(Parent[s])]
<1>1. \A s \in Stages : Parent[s] # NoStage => Parent[s] \in Stages
  BY ModuleAssumption
<1>2. ASSUME NEW p \in Stages
      PROVE  Above(p) = {p} \cup g[p]
  <2>1. CASE Parent[p] = NoStage
    <3>1. g[p] = {}
      BY <2>1
    <3>2. Up({p}) /\ {p} \in SUBSET Stages
      BY <2>1
    <3>3. QED
      BY <3>1, <3>2
  <2>2. CASE Parent[p] # NoStage
    <3> DEFINE q == Parent[p]
               T == {p} \cup Above(q)
    <3>1. g[p] = Above(q) /\ q \in Stages
      BY <1>1, <2>2
    <3>2. q \in Above(q)
      BY <3>1
    <3>3. ASSUME NEW b \in Above(q), Parent[b] # NoStage
          PROVE  Parent[b] \in Above(q)
      <4>1. Parent[b] \in Stages
        BY <1>1, <3>3
      <4>2. \A S \in SUBSET Stages : Up(S) /\ q \in S => b \in S
        OBVIOUS
      <4>3. \A S \in SUBSET Stages : Up(S) /\ q \in S => Parent[b] \in S
        BY <4>2, <3>3
      <4>4. QED
        BY <4>1, <4>3
    <3>4. T \in SUBSET Stages /\ p \in T
      OBVIOUS
    <3>5. Up(T)
      BY <3>2, <3>3
    <3>6. Above(p) \subseteq T
      BY <3>4, <3>5
    <3>7. p \in Above(p)
      OBVIOUS
    <3>8. Above(q) \subseteq Above(p)
      BY <2>2
    <3>9. QED
      BY <3>1, <3>6, <3>7, <3>8
  <2>3. QED
    BY <2>1, <2>2
<1>3. Eq(g)
  <2> HIDE DEF Above
  <2>1. \A s \in Stages : g[s] = IF Parent[s] = NoStage THEN {} ELSE {Parent[s]} \cup g[Parent[s]]
    BY <1>1, <1>2
  <2>2. QED
    BY <2>1, Zenon
<1>4. Ancestors = CHOOSE f : Eq(f)
  BY DEF Ancestors
<1> HIDE DEF g, Eq
<1>5. Eq(Ancestors)
  BY <1>3, <1>4
<1>6. QED
  BY <1>5 DEF Eq

(* The ancestors of a stage are before it, in its module.                  *)
LEMMA AncestorsBefore ==
  ASSUME NEW task \in Tasks, NEW n \in 1..Len(task)
  PROVE  \A i \in 1..Len(task[n]) : \A a \in Ancestors[task[n][i]] :
           \E k \in 1..(i - 1) : a = task[n][k]
<1> DEFINE Before(i) == \A a \in Ancestors[task[n][i]] : \E k \in 1..(i - 1) : a = task[n][k]
           Stray == {i \in 1..Len(task[n]) : ~Before(i)}
           Less == OpToRel(<, Nat)
<1> SUFFICES ASSUME Stray # {} PROVE FALSE
  OBVIOUS
<1>1. Len(task[n]) \in Nat
  BY PlanType
<1>2. Stray \subseteq Nat
  BY <1>1
<1>3. IsWellFoundedOn(Less, Nat)
  BY NatLessThanWellFounded, Zenon
<1>3a. ASSUME NEW x \in Nat, NEW y \in Nat, x < y PROVE <<x, y>> \in Less
  BY <1>3a, Zenon DEF OpToRel
<1> HIDE DEF Less
<1>4. PICK i \in Stray : \A k \in Stray : ~(<<k, i>> \in Less)
  BY <1>2, <1>3, WFMin, Zenon
<1>5. i \in 1..Len(task[n]) /\ ~Before(i)
  OBVIOUS
<1>6. \A k \in 1..(i - 1) : Before(k)
  <2> TAKE k \in 1..(i - 1)
  <2>1. k \in Nat /\ i \in Nat /\ k < i /\ k \in 1..Len(task[n])
    BY <1>1, <1>5
  <2>2. <<k, i>> \in Less
    BY <1>3a, <2>1
  <2>3. QED
    BY <1>4, <2>1, <2>2
<1>7. PICK a \in Ancestors[task[n][i]] : ~\E k \in 1..(i - 1) : a = task[n][k]
  BY <1>5
<1> DEFINE s == task[n][i]
<1>8. s \in Stages
  BY PlanType, <1>5
<1>9. Ancestors[s] = IF Parent[s] = NoStage THEN {} ELSE {Parent[s]} \cup Ancestors[Parent[s]]
  BY <1>8, AncestorsDef
<1>10. Parent[s] # NoStage
  BY <1>7, <1>9
<1>11. PICK k \in 1..(i - 1) : task[n][k] = Parent[s]
  BY <1>5, <1>10, ParentBefore
<1>12. a \in Ancestors[task[n][k]]
  BY <1>7, <1>9, <1>10, <1>11
<1>13. PICK l \in 1..(k - 1) : a = task[n][l]
  BY <1>6, <1>11, <1>12
<1>14. l \in 1..(i - 1)
  BY <1>5, <1>11, <1>13
<1>15. QED
  BY <1>7, <1>13, <1>14

-----------------------------------------------------------------------------
(* Keys.                                                                   *)

(* The keys of a module are those of its requested stages.                 *)
LEMMA KeyHasPlace ==
  ASSUME modules \in Tasks, NEW n \in 1..Len(modules), NEW key
  PROVE  key \in Keys(n) <=> \E i \in 1..Len(modules[n]) :
           modules[n][i] \in Requested /\ key = Key(modules[n][i])
<1>1. ModuleStages(n) = {modules[n][i] : i \in 1..Len(modules[n])}
  BY PlanType DEF ModuleStages
<1>2. QED
  BY <1>1 DEF Keys

(* A requested stage has an entity, and a place in the task.               *)
LEMMA RequestedType ==
  ASSUME modules \in Tasks
  PROVE  /\ Requested \subseteq Stages
         /\ \A s \in Requested : EntityOf[s] # None /\ EntityOf[s] \in Entities
         /\ \A s \in Requested : \E n \in 1..Len(modules) : \E i \in 1..Len(modules[n]) :
              s = modules[n][i]
<1>1. ASSUME NEW s \in Requested
      PROVE  /\ EntityOf[s] # None /\ EntityOf[s] \in Entities
             /\ \E n \in 1..Len(modules) : \E i \in 1..Len(modules[n]) : s = modules[n][i]
  <2>1. EntityOf[s] # None /\ EntityOf[s] \in Entities
    BY DEF Requested, Entities
  <2>2. PICK n \in DOMAIN modules : s \in Range(modules[n])
    BY DEF Requested, ModuleStages
  <2>3. n \in 1..Len(modules)
    BY PlanType
  <2>4. s \in {modules[n][i] : i \in 1..Len(modules[n])}
    BY <2>2, <2>3, PlanType, Zenon
  <2>5. QED
    BY <2>1, <2>3, <2>4
<1>2. \A s \in Requested : s \in Stages
  BY <1>1, PlanType
<1>3. QED
  BY <1>1, <1>2

(* A key is of one requested stage.                                        *)
LEMMA OneKey ==
  ASSUME modules \in Tasks, NEW s \in Requested, NEW t \in Stages, Key(s) = Key(t)
  PROVE  s = t
BY RequestedType, PlanAssumption

(* A key is of one module.                                                 *)
LEMMA KeysApart ==
  ASSUME modules \in Tasks, NEW m \in 1..Len(modules), NEW n \in 1..Len(modules),
         NEW key, key \in Keys(m), key \in Keys(n)
  PROVE  m = n
<1>1. PICK i \in 1..Len(modules[m]) : modules[m][i] \in Requested /\ key = Key(modules[m][i])
  BY KeyHasPlace
<1>2. PICK j \in 1..Len(modules[n]) : modules[n][j] \in Requested /\ key = Key(modules[n][j])
  BY KeyHasPlace
<1>3. modules[m][i] = modules[n][j]
  BY <1>1, <1>2, OneKey, RequestedType
<1>4. QED
  BY <1>3, OnePlace

(* A key is of a module, of a requested stage and of an entity.           *)
LEMMA KeysType ==
  ASSUME modules \in Tasks
  PROVE  /\ \A n \in 1..Len(modules) : Keys(n) \subseteq AllKeys
         /\ \A key \in AllKeys : \E n \in 1..Len(modules) : key \in Keys(n)
         /\ \A key \in AllKeys : \E s \in Requested : key = Key(s)
         /\ \A key \in AllKeys : key[1] \in Entities
<1>1. DOMAIN modules = 1..Len(modules)
  BY PlanType
<1>2. /\ \A n \in 1..Len(modules) : Keys(n) \subseteq AllKeys
      /\ \A key \in AllKeys : \E n \in 1..Len(modules) : key \in Keys(n)
  BY <1>1 DEF AllKeys
<1>3. \A key \in AllKeys : \E s \in Requested : key = Key(s)
  BY <1>2 DEF Keys
<1>4. \A s \in Requested : Key(s)[1] = EntityOf[s]
  BY DEF Key
<1>5. QED
  BY <1>2, <1>3, <1>4, RequestedType

(* The place of a requested stage in its module.                           *)
LEMMA KeyOfPlace ==
  ASSUME modules \in Tasks, NEW n \in 1..Len(modules), NEW i \in 1..Len(modules[n]),
         modules[n][i] \in Requested
  PROVE  Key(modules[n][i]) \in Keys(n)
BY KeyHasPlace

(* The requested ancestors of a requested stage are in its module.         *)
LEMMA AncestorsHere ==
  ASSUME modules \in Tasks, NEW n \in 1..Len(modules), NEW s \in Requested, Key(s) \in Keys(n),
         NEW a \in Ancestors[s] \cap Requested
  PROVE  Key(a) \in Keys(n)
<1>1. PICK i \in 1..Len(modules[n]) : modules[n][i] \in Requested /\ Key(s) = Key(modules[n][i])
  BY KeyHasPlace
<1>2. s = modules[n][i]
  BY <1>1, OneKey, RequestedType
<1>3. PICK k \in 1..(i - 1) : a = modules[n][k]
  BY <1>2, AncestorsBefore
<1>4. k \in 1..Len(modules[n])
  BY <1>3, PlanType
<1>5. QED
  BY <1>3, <1>4, KeyOfPlace

(* The keys of a module are not those of the modules before it.            *)
LEMMA NotPast ==
  ASSUME modules \in Tasks, module \in 1..Len(modules), NEW key \in Keys(module)
  PROVE  key \notin Past
<1> SUFFICES ASSUME key \in Past PROVE FALSE
  OBVIOUS
<1>1. PICK n \in 1..(module - 1) : key \in Keys(n)
  BY DEF Past
<1>2. n \in 1..Len(modules) /\ n # module
  BY <1>1, PlanType
<1>3. QED
  BY <1>1, <1>2, KeysApart

(* While the task is the same, so are its stages and keys.                 *)
LEMMA SameTask ==
  ASSUME modules' = modules
  PROVE  /\ Requested' = Requested /\ Entities' = Entities /\ AllKeys' = AllKeys
         /\ \A n : Keys(n)' = Keys(n)
         /\ module' = module => Past' = Past
<1>1. Requested' = Requested
  BY DEF Requested, ModuleStages
<1>2. \A n : Keys(n)' = Keys(n)
  BY <1>1 DEF Keys, ModuleStages
<1>3. AllKeys' = AllKeys
  BY <1>2 DEF AllKeys
<1>4. Entities' = Entities
  BY <1>1 DEF Entities
<1>5. module' = module => Past' = Past
  BY <1>2 DEF Past
<1>6. QED
  BY <1>1, <1>2, <1>3, <1>4, <1>5

-----------------------------------------------------------------------------
(* Statuses.                                                               *)

(* Ranks, and the worse of two statuses.                                   *)
LEMMA RankType ==
  /\ \A s \in EntityRollupStatuses \cup {"running"} : Rank(s) \in 0..3
  /\ Rank("running") = 3 /\ Rank("failed") = 3
  /\ \A s \in EntityRollupStatuses : Rank(s) <= 1 => s \in {"success", "skipped"}
  /\ \A s, t \in EntityRollupStatuses :
       /\ Worse(s, t) \in EntityRollupStatuses
       /\ Rank(s) <= Rank(Worse(s, t)) /\ Rank(t) <= Rank(Worse(s, t))
<1>1. \A s : Rank(s) \in 0..3
  BY DEF Rank
<1>2. \A s \in EntityRollupStatuses : Rank(s) <= 1 => s \in {"success", "skipped"}
  BY DEF Rank, EntityRollupStatuses
<1>3. Rank("running") = 3 /\ Rank("failed") = 3
  BY DEF Rank
<1>4. \A s, t \in EntityRollupStatuses :
       /\ Worse(s, t) \in EntityRollupStatuses
       /\ Rank(s) <= Rank(Worse(s, t)) /\ Rank(t) <= Rank(Worse(s, t))
  BY <1>1 DEF Worse
<1>5. QED
  BY <1>1, <1>2, <1>3, <1>4

-----------------------------------------------------------------------------
(* The sinks.                                                              *)

(* A key without a group was never tried: its group is new.                *)
LEMMA NewKey ==
  ASSUME TaskInv, NEW r, Emitted(r)
  PROVE  /\ r.key \notin Tried /\ r.key \notin DOMAIN groups
         /\ r.key \in AllKeys /\ r.key[1] \in Entities
         /\ Grouped(r) = [status |-> r.status, chunks |-> r.chunks]
         /\ Grouped(r) \in Told
<1>1. modules \in Tasks /\ module \in 1..Len(modules)
  BY DEF TaskInv, Cursor, CursorType, Emitted
<1>2. r.key \in Keys(module) /\ r.key \notin DOMAIN groups
  BY DEF Emitted
<1>3. r.key \in AllKeys /\ r.key[1] \in Entities
  BY <1>1, <1>2, KeysType
<1>4. r.key \notin Past
  BY <1>1, <1>2, NotPast
<1>5. r.key \notin Tried
  BY <1>2, <1>4 DEF TaskInv, Books, TriedOK
<1>6. Grouped(r) = [status |-> r.status, chunks |-> r.chunks]
  BY <1>2 DEF Grouped
<1>7. Grouped(r) \in Told
  BY <1>6 DEF Told, Emitted
<1>8. QED
  BY <1>2, <1>3, <1>5, <1>6, <1>7

(* The groups after a result was entered.                                  *)
LEMMA EnteredGroups ==
  ASSUME TaskInv, NEW r, Emitted(r),
         groups' = With(groups, r.key, Grouped(r)), UNCHANGED <<modules, module>>
  PROVE  /\ DOMAIN groups' \subseteq Keys(module)'
         /\ \A s \in Requested : \A a \in Ancestors[s] \cap Requested :
              Key(s) \in DOMAIN groups' /\ groups'[Key(s)].status \in Good =>
                Key(a) \in DOMAIN groups' /\ groups'[Key(a)].status \in Good
<1>1. /\ DOMAIN groups' = DOMAIN groups \cup {r.key}
      /\ groups'[r.key] = Grouped(r)
      /\ \A k \in DOMAIN groups : k # r.key => groups'[k] = groups[k]
  BY DEF With
<1>2. Keys(module)' = Keys(module)
  BY DEF Keys, Requested, ModuleStages
<1>3. DOMAIN groups' \subseteq Keys(module)'
  BY <1>1, <1>2 DEF TaskInv, Books, GroupsOK, Emitted
<1>4. ASSUME NEW s \in Requested, NEW a \in Ancestors[s] \cap Requested,
             Key(s) \in DOMAIN groups', groups'[Key(s)].status \in Good
      PROVE  Key(a) \in DOMAIN groups' /\ groups'[Key(a)].status \in Good
  <2>1. Key(a) \in DOMAIN groups /\ groups[Key(a)].status \in Good
    <3>1. CASE Key(s) = r.key
      <4>1. r.status \in Good
        BY <1>1, <1>4, <3>1, NewKey
      <4>2. QED
        BY <3>1, <4>1 DEF Emitted
    <3>2. CASE Key(s) # r.key
      <4>1. Key(s) \in DOMAIN groups /\ groups[Key(s)].status \in Good
        BY <1>1, <1>4, <3>2
      <4>2. QED
        BY <4>1 DEF TaskInv, Books, GroupsOK
    <3>3. QED
      BY <3>1, <3>2
  <2>2. Key(a) # r.key
    BY <2>1, NewKey
  <2>3. QED
    BY <1>1, <2>1, <2>2
<1>5. QED
  BY <1>3, <1>4

(* A manifest that is written keeps the books.                             *)
LEMMA SinkKeeps ==
  ASSUME TaskInv, NEW r, Emitted(r), ManifestSink(r), UNCHANGED <<modules, module>>
  PROVE  Books'
<1> DEFINE g == Grouped(r)
<1>1. /\ r.key \notin Tried /\ r.key \notin DOMAIN groups
      /\ r.key \in AllKeys /\ r.key[1] \in Entities
      /\ g = [status |-> r.status, chunks |-> r.chunks] /\ g \in Told
  BY NewKey
<1>2. /\ groups' = With(groups, r.key, g) /\ manifests' = With(manifests, r.key, g)
      /\ landed' = landed /\ unwritten' = unwritten
      /\ Fold(r.key[1], g.status)
  BY DEF ManifestSink
<1>3. /\ Requested' = Requested /\ Entities' = Entities /\ AllKeys' = AllKeys
      /\ Past' = Past
  BY SameTask
<1>4. /\ BooksType /\ GroupsOK /\ TriedOK /\ FlagsOK /\ RollupOK
      /\ ManifestAfterChunks /\ NoSuccessBelowFailure
  BY DEF TaskInv, Books
<1>5. /\ DOMAIN groups' = DOMAIN groups \cup {r.key} /\ groups'[r.key] = g
      /\ \A k \in DOMAIN groups : groups'[k] = groups[k]
  BY <1>1, <1>2 DEF With
<1>6. /\ DOMAIN manifests' = DOMAIN manifests \cup {r.key} /\ manifests'[r.key] = g
      /\ \A k \in DOMAIN manifests : manifests'[k] = manifests[k]
  BY <1>1, <1>2 DEF With, Tried
<1>7. g.status = r.status /\ g.chunks = r.chunks /\ g.status \in EntityRollupStatuses
  BY <1>1 DEF Told
<1> HIDE DEF g
<1> DEFINE e == r.key[1]
<1>8. /\ hasFailure' = (hasFailure \/ g.status = "failed")
      /\ hasPartial' = (hasPartial \/ g.status = "partial")
      /\ rollup' = [rollup EXCEPT ![e] = IF @ = "running" THEN g.status ELSE Worse(@, g.status)]
  BY <1>2 DEF Fold
<1>9. rollup \in [Entities -> EntityRollupStatuses \cup {"running"}] /\ e \in Entities
  BY <1>1, <1>4 DEF BooksType
<1>10. /\ rollup'[e] \in EntityRollupStatuses /\ Rank(g.status) <= Rank(rollup'[e])
       /\ rollup[e] # "running" => Rank(rollup[e]) <= Rank(rollup'[e])
       /\ \A x \in Entities : x # e => rollup'[x] = rollup[x]
       /\ rollup' \in [Entities -> EntityRollupStatuses \cup {"running"}]
  <2>1. rollup'[e] = IF rollup[e] = "running" THEN g.status ELSE Worse(rollup[e], g.status)
    BY <1>8, <1>9
  <2>2. \A x \in Entities : x # e => rollup'[x] = rollup[x]
    BY <1>8, <1>9
  <2>3. /\ rollup'[e] \in EntityRollupStatuses /\ Rank(g.status) <= Rank(rollup'[e])
        /\ rollup[e] # "running" => Rank(rollup[e]) <= Rank(rollup'[e])
    <3>1. CASE rollup[e] = "running"
      <4>1. Rank(g.status) \in 0..3
        BY <1>7, RankType
      <4>2. QED
        BY <1>7, <2>1, <3>1, <4>1
    <3>2. CASE rollup[e] # "running"
      BY <1>7, <1>9, <2>1, <3>2, RankType
    <3>3. QED
      BY <3>1, <3>2
  <2>4. rollup' \in [Entities -> EntityRollupStatuses \cup {"running"}]
    BY <1>8, <1>9, <2>1, <2>3
  <2>5. QED
    BY <2>2, <2>3, <2>4
<1>11. BooksType'
  <2>1. DOMAIN groups' \subseteq AllKeys /\ DOMAIN manifests' \subseteq AllKeys
    BY <1>1, <1>4, <1>5, <1>6 DEF BooksType
  <2>2. \A k \in DOMAIN groups' : groups'[k] \in Told
    BY <1>1, <1>4, <1>5 DEF BooksType
  <2>3. \A k \in DOMAIN manifests' : manifests'[k] \in Told
    BY <1>1, <1>4, <1>6 DEF BooksType
  <2>4. landed' \subseteq Stages /\ unwritten' \subseteq AllKeys
    BY <1>2, <1>4 DEF BooksType
  <2>5. hasFailure' \in BOOLEAN /\ hasPartial' \in BOOLEAN
    BY <1>8
  <2>6. QED
    BY <1>3, <1>10, <2>1, <2>2, <2>3, <2>4, <2>5, Zenon DEF BooksType
<1>12. GroupsOK'
  <2>1. module' <= Len(modules)'
    BY DEF Emitted
  <2>2. /\ DOMAIN groups' \subseteq Keys(module)'
        /\ \A s \in Requested : \A a \in Ancestors[s] \cap Requested :
             Key(s) \in DOMAIN groups' /\ groups'[Key(s)].status \in Good =>
               Key(a) \in DOMAIN groups' /\ groups'[Key(a)].status \in Good
    BY <1>2, EnteredGroups DEF g
  <2>3. DOMAIN groups' \subseteq Tried'
    BY <1>2, <1>4, <1>5, <1>6 DEF GroupsOK, Tried
  <2>4. \A key \in DOMAIN groups' \cap DOMAIN manifests' : manifests'[key] = groups'[key]
    BY <1>1, <1>4, <1>5, <1>6 DEF GroupsOK, Tried
  <2>5. module \in Nat /\ Len(modules) \in Nat
    BY PlanType DEF TaskInv, Cursor, CursorType
  <2>6. ~(module' > Len(modules)')
    BY <2>5 DEF Emitted
  <2>7. QED
    BY <1>3, <2>2, <2>3, <2>4, <2>6, Zenon DEF GroupsOK
<1>13. TriedOK'
  BY <1>1, <1>2, <1>3, <1>4, <1>5, <1>6 DEF TriedOK, Tried
<1>14. FlagsOK'
  <2>1. Ended({"failed"})' <=> (Ended({"failed"}) \/ g.status = "failed")
    BY <1>6 DEF Ended
  <2>2. Ended({"partial"})' <=> (Ended({"partial"}) \/ g.status = "partial")
    BY <1>6 DEF Ended
  <2>3. QED
    BY <1>4, <1>8, <2>1, <2>2, Zenon DEF FlagsOK
<1>15. RollupOK'
  <2>1. ASSUME NEW key \in DOMAIN manifests'
        PROVE  /\ rollup'[key[1]] # "running"
               /\ Rank(manifests'[key].status) <= Rank(rollup'[key[1]])
    <3>1. CASE key = r.key
      BY <1>6, <1>10, <3>1 DEF EntityRollupStatuses
    <3>2. CASE key # r.key
      <4>1. key \in DOMAIN manifests /\ manifests'[key] = manifests[key]
        BY <1>6, <2>1, <3>2
      <4>2. /\ rollup[key[1]] # "running"
            /\ Rank(manifests[key].status) <= Rank(rollup[key[1]])
        BY <1>4, <4>1 DEF RollupOK
      <4>3. key[1] \in Entities /\ manifests[key].status \in EntityRollupStatuses
        <5>1. key \in AllKeys /\ manifests[key] \in Told
          BY <1>4, <4>1 DEF BooksType
        <5>2. modules \in Tasks
          BY DEF TaskInv, Cursor, CursorType
        <5>3. key[1] \in Entities
          BY <5>1, <5>2, KeysType
        <5>4. QED
          BY <5>1, <5>3 DEF Told
      <4>4. CASE key[1] = e
        <5>1. Rank(rollup[e]) <= Rank(rollup'[e]) /\ rollup'[e] # "running"
          BY <1>10, <4>2, <4>4 DEF EntityRollupStatuses
        <5>2. /\ Rank(rollup[e]) \in 0..3 /\ Rank(rollup'[e]) \in 0..3
              /\ Rank(manifests[key].status) \in 0..3
          BY <1>9, <1>10, <4>3, RankType
        <5>3. QED
          BY <4>1, <4>2, <4>4, <5>1, <5>2
      <4>5. CASE key[1] # e
        BY <1>10, <4>1, <4>2, <4>3, <4>5
      <4>6. QED
        BY <4>4, <4>5
    <3>3. QED
      BY <3>1, <3>2
  <2>2. ASSUME NEW x \in Entities, rollup'[x] # "running"
        PROVE  \E key \in DOMAIN manifests' : key[1] = x
    <3>1. CASE x = e
      BY <1>6, <3>1
    <3>2. CASE x # e
      <4>1. rollup[x] # "running"
        BY <1>10, <2>2, <3>2
      <4>2. PICK key \in DOMAIN manifests : key[1] = x
        BY <1>4, <4>1 DEF RollupOK
      <4>3. QED
        BY <1>6, <4>2
    <3>3. QED
      BY <3>1, <3>2
  <2>3. QED
    BY <1>3, <2>1, <2>2, Zenon DEF RollupOK
<1>16. ManifestAfterChunks'
  <2>1. ASSUME NEW key \in DOMAIN manifests', manifests'[key].chunks
        PROVE  \E s \in landed : Key(s) = key
    <3>1. CASE key = r.key
      <4>1. r.chunks
        BY <1>6, <1>7, <2>1, <3>1
      <4>2. QED
        BY <3>1, <4>1, Zenon DEF Emitted
    <3>2. CASE key # r.key
      BY <1>4, <1>6, <2>1, <3>2 DEF ManifestAfterChunks
    <3>3. QED
      BY <3>1, <3>2
  <2>2. QED
    BY <1>2, <2>1, Zenon DEF ManifestAfterChunks
<1>17. NoSuccessBelowFailure'
  <2>1. ASSUME NEW s \in Requested, NEW a \in Ancestors[s] \cap Requested,
               Key(s) \in DOMAIN manifests', Key(a) \in DOMAIN manifests',
               manifests'[Key(s)].status \in Good
        PROVE  manifests'[Key(a)].status \in Good
    <3>1. modules \in Tasks /\ module \in 1..Len(modules)
      BY DEF TaskInv, Cursor, CursorType, Emitted
    <3>2. CASE Key(s) = r.key
      <4>1. Key(a) \in DOMAIN groups /\ groups[Key(a)].status \in Good
        BY <1>6, <1>7, <2>1, <3>2 DEF Emitted
      <4>2. Key(a) \in DOMAIN manifests /\ manifests'[Key(a)] = manifests[Key(a)]
        BY <1>1, <1>6, <2>1, <4>1
      <4>3. QED
        BY <1>4, <4>1, <4>2 DEF GroupsOK
    <3>3. CASE Key(s) # r.key
      <4>1. Key(s) \in DOMAIN manifests /\ manifests[Key(s)].status \in Good
        BY <1>6, <2>1, <3>3
      <4>2. CASE Key(a) = r.key
        <5>1. Key(s) \in Keys(module)
          <6>1. PICK n \in 1..Len(modules) : Key(s) \in Keys(n)
            <7>1. Key(s) \in AllKeys
              BY <1>4, <4>1 DEF BooksType
            <7>2. QED
              BY <3>1, <7>1, KeysType
          <6>2. Key(a) \in Keys(n)
            BY <3>1, <6>1, AncestorsHere
          <6>3. n = module
            BY <3>1, <4>2, <6>2, KeysApart DEF Emitted
          <6>4. QED
            BY <6>1, <6>3
        <5>2. Key(s) \notin Past
          BY <3>1, <5>1, NotPast
        <5>3. Key(s) \in DOMAIN groups
          BY <1>4, <4>1, <5>2 DEF TriedOK, Tried
        <5>4. groups[Key(s)].status \in Good
          BY <1>4, <4>1, <5>3 DEF GroupsOK
        <5>5. Key(a) \in DOMAIN groups
          BY <1>4, <2>1, <5>3, <5>4 DEF GroupsOK
        <5>6. QED
          BY <1>1, <4>2, <5>5
      <4>3. CASE Key(a) # r.key
        BY <1>4, <1>6, <2>1, <4>1, <4>3 DEF NoSuccessBelowFailure, Good
      <4>4. QED
        BY <4>2, <4>3
    <3>4. QED
      BY <3>2, <3>3
  <2>2. QED
    BY <1>3, <2>1 DEF NoSuccessBelowFailure, Good
<1>18. QED
  BY <1>11, <1>12, <1>13, <1>14, <1>15, <1>16, <1>17 DEF Books

(* A manifest whose write throws keeps them, too.                          *)
LEMMA ThrowKeeps ==
  ASSUME TaskInv, NEW r, Emitted(r), ManifestSinkThrows(r), UNCHANGED <<modules, module>>
  PROVE  Books'
<1> DEFINE g == Grouped(r)
<1>1. /\ r.key \notin Tried /\ r.key \notin DOMAIN groups
      /\ r.key \in AllKeys /\ g \in Told
  BY NewKey
<1>2. /\ groups' = With(groups, r.key, g) /\ unwritten' = unwritten \cup {r.key}
      /\ landed' = landed /\ manifests' = manifests
      /\ hasFailure' = hasFailure /\ hasPartial' = hasPartial /\ rollup' = rollup
  BY DEF ManifestSinkThrows, rollups
<1>3. /\ Requested' = Requested /\ Entities' = Entities /\ AllKeys' = AllKeys
      /\ Past' = Past
  BY SameTask
<1>4. /\ BooksType /\ GroupsOK /\ TriedOK /\ FlagsOK /\ RollupOK
      /\ ManifestAfterChunks /\ NoSuccessBelowFailure
  BY DEF TaskInv, Books
<1>5. /\ DOMAIN groups' = DOMAIN groups \cup {r.key} /\ groups'[r.key] = g
      /\ \A k \in DOMAIN groups : groups'[k] = groups[k]
  BY <1>1, <1>2 DEF With
<1>6. BooksType'
  <2>1. DOMAIN groups' \subseteq AllKeys /\ \A k \in DOMAIN groups' : groups'[k] \in Told
    BY <1>1, <1>4, <1>5 DEF BooksType
  <2>2. QED
    BY <1>1, <1>2, <1>3, <1>4, <2>1 DEF BooksType
<1>7. GroupsOK'
  <2>1. /\ DOMAIN groups' \subseteq Keys(module)'
        /\ \A s \in Requested : \A a \in Ancestors[s] \cap Requested :
             Key(s) \in DOMAIN groups' /\ groups'[Key(s)].status \in Good =>
               Key(a) \in DOMAIN groups' /\ groups'[Key(a)].status \in Good
    BY <1>2, EnteredGroups
  <2>2. DOMAIN groups' \subseteq Tried'
    BY <1>2, <1>4, <1>5 DEF GroupsOK, Tried
  <2>3. \A key \in DOMAIN groups' \cap DOMAIN manifests' : manifests'[key] = groups'[key]
    BY <1>1, <1>2, <1>4, <1>5 DEF GroupsOK, Tried
  <2>4. module \in Nat /\ Len(modules) \in Nat
    BY PlanType DEF TaskInv, Cursor, CursorType
  <2>5. ~(module' > Len(modules)')
    BY <2>4 DEF Emitted
  <2>6. QED
    BY <1>3, <2>1, <2>2, <2>3, <2>5, Zenon DEF GroupsOK
<1>8. TriedOK'
  BY <1>1, <1>2, <1>3, <1>4, <1>5 DEF TriedOK, Tried
<1>9. FlagsOK'
  BY <1>2, <1>4, Zenon DEF FlagsOK, Ended
<1>10. RollupOK'
  BY <1>2, <1>3, <1>4, Zenon DEF RollupOK
<1>11. ManifestAfterChunks' /\ NoSuccessBelowFailure'
  BY <1>2, <1>3, <1>4, Zenon DEF ManifestAfterChunks, NoSuccessBelowFailure
<1>12. QED
  BY <1>6, <1>7, <1>8, <1>9, <1>10, <1>11 DEF Books

(* While nothing is emitted, chunks may land.                              *)
LEMMA LandingKeeps ==
  ASSUME Books, UNCHANGED <<modules, module, groups, manifests, unwritten, rollups>>,
         landed \subseteq landed', landed' \subseteq Stages
  PROVE  Books'
<1>1. /\ Requested' = Requested /\ Entities' = Entities /\ AllKeys' = AllKeys
      /\ Past' = Past /\ \A n : Keys(n)' = Keys(n)
  BY SameTask
<1>2. /\ BooksType /\ GroupsOK /\ TriedOK /\ FlagsOK /\ RollupOK
      /\ ManifestAfterChunks /\ NoSuccessBelowFailure
  BY DEF Books
<1>3. /\ groups' = groups /\ manifests' = manifests /\ unwritten' = unwritten
      /\ hasFailure' = hasFailure /\ hasPartial' = hasPartial /\ rollup' = rollup
  BY DEF rollups
<1>4. BooksType' /\ TriedOK' /\ RollupOK'
  BY <1>1, <1>2, <1>3 DEF BooksType, TriedOK, Tried, RollupOK
<1>5. FlagsOK'
  BY <1>2, <1>3, Zenon DEF FlagsOK, Ended
<1>6. GroupsOK'
  <2>1. Keys(module)' = Keys(module)
    BY DEF Keys, Requested, ModuleStages
  <2>2. QED
    BY <1>1, <1>2, <1>3, <2>1 DEF GroupsOK, Tried
<1>7. ManifestAfterChunks'
  BY <1>2, <1>3 DEF ManifestAfterChunks
<1>8. NoSuccessBelowFailure'
  BY <1>1, <1>2, <1>3 DEF NoSuccessBelowFailure
<1>9. QED
  BY <1>4, <1>5, <1>6, <1>7, <1>8 DEF Books

(* At the end of a module every key of it has its group.                   *)
LEMMA EndKeeps ==
  ASSUME TaskInv, EndModule, module <= Len(modules), DOMAIN groups = Keys(module)
  PROVE  Books'
<1>1. /\ modules' = modules /\ module' = module + 1 /\ groups' = <<>>
      /\ landed' = landed /\ manifests' = manifests /\ unwritten' = unwritten
      /\ hasFailure' = hasFailure /\ hasPartial' = hasPartial /\ rollup' = rollup
  BY DEF EndModule, rollups
<1>2. /\ Requested' = Requested /\ Entities' = Entities /\ AllKeys' = AllKeys
      /\ \A n : Keys(n)' = Keys(n)
  BY <1>1, SameTask
<1>3. /\ BooksType /\ GroupsOK /\ TriedOK /\ FlagsOK /\ RollupOK
      /\ ManifestAfterChunks /\ NoSuccessBelowFailure
  BY DEF TaskInv, Books
<1>4. DOMAIN groups' = {}
  BY <1>1
<1>5. module \in Nat /\ module >= 1
  BY PlanType DEF TaskInv, Cursor, CursorType
<1>6. Past' = Past \cup Keys(module)
  <2>1. Past' = UNION {Keys(n) : n \in 1..((module + 1) - 1)}
    BY <1>1, <1>2 DEF Past
  <2>2. 1..((module + 1) - 1) = (1..(module - 1)) \cup {module}
    BY <1>5
  <2>3. QED
    BY <2>1, <2>2 DEF Past
<1>7. BooksType'
  BY <1>1, <1>2, <1>3, <1>4 DEF BooksType
<1>8. GroupsOK'
  BY <1>4 DEF GroupsOK
<1>9. TriedOK'
  BY <1>1, <1>3, <1>4, <1>6 DEF TriedOK, Tried
<1>10. FlagsOK'
  BY <1>1, <1>3, Zenon DEF FlagsOK, Ended
<1>11. RollupOK'
  BY <1>1, <1>2, <1>3, Zenon DEF RollupOK
<1>12. ManifestAfterChunks' /\ NoSuccessBelowFailure'
  BY <1>1, <1>2, <1>3, Zenon DEF ManifestAfterChunks, NoSuccessBelowFailure
<1>13. QED
  BY <1>7, <1>8, <1>9, <1>10, <1>11, <1>12 DEF Books

-----------------------------------------------------------------------------
(* The loop.                                                               *)

(* The result the loop emits is one the sink may be given.                 *)
LEMMA ResultEmitted ==
  ASSUME TaskInv, pc = "manifest"
  PROVE  /\ Emitted(result)
         /\ result.key = Key(modules[module][next - 1]) /\ next - 1 \in 1..Len(modules[module])
<1>1. /\ modules \in Tasks /\ module \in 1..Len(modules) /\ next \in Nat /\ next >= 2
      /\ result.status \in EntityRollupStatuses /\ result.chunks \in BOOLEAN
  BY DEF TaskInv, Cursor, CursorType, PlaceOK, ResultOK
<1>2. /\ Len(modules[module]) \in Nat
      /\ \A i \in 1..Len(modules[module]) : modules[module][i] \in Stages
  BY <1>1, PlanType
<1> DEFINE last == next - 1
           s == modules[module][last]
<1>3. last \in 1..Len(modules[module])
  BY <1>1, <1>2 DEF TaskInv, Cursor, PlaceOK, InLoop
<1>4. /\ result.stage = s /\ s \in Requested /\ result.key = Key(s)
      /\ result.status \in Good => Ancestors[s] \cap failedStages = {}
      /\ result.chunks => s \in landed
  BY DEF TaskInv, Cursor, ResultOK
<1>5. /\ \A i \in 1..(last - 1) : modules[module][i] \in Requested =>
           /\ Key(modules[module][i]) \in DOMAIN groups
           /\ groups[Key(modules[module][i])].status \notin Good =>
                modules[module][i] \in failedStages
      /\ \A key \in DOMAIN groups : \E i \in 1..(last - 1) : key = Key(modules[module][i])
  <2>1. InLoop /\ Done = last - 1
    BY <1>1 DEF InLoop, Done
  <2>2. QED
    BY <2>1 DEF TaskInv, Cursor, LoopOK
<1> HIDE DEF last
<1>6. result.key \in Keys(module)
  BY <1>1, <1>3, <1>4, KeyOfPlace
<1>7. result.key \notin DOMAIN groups
  <2> SUFFICES ASSUME result.key \in DOMAIN groups PROVE FALSE
    OBVIOUS
  <2>1. PICK i \in 1..(last - 1) : result.key = Key(modules[module][i])
    BY <1>5
  <2>2. i \in 1..Len(modules[module]) /\ i # last
    BY <1>2, <1>3, <2>1
  <2>3. s = modules[module][i]
    BY <1>1, <1>2, <1>4, <2>1, <2>2, OneKey
  <2>4. QED
    BY <1>1, <1>3, <2>2, <2>3, OnePlace
<1>8. ASSUME result.status \in Good, NEW t \in Requested, Key(t) = result.key,
             NEW a \in Ancestors[t] \cap Requested
      PROVE  Key(a) \in DOMAIN groups /\ groups[Key(a)].status \in Good
  <2>1. t = s
    BY <1>1, <1>2, <1>3, <1>4, <1>8, OneKey
  <2>2. PICK k \in 1..(last - 1) : a = modules[module][k]
    <3>1. \A i \in 1..Len(modules[module]) : \A b \in Ancestors[modules[module][i]] :
            \E k \in 1..(i - 1) : b = modules[module][k]
      BY <1>1, AncestorsBefore
    <3>2. a \in Ancestors[modules[module][last]] /\ last \in 1..Len(modules[module])
      BY <1>1, <1>3, <1>8, <2>1
    <3> QED
      BY <3>1, <3>2
  <2>3. a \notin failedStages
    BY <1>4, <1>8, <2>1
  <2>4. QED
    BY <1>5, <2>2, <2>3
<1>9. result.chunks => \E x \in landed : Key(x) = result.key
  BY <1>4
<1>10. Emitted(result)
  BY <1>1, <1>6, <1>7, <1>8, <1>9 DEF Emitted
<1>11. QED
  BY <1>3, <1>4, <1>10 DEF last

(* A stage that ends is emitted when it is requested.                      *)
LEMMA StageEndsKeeps ==
  ASSUME TaskInv, InModule, ~Finished, NEW status \in EntityRollupStatuses,
         NEW chunks \in BOOLEAN, StageEnds(modules[module][next], status, chunks),
         status \in Good => Ancestors[modules[module][next]] \cap failedStages = {}
  PROVE  TaskInv'
<1> DEFINE s == modules[module][next]
<1>1. /\ modules \in Tasks /\ module \in 1..Len(modules) /\ next \in Nat
      /\ cancelled \in BOOLEAN /\ failedStages \subseteq Stages /\ pc = "stage"
  BY DEF TaskInv, Cursor, CursorType, InModule
<1>2. next \in 1..Len(modules[module]) /\ Len(modules[module]) \in Nat /\ s \in Stages
  BY <1>1, PlanType DEF TaskInv, Cursor, PlaceOK, Finished
<1>3. /\ failedStages' = IF StopsDescendants(status) THEN failedStages \cup {s} ELSE failedStages
      /\ next' = next + 1
      /\ IF s \in Requested THEN pc' = "upload" /\ result' = Result(s, status, chunks)
                            ELSE pc' = pc /\ result' = result
      /\ modules' = modules /\ module' = module /\ cancelled' = cancelled
      /\ groups' = groups /\ landed' = landed /\ manifests' = manifests
      /\ unwritten' = unwritten /\ rollups' = rollups
  BY DEF StageEnds, written
<1>4. /\ Requested' = Requested /\ AllKeys' = AllKeys
  BY <1>3, SameTask
<1>5. Books'
  <2>1. landed \subseteq landed' /\ landed' \subseteq Stages
    BY <1>3 DEF TaskInv, Books, BooksType
  <2>2. QED
    BY <1>3, <2>1, LandingKeeps DEF TaskInv
<1>6. failedStages \subseteq failedStages' /\ failedStages' \subseteq Stages
  BY <1>1, <1>2, <1>3
<1>7. status \notin Good => s \in failedStages'
  BY <1>3 DEF StopsDescendants, Good, EntityRollupStatuses
<1>8. LoopOK /\ Done = next - 1 /\ InLoop
  BY <1>1 DEF TaskInv, Cursor, Done, InLoop
<1>9. CASE s \in Requested
  <2>1. pc' = "upload" /\ result' = Result(s, status, chunks)
    BY <1>3, <1>9
  <2>2. Key(s) \in AllKeys
    BY <1>1, <1>2, <1>9, KeyOfPlace, KeysType
  <2>3. CursorType'
    BY <1>1, <1>2, <1>3, <1>4, <1>6, <2>1, <2>2 DEF CursorType, Result
  <2>4. PlaceOK'
    BY <1>1, <1>2, <1>3, <2>1 DEF PlaceOK, InLoop
  <2>5. status \in Good => Ancestors[s] \cap failedStages' = {}
    BY <1>3 DEF StopsDescendants, Good
  <2>6. ResultOK'
    <3>1. next' >= 2 /\ modules'[module'][next' - 1] = s
      BY <1>2, <1>3
    <3>2. /\ result'.stage = s /\ result'.key = Key(s) /\ result'.status = status
      BY <2>1 DEF Result
    <3>3. QED
      BY <1>4, <1>7, <1>9, <2>1, <2>5, <3>1, <3>2 DEF ResultOK
  <2>7. LoopOK'
    <3>1. Done' = next - 1
      BY <1>2, <1>3, <2>1 DEF Done
    <3>2. QED
      BY <1>3, <1>4, <1>6, <1>8, <3>1 DEF LoopOK
  <2>8. EndOK'
    BY <2>1 DEF EndOK
  <2>9. QED
    BY <1>5, <2>3, <2>4, <2>6, <2>7, <2>8 DEF TaskInv, Cursor
<1>10. CASE s \notin Requested
  <2>1. pc' = "stage" /\ result' = result
    BY <1>1, <1>3, <1>10
  <2>2. CursorType'
    BY <1>1, <1>2, <1>3, <1>4, <1>6, <2>1 DEF TaskInv, Cursor, CursorType
  <2>3. PlaceOK'
    BY <1>1, <1>2, <1>3, <2>1 DEF PlaceOK, InLoop
  <2>4. ResultOK' /\ EndOK'
    BY <2>1 DEF ResultOK, EndOK
  <2>5. LoopOK'
    <3>1. Done' = next
      BY <1>2, <1>3, <2>1 DEF Done
    <3>2. \A i \in 1..next : modules[module][i] \in Requested => i \in 1..Done
      BY <1>2, <1>8, <1>10
    <3>3. 1..Done \subseteq 1..next
      BY <1>2, <1>8
    <3>4. QED
      BY <1>3, <1>4, <1>6, <1>8, <3>1, <3>2, <3>3 DEF LoopOK
  <2>6. QED
    BY <1>5, <2>2, <2>3, <2>4, <2>5 DEF TaskInv, Cursor
<1>11. QED
  BY <1>9, <1>10

(* At the end of a module the loop starts over, or the task ends.          *)
LEMMA EndModuleKeeps ==
  ASSUME TaskInv, EndModule, module <= Len(modules), DOMAIN groups = Keys(module)
  PROVE  TaskInv'
<1>1. /\ modules \in Tasks /\ module \in 1..Len(modules) /\ Len(modules) \in Nat
      /\ cancelled \in BOOLEAN
  BY PlanType DEF TaskInv, Cursor, CursorType
<1>2. /\ modules' = modules /\ module' = module + 1 /\ next' = 1 /\ failedStages' = {}
      /\ groups' = <<>> /\ result' = Nothing /\ cancelled' = cancelled
      /\ pc' \in {"ended", "stage"}
  BY DEF EndModule
<1>3. CursorType'
  <2>1. Nothing \in [stage : Stages \cup {NoStage}, key : AllKeys' \cup {Nothing.key},
                     status : EntityRollupStatuses, chunks : BOOLEAN]
    BY DEF Nothing, EntityRollupStatuses
  <2>2. QED
    BY <1>1, <1>2, <2>1 DEF CursorType
<1>4. PlaceOK'
  <2>1. module' <= Len(modules)' => Len(modules[module + 1]) \in Nat
    BY <1>1, <1>2, PlanType
  <2>2. QED
    BY <1>1, <1>2, <2>1 DEF PlaceOK, InLoop
<1>5. DOMAIN groups' = {}
  BY <1>2
<1>6. ResultOK' /\ EndOK'
  BY <1>2, <1>5 DEF ResultOK, EndOK
<1>7. LoopOK'
  <2>1. 1..Done' = {}
    BY <1>2 DEF Done
  <2>2. QED
    BY <1>5, <2>1 DEF LoopOK
<1>8. Books'
  BY EndKeeps
<1>9. QED
  BY <1>3, <1>4, <1>6, <1>7, <1>8 DEF TaskInv, Cursor

-----------------------------------------------------------------------------
(* The inductive invariant.                                                *)

(* A task starts with no group, no manifest and every entity running.      *)
LEMMA TaskInit == Init => TaskInv
<1> SUFFICES ASSUME Init PROVE TaskInv
  OBVIOUS
<1>1. /\ modules \in Tasks /\ pc = "stage" /\ module = 1 /\ next = 1
      /\ result = Nothing /\ failedStages = {}
      /\ groups = <<>> /\ landed = {} /\ manifests = <<>> /\ unwritten = {}
      /\ hasFailure = FALSE /\ hasPartial = FALSE
      /\ rollup = [e \in Entities |-> "running"] /\ cancelled = FALSE
  BY DEF Init
<1>2. DOMAIN groups = {} /\ DOMAIN manifests = {}
  BY <1>1
<1>3. Len(modules) \in Nat /\ (module <= Len(modules) => Len(modules[module]) \in Nat)
  BY <1>1, PlanType
<1>4. CursorType
  <2>1. Nothing \in [stage : Stages \cup {NoStage}, key : AllKeys \cup {Nothing.key},
                     status : EntityRollupStatuses, chunks : BOOLEAN]
    BY DEF Nothing, EntityRollupStatuses
  <2>2. module \in 1..(Len(modules) + 1) /\ next \in Nat
    BY <1>1, <1>3
  <2>3. cancelled \in BOOLEAN /\ failedStages \subseteq Stages
    BY <1>1
  <2>4. QED
    BY <1>1, <2>1, <2>2, <2>3, Zenon DEF CursorType
<1>5. PlaceOK /\ ResultOK /\ EndOK
  BY <1>1, <1>3 DEF PlaceOK, ResultOK, EndOK, InLoop
<1>6. LoopOK
  <2>1. 1..Done = {}
    BY <1>1 DEF Done
  <2>2. QED
    BY <1>2, <2>1 DEF LoopOK
<1>7. BooksType
  BY <1>1, <1>2 DEF BooksType
<1>8. GroupsOK
  BY <1>2 DEF GroupsOK
<1>9. TriedOK
  <2>1. 1..(module - 1) = {}
    BY <1>1
  <2>2. Past = {}
    BY <2>1 DEF Past
  <2>3. QED
    BY <1>1, <1>2, <2>2 DEF TriedOK, Tried
<1>10. FlagsOK /\ RollupOK
  BY <1>1, <1>2 DEF FlagsOK, RollupOK, Ended
<1>11. ManifestAfterChunks /\ NoSuccessBelowFailure
  BY <1>2 DEF ManifestAfterChunks, NoSuccessBelowFailure
<1>12. QED
  BY <1>4, <1>5, <1>6, <1>7, <1>8, <1>9, <1>10, <1>11 DEF TaskInv, Cursor, Books

(* Each step keeps it.                                                     *)
LEMMA TaskStep == TaskInv /\ [Next]_vars => TaskInv'
<1> SUFFICES ASSUME TaskInv, [Next]_vars PROVE TaskInv'
  OBVIOUS
<1>1. /\ modules \in Tasks /\ module \in 1..(Len(modules) + 1) /\ next \in Nat
      /\ Len(modules) \in Nat /\ cancelled \in BOOLEAN
      /\ landed \subseteq Stages /\ failedStages \subseteq Stages
      /\ CursorType /\ PlaceOK /\ ResultOK /\ LoopOK /\ EndOK /\ Books
  BY PlanType DEF TaskInv, Cursor, CursorType, Books, BooksType
<1>2. ASSUME UNCHANGED vars PROVE TaskInv'
  <2>1. /\ pc' = pc /\ modules' = modules /\ module' = module /\ next' = next
        /\ cancelled' = cancelled /\ result' = result /\ failedStages' = failedStages
        /\ groups' = groups /\ landed' = landed /\ manifests' = manifests
        /\ unwritten' = unwritten /\ rollups' = rollups
    BY <1>2 DEF vars, run, written
  <2>2. Books'
    BY <1>1, <2>1, LandingKeeps
  <2>3. Requested' = Requested /\ AllKeys' = AllKeys
    BY <2>1, SameTask
  <2>4. Done' = Done /\ InLoop' = InLoop
    BY <2>1 DEF Done, InLoop
  <2>5. CursorType' /\ PlaceOK' /\ ResultOK' /\ EndOK'
    BY <1>1, <2>1, <2>3, <2>4, Zenon DEF CursorType, PlaceOK, ResultOK, EndOK
  <2>6. LoopOK'
    BY <1>1, <2>1, <2>3, <2>4, Zenon DEF LoopOK
  <2>7. QED
    BY <2>2, <2>5, <2>6 DEF TaskInv, Cursor
<1>3. ASSUME SkipStage PROVE TaskInv'
  <2>1. /\ InModule /\ ~Finished
        /\ StageEnds(modules[module][next], "skipped", FALSE)
    BY <1>3 DEF SkipStage
  <2>2. "skipped" \in EntityRollupStatuses /\ "skipped" \notin Good
    BY DEF EntityRollupStatuses, Good
  <2>3. QED
    BY <2>1, <2>2, StageEndsKeeps
<1>4. ASSUME RunStage PROVE TaskInv'
  <2> DEFINE s == modules[module][next]
  <2>1. InModule /\ ~Finished /\ Ancestors[s] \cap failedStages = {}
    BY <1>4 DEF RunStage
  <2>2. PICK o \in Outcomes(s) : StageEnds(s, o[1], o[2])
    BY <1>4 DEF RunStage
  <2>3. o[1] \in EntityRollupStatuses /\ o[2] \in BOOLEAN
    <3>1. \/ o = <<"success", TRUE>> \/ o = <<"success", FALSE>>
          \/ o = <<"failed", FALSE>> \/ o = <<"partial", TRUE>>
          \/ o \in {"skipped", "failed"} \X BOOLEAN
      BY <2>2, Zenon DEF Outcomes, PoolOutcomes, InlineOutcomes
    <3>2. CASE o = <<"success", TRUE>>
      BY <3>2 DEF EntityRollupStatuses
    <3>3. CASE o = <<"success", FALSE>>
      BY <3>3 DEF EntityRollupStatuses
    <3>4. CASE o = <<"failed", FALSE>>
      BY <3>4 DEF EntityRollupStatuses
    <3>5. CASE o = <<"partial", TRUE>>
      BY <3>5 DEF EntityRollupStatuses
    <3>6. CASE o \in {"skipped", "failed"} \X BOOLEAN
      <4>1. PICK a \in {"skipped", "failed"}, b \in BOOLEAN : o = <<a, b>>
        BY <3>6
      <4>2. QED
        BY <4>1 DEF EntityRollupStatuses
    <3>7. QED
      BY <3>1, <3>2, <3>3, <3>4, <3>5, <3>6
  <2>4. QED
    BY <2>1, <2>2, <2>3, StageEndsKeeps
<1>5. ASSUME ModuleThrows PROVE TaskInv'
  <2>1. /\ module <= Len(modules) /\ pc' = "catch"
        /\ modules' = modules /\ module' = module /\ next' = next
        /\ cancelled' = cancelled /\ result' = result /\ failedStages' = failedStages
        /\ groups' = groups /\ landed' = landed /\ manifests' = manifests
        /\ unwritten' = unwritten /\ rollups' = rollups
    BY <1>5 DEF ModuleThrows, InModule, run, written
  <2>2. Books'
    BY <1>1, <2>1, LandingKeeps
  <2>3. Requested' = Requested /\ AllKeys' = AllKeys
    BY <2>1, SameTask
  <2>4. CursorType' /\ PlaceOK' /\ ResultOK' /\ LoopOK' /\ EndOK'
    BY <1>1, <2>1, <2>3 DEF CursorType, PlaceOK, InLoop, ResultOK, LoopOK, EndOK
  <2>5. QED
    BY <2>2, <2>4 DEF TaskInv, Cursor
<1>6. ASSUME Cancel PROVE TaskInv'
  <2>1. /\ cancelled' = TRUE
        /\ pc' = pc /\ modules' = modules /\ module' = module /\ next' = next
        /\ result' = result /\ failedStages' = failedStages
        /\ groups' = groups /\ landed' = landed /\ manifests' = manifests
        /\ unwritten' = unwritten /\ rollups' = rollups
    BY <1>6 DEF Cancel, written
  <2>2. Books'
    BY <1>1, <2>1, LandingKeeps
  <2>3. Requested' = Requested /\ AllKeys' = AllKeys
    BY <2>1, SameTask
  <2>4. Done' = Done /\ InLoop' = InLoop
    BY <2>1 DEF Done, InLoop
  <2>5. CursorType'
    BY <1>1, <2>1, <2>3 DEF CursorType
  <2>6. PlaceOK' /\ ResultOK' /\ EndOK' /\ LoopOK'
    BY <1>1, <2>1, <2>3, <2>4, Zenon DEF PlaceOK, ResultOK, EndOK, LoopOK
  <2>7. QED
    BY <2>2, <2>5, <2>6 DEF TaskInv, Cursor
<1>7. ASSUME ModuleReturns PROVE TaskInv'
  <2>1. EndModule /\ Finished /\ InLoop /\ module \in 1..Len(modules)
    BY <1>1, <1>7 DEF ModuleReturns, Finished, InModule, InLoop
  <2>2. Done = Len(modules[module]) /\ Len(modules[module]) \in Nat
    BY <1>1, <2>1, PlanType DEF Done, Finished, InModule, PlaceOK
  <2>3. Keys(module) \subseteq DOMAIN groups
    <3> SUFFICES ASSUME NEW key \in Keys(module) PROVE key \in DOMAIN groups
      OBVIOUS
    <3>1. PICK i \in 1..Len(modules[module]) :
            modules[module][i] \in Requested /\ key = Key(modules[module][i])
      BY <1>1, <2>1, KeyHasPlace
    <3>2. QED
      BY <1>1, <2>1, <2>2, <3>1 DEF LoopOK
  <2>4. DOMAIN groups \subseteq Keys(module)
    BY <1>1, <2>1 DEF Books, GroupsOK
  <2>5. QED
    BY <2>1, <2>3, <2>4, EndModuleKeeps
<1>8. ASSUME Upload PROVE TaskInv'
  <2>1. /\ pc = "upload" /\ pc' \in {"manifest", "catch"}
        /\ modules' = modules /\ module' = module /\ next' = next
        /\ cancelled' = cancelled /\ result' = result /\ failedStages' = failedStages
        /\ groups' = groups /\ manifests' = manifests /\ unwritten' = unwritten
        /\ rollups' = rollups
        /\ landed' \in {landed, landed \cup {result.stage}}
        /\ pc' = "manifest" /\ result.chunks => result.stage \in landed'
    BY <1>8 DEF Upload, run
  <2>2. Requested' = Requested /\ AllKeys' = AllKeys
    BY <2>1, SameTask
  <2>3. result.stage \in Requested /\ result.stage \in Stages
    BY <1>1, <2>1, RequestedType DEF ResultOK
  <2>4. landed \subseteq landed' /\ landed' \subseteq Stages
    BY <1>1, <2>1, <2>3
  <2>5. Books'
    BY <1>1, <2>1, <2>4, LandingKeeps
  <2>6. CursorType' /\ PlaceOK' /\ EndOK'
    BY <1>1, <2>1, <2>2 DEF CursorType, PlaceOK, InLoop, EndOK
  <2>7. ResultOK'
    BY <1>1, <2>1, <2>2 DEF ResultOK
  <2>8. LoopOK'
    <3>1. CASE pc' = "manifest"
      <4>1. Done' = Done /\ InLoop' = InLoop
        BY <2>1, <3>1 DEF Done, InLoop
      <4>2. QED
        BY <1>1, <2>1, <2>2, <4>1, Zenon DEF LoopOK
    <3>2. CASE pc' = "catch"
      BY <3>2 DEF LoopOK, InLoop
    <3>3. QED
      BY <2>1, <3>1, <3>2
  <2>9. QED
    BY <2>5, <2>6, <2>7, <2>8 DEF TaskInv, Cursor
<1>9. ASSUME WriteManifest PROVE TaskInv'
  <2>1. /\ pc = "manifest" /\ pc' \in {"stage", "catch"} /\ result' = Nothing
        /\ modules' = modules /\ module' = module /\ next' = next
        /\ cancelled' = cancelled /\ failedStages' = failedStages
        /\ groups' = With(groups, result.key, Grouped(result))
        /\ ManifestSink(result) \/ ManifestSinkThrows(result)
    BY <1>9 DEF WriteManifest, ManifestSink, ManifestSinkThrows, run
  <2>2. /\ Emitted(result)
        /\ result.key = Key(modules[module][next - 1]) /\ next - 1 \in 1..Len(modules[module])
    BY <2>1, ResultEmitted
  <2>3. Books'
    BY <2>1, <2>2, SinkKeeps, ThrowKeeps
  <2>4. Requested' = Requested /\ AllKeys' = AllKeys
    BY <2>1, SameTask
  <2>5. Nothing \in [stage : Stages \cup {NoStage}, key : AllKeys \cup {Nothing.key},
                     status : EntityRollupStatuses, chunks : BOOLEAN]
    BY DEF Nothing, EntityRollupStatuses
  <2>6. CursorType' /\ PlaceOK' /\ ResultOK' /\ EndOK'
    BY <1>1, <2>1, <2>4, <2>5 DEF CursorType, PlaceOK, InLoop, ResultOK, EndOK
  <2>7. LoopOK'
    <3>1. module <= Len(modules) /\ next >= 2
      BY <1>1, <2>1 DEF PlaceOK, ResultOK
    <3>2. /\ \A i \in 1..(next - 2) : modules[module][i] \in Requested =>
               /\ Key(modules[module][i]) \in DOMAIN groups
               /\ groups[Key(modules[module][i])].status \notin Good =>
                    modules[module][i] \in failedStages
          /\ \A key \in DOMAIN groups : \E i \in 1..(next - 2) : key = Key(modules[module][i])
      BY <1>1, <2>1, <3>1 DEF LoopOK, InLoop, Done
    <3>3. /\ DOMAIN groups' = DOMAIN groups \cup {result.key}
          /\ groups'[result.key] = Grouped(result)
          /\ \A k \in DOMAIN groups : groups'[k] = groups[k]
          /\ Grouped(result).status = result.status
      BY <2>1, <2>2, NewKey DEF With
    <3>4. result.status \notin Good => modules[module][next - 1] \in failedStages
      BY <1>1, <2>1 DEF ResultOK
    <3>5. 1..(next - 1) = (1..(next - 2)) \cup {next - 1}
      BY <1>1, <3>1
    <3>6. ASSUME NEW i \in 1..(next - 1), modules[module][i] \in Requested
          PROVE  /\ Key(modules[module][i]) \in DOMAIN groups'
                 /\ groups'[Key(modules[module][i])].status \notin Good =>
                      modules[module][i] \in failedStages
      <4>1. CASE i = next - 1
        BY <2>2, <3>3, <3>4, <4>1
      <4>2. CASE i \in 1..(next - 2)
        BY <3>2, <3>3, <3>6, <4>2
      <4>3. QED
        BY <3>5, <3>6, <4>1, <4>2
    <3>7. \A key \in DOMAIN groups' : \E i \in 1..(next - 1) : key = Key(modules[module][i])
      BY <2>2, <3>2, <3>3, <3>5
    <3>8. Done' = next - 1
      BY <1>1, <2>1 DEF Done
    <3>9. QED
      BY <2>1, <2>4, <3>6, <3>7, <3>8 DEF LoopOK
  <2>8. QED
    BY <2>3, <2>6, <2>7 DEF TaskInv, Cursor
<1>10. ASSUME Synthesize PROVE TaskInv'
  <2> DEFINE r(key) == [key |-> key, status |-> "failed", chunks |-> FALSE]
  <2>1. PICK key \in Missing :
          \/ ManifestSink(r(key)) /\ pc' = "catch"
          \/ ManifestSinkThrows(r(key)) /\ pc' = "fatal"
    BY <1>10 DEF Synthesize
  <2>2. /\ pc = "catch" /\ pc' \in {"catch", "fatal"} /\ result' = result
        /\ modules' = modules /\ module' = module /\ next' = next
        /\ cancelled' = cancelled /\ failedStages' = failedStages
    BY <1>10, <2>1 DEF Synthesize, run
  <2>3. module <= Len(modules)
    BY <1>1, <2>2 DEF PlaceOK
  <2>4. Emitted(r(key))
    BY <2>1, <2>3 DEF Emitted, Missing, EntityRollupStatuses, Good
  <2> HIDE DEF r
  <2>5. Books'
    BY <2>1, <2>2, <2>4, SinkKeeps, ThrowKeeps
  <2>6. Requested' = Requested /\ AllKeys' = AllKeys
    BY <2>2, SameTask
  <2>7. CursorType' /\ PlaceOK' /\ ResultOK' /\ LoopOK' /\ EndOK'
    BY <1>1, <2>2, <2>6 DEF CursorType, PlaceOK, InLoop, ResultOK, LoopOK, EndOK
  <2>8. QED
    BY <2>5, <2>7 DEF TaskInv, Cursor
<1>11. ASSUME CatchReturns PROVE TaskInv'
  <2>1. EndModule /\ module <= Len(modules) /\ Keys(module) \subseteq DOMAIN groups
    BY <1>1, <1>11 DEF CatchReturns, PlaceOK, Missing
  <2>2. DOMAIN groups = Keys(module)
    BY <1>1, <2>1 DEF Books, GroupsOK
  <2>3. QED
    BY <2>1, <2>2, EndModuleKeeps
<1>12. QED
  BY <1>2, <1>3, <1>4, <1>5, <1>6, <1>7, <1>8, <1>9, <1>10, <1>11 DEF Next

-----------------------------------------------------------------------------
(* The status of the task.                                                 *)

(* SetToSeq lists each element of a finite set.                            *)
LEMMA ListsAll ==
  ASSUME NEW S, IsFiniteSet(S)
  PROVE  /\ SetToSeq(S) \in Seq(S)
         /\ \A x \in S : \E i \in 1..Len(SetToSeq(S)) : SetToSeq(S)[i] = x
<1> DEFINE n == Cardinality(S)
           q == SetToSeq(S)
<1>1. n \in Nat /\ ExistsBijection(1..n, S)
  BY FS_CardinalityType
<1>2. \E f \in [1..n -> S] : IsInjective(f)
  BY <1>1, Zenon DEF ExistsBijection, Bijection, Injection
<1>3. q \in [1..n -> S] /\ IsInjective(q)
  BY <1>2, Zenon DEF SetToSeq
<1>4. IsFiniteSet(1..n) /\ Cardinality(1..n) = n
  BY <1>1, FS_Interval
<1> HIDE DEF q, n
<1>5. q \in Injection(1..n, S)
  BY <1>3, Zenon DEF Injection
<1>6. q \in Surjection(1..n, S)
  BY <1>4, <1>5, FS_Injection DEF n
<1>7. q \in Seq(S) /\ Len(q) = n
  BY <1>1, <1>3
<1>8. \A x \in S : \E i \in 1..n : q[i] = x
  BY <1>6 DEF Surjection
<1>9. QED
  BY <1>7, <1>8 DEF q

(* SeverityMax is at least as severe as each status.                       *)
LEMMA WorstOfAll ==
  ASSUME NEW q \in Seq(EntityRollupStatuses \cup {"running"}), q # <<>>
  PROVE  /\ SeverityMax(q) \in EntityRollupStatuses \cup {"running"}
         /\ \A j \in 1..Len(q) : Rank(q[j]) <= Rank(SeverityMax(q))
<1> DEFINE Worst == {i \in 1..Len(q) : \A j \in 1..Len(q) : Rank(q[j]) <= Rank(q[i])}
           Less == OpToRel(<, Nat)
           First(i) == /\ \A j \in 1..Len(q) : Rank(q[j]) <= Rank(q[i])
                       /\ \A j \in 1..(i - 1) : Rank(q[j]) < Rank(q[i])
<1>1. Len(q) \in Nat /\ Len(q) >= 1
  OBVIOUS
<1>2. \A i \in 1..Len(q) : q[i] \in EntityRollupStatuses \cup {"running"}
  OBVIOUS
<1>3. \A i \in 1..Len(q) : Rank(q[i]) \in 0..3
  BY <1>2, RankType
<1>4. Worst # {}
  <2>1. CASE \E i \in 1..Len(q) : Rank(q[i]) = 3
    BY <1>3, <2>1
  <2>2. CASE /\ ~\E i \in 1..Len(q) : Rank(q[i]) = 3
             /\ \E i \in 1..Len(q) : Rank(q[i]) = 2
    <3>1. \A i \in 1..Len(q) : Rank(q[i]) <= 2
      BY <1>3, <2>2
    <3>2. PICK i \in 1..Len(q) : Rank(q[i]) = 2
      BY <2>2
    <3>3. i \in Worst
      BY <3>1, <3>2
    <3>4. QED
      BY <3>3
  <2>3. CASE /\ ~\E i \in 1..Len(q) : Rank(q[i]) \in {2, 3}
             /\ \E i \in 1..Len(q) : Rank(q[i]) = 1
    BY <1>3, <2>3
  <2>4. CASE ~\E i \in 1..Len(q) : Rank(q[i]) \in {1, 2, 3}
    <3>1. 1 \in Worst
      BY <1>1, <1>3, <2>4
    <3>2. QED
      BY <3>1
  <2>5. QED
    BY <2>1, <2>2, <2>3, <2>4
<1>5. Worst \subseteq Nat
  BY <1>1
<1>6. ASSUME NEW x \in Nat, NEW y \in Nat, x < y PROVE <<x, y>> \in Less
  BY <1>6, Zenon DEF OpToRel
<1>7. IsWellFoundedOn(Less, Nat)
  BY NatLessThanWellFounded, Zenon
<1> HIDE DEF Less
<1>8. PICK i \in Worst : \A k \in Worst : ~(<<k, i>> \in Less)
  BY <1>4, <1>5, <1>7, WFMin, Zenon
<1>9. i \in 1..Len(q) /\ First(i)
  <2>1. i \in 1..Len(q) /\ \A j \in 1..Len(q) : Rank(q[j]) <= Rank(q[i])
    OBVIOUS
  <2>2. ASSUME NEW j \in 1..(i - 1)
        PROVE  Rank(q[j]) < Rank(q[i])
    <3>1. j \in Nat /\ i \in Nat /\ j < i /\ j \in 1..Len(q)
      BY <1>1, <2>1
    <3>2. j \notin Worst
      BY <1>6, <1>8, <3>1
    <3>3. PICK k \in 1..Len(q) : ~(Rank(q[k]) <= Rank(q[j]))
      BY <3>1, <3>2
    <3>4. Rank(q[k]) <= Rank(q[i])
      BY <2>1
    <3>5. Rank(q[k]) \in 0..3 /\ Rank(q[j]) \in 0..3 /\ Rank(q[i]) \in 0..3
      BY <1>3, <2>1, <3>1
    <3>6. QED
      BY <3>3, <3>4, <3>5
  <2>3. QED
    BY <2>1, <2>2
<1> DEFINE c == CHOOSE x \in 1..Len(q) : First(x)
<1>10. c \in 1..Len(q) /\ First(c)
  BY <1>9, Zenon
<1>11. SeverityMax(q) = q[c]
  BY DEF SeverityMax
<1> HIDE DEF c
<1>12. QED
  BY <1>2, <1>10, <1>11

(* Where the dispatcher calls the task clean, every entity is.             *)
LEMMA CleanEntities ==
  ASSUME BooksType, TaskStatus \in Clean
  PROVE  pc # "fatal" /\ \A e \in Entities : rollup[e] \in {"success", "skipped"}
<1> DEFINE S == Range(rollup)
           q == SetToSeq(S)
           All == EntityRollupStatuses \cup {"running"}
<1>1. rollup \in [Entities -> All] /\ S = {rollup[e] : e \in Entities}
  BY DEF BooksType, Range
<1>2. pc # "fatal" /\ MapEntityStatus(SeverityMax(q)) \in Clean
  BY DEF TaskStatus, MapRunStateBlob, Clean
<1>3. SeverityMax(q) \in {"success", "skipped"}
  BY <1>2 DEF MapEntityStatus, Clean
<1>4. IsFiniteSet(All)
  <2>1. /\ IsFiniteSet({"success"}) /\ IsFiniteSet({"skipped"}) /\ IsFiniteSet({"partial"})
        /\ IsFiniteSet({"failed"}) /\ IsFiniteSet({"running"})
    BY FS_Singleton, Zenon
  <2>2. IsFiniteSet({"success"} \cup {"skipped"}) /\ IsFiniteSet({"partial"} \cup {"failed"})
    BY <2>1, FS_Union, Zenon
  <2>3. IsFiniteSet(({"success"} \cup {"skipped"}) \cup ({"partial"} \cup {"failed"}))
    BY <2>2, FS_Union, Zenon
  <2>4. IsFiniteSet((({"success"} \cup {"skipped"}) \cup ({"partial"} \cup {"failed"}))
                    \cup {"running"})
    BY <2>1, <2>3, FS_Union, Zenon
  <2>5. All = (({"success"} \cup {"skipped"}) \cup ({"partial"} \cup {"failed"})) \cup {"running"}
    BY DEF EntityRollupStatuses
  <2>6. QED
    BY <2>4, <2>5
<1>5. S \subseteq All
  BY <1>1
<1>6. IsFiniteSet(S)
  BY <1>4, <1>5, FS_Subset
<1> HIDE DEF All
<1>7. q \in Seq(S) /\ \A x \in S : \E i \in 1..Len(q) : q[i] = x
  BY <1>6, ListsAll
<1>8. q \in Seq(All)
  BY <1>5, <1>7
<1> HIDE DEF q, S
<1>9. SeverityMax(<<>>) = "failed"
  BY DEF SeverityMax
<1>10. q # <<>>
  BY <1>3, <1>9
<1>11. \A j \in 1..Len(q) : Rank(q[j]) <= Rank(SeverityMax(q))
  BY <1>8, <1>10, WorstOfAll DEF All
<1>12. Rank(SeverityMax(q)) \in 0..1
  BY <1>3 DEF Rank
<1>13. ASSUME NEW e \in Entities
       PROVE  rollup[e] \in {"success", "skipped"}
  <2>1. rollup[e] \in All /\ rollup[e] \in S
    BY <1>1
  <2>2. PICK j \in 1..Len(q) : q[j] = rollup[e]
    BY <1>7, <2>1
  <2>3. Rank(rollup[e]) \in 0..3
    BY <2>1, RankType DEF All
  <2>4. Rank(rollup[e]) <= 1
    BY <1>11, <1>12, <2>2, <2>3
  <2>5. rollup[e] # "running"
    BY <2>4, RankType
  <2>6. QED
    BY <2>1, <2>4, <2>5, RankType DEF All
<1>14. QED
  BY <1>2, <1>13

-----------------------------------------------------------------------------
(* What the container tells.                                               *)

(* TaskInv holds of every task at every step.                              *)
LEMMA TaskInvHolds == Spec => []TaskInv
<1>1. Init => TaskInv
  BY TaskInit
<1>2. TaskInv /\ [Next]_vars => TaskInv'
  BY TaskStep
<1>3. QED
  BY <1>1, <1>2, PTL DEF Spec

(* Once all modules have run, each key is before the module.               *)
LEMMA AllTried ==
  ASSUME TaskInv, AllStarted
  PROVE  DOMAIN manifests = AllKeys \ unwritten
<1>1. /\ modules \in Tasks /\ module \in 1..(Len(modules) + 1) /\ Len(modules) \in Nat
      /\ module > Len(modules) /\ DOMAIN groups = {}
  BY PlanType DEF TaskInv, Cursor, CursorType, EndOK, AllStarted
<1>2. AllKeys \subseteq Past
  <2> SUFFICES ASSUME NEW key \in AllKeys PROVE key \in Past
    OBVIOUS
  <2>1. PICK n \in 1..Len(modules) : key \in Keys(n)
    BY <1>1, KeysType
  <2>2. n \in 1..(module - 1)
    BY <1>1, <2>1
  <2>3. QED
    BY <2>1, <2>2 DEF Past
<1>3. Past = Tried /\ DOMAIN manifests \cap unwritten = {}
  BY <1>1 DEF TaskInv, Books, TriedOK
<1>4. DOMAIN manifests \subseteq AllKeys
  BY DEF TaskInv, Books, BooksType
<1>5. QED
  BY <1>2, <1>3, <1>4 DEF Tried

(* TaskInv is more than TaskIsTold.                                        *)
LEMMA TaskInvTells == TaskInv => TaskIsTold
<1> SUFFICES ASSUME TaskInv PROVE TaskIsTold
  OBVIOUS
<1>1. CursorType /\ BooksType /\ FlagsOK
  BY DEF TaskInv, Cursor, Books
<1>2. TypeInv
  <2>1. \A f \in {groups, manifests} :
          /\ DOMAIN f \subseteq AllKeys
          /\ Range(f) \subseteq [status : EntityRollupStatuses, chunks : BOOLEAN]
    BY <1>1 DEF BooksType, Told, Range
  <2>2. {hasFailure, hasPartial, cancelled} \subseteq BOOLEAN
    BY <1>1 DEF CursorType, BooksType
  <2>3. QED
    BY <1>1, <2>1, <2>2, Zenon DEF CursorType, BooksType, TypeInv
<1>3. EveryEntityGetsManifest
  BY AllTried DEF EveryEntityGetsManifest
<1>4. RunResultIsWorst
  <2>1. Ended({"failed", "partial"}) <=> Ended({"failed"}) \/ Ended({"partial"})
    BY DEF Ended
  <2>2. RunResult = "failed" <=> hasFailure
    BY DEF RunResult
  <2>3. RunResult = "success" <=> ~hasFailure /\ ~hasPartial
    BY DEF RunResult
  <2>4. QED
    BY <1>1, <2>1, <2>2, <2>3, Zenon DEF FlagsOK, RunResultIsWorst
<1>5. ManifestAfterChunks /\ NoSuccessBelowFailure
  BY DEF TaskInv, Books
<1>6. QED
  BY <1>2, <1>3, <1>4, <1>5 DEF TaskIsTold

(* TaskIsTold: what the container tells of the task is true.               *)
THEOREM TaskIsToldHolds == Spec => []TaskIsTold
BY TaskInvTells, TaskInvHolds, PTL

(* An entity with a clean rollup has a manifest, so its module has run:    *)
(* the manifests of all its folders were tried, and the worst is clean.    *)
LEMMA TaskInvIsComplete == TaskInv => CleanTaskIsComplete
<1> SUFFICES ASSUME TaskInv, pc \in {"ended", "fatal"}, TaskStatus \in Clean,
                    NEW key \in AllKeys \ unwritten
             PROVE  /\ key \in DOMAIN manifests
                    /\ manifests[key].status \in {"success", "skipped"}
  BY DEF CleanTaskIsComplete
<1>1. /\ modules \in Tasks /\ BooksType /\ RollupOK /\ TriedOK
      /\ module \in 1..(Len(modules) + 1) /\ Len(modules) \in Nat
  BY PlanType DEF TaskInv, Cursor, CursorType, Books
<1>2. pc # "fatal" /\ \A e \in Entities : rollup[e] \in {"success", "skipped"}
  BY <1>1, CleanEntities
<1>3. DOMAIN groups = {}
  BY <1>2 DEF TaskInv, Cursor, EndOK
<1>4. PICK n \in 1..Len(modules) : key \in Keys(n)
  BY <1>1, KeysType
<1>5. key[1] \in Entities
  BY <1>1, KeysType
<1>6. PICK other \in DOMAIN manifests : other[1] = key[1]
  BY <1>1, <1>2, <1>5 DEF RollupOK
<1>7. PICK m \in 1..(module - 1) : other \in Keys(m)
  BY <1>1, <1>3 DEF TriedOK, Tried, Past
<1>8. m \in 1..Len(modules)
  BY <1>1, <1>7
<1>9. m = n
  <2>1. PICK i \in 1..Len(modules[m]) : other = Key(modules[m][i]) /\ modules[m][i] \in Requested
    BY <1>1, <1>7, <1>8, KeyHasPlace
  <2>2. PICK j \in 1..Len(modules[n]) : key = Key(modules[n][j]) /\ modules[n][j] \in Requested
    BY <1>1, <1>4, KeyHasPlace
  <2>3. EntityOf[modules[m][i]] = EntityOf[modules[n][j]] /\ EntityOf[modules[m][i]] # None
    <3>1. other[1] = EntityOf[modules[m][i]] /\ key[1] = EntityOf[modules[n][j]]
      BY <2>1, <2>2 DEF Key
    <3>2. QED
      BY <1>1, <1>6, <2>1, <3>1, RequestedType
  <2>4. QED
    BY <1>1, <1>8, <2>3, OnePlace
<1>10. key \in Past
  BY <1>4, <1>7, <1>9 DEF Past
<1>11. key \in DOMAIN manifests
  BY <1>1, <1>10 DEF TriedOK, Tried
<1>12. manifests[key].status \in EntityRollupStatuses
  BY <1>1, <1>11 DEF BooksType, Told
<1>13. Rank(manifests[key].status) <= Rank(rollup[key[1]])
  BY <1>1, <1>11 DEF RollupOK
<1>14. Rank(manifests[key].status) <= 1
  <2>1. Rank(rollup[key[1]]) \in 0..1
    BY <1>2, <1>5 DEF Rank
  <2>2. Rank(manifests[key].status) \in 0..3
    BY <1>12, RankType
  <2>3. QED
    BY <1>13, <2>1, <2>2
<1>15. QED
  BY <1>11, <1>12, <1>14, RankType

(* CleanTaskIsComplete: a task the dispatcher calls succeeded or skipped   *)
(* has the manifest of every requested folder, and none tells of failure.  *)
THEOREM CleanTaskIsCompleteHolds == Spec => []CleanTaskIsComplete
BY TaskInvIsComplete, TaskInvHolds, PTL

(* ManifestsStand: no step overwrites a manifest of the container.         *)
THEOREM ManifestsStandHolds == Spec => ManifestsStand
<1> DEFINE Stands == \A key \in DOMAIN manifests :
             key \in DOMAIN manifests' /\ manifests'[key] = manifests[key]
<1>1. ASSUME TaskInv, NEW r, Emitted(r), manifests' = With(manifests, r.key, Grouped(r))
      PROVE  Stands
  <2>1. r.key \notin DOMAIN manifests
    BY <1>1, NewKey DEF Tried
  <2>2. QED
    BY <1>1, <2>1 DEF With
<1>2. TaskInv /\ [Next]_vars => [Stands]_manifests
  <2> SUFFICES ASSUME TaskInv, [Next]_vars, manifests' # manifests PROVE Stands
    OBVIOUS
  <2>1. CASE WriteManifest
    <3>1. pc = "manifest" /\ manifests' = With(manifests, result.key, Grouped(result))
      BY <2>1 DEF WriteManifest, ManifestSink, ManifestSinkThrows
    <3>2. Emitted(result)
      BY <3>1, ResultEmitted
    <3>3. QED
      BY <1>1, <3>1, <3>2
  <2>2. CASE Synthesize
    <3> DEFINE r(key) == [key |-> key, status |-> "failed", chunks |-> FALSE]
    <3>1. PICK key \in Missing : ManifestSink(r(key)) \/ ManifestSinkThrows(r(key))
      BY <2>2 DEF Synthesize
    <3>2. pc = "catch" /\ module <= Len(modules)
      BY <2>2 DEF Synthesize, TaskInv, Cursor, PlaceOK
    <3>3. Emitted(r(key))
      BY <3>1, <3>2 DEF Emitted, Missing, EntityRollupStatuses, Good
    <3>4. manifests' = With(manifests, r(key).key, Grouped(r(key)))
      BY <3>1 DEF ManifestSink, ManifestSinkThrows
    <3> HIDE DEF r
    <3>5. QED
      BY <1>1, <3>3, <3>4
  <2>3. QED
    BY <2>1, <2>2
    DEF Next, vars, written, SkipStage, RunStage, StageEnds, ModuleThrows, Cancel,
        ModuleReturns, CatchReturns, EndModule, Upload
<1>3. QED
  BY <1>2, TaskInvHolds, PTL DEF Spec, ManifestsStand
=============================================================================
