--------------------------- MODULE MedallionProofs --------------------------
(***************************************************************************)
(* What the silver tables promise of what was landed, for any tenants and  *)
(* numbers of files and refreshes.                                         *)
(*                                                                         *)
(* The heart is MergeLatest: taking the newest of the rows of the target   *)
(* and of a micro-batch keeps the newest of everything applied before and  *)
(* of the micro-batch, so that it does not matter how the records are cut  *)
(* into micro-batches.  Around it: what silver has applied only grows by   *)
(* the batch it reads, because bronze appends later ingest times.  Last:   *)
(* no file is read by two bronze tables.                                   *)
(***************************************************************************)
EXTENDS Medallion, FiniteSetTheorems, SequenceTheorems, NaturalsInduction, TLAPS

\* Ingest times are in order, modification times are times.
Clocks ==
  /\ now \in Nat /\ done \in Nat /\ done <= now
  /\ \A r \in landed : r.modified \in Nat
  /\ \A b \in bronze : b.at \in Nat /\ b.at <= now /\ b.rec \in landed

MedallionInv == Clocks /\ NewestKept /\ LogIsComplete

-----------------------------------------------------------------------------
(* Merging                                                                 *)

\* The rows have sequences that can be compared.
Sequenced(t, B) == \A b \in B : Sequence(t, b) \in Nat

LEMMA MergeLatest ==
  ASSUME NEW t, NEW old, NEW A, NEW B, NEW new,
         Sequenced(t, A), Sequenced(t, B),
         IsLatest(t, old, A), IsLatest(t, new, old \cup B)
  PROVE  IsLatest(t, new, A \cup B)
<1>1. old \subseteq A /\ new \subseteq old \cup B
  BY DEF IsLatest
<1>2. ASSUME NEW c \in A \cup B PROVE \E b \in new : SameKey(t, b, c)
  <2>1. CASE c \in B
    BY <2>1 DEF IsLatest
  <2>2. CASE c \in A
    <3>1. PICK r \in old : SameKey(t, r, c)
      BY <2>2 DEF IsLatest
    <3>2. PICK b \in new : SameKey(t, b, r)
      BY DEF IsLatest
    <3> QED BY <3>1, <3>2 DEF SameKey
  <2> QED BY <2>1, <2>2
<1>3. ASSUME NEW b \in new, NEW c \in A \cup B, SameKey(t, b, c)
      PROVE  Sequence(t, c) <= Sequence(t, b) /\ (c \in new => c = b)
  <2>1. c \in new => c = b
    BY <1>1, <1>3 DEF IsLatest
  <2>2. CASE c \in B
    BY <2>1, <2>2, <1>3 DEF IsLatest
  <2>3. CASE c \in A
    <3>1. PICK r \in old : SameKey(t, r, c)
      BY <2>3 DEF IsLatest
    <3>2. Sequence(t, c) <= Sequence(t, r)
      BY <3>1, <2>3 DEF IsLatest
    <3>3. SameKey(t, b, r)
      BY <3>1, <1>3 DEF SameKey
    <3>4. Sequence(t, r) <= Sequence(t, b)
      BY <3>3 DEF IsLatest
    <3>5. Sequence(t, c) \in Nat /\ Sequence(t, r) \in Nat /\ Sequence(t, b) \in Nat
      BY <1>1, <2>3 DEF Sequenced
    <3> QED BY <2>1, <3>2, <3>4, <3>5
  <2> QED BY <2>2, <2>3
<1> QED BY <1>1, <1>2, <1>3 DEF IsLatest

LEMMA BronzeIsSequenced == ASSUME Clocks PROVE Sequenced(table, bronze)
<1> SUFFICES ASSUME NEW b \in bronze PROVE Sequence(table, b) \in Nat
  BY DEF Sequenced
<1>1. b.at \in Nat /\ b.rec.modified \in Nat
  BY DEF Clocks
<1>2. 2 * b.rec.modified + 1 \in Nat /\ 2 * b.at \in Nat
  BY <1>1
<1> QED BY <1>2 DEF Sequence

-----------------------------------------------------------------------------
(* The actions                                                             *)

LEMMA InitMedallion == Init => MedallionInv
BY DEF Init, MedallionInv, Clocks, NewestKept, LogIsComplete, IsLatest, Applied

\* As long as silver applies nothing new, what it holds stays right.
LEMMA NothingApplied ==
  ASSUME MedallionInv, Clocks', UNCHANGED <<table, rows>>, Applied' = Applied
  PROVE  MedallionInv'
<1>1. NewestKept'
  BY DEF MedallionInv, NewestKept
<1>2. LogIsComplete'
  BY DEF MedallionInv, LogIsComplete
<1> QED BY <1>1, <1>2 DEF MedallionInv

LEMMA LandKeepsInv ==
  ASSUME MedallionInv, NEW f \in Candidates(table), NEW x \in Readings(table, f), Land(f, x)
  PROVE  MedallionInv'
<1>1. x.modified \in Nat
  <2>1. now \in Nat
    BY DEF MedallionInv, Clocks
  <2>2. CASE IsOwn(table, f)
    <3>1. x.modified \in IF table.sequence = "modified" THEN 0..now ELSE {now}
      BY <2>2 DEF Readings
    <3> QED BY <2>1, <3>1
  <2>3. CASE ~IsOwn(table, f)
    <3>1. x.modified \in {now}
      BY <2>3 DEF Readings
    <3> QED BY <2>1, <3>1
  <2> QED BY <2>2, <2>3
<1>2. UNCHANGED <<table, now, bronze, done, rows, refreshes>>
  BY DEF Land
<1>3. PICK r : r.modified = x.modified /\ landed' = landed \cup {r}
  BY DEF Land, File
<1>4. Clocks'
  BY <1>1, <1>2, <1>3 DEF MedallionInv, Clocks
<1>5. Applied' = Applied
  BY <1>2 DEF Applied, Kept
<1> QED BY <1>2, <1>4, <1>5, NothingApplied

LEMMA BronzeBatchKeepsInv ==
  ASSUME MedallionInv, NEW files \in SUBSET Unread, BronzeBatch(files)
  PROVE  MedallionInv'
<1>1. /\ now' = now + 1 /\ bronze' = bronze \cup {[rec |-> r, at |-> now + 1] : r \in files}
      /\ UNCHANGED <<table, landed, done, rows, refreshes>>
  BY DEF BronzeBatch
<1>2. now \in Nat /\ done \in Nat /\ done <= now
  BY DEF MedallionInv, Clocks
<1>3. \A b \in bronze' : b \in bronze \/ (b.at = now + 1 /\ b.rec \in landed)
  BY <1>1 DEF Unread
<1>4. Clocks'
  <2>1. ASSUME NEW b \in bronze' PROVE b.at \in Nat /\ b.at <= now + 1 /\ b.rec \in landed
    <3>1. CASE b \in bronze
      <4>1. b.at \in Nat /\ b.at <= now /\ b.rec \in landed
        BY <3>1 DEF MedallionInv, Clocks
      <4> QED BY <4>1, <1>2
    <3>2. CASE b.at = now + 1 /\ b.rec \in landed
      BY <3>2, <1>2
    <3> QED BY <1>3, <3>1, <3>2
  <2>2. now' \in Nat /\ done' \in Nat /\ done' <= now'
    BY <1>1, <1>2
  <2>3. \A r \in landed' : r.modified \in Nat
    BY <1>1 DEF MedallionInv, Clocks
  <2> QED BY <1>1, <2>1, <2>2, <2>3 DEF Clocks
<1>5. Applied' = Applied
  <2>1. \A b \in bronze' : b.at <= done => b \in bronze
    BY <1>2, <1>3
  <2>2. bronze \subseteq bronze'
    BY <1>1
  <2> QED BY <1>1, <2>1, <2>2 DEF Applied, Kept
<1> QED BY <1>1, <1>4, <1>5, NothingApplied

LEMMA SilverBatchKeepsInv ==
  ASSUME MedallionInv, NEW upto \in (done + 1)..now, SilverBatch(upto)
  PROVE  MedallionInv'
<1>1. done' = upto /\ UNCHANGED <<table, now, landed, bronze, refreshes>>
  BY DEF SilverBatch
<1>2. now \in Nat /\ done \in Nat /\ upto \in Nat /\ done < upto /\ upto <= now
  BY DEF MedallionInv, Clocks
<1>3. Clocks'
  BY <1>1, <1>2 DEF MedallionInv, Clocks
<1>4. Applied' = Applied \cup Batch(upto)
  <2>1. ASSUME NEW b \in bronze PROVE b.at <= upto <=> b.at <= done \/ (done < b.at /\ b.at <= upto)
    <3>1. b.at \in Nat
      BY DEF MedallionInv, Clocks
    <3> QED BY <3>1, <1>2
  <2>2. Applied' = {b \in bronze : b.at <= upto /\ Kept(table, b.rec)}
    BY <1>1 DEF Applied, Kept
  <2> QED BY <2>1, <2>2 DEF Applied, Batch
<1>5. CASE IsLog(table)
  <2>1. rows' = rows \cup Batch(upto)
    BY <1>5 DEF SilverBatch
  <2>2. rows = Applied
    BY <1>5 DEF MedallionInv, LogIsComplete
  <2>3. rows' = Applied'
    BY <2>1, <2>2, <1>4
  <2> QED BY <1>1, <1>3, <1>5, <2>3 DEF MedallionInv, NewestKept, LogIsComplete, IsLog
<1>6. CASE ~IsLog(table)
  <2>1. IsLatest(table, rows', rows \cup Batch(upto))
    BY <1>6 DEF SilverBatch
  <2>2. IsLatest(table, rows, Applied)
    BY <1>6 DEF MedallionInv, NewestKept
  <2>3. Sequenced(table, Applied) /\ Sequenced(table, Batch(upto))
    <3>1. Sequenced(table, bronze)
      BY BronzeIsSequenced DEF MedallionInv
    <3>2. Applied \subseteq bronze /\ Batch(upto) \subseteq bronze
      BY DEF Applied, Batch
    <3> QED BY <3>1, <3>2 DEF Sequenced
  <2>4. IsLatest(table, rows', Applied \cup Batch(upto))
    BY <2>1, <2>2, <2>3, MergeLatest
  <2>5. IsLatest(table, rows', Applied')
    BY <1>4, <2>4
  <2>6. NewestKept'
    BY <1>1, <2>5 DEF NewestKept
  <2>7. LogIsComplete'
    BY <1>1, <1>6 DEF LogIsComplete, IsLog
  <2> QED BY <1>3, <2>6, <2>7 DEF MedallionInv
<1> QED BY <1>5, <1>6

LEMMA FullRefreshKeepsInv == ASSUME MedallionInv, FullRefresh PROVE MedallionInv'
<1>1. /\ bronze' = {} /\ rows' = {} /\ done' = now
      /\ UNCHANGED <<table, now, landed>>
  BY DEF FullRefresh
<1>2. now \in Nat
  BY DEF MedallionInv, Clocks
<1>3. Clocks'
  BY <1>1, <1>2 DEF MedallionInv, Clocks
<1>4. Applied' = {}
  BY <1>1 DEF Applied
<1>5. NewestKept' /\ LogIsComplete'
  BY <1>1, <1>4 DEF NewestKept, LogIsComplete, IsLatest
<1> QED BY <1>3, <1>5 DEF MedallionInv

LEMMA NextKeepsInv == ASSUME MedallionInv, [Next]_vars PROVE MedallionInv'
<1>1. CASE SomeLand
  BY <1>1, LandKeepsInv DEF SomeLand
<1>2. CASE SomeBronzeBatch
  BY <1>2, BronzeBatchKeepsInv DEF SomeBronzeBatch
<1>3. CASE SomeSilverBatch
  BY <1>3, SilverBatchKeepsInv DEF SomeSilverBatch
<1>4. CASE FullRefresh
  BY <1>4, FullRefreshKeepsInv
<1>5. CASE UNCHANGED vars
  <2>1. Clocks' /\ Applied' = Applied /\ UNCHANGED <<table, rows>>
    BY <1>5 DEF vars, MedallionInv, Clocks, Applied, Kept
  <2> QED BY <2>1, NothingApplied
<1> QED BY <1>1, <1>2, <1>3, <1>4, <1>5 DEF Next

LEMMA MedallionInvariant == Spec => []MedallionInv
BY InitMedallion, NextKeepsInv, PTL DEF Spec

-----------------------------------------------------------------------------
(* Types                                                                   *)

MedallionTypes == TypeOK /\ IsFiniteSet(landed)

LEMMA InitTypes == Init => MedallionTypes
<1> SUFFICES ASSUME Init PROVE MedallionTypes
  OBVIOUS
<1>1. IsFiniteSet(landed) /\ landed = {} /\ bronze = {} /\ rows = {} /\ table \in Tables
  BY FS_EmptySet DEF Init
<1>2. now \in Nat /\ done \in 0..now /\ refreshes \in 0..MaxRefreshes
  BY MediumAssumption DEF Init
<1> QED BY <1>1, <1>2 DEF MedallionTypes, TypeOK

\* What a job lands is a record of the table.
LEMMA LandedIsRecord ==
  ASSUME MedallionTypes, NEW f \in Candidates(table), NEW x \in Readings(table, f),
         Land(f, x)
  PROVE  File(Cardinality(landed) + 1, f, x) \in Records(table)
<1>1. Cardinality(landed) + 1 \in 1..MaxLanded
  <2>1. Cardinality(landed) \in Nat
    BY FS_CardinalityType DEF MedallionTypes
  <2>2. Cardinality(landed) < MaxLanded
    BY <2>1, MediumAssumption DEF Land
  <2> QED BY <2>1, <2>2, MediumAssumption
<1>2. now \in Nat
  BY DEF MedallionTypes, TypeOK
<1>3. FullIds(table) \in Ids(table)
  BY DEF Ids
<1>4. x.tenant \in Tenants /\ x.ids \in Ids(table) /\ x.modified \in Nat /\ x.stamped \in BOOLEAN
  <2>1. CASE IsOwn(table, f)
    <3>1. /\ x.tenant \in Tenants /\ x.ids \in Ids(table)
          /\ x.modified \in IF table.sequence = "modified" THEN 0..now ELSE {now}
          /\ x.stamped \in IF table.sequence = "modified" THEN BOOLEAN ELSE {FALSE}
      BY <2>1 DEF Readings
    <3>2. x.modified \in Nat /\ x.stamped \in BOOLEAN
      <4>1. CASE table.sequence = "modified"
        <5>1. x.modified \in 0..now /\ x.stamped \in BOOLEAN
          BY <3>1, <4>1
        <5> QED BY <1>2, <5>1
      <4>2. CASE table.sequence # "modified"
        <5>1. x.modified = now /\ x.stamped = FALSE
          BY <3>1, <4>2
        <5> QED BY <1>2, <5>1
      <4> QED BY <4>1, <4>2
    <3> QED BY <3>1, <3>2
  <2>2. CASE ~IsOwn(table, f)
    <3>1. x.tenant \in Tenants /\ x.ids = FullIds(table) /\ x.modified = now /\ x.stamped = FALSE
      BY <2>2 DEF Readings
    <3> QED BY <1>2, <1>3, <3>1
  <2> QED BY <2>1, <2>2
<1>5. f \in LandingEntities
  BY DEF Candidates
<1> QED BY <1>1, <1>4, <1>5 DEF File, Records

LEMMA NextKeepsTypes == ASSUME MedallionTypes, [Next]_vars PROVE MedallionTypes'
<1> USE DEF MedallionTypes
<1>1. ASSUME NEW f \in Candidates(table), NEW x \in Readings(table, f), Land(f, x)
      PROVE  MedallionTypes'
  <2> DEFINE r == File(Cardinality(landed) + 1, f, x)
  <2>1. r \in Records(table)
    BY <1>1, LandedIsRecord
  <2>2. landed' = landed \cup {r} /\ UNCHANGED <<table, now, bronze, done, rows, refreshes>>
    BY <1>1 DEF Land
  <2> HIDE DEF r
  <2>3. IsFiniteSet(landed')
    BY <2>2, FS_AddElement
  <2>4. landed' \subseteq Records(table')
    BY <2>1, <2>2 DEF TypeOK
  <2> QED BY <2>2, <2>3, <2>4 DEF TypeOK
<1>2. ASSUME NEW files \in SUBSET Unread, BronzeBatch(files) PROVE MedallionTypes'
  <2>1. /\ now' = now + 1
        /\ bronze' = bronze \cup {[rec |-> r, at |-> now + 1] : r \in files}
        /\ UNCHANGED <<table, landed, done, rows, refreshes>>
    BY <1>2 DEF BronzeBatch
  <2>2. now \in Nat /\ done \in 0..now
    BY DEF TypeOK
  <2>3. now' \in Nat /\ done' \in 0..now'
    BY <2>1, <2>2
  <2>4. \A b \in bronze' : b.rec \in landed /\ b.at \in 1..(now + 1)
    BY <2>1, <2>2 DEF TypeOK, Unread
  <2>5. landed' \subseteq Records(table')
    BY <2>1 DEF TypeOK
  <2> QED BY <2>1, <2>3, <2>4, <2>5 DEF TypeOK
<1>3. ASSUME NEW upto \in (done + 1)..now, SilverBatch(upto) PROVE MedallionTypes'
  <2>1. done' = upto /\ UNCHANGED <<table, now, landed, bronze, refreshes>>
    BY <1>3 DEF SilverBatch
  <2>2. now \in Nat /\ done \in 0..now
    BY DEF TypeOK
  <2>3. done' \in 0..now'
    BY <2>1, <2>2
  <2>4. rows' \subseteq rows \cup Batch(upto)
    BY <1>3 DEF SilverBatch
  <2>5. rows' \subseteq bronze'
    BY <2>1, <2>4 DEF TypeOK, Batch
  <2>6. landed' \subseteq Records(table')
    BY <2>1 DEF TypeOK
  <2> QED BY <2>1, <2>3, <2>5, <2>6 DEF TypeOK
<1>4. ASSUME FullRefresh PROVE MedallionTypes'
  <2>1. /\ refreshes' \in 0..MaxRefreshes /\ done' \in 0..now' /\ now' \in Nat
        /\ bronze' = {} /\ rows' = {} /\ UNCHANGED <<table, landed>>
    BY <1>4, MediumAssumption DEF FullRefresh, TypeOK
  <2>2. landed' \subseteq Records(table')
    BY <2>1 DEF TypeOK
  <2> QED BY <2>1, <2>2 DEF TypeOK
<1>5. CASE UNCHANGED vars
  <2>1. UNCHANGED <<table, now, landed, bronze, done, rows, refreshes>>
    BY <1>5 DEF vars
  <2>2. landed' \subseteq Records(table')
    BY <2>1 DEF TypeOK
  <2> QED BY <2>1, <2>2 DEF TypeOK
<1> QED BY <1>1, <1>2, <1>3, <1>4, <1>5 DEF Next, SomeLand, SomeBronzeBatch, SomeSilverBatch

-----------------------------------------------------------------------------
(* The theorems                                                            *)

(* An upserted table holds the newest record of each key silver applied.   *)
THEOREM NewestKeptHolds == Spec => []NewestKept
<1>1. MedallionInv => NewestKept
  BY DEF MedallionInv
<1> QED BY <1>1, MedallionInvariant, PTL

(* A log holds every event silver has applied.                             *)
THEOREM LogIsCompleteHolds == Spec => []LogIsComplete
<1>1. MedallionInv => LogIsComplete
  BY DEF MedallionInv
<1> QED BY <1>1, MedallionInvariant, PTL

(* The last modification of an object wins, whatever the order of its      *)
(* files: ingest times do not matter where every record bears its own time. *)
THEOREM LastModifiedWinsHolds == Spec => []LastModifiedWins
<1>1. MedallionInv => LastModifiedWins
  <2> SUFFICES ASSUME MedallionInv, table.sequence = "modified", NEW r \in rows,
                      \A b \in Applied : SameKey(table, r, b) => b.rec.stamped,
                      NEW b \in Applied, SameKey(table, r, b)
               PROVE  b.rec.modified <= r.rec.modified
    BY DEF LastModifiedWins
  <2>1. IsLatest(table, rows, Applied)
    BY DEF MedallionInv, NewestKept, IsLog
  <2>2. r \in Applied /\ Sequence(table, b) <= Sequence(table, r)
    BY <2>1 DEF IsLatest
  <2>3. b.rec.stamped /\ r.rec.stamped
    BY <2>2 DEF SameKey
  <2>4. b.rec.modified \in Nat /\ r.rec.modified \in Nat
    BY <2>2 DEF Applied, MedallionInv, Clocks
  <2>5. 2 * b.rec.modified + 1 <= 2 * r.rec.modified + 1
    BY <2>2, <2>3 DEF Sequence
  <2> QED BY <2>4, <2>5
<1> QED BY <1>1, MedallionInvariant, PTL

(* The variables keep their types; every silver row is one of bronze.      *)
THEOREM MedallionTypeOK == Spec => []TypeOK
<1>1. MedallionTypes => TypeOK
  BY DEF MedallionTypes
<1> QED BY <1>1, InitTypes, NextKeepsTypes, PTL DEF Spec

-----------------------------------------------------------------------------
(* Keys                                                                    *)

(* Every table of the notebook has columns in order for its key.           *)
LEMMA KeysOfTables ==
  ASSUME NEW t \in Tables PROVE Len(t.key) \in Nat /\ DOMAIN t.key = 1..Len(t.key)
<1> SUFFICES ASSUME t \in SilverTables PROVE Len(t.key) \in Nat /\ DOMAIN t.key = 1..Len(t.key)
  BY MediumAssumption
<1> QED
  BY SMTT(60) DEF
     SilverTables, Upsert, Stamped, Log, users, contacts, groups, group_memberships, group_owners, mailboxes,
     exo_contacts, mail_users, exo_unified_groups, exo_distribution_groups,
     exo_group_members, spo_sites, spo_site_users, spo_webs,
     spo_web_role_definitions, spo_web_lists, spo_site_group_users,
     spo_web_role_assignments, spo_web_item_principals, spo_web_item_links, devices,
     intune_devices, mde_devices, applications, app_owners, service_principals,
     sp_owners, delegated_permission_grants, teams, teams_team_details,
     team_channels, team_channel_members, sign_in_logs, audit_entra, audit_exchange,
     audit_general, audit_sharepoint, powerbi_capacities, powerbi_apps,
     powerbi_deployment_pipelines, powerbi_gateway_clusters,
     powerbi_gateway_cluster_permissions, powerbi_workspaces, fabric_lakehouses,
     fabric_warehouses, fabric_kql_databases, fabric_notebooks, powerplat_apps,
     powerplat_app_role_assignments, powerplat_flows,
     powerplat_flow_role_assignments, powerplat_connections,
     powerplat_connection_role_assignments, powerplat_custom_connectors,
     powerplat_dataverse_onboardings, powerplat_solutions,
     powerplat_solution_components, powerplat_connection_references,
     powerplat_env_variable_definitions, powerplat_env_variable_values,
     powerplat_tables, powerplat_workflows, powerplat_plugin_assemblies,
     powerplat_plugin_steps, powerplat_web_resources, powerplat_app_modules,
     powerplat_bots, powerplat_bot_components, powerplat_ai_models,
     powerplat_powerpages_websites, powerplat_powerpages_components,
     powerplat_systemusers, powerplat_publishers, powerplat_mailboxes,
     powerplat_flow_metadata, powerplat_workflow_definitions,
     powerplat_app_module_xml, powerplat_bot_configurations,
     powerplat_bot_component_data, powerplat_web_resource_contents,
     powerplat_powerpages_component_contents

(* What the values joined so far are: as many as there are values only if  *)
(* none is NULL, and then these values.                                    *)
Joined(values, f, i) ==
  /\ f[i] \in Seq({values[k] : k \in 1..Len(values)}) /\ Len(f[i]) <= i
  /\ Len(f[i]) = i <=> \A k \in 1..i : values[k] # NoValue
  /\ Len(f[i]) = i => \A k \in 1..i : f[i][k] = values[k]

LEMMA JoinedStep ==
  ASSUME NEW values, Len(values) \in Nat, NEW f, NEW i \in 1..Len(values),
         Joined(values, f, i - 1),
         f[i] = IF values[i] = NoValue THEN f[i - 1] ELSE Append(f[i - 1], values[i])
  PROVE  Joined(values, f, i)
<1> DEFINE V == {values[k] : k \in 1..Len(values)}
<1>1. values[i] \in V /\ f[i - 1] \in Seq(V) /\ Len(f[i - 1]) \in Nat /\ i \in Nat /\ i - 1 \in Nat
  BY DEF Joined
<1>2. Len(f[i - 1]) <= i - 1
  BY DEF Joined
<1>3. CASE values[i] = NoValue
  <2>1. f[i] = f[i - 1]
    BY <1>3
  <2>2. Len(f[i]) <= i /\ Len(f[i]) # i
    <3> DEFINE l == Len(f[i - 1])
    <3>1. l \in Nat /\ i \in Nat /\ l <= i - 1
      BY <1>1, <1>2
    <3> HIDE DEF l
    <3>2. l <= i /\ l # i
      BY <3>1
    <3> QED BY <2>1, <3>2 DEF l
  <2>3. ~\A k \in 1..i : values[k] # NoValue
    BY <1>1, <1>3
  <2> QED BY <1>1, <2>1, <2>2, <2>3 DEF Joined
<1>4. CASE values[i] # NoValue
  <2>1. f[i] = Append(f[i - 1], values[i])
    BY <1>4
  <2> HIDE DEF V
  <2>2. f[i] \in Seq(V) /\ Len(f[i]) = Len(f[i - 1]) + 1
    BY <1>1, <2>1
  <2>3. Len(f[i]) <= i /\ (Len(f[i]) = i <=> Len(f[i - 1]) = i - 1)
    BY <1>1, <1>2, <2>2
  <2>4. Len(f[i - 1]) = i - 1 <=> \A k \in 1..(i - 1) : values[k] # NoValue
    BY DEF Joined
  <2>5. (\A k \in 1..i : values[k] # NoValue) <=> \A k \in 1..(i - 1) : values[k] # NoValue
    <3>1. \A k \in 1..i : k = i \/ k \in 1..(i - 1)
      BY <1>1
    <3>2. 1..(i - 1) \subseteq 1..i
      BY <1>1
    <3> QED BY <1>4, <3>1, <3>2
  <2>6. ASSUME Len(f[i]) = i, NEW k \in 1..i PROVE f[i][k] = values[k]
    <3>1. Len(f[i - 1]) = i - 1 /\ (k = i \/ k \in 1..(i - 1))
      BY <1>1, <2>3, <2>6
    <3>2. CASE k = i
      <4>1. k = Len(f[i - 1]) + 1
        BY <1>1, <3>1, <3>2
      <4>2. f[i][k] = values[i]
        BY <1>1, <2>1, <4>1
      <4> QED BY <3>2, <4>2
    <3>3. CASE k \in 1..(i - 1)
      <4>1. f[i - 1][k] = values[k]
        BY <3>1, <3>3 DEF Joined
      <4>2. f[i][k] = f[i - 1][k]
        BY <1>1, <2>1, <3>1, <3>3
      <4> QED BY <4>1, <4>2
    <3> QED BY <3>1, <3>2, <3>3
  <2> QED BY <2>2, <2>3, <2>4, <2>5, <2>6 DEF Joined, V
<1> QED BY <1>3, <1>4

(* Joining is defined: a join of the first values is extended by one.      *)
JoinStep(values, f, i) ==
  IF i = 0 THEN <<>>
  ELSE IF values[i] = NoValue THEN f[i - 1] ELSE Append(f[i - 1], values[i])
IsJoin(values, f, n) == f = [i \in 0..n |-> JoinStep(values, f, i)]

LEMMA JoinExtended ==
  ASSUME NEW values, NEW n \in Nat, NEW f, IsJoin(values, f, n)
  PROVE  \E g : IsJoin(values, g, n + 1)
<1> DEFINE g == [i \in 0..(n + 1) |-> IF i <= n THEN f[i] ELSE JoinStep(values, f, i)]
<1>1. \A i \in 0..n : f[i] = JoinStep(values, f, i)
  BY DEF IsJoin
<1>2. ASSUME NEW i \in 0..(n + 1) PROVE JoinStep(values, f, i) = JoinStep(values, g, i)
  <2>1. CASE i = 0
    BY <2>1 DEF JoinStep
  <2>2. CASE i # 0
    <3>1. i - 1 \in 0..(n + 1) /\ i - 1 <= n
      BY <2>2
    <3>2. g[i - 1] = f[i - 1]
      BY <3>1
    <3> HIDE DEF g
    <3> QED BY <3>2 DEF JoinStep
  <2> QED BY <2>1, <2>2
<1>3. ASSUME NEW i \in 0..(n + 1) PROVE g[i] = JoinStep(values, g, i)
  <2>1. g[i] = JoinStep(values, f, i)
    BY <1>1
  <2> QED BY <1>2, <2>1
<1>4. g = [i \in 0..(n + 1) |-> g[i]]
  OBVIOUS
<1> HIDE DEF g
<1>5. g = [i \in 0..(n + 1) |-> JoinStep(values, g, i)]
  BY <1>3, <1>4
<1> QED BY <1>5 DEF IsJoin

LEMMA JoinExists ==
  ASSUME NEW values, NEW n \in Nat
  PROVE  \E f : IsJoin(values, f, n)
<1> DEFINE Bad == {m \in Nat : ~\E f : IsJoin(values, f, m)}
           Less == OpToRel(<, Nat)
<1>1. IsWellFoundedOn(Less, Nat)
  BY NatLessThanWellFounded, Zenon
<1>2. \A x, y \in Nat : y < x => <<y, x>> \in Less
  BY DEF OpToRel
<1> HIDE DEF Less
<1>3. Bad = {}
  <2> SUFFICES ASSUME Bad # {} PROVE FALSE
    OBVIOUS
  <2>1. \E x \in Bad : \A y \in Bad : ~(<<y, x>> \in Less)
    <3>1. Bad \subseteq Nat
      OBVIOUS
    <3> HIDE DEF Bad
    <3> QED BY <1>1, <3>1, WFMin, Zenon
  <2>2. PICK m \in Bad : \A y \in Bad : ~(<<y, m>> \in Less)
    BY <2>1
  <2>3. m # 0
    <3>1. IsJoin(values, [i \in 0..0 |-> <<>>], 0)
      BY DEF IsJoin, JoinStep
    <3> QED BY <3>1
  <2>4. m - 1 \in Nat /\ m - 1 < m /\ (m - 1) + 1 = m
    BY <2>3
  <2>5. m - 1 \notin Bad
    BY <1>2, <2>2, <2>4
  <2>6. PICK f : IsJoin(values, f, m - 1)
    BY <2>4, <2>5
  <2>7. \E g : IsJoin(values, g, (m - 1) + 1)
    BY <2>4, <2>6, JoinExtended
  <2> QED BY <2>4, <2>7
<1> QED BY <1>3

(* What is joined is as long as the values only if none of them is NULL,   *)
(* and then it is the values.                                              *)
LEMMA JoinedValues ==
  ASSUME NEW values, Len(values) \in Nat
  PROVE  LET n == Len(values)
             joined == ConcatWs(values)
         IN /\ joined \in Seq({values[k] : k \in 1..n})
            /\ Len(joined) = n <=> \A k \in 1..n : values[k] # NoValue
            /\ Len(joined) = n => \A k \in 1..n : joined[k] = values[k]
<1> DEFINE n == Len(values)
           join == CHOOSE f : IsJoin(values, f, n)
<1>1. ConcatWs(values) = join[n]
  BY DEF ConcatWs, IsJoin, JoinStep
<1>2. IsJoin(values, join, n)
  BY JoinExists
<1>3. \A i \in 0..n : join[i] = JoinStep(values, join, i)
  <2> HIDE DEF join
  <2> QED BY <1>2 DEF IsJoin
<1> HIDE DEF join
<1> DEFINE Bad == {i \in 0..n : ~Joined(values, join, i)}
           Less == OpToRel(<, Nat)
<1>4. IsWellFoundedOn(Less, Nat)
  BY NatLessThanWellFounded, Zenon
<1>5. \A x, y \in Nat : y < x => <<y, x>> \in Less
  BY DEF OpToRel
<1> HIDE DEF Less, n
<1>6. Bad = {}
  <2> SUFFICES ASSUME Bad # {} PROVE FALSE
    OBVIOUS
  <2>1. n \in Nat /\ Bad \subseteq Nat
    BY DEF n
  <2>2. \E x \in Bad : \A y \in Bad : ~(<<y, x>> \in Less)
    <3> HIDE DEF Bad
    <3> QED BY <1>4, <2>1, WFMin, Zenon
  <2>3. PICK i \in Bad : \A y \in Bad : ~(<<y, i>> \in Less)
    BY <2>2
  <2>4. i \in 0..n /\ ~Joined(values, join, i)
    OBVIOUS
  <2>5. CASE i = 0
    <3>1. join[i] = <<>>
      BY <1>3, <2>4, <2>5 DEF JoinStep
    <3>2. Joined(values, join, i)
      BY <2>5, <3>1 DEF Joined
    <3> QED BY <2>4, <3>2
  <2>6. CASE i # 0
    <3>1. i \in 1..n /\ i - 1 \in 0..n /\ i - 1 < i /\ i - 1 \in Nat /\ i \in Nat
      BY <2>1, <2>4, <2>6
    <3>2. Joined(values, join, i - 1)
      BY <1>5, <2>3, <3>1
    <3>3. join[i] = IF values[i] = NoValue THEN join[i - 1] ELSE Append(join[i - 1], values[i])
      BY <1>3, <2>4, <2>6 DEF JoinStep
    <3>4. Joined(values, join, i)
      BY <3>1, <3>2, <3>3, JoinedStep DEF n
    <3> QED BY <2>4, <3>4
  <2> QED BY <2>5, <2>6
<1>7. n \in 0..n
  BY DEF n
<1>8. Joined(values, join, n)
  BY <1>6, <1>7
<1> QED BY <1>1, <1>8 DEF Joined, n

(* Records that have all columns of the key have the same key only if they *)
(* have the same tenant and the same columns.                              *)
LEMMA SameKeySameColumns ==
  ASSUME NEW t \in Tables, NEW r, NEW b,
         \A i \in 1..Len(t.key) : b.ids[t.key[i]] # NoValue
  PROVE  KeyOf(t, r) = KeyOf(t, b) <=>
           r.tenant = b.tenant /\ \A i \in 1..Len(t.key) : r.ids[t.key[i]] = b.ids[t.key[i]]
<1> DEFINE n == Len(t.key)
           x == KeyValues(t, r)
           y == KeyValues(t, b)
           jx == ConcatWs(x)
           jy == ConcatWs(y)
<1>1. n \in Nat
  BY KeysOfTables
<1>2. /\ Len(x) = n /\ \A i \in 1..n : x[i] = r.ids[t.key[i]]
      /\ Len(y) = n /\ \A i \in 1..n : y[i] = b.ids[t.key[i]]
  BY <1>1 DEF KeyValues
<1> DEFINE X == {x[k] : k \in 1..n}
           Y == {y[k] : k \in 1..n}
<1>3. /\ jx \in Seq(X)
      /\ Len(jx) = n => \A k \in 1..n : jx[k] = x[k]
  <2>1. /\ ConcatWs(x) \in Seq({x[k] : k \in 1..Len(x)})
        /\ Len(ConcatWs(x)) = Len(x) => \A k \in 1..Len(x) : ConcatWs(x)[k] = x[k]
    BY <1>1, <1>2, JoinedValues
  <2> QED BY <1>2, <2>1
<1>4. /\ jy \in Seq(Y) /\ Len(jy) = n /\ \A k \in 1..n : jy[k] = y[k]
  <2>1. \A k \in 1..n : y[k] # NoValue
    BY <1>2
  <2>2. /\ ConcatWs(y) \in Seq({y[k] : k \in 1..Len(y)})
        /\ Len(ConcatWs(y)) = Len(y) <=> \A k \in 1..Len(y) : y[k] # NoValue
        /\ Len(ConcatWs(y)) = Len(y) => \A k \in 1..Len(y) : ConcatWs(y)[k] = y[k]
    BY <1>1, <1>2, JoinedValues
  <2> QED BY <1>2, <2>1, <2>2
<1>5. ASSUME r.tenant = b.tenant, \A i \in 1..n : r.ids[t.key[i]] = b.ids[t.key[i]]
      PROVE  KeyOf(t, r) = KeyOf(t, b)
  <2>1. x = y
    BY <1>5 DEF KeyValues
  <2> QED BY <1>5, <2>1 DEF KeyOf
<1>6. ASSUME KeyOf(t, r) = KeyOf(t, b)
      PROVE  r.tenant = b.tenant /\ \A i \in 1..n : r.ids[t.key[i]] = b.ids[t.key[i]]
  <2> HIDE DEF n, X, Y, jx, jy, x, y
  <2> DEFINE V == X \cup Y \cup {r.tenant, b.tenant}
  <2>1. <<r.tenant>> \o jx = <<b.tenant>> \o jy
    BY <1>6 DEF KeyOf, jx, jy, x, y
  <2>2. jx \in Seq(V) /\ jy \in Seq(V) /\ <<r.tenant>> \in Seq(V) /\ <<b.tenant>> \in Seq(V)
    BY <1>3, <1>4
  <2> HIDE DEF V
  <2>3. r.tenant = b.tenant
    BY <2>1, <2>2
  <2>4. Len(jx) = n
    BY <1>1, <1>4, <2>1, <2>2
  <2>5. ASSUME NEW k \in 1..n PROVE jx[k] = jy[k]
    <3>1. (<<r.tenant>> \o jx)[k + 1] = jx[k] /\ (<<b.tenant>> \o jy)[k + 1] = jy[k]
      BY <1>1, <1>4, <2>2, <2>4
    <3> QED BY <2>1, <3>1
  <2>6. \A k \in 1..n : x[k] = y[k]
    BY <1>3, <1>4, <2>4, <2>5
  <2> QED BY <1>2, <2>3, <2>6
<1> QED BY <1>5, <1>6

LEMMA InvOneRow == ASSUME MedallionInv, table \in Tables PROVE OneRowPerObject
<1> SUFFICES ASSUME ~IsLog(table), NEW b \in Applied,
                    \A c \in ToSet(table.key) : b.rec.ids[c] # NoValue
             PROVE  Cardinality({r \in rows :
                      /\ r.rec.tenant = b.rec.tenant
                      /\ \A c \in ToSet(table.key) : r.rec.ids[c] = b.rec.ids[c]}) = 1
  BY DEF OneRowPerObject
<1> DEFINE S == {r \in rows : /\ r.rec.tenant = b.rec.tenant
                              /\ \A c \in ToSet(table.key) : r.rec.ids[c] = b.rec.ids[c]}
<1>1. IsLatest(table, rows, Applied)
  BY DEF MedallionInv, NewestKept
<1>2. ToSet(table.key) = {table.key[i] : i \in 1..Len(table.key)}
  BY KeysOfTables DEF ToSet
<1>3. \A i \in 1..Len(table.key) : b.rec.ids[table.key[i]] # NoValue
  BY <1>2
<1>4. \A r : SameKey(table, r, b) <=>
        /\ r.rec.tenant = b.rec.tenant
        /\ \A i \in 1..Len(table.key) : r.rec.ids[table.key[i]] = b.rec.ids[table.key[i]]
  <2> SUFFICES ASSUME NEW q, NEW c, c = b.rec
        PROVE  KeyOf(table, q) = KeyOf(table, c) <=>
                 /\ q.tenant = c.tenant
                 /\ \A i \in 1..Len(table.key) : q.ids[table.key[i]] = c.ids[table.key[i]]
    BY DEF SameKey
  <2>1. \A i \in 1..Len(table.key) : c.ids[table.key[i]] # NoValue
    BY <1>3
  <2> QED BY <2>1, SameKeySameColumns
<1>5. S = {r \in rows : SameKey(table, r, b)}
  BY <1>2, <1>4
<1>6. PICK r \in rows : SameKey(table, r, b)
  BY <1>1 DEF IsLatest
<1>7. ASSUME NEW q \in rows, SameKey(table, q, b) PROVE q = r
  <2>1. SameKey(table, r, q)
    BY <1>6, <1>7 DEF SameKey
  <2> QED BY <1>1, <2>1 DEF IsLatest
<1> HIDE DEF S
<1>8. S = {r}
  BY <1>5, <1>6, <1>7
<1>9. Cardinality({r}) = 1
  BY FS_Singleton
<1> QED BY <1>8, <1>9 DEF S

(* An object that was applied with all columns of its key has exactly one  *)
(* row, whatever was retried: a record that misses a column of the key     *)
(* joins fewer values and never takes that row.                            *)
THEOREM OneRowPerObjectHolds == Spec => []OneRowPerObject
<1>1. MedallionInv /\ MedallionTypes => OneRowPerObject
  BY InvOneRow DEF MedallionTypes, TypeOK
<1>2. Spec => []MedallionTypes
  BY InitTypes, NextKeepsTypes, PTL DEF Spec
<1> QED BY <1>1, <1>2, MedallionInvariant, PTL

-----------------------------------------------------------------------------
(* A silver table is a view                                                *)

\* What was landed or put into bronze is not applied yet.
LEMMA NotAppliedYet ==
  ASSUME MedallionInv, NEW files, BronzeBatch(files) PROVE Applied' = Applied
<1>1. /\ bronze' = bronze \cup {[rec |-> r, at |-> now + 1] : r \in files}
      /\ UNCHANGED <<table, done>>
  BY DEF BronzeBatch
<1>2. ~(now + 1 <= done)
  BY DEF MedallionInv, Clocks
<1> QED BY <1>1, <1>2 DEF Applied

LEMMA NextShowsView ==
  ASSUME MedallionInv, [Next]_vars
  PROVE  [View!Apply \/ View!Refresh]_<<table, Applied, rows>>
<1> USE DEF View!Apply, View!Refresh, View!Shows
<1>1. ASSUME NEW f \in Candidates(table), NEW x \in Readings(table, f), Land(f, x)
      PROVE  UNCHANGED <<table, Applied, rows>>
  BY <1>1 DEF Land, Applied
<1>2. ASSUME NEW files \in SUBSET Unread, BronzeBatch(files)
      PROVE  UNCHANGED <<table, Applied, rows>>
  BY <1>2, NotAppliedYet DEF BronzeBatch
<1>3. ASSUME NEW upto \in (done + 1)..now, SilverBatch(upto) PROVE View!Apply
  <2>1. done' = upto /\ UNCHANGED <<table, now, landed, bronze, refreshes>>
    BY <1>3 DEF SilverBatch
  <2>2. \A b \in bronze : b.at \in Nat
    BY DEF MedallionInv, Clocks
  <2>3. Applied' = Applied \cup Batch(upto) /\ Applied \cap Batch(upto) = {}
    BY <2>1, <2>2 DEF MedallionInv, Clocks, Applied, Batch
  <2>4. rows' \subseteq rows \cup Batch(upto)
    BY <1>3 DEF SilverBatch
  <2>5. IF IsLog(table) THEN rows' = Applied' ELSE IsLatest(table, rows', Applied')
    BY <1>3, <2>1, SilverBatchKeepsInv DEF MedallionInv, NewestKept, LogIsComplete
  <2> QED BY <2>1, <2>3, <2>4, <2>5
<1>4. ASSUME FullRefresh PROVE View!Refresh
  BY <1>4 DEF FullRefresh, Applied
<1>5. CASE UNCHANGED vars
  BY <1>5 DEF vars, Applied
<1> QED BY <1>1, <1>2, <1>3, <1>4, <1>5 DEF Next, SomeLand, SomeBronzeBatch, SomeSilverBatch

(* The medallion implements SilverView, for any tables, tenants, orders of *)
(* files, micro-batches and refreshes.                                     *)
THEOREM SilverIsAViewHolds == Spec => SilverIsAView
<1>1. Init => View!Empty
  BY DEF Init, View!Empty, Applied
<1>2. MedallionInv /\ [Next]_vars => [View!Apply \/ View!Refresh]_<<table, Applied, rows>>
  BY NextShowsView
<1> QED BY <1>1, <1>2, MedallionInvariant, PTL DEF Spec, SilverIsAView, View!Viewing

-----------------------------------------------------------------------------
(* Who reads a file                                                        *)

\* The table that reads a sub folder of the folder of a root entity.
ReaderName(folder, sub) ==
  CASE folder = "powerplat_environments" -> "powerplat_" \o sub
    [] folder = "spo_sites" -> sub
    [] folder = "powerbi_workspaces_root" -> "powerbi_workspaces_root"
    [] folder = "teams_teams" ->
         (CASE sub = "details"  -> "teams_team_details"
            [] sub = "channels" -> "teams_channels"
            [] OTHER            -> "teams_" \o sub)
    [] folder = "entra_service_principals" ->
         (CASE sub = "role_assignees"    -> "entra_sp_role_assignees"
            [] sub = "owners"            -> "entra_sp_owners"
            [] sub = "provisioning_jobs" -> "entra_sp_provisioning_jobs"
            [] OTHER                     -> "entra_sp_" \o sub)
    [] folder = "entra_groups" ->
         (IF sub = "members" THEN "entra_group_members" ELSE "entra_group_owners")
    [] folder = "entra_applications" ->
         (IF sub = "owners" THEN "entra_app_owners" ELSE "entra_app_proxy_config")
    [] folder = "exo_mailboxes" ->
         (IF sub = "statistics" THEN "exo_mailbox_statistics" ELSE "exo_mailbox_permissions")
    [] folder = "exo_distribution_groups" ->
         (IF sub = "members" THEN "exo_group_members" ELSE "exo_distribution_group_details")
    [] folder = "exo_unified_groups" ->
         (IF sub = "members" THEN "exo_group_members" ELSE "exo_unified_group_details")

\* The members of both kinds of groups are read together.
ReaderFolders(folder, sub) ==
  IF folder \in {"exo_distribution_groups", "exo_unified_groups"} /\ sub = "members"
  THEN {"exo_distribution_groups", "exo_unified_groups"}
  ELSE {folder}

\* A table is told by its name, or by any of its folders with its sub folder.
IsRoot(s) == \E name : s = RootStream(name)
IsChild(s) ==
  /\ s.sub # Here
  /\ \A folder \in s.folders :
       s = Stream(ReaderName(folder, s.sub), ReaderFolders(folder, s.sub), s.sub)
Told(S) == \A s \in S : IsRoot(s) \/ IsChild(s)

\* The two ways a table is created.
LEMMA RootIsTold == \A name : IsRoot(RootStream(name))
  BY DEF IsRoot

LEMMA ChildIsTold ==
  ASSUME NEW folder, NEW sub, sub # Here,
         ReaderFolders(folder, sub) = {folder}
  PROVE  IsChild(ChildStream(ReaderName(folder, sub), folder, sub))
  BY DEF IsChild, ChildStream, Stream

\* The tables of the Power Platform share one folder.
LEMMA PowerPlatIsTold ==
  ASSUME NEW sub, sub # Here PROVE IsChild(PowerPlat(sub))
<1>1. /\ ReaderName("powerplat_environments", sub) = "powerplat_" \o sub
      /\ ReaderFolders("powerplat_environments", sub) = {"powerplat_environments"}
  BY DEF ReaderName, ReaderFolders
<1> QED BY <1>1, ChildIsTold DEF PowerPlat

\* The one table of two folders.
LEMMA ExoMembersAreTold ==
  IsChild(Stream("exo_group_members", {"exo_distribution_groups", "exo_unified_groups"}, "members"))
  BY DEF IsChild, Stream, ReaderName, ReaderFolders, Here

\* The groups of tables, as the notebook lists them.
LEMMA GraphIsTold ==
  /\ Told(EntraRootStreams)
  /\ Told(GrantDeviceTeamStreams)
  /\ Told(ExchangeRootStreams)
  /\ Told(DependentStreams)
  /\ Told(OwnerAndMemberStreams)
  /\ Told(ServicePrincipalStreams)
  /\ Told(TeamsAndMailboxStreams)
<1>1. Told(EntraRootStreams)
  BY RootIsTold DEF Told, EntraRootStreams
<1>2. Told(GrantDeviceTeamStreams)
  BY RootIsTold DEF Told, GrantDeviceTeamStreams
<1>3. Told(ExchangeRootStreams)
  BY RootIsTold, ChildIsTold DEF Told, ExchangeRootStreams, ReaderName, ReaderFolders, Here
<1>4. Told(DependentStreams)
  BY RootIsTold, ChildIsTold DEF Told, DependentStreams, ReaderName, ReaderFolders, Here
<1>5. Told(OwnerAndMemberStreams)
  BY ChildIsTold, ExoMembersAreTold
     DEF Told, OwnerAndMemberStreams, ReaderName, ReaderFolders, Here
<1>6. Told(ServicePrincipalStreams)
  BY RootIsTold, ChildIsTold DEF Told, ServicePrincipalStreams, ReaderName, ReaderFolders, Here
<1>7. Told(TeamsAndMailboxStreams)
  BY ChildIsTold DEF Told, TeamsAndMailboxStreams, ReaderName, ReaderFolders, Here
<1> QED BY <1>1, <1>2, <1>3, <1>4, <1>5, <1>6, <1>7

LEMMA SharePointIsTold ==
  /\ Told(SharePointStreams)
  /\ Told(ItemAndAuditStreams)
<1>1. Told(SharePointStreams)
  BY ChildIsTold DEF Told, SharePointStreams, ReaderName, ReaderFolders, Here
<1>2. Told(ItemAndAuditStreams)
  BY RootIsTold, ChildIsTold DEF Told, ItemAndAuditStreams, ReaderName, ReaderFolders, Here
<1> QED BY <1>1, <1>2

LEMMA PowerIsTold ==
  /\ Told(PowerBiStreams)
  /\ Told(FabricStreams)
  /\ Told(PowerAppStreams)
  /\ Told(ConnectionAndSolutionStreams)
  /\ Told(VariableAndWorkflowStreams)
  /\ Told(PluginAndAppStreams)
  /\ Told(BotAndPageStreams)
  /\ Told(PublisherAndBodyStreams)
  /\ Told(BodyStreams)
<1>1. Told(PowerBiStreams)
  BY RootIsTold, ChildIsTold DEF Told, PowerBiStreams, ReaderName, ReaderFolders, Here
<1>2. Told(FabricStreams)
  BY RootIsTold DEF Told, FabricStreams
<1>3. Told(PowerAppStreams)
  BY PowerPlatIsTold DEF Told, PowerAppStreams, Here
<1>4. Told(ConnectionAndSolutionStreams)
  BY PowerPlatIsTold DEF Told, ConnectionAndSolutionStreams, Here
<1>5. Told(VariableAndWorkflowStreams)
  BY PowerPlatIsTold DEF Told, VariableAndWorkflowStreams, Here
<1>6. Told(PluginAndAppStreams)
  BY PowerPlatIsTold DEF Told, PluginAndAppStreams, Here
<1>7. Told(BotAndPageStreams)
  BY PowerPlatIsTold DEF Told, BotAndPageStreams, Here
<1>8. Told(PublisherAndBodyStreams)
  BY PowerPlatIsTold DEF Told, PublisherAndBodyStreams, Here
<1>9. Told(BodyStreams)
  BY PowerPlatIsTold DEF Told, BodyStreams, Here
<1> QED BY <1>1, <1>2, <1>3, <1>4, <1>5, <1>6, <1>7, <1>8, <1>9

\* And so are all tables of the notebook.
LEMMA StreamsAreTold == Told(Streams)
  BY GraphIsTold, SharePointIsTold, PowerIsTold DEF Told, Streams

\* The sub folder and the folder of a file leave one table that loads it.
LEMMA OneReader ==
  ASSUME NEW S, Told(S), NEW f, NEW s \in S, NEW q \in S, Reads(s, f), Reads(q, f)
  PROVE  s = q
<1>1. s.sub = f.sub /\ q.sub = f.sub /\ f.folder \in s.folders \cap q.folders
  BY DEF Reads, Loaded, DepthGuard, IsRootStream
<1>2. CASE IsRoot(s) /\ IsRoot(q)
  BY <1>1, <1>2 DEF IsRoot, RootStream, Stream
<1>3. CASE IsChild(s) /\ IsChild(q)
  BY <1>1, <1>3 DEF IsChild
<1>4. IsRoot(s) => s.sub = Here
  BY DEF IsRoot, RootStream, Stream
<1>5. IsRoot(q) => q.sub = Here
  BY DEF IsRoot, RootStream, Stream
<1> QED BY <1>1, <1>2, <1>3, <1>4, <1>5 DEF Told, IsChild

\* Hence no file has two readers.
LEMMA OneReaderAtMost ==
  ASSUME NEW f \in LandingEntities PROVE Cardinality(Readers[f]) <= 1
<1>1. Readers[f] = {s \in Streams : Reads(s, f)}
  BY DEF Readers
<1>2. \A s, q \in Readers[f] : s = q
  BY <1>1, OneReader, StreamsAreTold
<1>3. CASE Readers[f] = {}
  BY <1>3, FS_EmptySet
<1>4. ASSUME NEW s \in Readers[f] PROVE Cardinality(Readers[f]) <= 1
  <2>1. Readers[f] = {s}
    BY <1>2
  <2>2. Cardinality({s}) = 1
    BY FS_Singleton
  <2> QED BY <2>1, <2>2
<1> QED BY <1>3, <1>4

(* No landing file is read by two bronze tables, whatever was landed and   *)
(* however often the pipelines are refreshed: a root table is told by its  *)
(* folder and reads no sub folder, any other table by one of its folders   *)
(* and its sub folder (create_bronze_stream).                              *)
THEOREM ReadOnceHolds == Spec => []ReadOnce
<1>1. MedallionTypes => ReadOnce
  BY OneReaderAtMost DEF MedallionTypes, TypeOK, Records, ReadOnce
<1>2. Spec => []MedallionTypes
  BY InitTypes, NextKeepsTypes, PTL DEF Spec
<1> QED BY <1>1, <1>2, PTL
=============================================================================
