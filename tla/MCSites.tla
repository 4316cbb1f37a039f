------------------------------ MODULE MCSites -------------------------------
(***************************************************************************)
(* Instances of the shared data sets for the model checker.                *)
(***************************************************************************)
EXTENDS SharedData, TLC

SitesSymmetry == Permutations(Sites) \cup Permutations(Groups) \cup Permutations(Owners)

\* The tables that are not current change nothing the properties look at: those
\* of current tables are computed from silver and current ones.
IfCurrent(name, t) == IF name \in current THEN t ELSE {}
SitesView ==
    <<tenant, siteTables, groupTables, current, changes,
      IfCurrent("shared_data_sets", shared_data_sets), IfCurrent("dim_sites", dim_sites),
      IF "shared_data_sets" \in current
      THEN IfCurrent("shared_data_set_organizations", organizations) ELSE {}>>

\* Sites and owners are explored one without the other: no column depends on
\* both.
SitesOrOwners ==
    \/ details = {} /\ sites = {} /\ \A s \in Sites : renames[s] = 0
    \/ group_owners = {} /\ \A u \in Owners : people[u] = Absent
=============================================================================
