------------------------------ MODULE MCMapping -----------------------------
(***************************************************************************)
(* Instances of the user mapping for the model checker.                    *)
(***************************************************************************)
EXTENDS UserMapping, TLC

MappingSymmetry ==
    Permutations(SourceUsers) \cup Permutations(TargetUsers) \cup Permutations(Upns)

\* What is left of a gold table that is not current changes nothing that
\* follows, and the properties have been checked when it was computed.
IfCurrent(name, t) == IF name \in current THEN t ELSE {}
MappingView ==
    <<silver, changes, current,
      IfCurrent("user_map", user_map),
      IfCurrent("dim_people", dim_people),
      IfCurrent("mapping_issues", mapping_issues),
      IfCurrent("dim_user", dim_user),
      IfCurrent("fact_user_mapping_analysis", analysis)>>
=============================================================================
