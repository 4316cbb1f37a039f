----------------------------- MODULE MCMedallion ----------------------------
(***************************************************************************)
(* Instances of the medallion for the model checker.                       *)
(***************************************************************************)
EXTENDS Medallion

\* Every table of the notebook.
AllTables == SilverTables

\* The directory tables whose rows others refer to.
DeepTables == {users}

=============================================================================
