----------------------------- MODULE SilverView -----------------------------
(***************************************************************************)
(* What a silver table promises: it is a view of the bronze rows that have *)
(* been applied to it.  A log shows all of them, an upserted table the     *)
(* newest of each key.  More rows are applied, in any portions, and a row  *)
(* that was replaced does not come back; only a full refresh takes rows    *)
(* away, and it takes all.                                                 *)
(***************************************************************************)
CONSTANTS
  Tables,
  IsLog(_),           \* the table appends
  IsLatest(_, _, _)   \* in a table, some rows are the newest of all

VARIABLES
  table,
  applied,   \* the rows that were applied
  rows       \* the rows of the table

Shows(t, shown, all) == IF IsLog(t) THEN shown = all ELSE IsLatest(t, shown, all)

Empty == table \in Tables /\ applied = {} /\ rows = {}

Apply ==
  /\ applied \subseteq applied'
  /\ Shows(table, rows', applied')
  /\ rows' \subseteq rows \cup (applied' \ applied)
  /\ UNCHANGED table

Refresh == applied' = {} /\ rows' = {} /\ UNCHANGED table

Viewing == Empty /\ [][Apply \/ Refresh]_<<table, applied, rows>>
=============================================================================
