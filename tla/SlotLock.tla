------------------------------ MODULE SlotLock ------------------------------
(***************************************************************************)
(* What the claim of a slot promises when nobody uses force: it is a lock. *)
(* A run takes its slot when the slot is free, holds it until the history  *)
(* of the run is complete, and only then is the slot free again.           *)
(***************************************************************************)
CONSTANTS Runs, Slots, SlotOf, NoRun

VARIABLES
  holder,    \* slot -> the run that holds it, or NoRun
  closed     \* the runs whose history is complete

Free == holder = [s \in Slots |-> NoRun] /\ closed = {}

Acquire(r) ==
  /\ holder[SlotOf[r]] = NoRun
  /\ r \notin closed
  /\ holder' = [holder EXCEPT ![SlotOf[r]] = r]
  /\ UNCHANGED closed

Close(r) ==
  /\ holder[SlotOf[r]] = r
  /\ closed' = closed \cup {r}
  /\ UNCHANGED holder

Release(s) ==
  /\ holder[s] \in closed
  /\ holder' = [holder EXCEPT ![s] = NoRun]
  /\ UNCHANGED closed

Step == (\E r \in Runs : Acquire(r) \/ Close(r)) \/ \E s \in Slots : Release(s)

Locking == Free /\ [][Step]_<<holder, closed>>
=============================================================================
