------------------------------- MODULE MCCron -------------------------------
(***************************************************************************)
(* Two jobs: one due twice, one once, at a time both are due.              *)
(***************************************************************************)
EXTENDS CronScheduler

CONSTANTS j1, j2

TwoJobs == [j \in Jobs |-> IF j = j1 THEN {3, 5} ELSE {3}]
=============================================================================
