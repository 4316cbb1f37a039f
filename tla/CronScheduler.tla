--------------------------- MODULE CronScheduler ---------------------------
(***************************************************************************)
(* The cron part of the timer function with the CronStateStore: every tick *)
(* loads the time each job was last evaluated, dispatches the jobs that    *)
(* have become due since, and saves the times at its end.  One instance of *)
(* the timer runs at a time; a tick whose earlier parts throw never gets   *)
(* here and is as if it had not been.                                      *)
(*                                                                         *)
(* The dispatch is seen from outside: it starts a run of the job unless    *)
(* one is active, it may throw, and it may throw after a claim was made.   *)
(***************************************************************************)
EXTENDS Integers

CONSTANTS
  Jobs,        \* names of the jobs that have a cron expression
  Due,         \* job -> the times it is due
  Window,      \* what is looked back over without a saved time (60 s)
  Poison,      \* jobs whose dispatch always throws
  Never,       \* a time that is not in the state
  MaxTime,     \* bound: the clock
  MaxFaults    \* bound: failures, crashes and redeployments

ASSUME CronAssumption ==
  /\ Due \in [Jobs -> SUBSET Nat]
  /\ Window \in Nat
  /\ Never \notin Nat
  /\ MaxTime \in Nat
  /\ MaxFaults \in Nat

VARIABLES
  clock,
  enabled,     \* jobs the deployed configuration enables
  stored,      \* job -> its time in the state blob, or Never
  scanning,    \* a tick is between loading and saving the state
  now,         \* the tick: its time
  state,       \*           the times it has in memory
  todo,        \*           the jobs it has still to evaluate
  active,      \* jobs with a claimed run
  faults,      \* faults that may still happen
  \* History, for the properties only:
  blind,       \* a load of the state has failed
  since,       \* job -> the start of its first window
  answered,    \* job -> due times a dispatch that returned stood for
  runsFor      \* job -> due time -> runs started for it

tickVars == <<scanning, now, state, todo>>
history  == <<blind, since, answered, runsFor>>
cronVars == <<clock, enabled, stored, tickVars, active, faults, history>>

Times == Nat \cup {Never}

-----------------------------------------------------------------------------

Fault == faults > 0 /\ faults' = faults - 1

ClockAdvances ==
  /\ clock < MaxTime
  /\ clock' = clock + 1
  /\ UNCHANGED <<enabled, stored, tickVars, active, faults, history>>

\* The configuration is read once per start of the host.
Redeploy ==
  /\ ~scanning
  /\ Fault
  /\ enabled' \in SUBSET Jobs
  /\ UNCHANGED <<clock, stored, tickVars, active, history>>

\* The run of a job is finalised, or released by an operator.
RunEnds(j) ==
  /\ j \in active
  /\ active' = active \ {j}
  /\ UNCHANGED <<clock, enabled, stored, tickVars, faults, history>>

-----------------------------------------------------------------------------

\* LoadAsync: any failure but a missing blob is answered with empty state too.
Load ==
  \/ state' = stored /\ UNCHANGED <<faults, blind>>
  \/ Fault /\ state' = [j \in Jobs |-> Never] /\ blind' = TRUE

TickStarts ==
  /\ ~scanning
  /\ scanning' = TRUE
  /\ now' = clock
  /\ todo' = enabled
  /\ Load
  /\ UNCHANGED <<clock, enabled, stored, active, since, answered, runsFor>>

LastEval(j) == IF state[j] = Never THEN now - Window ELSE state[j]

\* The occurrences in (lastEval, now]: one dispatch stands for them all.
Missed(j) == {o \in Due[j] : LastEval(j) < o /\ o <= now}

Evaluated(j) ==
  /\ scanning /\ j \in todo
  /\ todo' = todo \ {j}
  /\ since' = IF state[j] = Never /\ stored[j] = Never
              THEN [since EXCEPT ![j] = now - Window] ELSE since
  /\ UNCHANGED <<clock, enabled, stored, scanning, now, blind>>

StartsRun(j) ==
  /\ active'  = active \cup {j}
  /\ runsFor' = [runsFor EXCEPT ![j] =
                   [o \in Due[j] |-> @[o] + (IF o \in Missed(j) THEN 1 ELSE 0)]]

NotDue(j) ==
  /\ Evaluated(j)
  /\ Missed(j) = {}
  /\ state' = [state EXCEPT ![j] = now]
  /\ UNCHANGED <<active, faults, answered, runsFor>>

\* Mutant: the time does not advance after a dispatch.
DispatchesUnrecorded(j) ==
  /\ Evaluated(j)
  /\ Missed(j) # {} /\ j \notin Poison
  /\ IF j \in active THEN UNCHANGED <<active, runsFor>> ELSE StartsRun(j)
  /\ answered' = [answered EXCEPT ![j] = @ \cup Missed(j)]
  /\ UNCHANGED <<state, faults>>

\* ExecuteAsync returns: a run was started, or one was active already.
Dispatches(j) ==
  /\ Evaluated(j)
  /\ Missed(j) # {} /\ j \notin Poison
  /\ IF j \in active THEN UNCHANGED <<active, runsFor>> ELSE StartsRun(j)
  /\ state' = [state EXCEPT ![j] = now]
  /\ answered' = [answered EXCEPT ![j] = @ \cup Missed(j)]
  /\ UNCHANGED faults

\* Mutant: the time advances though the dispatch threw.
DispatchThrowsAdvancing(j) ==
  /\ Evaluated(j)
  /\ Missed(j) # {}
  /\ state' = [state EXCEPT ![j] = now]
  /\ \/ j \in Poison /\ UNCHANGED <<faults, active, runsFor>>
     \/ Fault /\ UNCHANGED <<active, runsFor>>
  /\ UNCHANGED answered

\* Mutant: the exception leaves the loop, and the function.
DispatchThrowsOut(j) ==
  /\ scanning /\ j \in todo
  /\ Missed(j) # {}
  /\ scanning' = FALSE
  /\ \/ j \in Poison /\ UNCHANGED faults
     \/ Fault
  /\ UNCHANGED <<clock, enabled, stored, now, state, todo, active, history>>

\* ExecuteAsync throws, before or after it has claimed: logged, and the time
\* is not advanced.
DispatchThrows(j) ==
  /\ Evaluated(j)
  /\ Missed(j) # {}
  /\ \/ j \in Poison /\ UNCHANGED <<faults, active, runsFor>>
     \/ Fault /\ UNCHANGED <<active, runsFor>>
     \/ Fault /\ j \notin active /\ StartsRun(j)
  /\ UNCHANGED <<state, answered>>

\* Times of jobs that are gone or disabled are dropped, the rest is written.
Save ==
  /\ scanning /\ todo = {}
  /\ stored' = [j \in Jobs |-> IF j \in enabled THEN state[j] ELSE Never]
  /\ scanning' = FALSE
  /\ UNCHANGED <<clock, enabled, now, state, todo, active, faults, history>>

\* The host dies or drains, or the save throws: the times are lost.
TickAborts ==
  /\ scanning
  /\ Fault
  /\ scanning' = FALSE
  /\ UNCHANGED <<clock, enabled, stored, now, state, todo, active, history>>

Evaluate(j) == NotDue(j) \/ Dispatches(j) \/ DispatchThrows(j)

CronInit ==
  /\ clock    = Window
  /\ enabled  = Jobs
  /\ stored   = [j \in Jobs |-> Never]
  /\ scanning = FALSE
  /\ now      = 0
  /\ state    = stored
  /\ todo     = {}
  /\ active   = {}
  /\ faults   = MaxFaults
  /\ blind    = FALSE
  /\ since    = [j \in Jobs |-> 0]
  /\ answered = [j \in Jobs |-> {}]
  /\ runsFor  = [j \in Jobs |-> [o \in Due[j] |-> 0]]

CronNext ==
  \/ ClockAdvances
  \/ Redeploy
  \/ TickStarts
  \/ \E j \in Jobs : RunEnds(j) \/ Evaluate(j)
  \/ Save
  \/ TickAborts

CronSpec == CronInit /\ [][CronNext]_cronVars

\* The timer fires every minute, and a tick goes on until it has saved.
FairCronSpec ==
  /\ CronSpec
  /\ WF_cronVars(TickStarts)
  /\ WF_cronVars(\E j \in Jobs : Evaluate(j))
  /\ WF_cronVars(Save)

-----------------------------------------------------------------------------
(* Properties                                                              *)

\* No occurrence is dropped between two ticks: as long as the state could be
\* read, every occurrence between a job's first window and its saved time was
\* handed to a dispatch that returned.  It would fail if a time advanced past
\* a dispatch that threw (IngestTimerFunction.cs:127-131).
NoneSkipped ==
  ~blind => \A j \in Jobs :
    stored[j] # Never =>
      \A o \in Due[j] : since[j] < o /\ o <= stored[j] => o \in answered[j]

\* One job cannot stop another: an occurrence after a job's saved time is
\* dispatched in the end, whatever a poisoned job does, unless the job is
\* disabled or the state could not be read (IngestTimerFunction.cs:105-140).
DueIsDispatched ==
  \A j \in Jobs \ Poison : \A o \in Due[j] :
    (clock >= o /\ stored[j] # Never /\ stored[j] < o)
      ~> (o \in answered[j] \/ blind \/ j \notin enabled)

\* No occurrence gets two runs as long as nothing has failed: the next tick
\* looks only past the time the last one saved.  With a failure it may: a tick
\* that is cut off before its save leaves the occurrence due, and once its run
\* has ended no claim keeps a second one out (IngestTimerFunction.cs:127-131).
OnceWithoutFaults ==
  faults = MaxFaults => \A j \in Jobs : \A o \in Due[j] : runsFor[j][o] <= 1
=============================================================================
