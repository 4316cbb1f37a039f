---------------------------- MODULE TriggerProofs ----------------------------
(***************************************************************************)
(* Proofs about what starts work on a schedule, in two parts: the cron     *)
(* scheduler of the ingest jobs and the trigger of the pipelines.          *)
(***************************************************************************)
EXTENDS CronScheduler, PipelineTrigger, SequenceTheorems, TLAPS

(***************************************************************************)
(* NoneSkipped and OnceWithoutFaults for any jobs, schedules and number of *)
(* faults.                                                                 *)
(*                                                                         *)
(* NoneSkipped speaks of the stored times only.  Between loading and       *)
(* saving, the times in memory must be as good: a job that is still to be  *)
(* evaluated has the time that is stored, and one that was evaluated has a *)
(* time up to which nothing is missing.  OnceWithoutFaults needs the       *)
(* reverse: an occurrence that has a run lies before the time in memory    *)
(* during a tick, before the stored one between two ticks, and these times *)
(* never pass the clock.                                                   *)
(***************************************************************************)

CronTypeOK ==
  /\ clock \in Nat /\ now \in Nat
  /\ enabled \subseteq Jobs /\ todo \subseteq Jobs
  /\ stored \in [Jobs -> Times] /\ state \in [Jobs -> Times]
  /\ since \in [Jobs -> Int]
  /\ answered \in [Jobs -> SUBSET Nat]
  /\ scanning \in BOOLEAN /\ blind \in BOOLEAN

\* Nothing is missing between a job's first window and its time in times.
Complete(times, j) ==
  times[j] # Never =>
    \A o \in Due[j] : since[j] < o /\ o <= times[j] => o \in answered[j]

StoredOK == ~blind => \A j \in Jobs : Complete(stored, j)
MemoryOK == scanning /\ ~blind =>
              \A j \in Jobs : /\ Complete(state, j)
                              /\ j \in todo => state[j] = stored[j]

CronInv == CronTypeOK /\ StoredOK /\ MemoryOK

-----------------------------------------------------------------------------
(* The invariant holds initially.                                          *)

LEMMA CronInitInv == CronInit => CronInv
<1> SUFFICES ASSUME CronInit PROVE CronInv
  OBVIOUS
<1>1. stored = [j \in Jobs |-> Never] /\ state = stored /\ ~scanning
  BY DEF CronInit
<1>2. stored \in [Jobs -> Times]
  BY <1>1 DEF Times
<1>3. since \in [Jobs -> Int] /\ answered \in [Jobs -> SUBSET Nat]
  BY DEF CronInit
<1>4. CronTypeOK
  BY CronAssumption, <1>1, <1>2, <1>3 DEF CronInit, CronTypeOK
<1>5. StoredOK /\ MemoryOK
  BY <1>1 DEF StoredOK, MemoryOK, Complete
<1> QED BY <1>4, <1>5 DEF CronInv

\* A step that leaves stored, state, todo and the history alone.
LEMMA QuietStep ==
  ASSUME CronInv, clock' \in Nat, enabled' \subseteq Jobs,
         scanning' \in BOOLEAN, scanning' => scanning,
         UNCHANGED <<stored, now, state, todo, history>>
  PROVE  CronInv'
BY DEF CronInv, CronTypeOK, StoredOK, MemoryOK, Complete, history

LEMMA StartKeepsInv == ASSUME CronInv, TickStarts PROVE CronInv'
<1>1. CASE state' = stored /\ UNCHANGED <<faults, blind>>
  BY <1>1 DEF CronInv, CronTypeOK, StoredOK, MemoryOK, Complete, TickStarts
<1>2. CASE Fault /\ state' = [j \in Jobs |-> Never] /\ blind' = TRUE
  BY <1>2 DEF CronInv, CronTypeOK, StoredOK, MemoryOK, Complete, TickStarts, Times
<1> QED BY <1>1, <1>2 DEF TickStarts, Load

LEMMA SaveKeepsInv == ASSUME CronInv, Save PROVE CronInv'
<1>1. CronTypeOK'
  BY DEF CronInv, CronTypeOK, Save, Times, history
<1>2. StoredOK'
  <2> SUFFICES ASSUME ~blind, NEW j \in Jobs PROVE Complete(stored, j)'
    BY DEF StoredOK, Save, history
  <2>1. Complete(state, j)
    BY DEF CronInv, MemoryOK, Save
  <2>2. stored'[j] = state[j] \/ stored'[j] = Never
    BY DEF Save
  <2> QED BY <2>1, <2>2 DEF Complete, Save, history
<1>3. MemoryOK'
  BY DEF MemoryOK, Save
<1> QED BY <1>1, <1>2, <1>3 DEF CronInv

-----------------------------------------------------------------------------
(* Evaluating a job: either its time stays, or it becomes now and every    *)
(* occurrence since the last time is answered.                             *)

LEMMA EvaluationKeepsTypes ==
  ASSUME CronInv, NEW j \in Jobs, Evaluated(j),
         state' = state \/ state' = [state EXCEPT ![j] = now],
         answered' = answered \/ answered' = [answered EXCEPT ![j] = @ \cup Missed(j)]
  PROVE  CronTypeOK'
<1>1. since' \in [Jobs -> Int]
  BY CronAssumption DEF CronInv, CronTypeOK, Evaluated
<1>2. state' \in [Jobs -> Times]
  BY DEF CronInv, CronTypeOK, Times
<1>3. Missed(j) \subseteq Nat
  BY CronAssumption DEF Missed
<1>4. answered' \in [Jobs -> SUBSET Nat]
  BY <1>3 DEF CronInv, CronTypeOK
<1> QED BY <1>1, <1>2, <1>4 DEF CronInv, CronTypeOK, Evaluated

\* The other jobs are left alone.
LEMMA OthersStayComplete ==
  ASSUME CronInv, NEW j \in Jobs, Evaluated(j), NEW k \in Jobs, k # j,
         state' = state \/ state' = [state EXCEPT ![j] = now],
         answered' = answered \/ answered' = [answered EXCEPT ![j] = @ \cup Missed(j)]
  PROVE  /\ stored'[k] = stored[k] /\ state'[k] = state[k]
         /\ since'[k] = since[k] /\ answered'[k] = answered[k]
BY DEF CronInv, CronTypeOK, Evaluated

\* The first window of a job moves only while it has no stored time.
LEMMA StoredStaysComplete ==
  ASSUME CronInv, ~blind, NEW j \in Jobs, Evaluated(j),
         answered' = answered \/ answered' = [answered EXCEPT ![j] = @ \cup Missed(j)]
  PROVE  Complete(stored, j)'
<1>1. stored[j] # Never => since' = since
  BY DEF Evaluated
<1>2. answered[j] \subseteq answered'[j]
  BY DEF CronInv, CronTypeOK
<1> QED BY <1>1, <1>2 DEF CronInv, StoredOK, Complete, Evaluated

\* What every evaluation has to show for itself is the time in memory.
LEMMA EvaluationKeepsInv ==
  ASSUME CronInv, NEW j \in Jobs, Evaluated(j),
         state' = state \/ state' = [state EXCEPT ![j] = now],
         answered' = answered \/ answered' = [answered EXCEPT ![j] = @ \cup Missed(j)],
         ~blind => Complete(state, j)'
  PROVE  CronInv'
<1>1. CronTypeOK'
  BY EvaluationKeepsTypes
<1>2. blind' = blind /\ scanning /\ todo' = todo \ {j}
  BY DEF Evaluated
<1>3. ASSUME ~blind, NEW k \in Jobs
      PROVE  /\ Complete(stored, k)' /\ Complete(state, k)'
             /\ k \in todo' => state'[k] = stored'[k]
  <2>1. CASE k = j
    BY <1>2, <1>3, <2>1, StoredStaysComplete
  <2>2. CASE k # j
    <3>1. /\ stored'[k] = stored[k] /\ state'[k] = state[k]
          /\ since'[k] = since[k] /\ answered'[k] = answered[k]
      BY <2>2, OthersStayComplete
    <3>2. Complete(stored, k) /\ Complete(state, k) /\ (k \in todo => state[k] = stored[k])
      BY <1>2, <1>3 DEF CronInv, StoredOK, MemoryOK
    <3> QED BY <1>2, <3>1, <3>2 DEF Complete
  <2> QED BY <2>1, <2>2
<1>4. StoredOK' /\ MemoryOK'
  BY <1>2, <1>3 DEF StoredOK, MemoryOK
<1> QED BY <1>1, <1>4 DEF CronInv

\* A time that becomes now is complete if its window is answered.
LEMMA AnsweredWindow ==
  ASSUME CronInv, ~blind, NEW j \in Jobs, Evaluated(j),
         state' = [state EXCEPT ![j] = now],
         answered' = answered \/ answered' = [answered EXCEPT ![j] = @ \cup Missed(j)],
         Missed(j) \subseteq answered'[j]
  PROVE  Complete(state, j)'
<1>1. state'[j] = now /\ now \in Nat /\ answered[j] \subseteq answered'[j]
  BY DEF CronInv, CronTypeOK
<1>2. state[j] = stored[j] /\ Complete(state, j)
  BY DEF CronInv, MemoryOK, Evaluated
<1>3. SUFFICES ASSUME NEW o \in Due[j], since'[j] < o, o <= now
               PROVE  o \in answered'[j]
  BY <1>1 DEF Complete
<1>4. o \in Nat
  BY CronAssumption
<1>5. CASE state[j] = Never
  <2>1. since'[j] = now - Window
    BY <1>2, <1>5 DEF CronInv, CronTypeOK, Evaluated
  <2> QED BY <1>3, <1>5, <2>1 DEF Missed, LastEval
<1>6. CASE state[j] # Never
  <2>1. since' = since /\ state[j] \in Nat
    BY <1>6 DEF CronInv, CronTypeOK, Evaluated, Times
  <2>2. CASE o <= state[j]
    BY <1>1, <1>2, <1>3, <1>6, <2>1, <2>2 DEF Complete
  <2>3. CASE state[j] < o
    BY <1>3, <1>6, <2>3 DEF Missed, LastEval
  <2> QED BY <1>4, <2>1, <2>2, <2>3
<1> QED BY <1>5, <1>6

LEMMA EvaluateKeepsInv ==
  ASSUME CronInv, NEW j \in Jobs, Evaluate(j)
  PROVE  CronInv'
<1>1. CASE NotDue(j)
  <2>1. /\ Evaluated(j) /\ Missed(j) = {}
        /\ state' = [state EXCEPT ![j] = now] /\ answered' = answered
    BY <1>1 DEF NotDue
  <2>2. ~blind => Complete(state, j)'
    BY <2>1, AnsweredWindow
  <2> QED BY <2>1, <2>2, EvaluationKeepsInv
<1>2. CASE Dispatches(j)
  <2>1. /\ Evaluated(j)
        /\ state' = [state EXCEPT ![j] = now]
        /\ answered' = [answered EXCEPT ![j] = @ \cup Missed(j)]
    BY <1>2 DEF Dispatches
  <2>2. Missed(j) \subseteq answered'[j]
    BY <2>1 DEF CronInv, CronTypeOK
  <2>3. ~blind => Complete(state, j)'
    BY <2>1, <2>2, AnsweredWindow
  <2> QED BY <2>1, <2>3, EvaluationKeepsInv
<1>3. CASE DispatchThrows(j)
  <2>1. Evaluated(j) /\ state' = state /\ answered' = answered
    BY <1>3 DEF DispatchThrows
  <2>2. ASSUME ~blind PROVE Complete(state, j)'
    <3>1. state[j] = stored[j] /\ Complete(state, j)
      BY <2>1, <2>2 DEF CronInv, MemoryOK, Evaluated
    <3>2. state[j] # Never => since' = since
      BY <2>1 DEF Evaluated
    <3> QED BY <2>1, <3>1, <3>2 DEF Complete
  <2> QED BY <2>1, <2>2, EvaluationKeepsInv
<1> QED BY <1>1, <1>2, <1>3 DEF Evaluate

LEMMA CronStepInv == ASSUME CronInv, [CronNext]_cronVars PROVE CronInv'
<1>1. CASE ClockAdvances
  BY <1>1, QuietStep DEF ClockAdvances, CronInv, CronTypeOK, tickVars, history
<1>2. CASE Redeploy
  BY <1>2, QuietStep DEF Redeploy, CronInv, CronTypeOK, tickVars, history
<1>3. CASE TickStarts
  BY <1>3, StartKeepsInv
<1>4. ASSUME NEW j \in Jobs, RunEnds(j) PROVE CronInv'
  BY <1>4, QuietStep DEF RunEnds, CronInv, CronTypeOK, tickVars, history
<1>5. ASSUME NEW j \in Jobs, Evaluate(j) PROVE CronInv'
  BY <1>5, EvaluateKeepsInv
<1>6. CASE Save
  BY <1>6, SaveKeepsInv
<1>7. CASE TickAborts
  BY <1>7, QuietStep DEF TickAborts, CronInv, CronTypeOK, history
<1>8. CASE UNCHANGED cronVars
  BY <1>8, QuietStep DEF cronVars, tickVars, CronInv, CronTypeOK, history
<1> QED BY <1>1, <1>2, <1>3, <1>4, <1>5, <1>6, <1>7, <1>8 DEF CronNext

\* No occurrence is dropped between two ticks, whatever the jobs, the schedules
\* and the failures other than a failed load (IngestTimerFunction.cs:108-131).
THEOREM NothingIsSkipped == CronSpec => []NoneSkipped
<1>1. CronInv => NoneSkipped
  BY DEF CronInv, StoredOK, Complete, NoneSkipped
<1> QED BY <1>1, CronInitInv, CronStepInv, PTL DEF CronSpec

-----------------------------------------------------------------------------
(* An occurrence that has a run is one the next scan will not see.         *)

Behind(times, j, o) == times[j] # Never /\ o <= times[j]

OnceTypeOK ==
  /\ faults \in Nat /\ faults <= MaxFaults
  /\ \A j \in Jobs : runsFor[j] \in [Due[j] -> Nat]
  /\ runsFor = [j \in Jobs |-> runsFor[j]]

\* The times that count: those in memory during a tick, else the stored ones.
Counted == IF scanning THEN state ELSE stored
UpTo   == IF scanning THEN now ELSE clock

OnceOK ==
  /\ enabled = Jobs
  /\ now <= clock
  /\ \A j \in Jobs : Counted[j] # Never => Counted[j] <= UpTo
  /\ \A j \in Jobs : \A o \in Due[j] :
       runsFor[j][o] # 0 => runsFor[j][o] = 1 /\ Behind(Counted, j, o)

OnceInv == CronTypeOK /\ OnceTypeOK /\ (faults = MaxFaults => OnceOK)

LEMMA OnceInitially == CronInit => OnceInv
<1> SUFFICES ASSUME CronInit PROVE OnceInv
  OBVIOUS
<1>1. CronTypeOK
  BY CronInitInv DEF CronInv
<1>2. OnceTypeOK
  BY CronAssumption DEF CronInit, OnceTypeOK
<1>3. OnceOK
  BY CronAssumption DEF CronInit, OnceOK, Counted, UpTo, Behind
<1> QED BY <1>1, <1>2, <1>3 DEF OnceInv

\* A fault ends the promise.
LEMMA FaultEndsOnce ==
  ASSUME OnceInv, Fault, UNCHANGED runsFor PROVE OnceTypeOK' /\ faults' # MaxFaults
BY CronAssumption DEF OnceInv, OnceTypeOK, Fault

\* What an evaluation without a fault does to the times and the runs.
LEMMA EvaluationKeepsOnce ==
  ASSUME CronInv, OnceInv, NEW j \in Jobs, Evaluated(j), UNCHANGED faults,
         \/ UNCHANGED <<state, runsFor>>
         \/ /\ state' = [state EXCEPT ![j] = now]
            /\ UNCHANGED runsFor \/ StartsRun(j)
  PROVE  OnceTypeOK' /\ (faults = MaxFaults => OnceOK')
<1>1. /\ scanning /\ scanning' /\ UNCHANGED <<enabled, now, clock>>
      /\ state \in [Jobs -> Times] /\ now \in Nat /\ clock \in Nat
  BY DEF Evaluated, OnceInv, CronTypeOK
<1>2. \A k \in Jobs \ {j} : runsFor'[k] = runsFor[k] /\ state'[k] = state[k]
  BY <1>1 DEF StartsRun, OnceInv, OnceTypeOK
<1>3. ASSUME faults = MaxFaults, state' = [state EXCEPT ![j] = now],
             \A o \in Due[j] : runsFor'[j][o] # 0 => runsFor'[j][o] = 1 /\ o <= now
      PROVE  OnceOK'
  <2>1. state'[j] = now /\ now \in Nat /\ now # Never
    BY <1>1, <1>3, CronAssumption
  <2>2. OnceOK
    BY <1>3 DEF OnceInv
  <2>3. enabled' = Jobs /\ now' <= clock'
    BY <1>1, <2>2 DEF OnceOK
  <2>4. \A k \in Jobs : state'[k] # Never => state'[k] <= now'
    BY <1>1, <1>2, <2>1, <2>2 DEF OnceOK, Counted, UpTo
  <2>5. \A k \in Jobs : \A o \in Due[k] :
          runsFor'[k][o] # 0 => runsFor'[k][o] = 1 /\ state'[k] # Never /\ o <= state'[k]
    BY <1>1, <1>2, <1>3, <2>1, <2>2 DEF OnceOK, Counted, Behind
  <2> QED BY <1>1, <2>3, <2>4, <2>5 DEF OnceOK, Counted, UpTo, Behind
<1>4. CASE UNCHANGED <<state, runsFor>>
  BY <1>1, <1>4 DEF OnceInv, OnceTypeOK, OnceOK, Counted, UpTo, Behind
<1>5. CASE state' = [state EXCEPT ![j] = now] /\ UNCHANGED runsFor
  <2>1. OnceTypeOK'
    BY <1>5 DEF OnceInv, OnceTypeOK
  <2>2. ASSUME faults = MaxFaults, NEW o \in Due[j], runsFor[j][o] # 0
        PROVE  runsFor[j][o] = 1 /\ o <= now
    BY <1>1, <2>2, CronAssumption DEF OnceInv, OnceOK, Counted, UpTo, Behind, Times
  <2> QED BY <1>1, <1>2, <1>5, <2>1, <2>2, <1>3
<1>6. CASE state' = [state EXCEPT ![j] = now] /\ StartsRun(j)
  <2>1. runsFor'[j] = [o \in Due[j] |->
                         runsFor[j][o] + (IF o \in Missed(j) THEN 1 ELSE 0)]
    BY <1>6 DEF StartsRun, OnceInv, OnceTypeOK
  <2>2. OnceTypeOK'
    <3>1. runsFor'[j] \in [Due[j] -> Nat]
      BY <2>1 DEF OnceInv, OnceTypeOK
    <3> QED BY <1>2, <1>6, <3>1 DEF OnceInv, OnceTypeOK, StartsRun
  <2>3. ASSUME faults = MaxFaults, NEW o \in Due[j], runsFor'[j][o] # 0
        PROVE  runsFor'[j][o] = 1 /\ o <= now
    <3>0. o \in Nat /\ runsFor[j][o] \in Nat
      BY CronAssumption DEF OnceInv, OnceTypeOK
    <3>1. CASE runsFor[j][o] = 0
      BY <2>1, <2>3, <3>0, <3>1 DEF Missed
    <3>2. CASE runsFor[j][o] # 0
      <4>1. runsFor[j][o] = 1 /\ state[j] # Never /\ o <= state[j] /\ state[j] <= now
        BY <1>1, <2>3, <3>2 DEF OnceInv, OnceOK, Counted, UpTo, Behind
      <4>2. o \notin Missed(j)
        BY <1>1, <3>0, <4>1 DEF Missed, LastEval, Times
      <4> QED BY <1>1, <2>1, <3>0, <4>1, <4>2 DEF Times
    <3> QED BY <3>1, <3>2
  <2> QED BY <1>1, <1>2, <1>6, <2>2, <2>3, <1>3
<1> QED BY <1>4, <1>5, <1>6

LEMMA OnceStep == ASSUME CronInv, OnceInv, [CronNext]_cronVars PROVE OnceInv'
<1>0. CronTypeOK'
  BY CronStepInv DEF CronInv
<1>1. CASE ClockAdvances
  BY <1>0, <1>1, CronAssumption
     DEF ClockAdvances, OnceInv, OnceTypeOK, OnceOK, Counted, UpTo, Behind, tickVars,
         history, CronTypeOK, Times
<1>2. CASE Redeploy
  BY <1>0, <1>2, FaultEndsOnce DEF Redeploy, OnceInv, history
<1>3. CASE TickStarts
  <2>1. CASE state' = stored /\ UNCHANGED faults
    BY <1>0, <1>3, <2>1
       DEF TickStarts, OnceInv, OnceTypeOK, OnceOK, Counted, UpTo, Behind, CronTypeOK
  <2>2. CASE Fault
    BY <1>0, <1>3, <2>2, FaultEndsOnce DEF TickStarts, OnceInv
  <2> QED BY <1>3, <2>1, <2>2 DEF TickStarts, Load
<1>4. ASSUME NEW j \in Jobs, RunEnds(j) PROVE OnceInv'
  BY <1>0, <1>4 DEF RunEnds, OnceInv, OnceTypeOK, OnceOK, Counted, UpTo, Behind, tickVars, history
<1>5. ASSUME NEW j \in Jobs, NotDue(j) \/ Dispatches(j) PROVE OnceInv'
  <2>1. /\ Evaluated(j) /\ UNCHANGED faults /\ state' = [state EXCEPT ![j] = now]
        /\ UNCHANGED runsFor \/ StartsRun(j)
    BY <1>5 DEF NotDue, Dispatches
  <2> QED BY <1>0, <2>1, EvaluationKeepsOnce DEF OnceInv
<1>6. ASSUME NEW j \in Jobs, DispatchThrows(j) PROVE OnceInv'
  <2>1. CASE UNCHANGED <<faults, runsFor>>
    BY <1>0, <1>6, <2>1, EvaluationKeepsOnce DEF DispatchThrows, OnceInv
  <2>2. CASE Fault /\ UNCHANGED runsFor
    BY <1>0, <2>2, FaultEndsOnce DEF OnceInv
  <2>3. CASE Fault /\ StartsRun(j)
    <3>1. faults' \in Nat /\ faults' < MaxFaults
      BY <2>3, CronAssumption DEF Fault, OnceInv, OnceTypeOK
    <3>2. \A k \in Jobs : runsFor'[k] \in [Due[k] -> Nat]
      BY <2>3 DEF StartsRun, OnceInv, OnceTypeOK
    <3>3. runsFor' = [k \in Jobs |-> runsFor'[k]]
      BY <2>3 DEF StartsRun, OnceInv, OnceTypeOK
    <3> QED BY <1>0, <3>1, <3>2, <3>3, CronAssumption DEF OnceInv, OnceTypeOK
  <2> QED BY <1>6, <2>1, <2>2, <2>3 DEF DispatchThrows
<1>7. CASE Save
  <2>1. ASSUME faults = MaxFaults PROVE stored' = state
    BY <1>7, <2>1 DEF Save, CronInv, CronTypeOK, OnceInv, OnceOK
  <2> QED BY <1>0, <1>7, <2>1
          DEF Save, OnceInv, OnceTypeOK, OnceOK, Counted, UpTo, Behind, CronTypeOK, history, Times
<1>8. CASE TickAborts
  BY <1>0, <1>8, FaultEndsOnce DEF TickAborts, OnceInv, history
<1>9. CASE UNCHANGED cronVars
  BY <1>0, <1>9 DEF cronVars, tickVars, history, OnceInv, OnceTypeOK, OnceOK, Counted, UpTo, Behind
<1> QED BY <1>1, <1>2, <1>3, <1>4, <1>5, <1>6, <1>7, <1>8, <1>9 DEF CronNext, Evaluate

\* As long as nothing fails, no occurrence gets two runs, whatever the jobs and
\* the schedules, and however late the ticks (IngestTimerFunction.cs:108-131).
THEOREM NoOccurrenceTwice == CronSpec => []OnceWithoutFaults
<1>1. OnceInv => OnceWithoutFaults
  <2> SUFFICES ASSUME OnceInv, faults = MaxFaults, NEW j \in Jobs, NEW o \in Due[j]
               PROVE  runsFor[j][o] <= 1
    BY DEF OnceWithoutFaults
  <2>1. runsFor[j][o] \in Nat /\ (runsFor[j][o] # 0 => runsFor[j][o] = 1)
    BY DEF OnceInv, OnceTypeOK, OnceOK
  <2> QED BY <2>1
<1> QED BY <1>1, CronInitInv, CronStepInv, OnceInitially, OnceStep, PTL DEF CronSpec

-----------------------------------------------------------------------------
(***************************************************************************)
(* PassIsFresh for any number of pipelines, polls and updates.             *)
(*                                                                         *)
(* The argument goes up the layers: when the script is called for a        *)
(* pipeline, every layer below it reflects what had landed at the start of *)
(* the pass; the update it starts begins from the layer below, so that the *)
(* layer itself does when that update has completed.  Other updates of the *)
(* pipeline only ever add to a layer.                                      *)
(***************************************************************************)

Updates == [state : UpdateStates, from : Nat]

\* The layers up to n reflect what the pass was asked for.
Reached(n) == \A k \in 0..n : data[k] >= asked

Called == pc \in {"post", "poll"} => Reached(stage - 1)

Own == updates[stage][update_id]
OwnUpdate ==
  pc = "poll" => /\ Own.from >= asked
                 /\ Own.state = "COMPLETED" => data[stage] >= asked

RefreshInv == TypeOK /\ Called /\ OwnUpdate /\ PassIsFresh

-----------------------------------------------------------------------------
(* Steps of the surroundings: layers grow and updates keep what they began *)
(* from.                                                                   *)

\* TypeOK without what it says of the script.
LEMMA RefreshTypes ==
  ASSUME TypeOK
  PROVE  /\ data \in [0..LastLayer -> Nat]
         /\ updates \in [Pipelines -> Seq(Updates)]
         /\ stage \in Pipelines /\ asked \in Nat
         /\ pc = "poll" => update_id \in 1..Len(updates[stage])
<1>1. /\ data \in [0..LastLayer -> Nat] /\ updates \in [Pipelines -> Seq(Updates)]
      /\ stage \in Pipelines /\ asked \in Nat
      /\ pc = "poll" => update_id \in DOMAIN updates[stage]
  BY DEF TypeOK, Updates
<1>2. updates[stage] \in Seq(Updates)
  BY <1>1
<1>3. DOMAIN updates[stage] = 1..Len(updates[stage])
  BY <1>2
<1> QED BY <1>1, <1>3

LEMMA ReachedGrows ==
  ASSUME TypeOK, NEW n \in 0..LastLayer, Reached(n),
         data' \in [0..LastLayer -> Nat], asked' = asked,
         \A k \in 0..LastLayer : data'[k] >= data[k]
  PROVE  Reached(n)'
<1> SUFFICES ASSUME NEW k \in 0..n PROVE data'[k] >= asked
  BY DEF Reached
<1>1. k \in 0..LastLayer
  BY RefreshAssumption
<1>2. data[k] \in Nat /\ data'[k] \in Nat /\ asked \in Nat
  BY <1>1, RefreshTypes
<1> QED BY <1>1, <1>2 DEF Reached

LEMMA InitInv == Init => RefreshInv
<1> SUFFICES ASSUME Init PROVE RefreshInv
  OBVIOUS
<1>1. updates \in [Pipelines -> Seq(Updates)]
  BY DEF Init
<1>2. data \in [0..LastLayer -> Nat] /\ stage \in Pipelines /\ elapsed \in 0..MaxPolls
  BY RefreshAssumption DEF Init, Pipelines
<1> QED BY <1>1, <1>2 DEF Init, RefreshInv, TypeOK, Called, OwnUpdate, PassIsFresh, Updates

\* The script is at a layer, and that layer has one before it.
LEMMA StageTypes ==
  ASSUME TypeOK
  PROVE  stage \in 1..LastLayer /\ stage - 1 \in 0..LastLayer
<1>1. stage \in 1..LastLayer /\ LastLayer \in Nat
  BY RefreshAssumption DEF TypeOK, Pipelines
<1> QED BY <1>1

\* What the invariant needs of a step that is not the script's.
LEMMA SurroundingStep ==
  ASSUME RefreshInv, UNCHANGED <<script, asked, passes>>,
         data' \in [0..LastLayer -> Nat],
         updates' \in [Pipelines -> Seq(Updates)],
         \A k \in 0..LastLayer : data'[k] >= data[k],
         pc = "poll" =>
           /\ Len(updates'[stage]) >= Len(updates[stage])
           /\ updates'[stage][update_id].from = Own.from
           /\ updates'[stage][update_id].state = "COMPLETED" =>
                Own.state = "COMPLETED" \/ data'[stage] >= Own.from
  PROVE  RefreshInv'
<1>1. stage \in 1..LastLayer /\ stage - 1 \in 0..LastLayer
  BY StageTypes DEF RefreshInv
<1> USE DEF RefreshInv
<1> DEFINE last == Len(updates[stage])
           last2 == Len(updates'[stage])
<1>2. UNCHANGED <<pc, stage, update_id, elapsed, asked, passes>>
  BY DEF script
<1>3. TypeOK'
  <2>1. pc = "poll" => update_id \in 1..last /\ last \in Nat /\ last2 \in Nat /\ last2 >= last
    BY <1>1, RefreshTypes DEF Pipelines
  <2>2. pc = "poll" => update_id \in 1..last2
    BY <2>1
  <2>3. pc = "poll" => update_id \in DOMAIN updates'[stage]
    BY <2>2, <1>1 DEF Pipelines
  <2> QED BY <2>3, <1>2 DEF TypeOK, Updates
<1>4. Called'
  BY <1>1, <1>2, ReachedGrows DEF Called, Reached
<1>5. OwnUpdate'
  <2> SUFFICES ASSUME pc = "poll" PROVE OwnUpdate'
    BY <1>2 DEF OwnUpdate
  <2>1. Own' = updates'[stage][update_id]
    BY <1>2 DEF Own
  <2>2. Own.from \in Nat /\ data[stage] \in Nat /\ data'[stage] \in Nat /\ asked \in Nat
    <3>1. Own \in Updates
      BY RefreshTypes DEF Own
    <3>2. Own.from \in Nat
      BY <3>1 DEF Updates
    <3>3. stage \in 0..LastLayer
      BY <1>1, RefreshAssumption
    <3> QED BY <3>2, <3>3, RefreshTypes
  <2>3. data'[stage] >= data[stage]
    BY <1>1
  <2> QED BY <1>2, <2>1, <2>2, <2>3 DEF OwnUpdate
<1>6. PassIsFresh'
  <2>1. LastLayer \in 0..LastLayer
    BY RefreshAssumption
  <2> QED BY <1>2, <2>1, RefreshTypes DEF PassIsFresh
<1> QED BY <1>3, <1>4, <1>5, <1>6

LEMMA LandKeepsInv == ASSUME RefreshInv, Land PROVE RefreshInv'
<1> USE DEF RefreshInv
<1>1. data' \in [0..LastLayer -> Nat] /\ \A k \in 0..LastLayer : data'[k] >= data[k]
  BY RefreshTypes, RefreshAssumption DEF Land
<1>2. updates' \in [Pipelines -> Seq(Updates)] /\ updates' = updates
  BY RefreshTypes DEF Land
<1>3. Len(updates[stage]) \in Nat
  BY RefreshTypes DEF Pipelines
<1> QED BY <1>1, <1>2, <1>3, SurroundingStep DEF Land, Own

\* An update that is started is appended; those before it stay.
LEMMA StartedAppends ==
  ASSUME TypeOK, NEW p \in Pipelines, Started(p)
  PROVE  /\ updates' \in [Pipelines -> Seq(Updates)]
         /\ \A q \in Pipelines : Len(updates'[q]) >= Len(updates[q])
         /\ \A q \in Pipelines : \A i \in 1..Len(updates[q]) :
               updates'[q][i] = updates[q][i]
         /\ Len(updates'[p]) = Len(updates[p]) + 1
         /\ updates'[p][Len(updates[p]) + 1] = [state |-> "RUNNING", from |-> data[p - 1]]
<1> DEFINE new == [state |-> "RUNNING", from |-> data[p - 1]]
<1>1. new \in Updates
  BY RefreshTypes, RefreshAssumption DEF Updates, UpdateStates, EndStates, Pipelines
<1>2. updates[p] \in Seq(Updates)
  BY RefreshTypes
<1> HIDE DEF new
<1>3. /\ Append(updates[p], new) \in Seq(Updates)
      /\ Len(Append(updates[p], new)) = Len(updates[p]) + 1
      /\ \A i \in 1..Len(updates[p]) : Append(updates[p], new)[i] = updates[p][i]
      /\ Append(updates[p], new)[Len(updates[p]) + 1] = new
  BY <1>1, <1>2, AppendProperties
<1>4. updates' = [updates EXCEPT ![p] = Append(@, new)]
  BY DEF Started, new
<1>5. \A q \in Pipelines : updates'[q] = IF q = p THEN Append(updates[p], new) ELSE updates[q]
  BY <1>4, RefreshTypes
<1>6. updates' \in [Pipelines -> Seq(Updates)]
  BY <1>3, <1>4, RefreshTypes
<1>7. \A q \in Pipelines : Len(updates[q]) \in Nat
  BY RefreshTypes
<1>8. \A q \in Pipelines : Len(updates'[q]) >= Len(updates[q])
  <2> SUFFICES ASSUME NEW q \in Pipelines PROVE Len(updates'[q]) >= Len(updates[q])
    OBVIOUS
  <2>1. CASE q = p
    <3>1. Len(updates'[p]) = Len(updates[p]) + 1
      BY <1>3, <1>5
    <3> QED BY <2>1, <3>1, <1>7
  <2>2. CASE q # p
    <3>1. updates'[q] = updates[q]
      BY <2>2, <1>5
    <3> QED BY <3>1, <1>7
  <2> QED BY <2>1, <2>2
<1>9. \A q \in Pipelines : \A i \in 1..Len(updates[q]) : updates'[q][i] = updates[q][i]
  BY <1>3, <1>5
<1> QED BY <1>3, <1>5, <1>6, <1>8, <1>9 DEF new

LEMMA StartedElsewhereKeepsInv ==
  ASSUME RefreshInv, NEW p \in Pipelines, StartedElsewhere(p) PROVE RefreshInv'
<1> USE DEF RefreshInv
<1>1. data' = data /\ UNCHANGED <<script, asked, passes>> /\ Started(p)
  BY DEF StartedElsewhere
<1>2. data' \in [0..LastLayer -> Nat] /\ \A k \in 0..LastLayer : data'[k] >= data[k]
  <2>1. data \in [0..LastLayer -> Nat]
    BY RefreshTypes
  <2> HIDE DEF RefreshInv
  <2>2. \A k \in 0..LastLayer : data[k] >= data[k]
    BY <2>1
  <2> QED BY <1>1, <2>1, <2>2
<1>3. stage \in Pipelines /\ (pc = "poll" => update_id \in 1..Len(updates[stage]))
  BY RefreshTypes
<1>4. pc = "poll" => updates'[stage][update_id] = Own
  BY <1>1, <1>3, StartedAppends DEF Own
<1> QED BY <1>1, <1>2, <1>3, <1>4, StartedAppends, SurroundingStep

LEMMA UpdateEndsKeepsInv ==
  ASSUME RefreshInv, NEW p \in Pipelines, NEW i \in DOMAIN updates[p],
         NEW s \in EndStates, UpdateEnds(p, i, s)
  PROVE  RefreshInv'
<1> USE DEF RefreshInv
<1>1. /\ updates[p] \in Seq(Updates) /\ i \in 1..Len(updates[p])
      /\ updates[p][i] \in Updates
  BY RefreshTypes
<1> DEFINE ended == [updates[p][i] EXCEPT !.state = s]
<1>2. ended \in Updates /\ ended.from = updates[p][i].from /\ ended.state = s
  BY <1>1 DEF Updates, UpdateStates
<1> HIDE DEF ended
<1>3. updates' = [updates EXCEPT ![p] = [updates[p] EXCEPT ![i] = ended]]
  BY DEF UpdateEnds, ended
<1>4. /\ [updates[p] EXCEPT ![i] = ended] \in Seq(Updates)
      /\ Len([updates[p] EXCEPT ![i] = ended]) = Len(updates[p])
      /\ \A j \in 1..Len(updates[p]) :
            [updates[p] EXCEPT ![i] = ended][j] = IF j = i THEN ended ELSE updates[p][j]
  BY <1>1, <1>2, ExceptSeq
<1>5. updates' \in [Pipelines -> Seq(Updates)]
  BY <1>3, <1>4, RefreshTypes
<1>6. \A q \in Pipelines :
         updates'[q] = IF q = p THEN [updates[p] EXCEPT ![i] = ended] ELSE updates[q]
  BY <1>3, RefreshTypes
<1>7. p \in 0..LastLayer /\ p - 1 \in 0..LastLayer
  BY RefreshAssumption DEF Pipelines
<1>8. /\ data' \in [0..LastLayer -> Nat]
      /\ \A k \in 0..LastLayer : data'[k] >= data[k]
      /\ s = "COMPLETED" => data'[p] >= updates[p][i].from
  <2>0. data \in [0..LastLayer -> Nat] /\ updates[p][i].from \in Nat
    BY <1>1, RefreshTypes DEF Updates
  <2>1. CASE s # "COMPLETED"
    BY <2>0, <2>1 DEF UpdateEnds
  <2>2. CASE s = "COMPLETED"
    <3>1. PICK v \in updates[p][i].from..data[p - 1] :
             v >= data[p] /\ data' = [data EXCEPT ![p] = v]
      BY <2>2 DEF UpdateEnds
    <3>2. v \in Nat /\ v >= updates[p][i].from
      BY <2>0, <1>7
    <3> QED BY <3>1, <3>2, <2>0, <1>7
  <2> QED BY <2>1, <2>2
<1>9. stage \in Pipelines /\ (pc = "poll" => update_id \in 1..Len(updates[stage]))
  BY RefreshTypes
<1>10. Len(updates[stage]) \in Nat
  BY <1>9, RefreshTypes
<1>11. pc = "poll" =>
          /\ Len(updates'[stage]) >= Len(updates[stage])
          /\ updates'[stage][update_id].from = Own.from
          /\ updates'[stage][update_id].state = "COMPLETED" =>
               Own.state = "COMPLETED" \/ data'[stage] >= Own.from
  <2> SUFFICES ASSUME pc = "poll"
               PROVE  /\ Len(updates'[stage]) >= Len(updates[stage])
                      /\ updates'[stage][update_id].from = Own.from
                      /\ updates'[stage][update_id].state = "COMPLETED" =>
                           Own.state = "COMPLETED" \/ data'[stage] >= Own.from
    OBVIOUS
  <2>1. CASE stage = p /\ update_id = i
    BY <2>1, <1>2, <1>4, <1>6, <1>8, <1>9, <1>10 DEF Own
  <2>2. CASE stage = p /\ update_id # i
    BY <2>2, <1>4, <1>6, <1>9, <1>10 DEF Own
  <2>3. CASE stage # p
    BY <2>3, <1>6, <1>9, <1>10 DEF Own
  <2> QED BY <2>1, <2>2, <2>3
<1>12. UNCHANGED <<script, asked, passes>>
  BY DEF UpdateEnds
<1> QED BY <1>5, <1>8, <1>11, <1>12, SurroundingStep

-----------------------------------------------------------------------------
(* Steps of the script: the tables stay as they are.                       *)

LEMMA BeginPassKeepsInv == ASSUME RefreshInv, BeginPass PROVE RefreshInv'
<1> USE DEF RefreshInv
<1>1. /\ pc' = "post" /\ stage' = 1 /\ update_id' = 0 /\ elapsed' = 0
      /\ asked' = data[0] /\ passes' = passes + 1 /\ UNCHANGED <<data, updates>>
  BY DEF BeginPass, Call
<1>2. data[0] \in Nat /\ 1 \in Pipelines /\ 0 \in 0..MaxPolls
  BY RefreshTypes, RefreshAssumption DEF Pipelines
<1>3. TypeOK'
  <2>1. /\ pc' \in {"idle", "post", "poll", "done", "raised", "blocked"} /\ pc' # "poll"
        /\ stage' \in Pipelines /\ update_id' \in Nat /\ elapsed' \in 0..MaxPolls
        /\ asked' \in Nat /\ passes' \in Nat
    BY <1>1, <1>2 DEF TypeOK
  <2> QED BY <1>1, <2>1 DEF TypeOK
<1>4. Called'
  BY <1>1, <1>2 DEF Called, Reached
<1> QED BY <1>1, <1>3, <1>4 DEF OwnUpdate, PassIsFresh

\* A call that raises, and one that waits on.
LEMMA RaiseKeepsInv ==
  ASSUME RefreshInv, Raise, UNCHANGED <<data, asked, passes>>,
         updates' \in [Pipelines -> Seq(Updates)]
  PROVE  RefreshInv'
BY DEF Raise, RefreshInv, TypeOK, Called, OwnUpdate, PassIsFresh, Updates

LEMMA PostAcceptedKeepsInv == ASSUME RefreshInv, PostAccepted PROVE RefreshInv'
<1> USE DEF RefreshInv
<1>0. pc = "post" /\ Started(stage) /\ UNCHANGED <<data, asked, passes>> /\ stage \in Pipelines
  BY RefreshTypes DEF PostAccepted
<1>1. CASE Raise
  BY <1>0, <1>1, StartedAppends, RaiseKeepsInv
<1>2. CASE /\ pc' = "poll" /\ update_id' = Len(updates[stage]) + 1
           /\ elapsed' = 0 /\ UNCHANGED stage
  <2>1. /\ updates' \in [Pipelines -> Seq(Updates)]
        /\ Len(updates'[stage]) = Len(updates[stage]) + 1
        /\ updates'[stage][update_id'] = [state |-> "RUNNING", from |-> data[stage - 1]]
    BY <1>0, <1>2, StartedAppends
  <2>2. Len(updates[stage]) \in Nat
    BY <1>0, RefreshTypes
  <2>3. update_id' \in DOMAIN updates'[stage]
    BY <1>0, <1>2, <2>1, <2>2
  <2>4. TypeOK'
    <3>1. /\ pc' \in {"idle", "post", "poll", "done", "raised", "blocked"} /\ stage' \in Pipelines
          /\ update_id' \in Nat /\ elapsed' \in 0..MaxPolls
      BY <1>0, <1>2, <2>2, RefreshAssumption
    <3> QED BY <1>0, <1>2, <2>1, <2>3, <3>1 DEF TypeOK, Updates
  <2>5. Reached(stage - 1)
    BY <1>0 DEF Called
  <2>6. stage - 1 \in 0..(stage - 1)
    BY <1>0, RefreshAssumption DEF Pipelines
  <2>7. data[stage - 1] >= asked
    BY <2>5, <2>6 DEF Reached
  <2>8. Own'.from = data[stage - 1] /\ Own'.state = "RUNNING"
    BY <1>2, <2>1 DEF Own
  <2>9. OwnUpdate'
    BY <1>0, <2>7, <2>8 DEF OwnUpdate
  <2>10. Called' /\ PassIsFresh'
    BY <1>0, <1>2, <2>5 DEF Called, Reached, PassIsFresh
  <2> QED BY <2>4, <2>9, <2>10
<1> QED BY <1>1, <1>2 DEF PostAccepted

LEMMA WaitKeepsInv ==
  ASSUME RefreshInv, pc = "poll", elapsed < MaxPolls, elapsed' = elapsed + 1,
         UNCHANGED <<data, updates, pc, stage, update_id, asked, passes>>
  PROVE  RefreshInv'
<1>1. elapsed' \in 0..MaxPolls
  BY RefreshAssumption DEF RefreshInv, TypeOK
<1> QED BY <1>1 DEF RefreshInv, TypeOK, Called, Reached, OwnUpdate, Own, PassIsFresh

\* A call returns: the layer reflects what the pass was asked for.
LEMMA ReturnedKeepsInv ==
  ASSUME RefreshInv, pc = "poll", Own.state = "COMPLETED", Returned,
         UNCHANGED <<data, updates, asked, passes>>
  PROVE  RefreshInv'
<1> USE DEF RefreshInv
<1>1. stage \in 1..LastLayer /\ LastLayer \in Nat
  BY RefreshTypes, RefreshAssumption DEF Pipelines
<1>2. Reached(stage)
  BY <1>1 DEF Called, OwnUpdate, Reached
<1>3. CASE stage < LastLayer
  <2>1. pc' = "post" /\ stage' = stage + 1 /\ update_id' = 0 /\ elapsed' = 0
    BY <1>3 DEF Returned, Call
  <2>2. stage' \in Pipelines /\ 0 \in 0..MaxPolls
    BY <1>1, <1>3, <2>1, RefreshAssumption DEF Pipelines
  <2>3. TypeOK'
    BY <2>1, <2>2 DEF TypeOK
  <2>4. Called'
    BY <1>1, <1>2, <2>1 DEF Called, Reached
  <2> QED BY <2>1, <2>3, <2>4 DEF OwnUpdate, PassIsFresh
<1>4. CASE stage = LastLayer
  <2>1. pc' = "done" /\ UNCHANGED <<stage, update_id, elapsed>>
    BY <1>4, <1>1 DEF Returned
  <2>2. data[LastLayer] >= asked
    BY <1>1, <1>2, <1>4 DEF Reached
  <2> QED BY <2>1, <2>2 DEF TypeOK, Called, OwnUpdate, PassIsFresh
<1> QED BY <1>1, <1>3, <1>4

\* A request that blocks the script may have started an update.
LEMMA RequestBlocksKeepsInv == ASSUME RefreshInv, RequestBlocks PROVE RefreshInv'
<1>1. updates' \in [Pipelines -> Seq(Updates)]
  <2>1. updates \in [Pipelines -> Seq(Updates)] /\ stage \in Pipelines /\ TypeOK
    BY RefreshTypes DEF RefreshInv
  <2> QED BY <2>1, StartedAppends DEF RequestBlocks
<1>2. pc' = "blocked" /\ UNCHANGED <<data, stage, update_id, elapsed, asked, passes>>
  BY DEF RequestBlocks
<1> QED BY <1>1, <1>2 DEF RefreshInv, TypeOK, Called, OwnUpdate, PassIsFresh, Updates

LEMMA ScriptKeepsInv == ASSUME RefreshInv, ScriptStep PROVE RefreshInv'
<1>1. CASE PostAccepted
  BY <1>1, PostAcceptedKeepsInv
<1>2. updates \in [Pipelines -> Seq(Updates)]
  BY RefreshTypes DEF RefreshInv
<1>3. CASE PostRefused
  BY <1>2, <1>3, RaiseKeepsInv DEF PostRefused
<1>4. CASE PollWarned
  BY <1>2, <1>4, RaiseKeepsInv, WaitKeepsInv DEF PollWarned
<1>5. CASE PollAnswered
  BY <1>2, <1>5, RaiseKeepsInv, WaitKeepsInv, ReturnedKeepsInv DEF PollAnswered, Own
<1>6. CASE TimedOut
  BY <1>2, <1>6, RaiseKeepsInv DEF TimedOut
<1>7. CASE RequestBlocks
  BY <1>7, RequestBlocksKeepsInv
<1> QED BY <1>1, <1>3, <1>4, <1>5, <1>6, <1>7 DEF ScriptStep

LEMMA NextKeepsInv == ASSUME RefreshInv, [Next]_vars PROVE RefreshInv'
<1>1. CASE Land
  BY <1>1, LandKeepsInv
<1>2. CASE \E p \in Pipelines : StartedElsewhere(p)
  BY <1>2, StartedElsewhereKeepsInv
<1>3. CASE \E p \in Pipelines : \E i \in DOMAIN updates[p], s \in EndStates :
              UpdateEnds(p, i, s)
  BY <1>3, UpdateEndsKeepsInv
<1>4. CASE BeginPass
  BY <1>4, BeginPassKeepsInv
<1>5. CASE ScriptStep
  BY <1>5, ScriptKeepsInv
<1>6. CASE UNCHANGED vars
  BY <1>6 DEF vars, script, RefreshInv, TypeOK, Called, Reached, OwnUpdate, Own, PassIsFresh
<1> QED BY <1>1, <1>2, <1>3, <1>4, <1>5, <1>6 DEF Next

-----------------------------------------------------------------------------
(* The theorems                                                            *)

LEMMA RefreshInvariant == Spec => []RefreshInv
BY InitInv, NextKeepsInv, PTL DEF Spec

(* When a pass returns gold reflects what had landed when it began, for any *)
(* number of layers, polls and updates started elsewhere.                  *)
THEOREM PassIsFreshHolds == Spec => []PassIsFresh
<1>1. RefreshInv => PassIsFresh
  BY DEF RefreshInv
<1> QED BY <1>1, RefreshInvariant, PTL

(* The variables keep their types, and the script polls its own update.    *)
THEOREM RefreshTypeOK == Spec => []TypeOK
<1>1. RefreshInv => TypeOK
  BY DEF RefreshInv
<1> QED BY <1>1, RefreshInvariant, PTL
=============================================================================
