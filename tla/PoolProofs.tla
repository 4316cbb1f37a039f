----------------------------- MODULE PoolProofs -----------------------------
(***************************************************************************)
(* LandedOnce and ResultIsTrue for any slices, inputs, numbers of records, *)
(* attempts and thresholds.                                                *)
(*                                                                         *)
(* An input is waiting, being fetched, or done with in one of three ways;  *)
(* in each case what its file holds and what the result of its chunk says  *)
(* of it follow (WaitingOK, FetchedOK, DoneOK).  A collected chunk has     *)
(* passed its result on as it is, and a chunk that threw only its error    *)
(* (PassedOn).                                                             *)
(***************************************************************************)
EXTENDS StagePool, StageOutcomes, FiniteSetTheorems, TLAPS

\* The result of a chunk, or the totals, do not mention an input.
Silent(i, r) ==
  r.processed[i] = 0 /\ i \notin r.skipped /\ i \notin r.failed /\ i \notin r.emitted

\* They agree on an input.
Agree(i, r, t) ==
  /\ r.processed[i] = t.processed[i]
  /\ i \in r.skipped <=> i \in t.skipped
  /\ i \in r.failed <=> i \in t.failed
  /\ i \in r.emitted <=> i \in t.emitted

Current(s) == IF Trying(s) THEN {chunk[s].input} ELSE {}

SliceOK(s) ==
  /\ chunk[s].todo \cup Current(s) \subseteq Mine(s)
  /\ Current(s) \cap chunk[s].todo = {}
  /\ chunk[s].pc = "done" => chunk[s].todo = {}
  /\ chunk[s].pc \in {"auth", "next"} => chunk[s].written = 0 /\ chunk[s].held = 0
  /\ \A i \in Inputs \ Mine(s) : Silent(i, chunk[s].result)

\* What LandedOnce says of an input that is not being dumped: n are the lines in
\* the file, t the torn attempts.
Landed(i, n, t) ==
  /\ flushAt = 0 /\ t = 0 => n \in {0, remote[i]}
  /\ flushAt = 0 => n <= (t + 1) * remote[i]
  /\ n <= MaxRetries * remote[i]

WaitingOK(i, s) == file[i] = 0 /\ torn[i] = 0 /\ Silent(i, chunk[s].result)

\* Each earlier attempt, but without auto-flush only a torn one, may have left
\* what it read; this one has left what it does not hold back.
FetchedOK(i, s) ==
  /\ chunk[s].result.processed[i] = IF flushAt = 0 THEN file[i] ELSE 0
  /\ i \notin chunk[s].result.skipped
  /\ i \notin chunk[s].result.failed
  /\ i \notin chunk[s].result.emitted
  /\ chunk[s].attempt >= 1 /\ chunk[s].written <= remote[i]
  /\ chunk[s].pc = "dump" => chunk[s].written = remote[i]
  /\ chunk[s].written <= file[i] + chunk[s].held
  /\ file[i] + chunk[s].held <= (chunk[s].attempt - 1) * remote[i] + chunk[s].written
  /\ flushAt = 0 =>
       /\ chunk[s].pc # "flush"
       /\ chunk[s].pc = "fetch" => chunk[s].held = chunk[s].written
       /\ torn[i] = 0 => file[i] + chunk[s].held = chunk[s].written
       /\ file[i] + chunk[s].held <= torn[i] * remote[i] + chunk[s].written

\* An input that is done with: r is the result, n the lines in the file.
DoneWith(i, r, n) ==
  /\ flushAt = 0 => n = r.processed[i]
  /\ r.processed[i] <= n
  /\ i \in r.emitted => remote[i] > 0 /\ n >= remote[i]
  /\ i \in r.skipped \/ i \in r.failed \/ n >= remote[i]
DoneOK(i, s) == DoneWith(i, chunk[s].result, file[i])

\* Of the input a chunk threw at there are only the lines.
InputOK(i, s) ==
  /\ i \in chunk[s].todo => WaitingOK(i, s)
  /\ i \in Current(s) => FetchedOK(i, s)
  /\ i \notin chunk[s].todo \cup Current(s) =>
       Landed(i, file[i], torn[i]) /\ (chunk[s].pc # "fatal" => DoneOK(i, s))

PassedOn(i, s) ==
  IF s \in collected /\ chunk[s].pc = "done" THEN Agree(i, chunk[s].result, total)
                                             ELSE Silent(i, total)

CollectedOK(s) ==
  /\ s \in collected => chunk[s].pc \in {"done", "fatal"}
  /\ s \in collected /\ chunk[s].pc = "fatal" => s \in total.chunks

StatusOK == status # "running" => collected = Slices /\ status = Verdict

PoolInv ==
  /\ TypeInv /\ StatusOK
  /\ \A s \in Slices : SliceOK(s) /\ CollectedOK(s)
  /\ \A s \in Slices : \A i \in Mine(s) : InputOK(i, s) /\ PassedOn(i, s)

-----------------------------------------------------------------------------
(* The attempts.                                                           *)

(* Of a attempts, the last of which has read w of m records, there are no  *)
(* more lines than a times the records.                                    *)
LEMMA TimesBound ==
  ASSUME NEW a \in Nat, NEW m \in Nat, NEW w \in Nat, NEW n \in Nat,
         w <= m, n <= a * m + w
  PROVE  n <= (a + 1) * m /\ (a + 1) * m \in Nat
<1>1. (a + 1) * m = a * m + m /\ a * m \in Nat
  OBVIOUS
<1> QED
  BY <1>1

LEMMA TimesGrows ==
  ASSUME NEW a \in Nat, NEW b \in Nat, a <= b, NEW m \in Nat
  PROVE  a * m <= b * m /\ a * m \in Nat /\ b * m \in Nat
<1>1. b - a \in Nat /\ b * m = a * m + (b - a) * m
  OBVIOUS
<1>2. (b - a) * m \in Nat /\ a * m \in Nat /\ b * m \in Nat
  BY <1>1
<1> QED
  BY <1>1, <1>2

(* What earlier attempts and this one have written are no more records     *)
(* than the attempts may write.                                            *)
LEMMA AttemptsBound ==
  ASSUME NEW a \in Nat, 1 <= a, a <= MaxRetries, NEW n \in Nat, NEW w \in Nat, NEW m \in Nat,
         w <= m, n <= (a - 1) * m + w
  PROVE  n <= a * m /\ n <= MaxRetries * m /\ a * m \in Nat /\ MaxRetries * m \in Nat
<1>1. MaxRetries \in Nat /\ a - 1 \in Nat /\ (a - 1) + 1 = a
  BY PoolAssumption
<1>2. n <= a * m /\ a * m \in Nat
  BY <1>1, TimesBound
<1>3. a * m <= MaxRetries * m /\ MaxRetries * m \in Nat
  BY <1>1, TimesGrows
<1> QED
  BY <1>2, <1>3

-----------------------------------------------------------------------------
(* Steps of a slice.                                                       *)

(* An input that a step does not touch.                                    *)
LEMMA InputUntouched ==
  ASSUME NEW s \in Slices, NEW i \in Mine(s), InputOK(i, s), UNCHANGED given,
         file'[i] = file[i], torn'[i] = torn[i], Agree(i, chunk[s].result, chunk'[s].result),
         i \in chunk'[s].todo <=> i \in chunk[s].todo,
         i \notin Current(s), i \notin Current(s)', chunk[s].pc # "fatal"
  PROVE  InputOK(i, s)'
BY DEF InputOK, WaitingOK, Landed, DoneOK, DoneWith, Agree, Silent, given

(* A step of one slice leaves the others, and what is collected, alone.    *)
LEMMA SliceStep ==
  ASSUME PoolInv, NEW s \in Slices, chunk[s].pc \notin {"done", "fatal"},
         NEW new \in Chunks, chunk' = [chunk EXCEPT ![s] = new],
         file' \in [Inputs -> Nat], \A i \in Inputs \ Mine(s) : file'[i] = file[i],
         torn' \in [Inputs -> Nat], \A i \in Inputs \ Mine(s) : torn'[i] = torn[i],
         UNCHANGED <<given, collected, total, status>>,
         SliceOK(s)', \A i \in Mine(s) : InputOK(i, s)'
  PROVE  PoolInv'
<1>1. TypeInv'
  BY DEF PoolInv, TypeInv, given
<1>2. s \notin collected
  BY DEF PoolInv, CollectedOK
<1>3. StatusOK'
  BY <1>2 DEF PoolInv, StatusOK
<1>4. \A q \in Slices \ {s} : chunk'[q] = chunk[q]
  BY DEF PoolInv, TypeInv
<1>5. ASSUME NEW q \in Slices PROVE SliceOK(q)' /\ CollectedOK(q)'
  <2>1. CASE q = s
    BY <1>2, <2>1 DEF CollectedOK
  <2>2. CASE q # s
    BY <1>4, <2>2 DEF PoolInv, SliceOK, CollectedOK, Current, Trying, Writing, Mine
  <2> QED
    BY <2>1, <2>2
<1>6. ASSUME NEW q \in Slices, NEW i \in Mine(q) PROVE InputOK(i, q)' /\ PassedOn(i, q)'
  <2>1. CASE q = s
    BY <1>2, <1>6, <2>1 DEF PoolInv, PassedOn, Silent
  <2>2. CASE q # s
    <3>1. file'[i] = file[i] /\ torn'[i] = torn[i]
      BY <1>6, <2>2 DEF Mine
    <3>2. Current(q)' = Current(q) /\ chunk'[q] = chunk[q] /\ UNCHANGED given
      BY <1>4, <2>2 DEF Current, Trying, Writing
    <3>3. InputOK(i, q)'
      BY <1>6, <3>1, <3>2 DEF PoolInv, InputOK, WaitingOK, FetchedOK, Landed, DoneOK,
                              DoneWith, Silent, given
    <3>4. PassedOn(i, q)'
      BY <1>4, <1>6, <2>2 DEF PoolInv, PassedOn, Silent, Agree
    <3> QED
      BY <3>3, <3>4
  <2> QED
    BY <2>1, <2>2
<1>7. Mine(s)' = Mine(s) /\ \A q \in Slices : Mine(q)' = Mine(q)
  BY DEF Mine
<1> QED
  BY <1>1, <1>3, <1>5, <1>6, <1>7 DEF PoolInv

LEMMA InitPool == Init => PoolInv
<1> SUFFICES ASSUME Init PROVE PoolInv
  OBVIOUS
<1>1. NoRecords \in [Inputs -> Nat] /\ \A i \in Inputs : NoRecords[i] = 0
  BY DEF NoRecords
<1>2. NoResult \in Results /\ \A i \in Inputs : Silent(i, NoResult)
  BY <1>1 DEF NoResult, Results, Silent
<1>3. ASSUME NEW s \in Slices
      PROVE  /\ chunk[s] \in Chunks /\ chunk[s].pc = "auth" /\ chunk[s].todo = Mine(s)
             /\ chunk[s].result = NoResult /\ chunk[s].written = 0 /\ chunk[s].held = 0
  BY <1>2, PoolAssumption DEF Init, Chunks, Mine
<1>4. total \in Totals /\ \A i \in Inputs : Silent(i, total)
  BY <1>1 DEF Init, Totals, Silent
<1>5. TypeInv
  <2>1. chunk \in [Slices -> Chunks]
    BY <1>3 DEF Init
  <2> QED
    BY <1>1, <1>4, <2>1 DEF Init, TypeInv
<1>6. \A s \in Slices : SliceOK(s) /\ CollectedOK(s)
  BY <1>1, <1>2, <1>3 DEF Init, SliceOK, CollectedOK, Current, Trying, Writing
<1>7. ASSUME NEW s \in Slices, NEW i \in Mine(s) PROVE InputOK(i, s) /\ PassedOn(i, s)
  BY <1>1, <1>2, <1>3, <1>4
     DEF Init, InputOK, WaitingOK, PassedOn, Current, Trying, Writing, Mine
<1> QED
  BY <1>5, <1>6, <1>7 DEF PoolInv, StatusOK, Init

(* What the types say of a slice and of the input it tries.                *)
LEMMA SliceTypes ==
  ASSUME PoolInv, NEW s \in Slices
  PROVE  /\ chunk[s] \in Chunks /\ chunk[s].result \in Results
         /\ Mine(s) \subseteq Inputs /\ chunk[s].todo \subseteq Mine(s)
         /\ Trying(s) => chunk[s].input \in Mine(s) /\ chunk[s].input \notin chunk[s].todo
         /\ \A i \in Inputs : remote[i] \in Nat /\ file[i] \in Nat /\ torn[i] \in Nat
         /\ flushAt \in Nat
         /\ file \in [Inputs -> Nat] /\ torn \in [Inputs -> Nat]
<1>1. remote \in [Inputs -> Nat] /\ flushAt \in Nat
  BY PoolAssumption DEF PoolInv, TypeInv
<1>2. Trying(s) => chunk[s].input \in Mine(s) /\ chunk[s].input \notin chunk[s].todo
  BY DEF PoolInv, SliceOK, Current
<1> QED
  BY <1>1, <1>2 DEF PoolInv, TypeInv, Chunks, Results, SliceOK, Mine

(* A step of a slice that does not try an input and goes on to none.       *)
LEMMA IdleStep ==
  ASSUME PoolInv, NEW s \in Slices, ~Trying(s), NEW new \in Chunks,
         chunk' = [chunk EXCEPT ![s] = new], chunk[s].pc \notin {"done", "fatal"},
         new.pc \in {"next", "done", "fatal"}, new.pc = "done" => new.todo = {},
         new.todo = chunk[s].todo, new.result = chunk[s].result,
         new.written = chunk[s].written, new.held = chunk[s].held,
         UNCHANGED <<given, file, torn, collected, total, status>>
  PROVE  PoolInv'
<1>1. chunk'[s] = new /\ chunk[s].pc \in {"auth", "next"}
  BY SliceTypes DEF PoolInv, TypeInv, Chunks, Trying, Writing
<1>2. Current(s) = {} /\ Current(s)' = {} /\ Mine(s)' = Mine(s)
  BY <1>1 DEF Current, Trying, Writing, Mine
<1>3. SliceOK(s)'
  BY <1>1, <1>2 DEF PoolInv, SliceOK, Silent
<1>4. \A i \in Mine(s) : InputOK(i, s)'
  BY <1>1, <1>2, InputUntouched DEF PoolInv, Agree
<1>5. file' \in [Inputs -> Nat] /\ torn' \in [Inputs -> Nat]
  BY DEF PoolInv, TypeInv
<1> QED
  BY <1>3, <1>4, <1>5, SliceStep

LEMMA AuthenticateKeeps == ASSUME PoolInv, NEW s \in Slices, Authenticate(s) PROVE PoolInv'
<1> DEFINE new == [chunk[s] EXCEPT !.pc = "next"]
<1>1. chunk[s] \in Chunks
  BY SliceTypes
<1>2. /\ new \in Chunks /\ new.pc = "next" /\ new.todo = chunk[s].todo
      /\ new.result = chunk[s].result
      /\ new.written = chunk[s].written /\ new.held = chunk[s].held
  BY <1>1 DEF Chunks
<1>3. chunk' = [chunk EXCEPT ![s] = new]
  BY Zenon DEF Authenticate
<1>4. /\ chunk[s].pc = "auth" /\ ~Trying(s)
      /\ UNCHANGED <<given, file, torn, collected, total, status>>
  BY DEF Authenticate, Trying, Writing
<1> HIDE DEF new
<1> QED
  BY <1>2, <1>3, <1>4, IdleStep

(* The next input is fetched, for the first time; or there is none left.   *)
LEMMA NextInputKeeps == ASSUME PoolInv, NEW s \in Slices, NextInput(s) PROVE PoolInv'
<1>1. /\ chunk[s] \in Chunks /\ chunk[s].pc = "next" /\ Current(s) = {} /\ ~Trying(s)
      /\ Mine(s)' = Mine(s)
  BY SliceTypes DEF NextInput, Current, Trying, Writing, Mine
<1>2. /\ UNCHANGED <<given, file, torn, collected, total, status>>
      /\ file' \in [Inputs -> Nat] /\ torn' \in [Inputs -> Nat]
  BY DEF NextInput, PoolInv, TypeInv
<1>3. CASE chunk[s].todo = {} /\ chunk' = [chunk EXCEPT ![s].pc = "done"]
  <2> DEFINE new == [chunk[s] EXCEPT !.pc = "done"]
  <2>1. /\ new \in Chunks /\ new.pc = "done" /\ new.todo = chunk[s].todo
        /\ new.result = chunk[s].result
        /\ new.written = chunk[s].written /\ new.held = chunk[s].held
    BY <1>1 DEF Chunks
  <2>2. chunk' = [chunk EXCEPT ![s] = new]
    BY <1>3, Zenon
  <2> HIDE DEF new
  <2> QED
    BY <1>1, <1>2, <1>3, <2>1, <2>2, IdleStep
<1>4. ASSUME NEW i \in chunk[s].todo,
             chunk' = [chunk EXCEPT ![s].pc = "fetch", ![s].todo = @ \ {i},
                                    ![s].input = i, ![s].attempt = 1]
      PROVE  PoolInv'
  <2> DEFINE new == [chunk[s] EXCEPT !.pc = "fetch", !.todo = @ \ {i}, !.input = i, !.attempt = 1]
  <2>1. i \in Mine(s) /\ i \in Inputs /\ 1 \in 0..MaxRetries
    BY SliceTypes, PoolAssumption
  <2>2. /\ new \in Chunks /\ new.pc = "fetch" /\ new.todo = chunk[s].todo \ {i}
        /\ new.input = i /\ new.attempt = 1 /\ new.result = chunk[s].result
        /\ new.written = chunk[s].written /\ new.held = chunk[s].held
    BY <1>1, <2>1 DEF Chunks
  <2>3. chunk' = [chunk EXCEPT ![s] = new]
    BY <1>4, Zenon
  <2> HIDE DEF new
  <2>4. chunk'[s] = new
    BY <2>3 DEF PoolInv, TypeInv
  <2>5. Current(s)' = {i}
    BY <2>2, <2>4 DEF Current, Trying
  <2>6. SliceOK(s)'
    BY <1>1, <2>1, <2>2, <2>4, <2>5 DEF PoolInv, SliceOK, Silent
  <2>7. ASSUME NEW j \in Mine(s), j # i PROVE InputOK(j, s)'
    BY <1>1, <1>2, <2>2, <2>4, <2>5, <2>7, InputUntouched DEF PoolInv, Agree
  <2>8. InputOK(i, s)'
    <3>1. WaitingOK(i, s)
      BY <2>1 DEF PoolInv, InputOK
    <3>2. chunk[s].written = 0 /\ chunk[s].held = 0
      BY <1>1 DEF PoolInv, SliceOK
    <3>3. remote'[i] \in Nat
      BY <1>2, <2>1, SliceTypes DEF given
    <3> QED
      BY <1>2, <2>2, <2>4, <2>5, <3>1, <3>2, <3>3
         DEF InputOK, WaitingOK, FetchedOK, Silent, given
  <2> QED
    BY <1>1, <1>2, <2>2, <2>3, <2>6, <2>7, <2>8, SliceStep
<1> QED
  BY <1>3, <1>4 DEF NextInput

(* What is known of an attempt.                                            *)
LEMMA TryTypes ==
  ASSUME PoolInv, NEW s \in Slices, Trying(s)
  PROVE  LET i == chunk[s].input IN
         /\ chunk[s] \in Chunks /\ chunk[s].pc \in {"fetch", "flush", "dump"}
         /\ i \in Inputs /\ i \in Mine(s) /\ i \notin chunk[s].todo
         /\ Current(s) = {i} /\ Mine(s)' = Mine(s) /\ FetchedOK(i, s)
         /\ remote[i] \in Nat /\ file[i] \in Nat /\ torn[i] \in Nat /\ flushAt \in Nat
         /\ chunk[s].written \in Nat /\ chunk[s].held \in Nat /\ chunk[s].attempt \in Nat
         /\ chunk[s].attempt <= MaxRetries /\ MaxRetries \in Nat
         /\ chunk[s].result.processed \in [Inputs -> Nat]
<1> DEFINE i == chunk[s].input
<1>1. /\ chunk[s] \in Chunks /\ i \in Inputs /\ i \in Mine(s) /\ i \notin chunk[s].todo
      /\ remote[i] \in Nat /\ file[i] \in Nat /\ torn[i] \in Nat /\ flushAt \in Nat
      /\ chunk[s].result \in Results
  BY SliceTypes
<1>2. chunk[s].pc \in {"fetch", "flush", "dump"} /\ Current(s) = {i} /\ Mine(s)' = Mine(s)
  BY DEF Trying, Writing, Current, Mine
<1>3. FetchedOK(i, s)
  BY <1>1, <1>2 DEF PoolInv, InputOK
<1>4. /\ chunk[s].written \in Nat /\ chunk[s].held \in Nat /\ chunk[s].attempt \in Nat
      /\ chunk[s].attempt <= MaxRetries /\ MaxRetries \in Nat
      /\ chunk[s].result.processed \in [Inputs -> Nat]
  BY <1>1, PoolAssumption DEF Chunks, Results
<1> QED
  BY <1>1, <1>2, <1>3, <1>4

(* A step that goes on trying the same input.                              *)
LEMMA TryStep ==
  ASSUME PoolInv, NEW s \in Slices, Trying(s), NEW i, i = chunk[s].input,
         NEW new \in Chunks, chunk' = [chunk EXCEPT ![s] = new],
         new.pc \in {"fetch", "flush", "dump"}, new.input = i, new.todo = chunk[s].todo,
         \A j \in Inputs \ {i} : Agree(j, chunk[s].result, new.result),
         file' \in [Inputs -> Nat], \A j \in Inputs \ {i} : file'[j] = file[j],
         torn' \in [Inputs -> Nat], \A j \in Inputs \ {i} : torn'[j] = torn[j],
         UNCHANGED <<given, collected, total, status>>,
         FetchedOK(i, s)'
  PROVE  PoolInv'
<1>1. /\ i \in Inputs /\ i \in Mine(s) /\ i \notin chunk[s].todo /\ Current(s) = {i}
      /\ Mine(s)' = Mine(s) /\ chunk[s].pc \notin {"done", "fatal"}
  BY TryTypes
<1>2. chunk'[s] = new
  BY DEF PoolInv, TypeInv
<1>3. Current(s)' = {i}
  BY <1>2 DEF Current, Trying, Writing
<1>4. SliceOK(s)'
  <2>1. \A j \in Inputs \ Mine(s) : Silent(j, new.result)
    BY <1>1 DEF PoolInv, SliceOK, Silent, Agree
  <2> QED
    BY <1>1, <1>2, <1>3, <2>1 DEF PoolInv, SliceOK, Silent
<1>5. ASSUME NEW j \in Mine(s), j # i PROVE InputOK(j, s)'
  <2>1. j \in Inputs
    BY DEF Mine
  <2> QED
    BY <1>1, <1>2, <1>3, <1>5, <2>1, InputUntouched DEF PoolInv
<1>6. InputOK(i, s)'
  BY <1>1, <1>2, <1>3 DEF InputOK
<1> QED
  BY <1>1, <1>4, <1>5, <1>6, SliceStep

(* A record is held back.                                                  *)
LEMMA FetchRecordKeeps == ASSUME PoolInv, NEW s \in Slices, FetchRecord(s) PROVE PoolInv'
<1> PICK i : i = chunk[s].input
  OBVIOUS
<1> DEFINE held == chunk[s].held + 1
           flush == flushAt > 0 /\ held >= flushAt
           to == IF flush THEN "flush" ELSE "fetch"
           new == [chunk[s] EXCEPT !.written = @ + 1, !.held = held, !.pc = to]
<1>1. Trying(s) /\ chunk[s].pc = "fetch" /\ chunk[s].written < remote[i]
  BY DEF FetchRecord, Trying
<1>2. /\ chunk[s] \in Chunks /\ FetchedOK(i, s) /\ flushAt \in Nat
      /\ chunk[s].written \in Nat /\ chunk[s].held \in Nat /\ chunk[s].attempt \in Nat
      /\ file[i] \in Nat /\ remote[i] \in Nat /\ torn[i] \in Nat
  BY <1>1, TryTypes
<1>3. to \in {"fetch", "flush"} /\ (flushAt = 0 => to = "fetch") /\ held \in Nat
  BY <1>2
<1>4. chunk' = [chunk EXCEPT ![s] = new]
  BY Zenon DEF FetchRecord
<1>5. UNCHANGED <<given, file, torn, collected, total, status>>
  BY DEF FetchRecord
<1> HIDE DEF to, held
<1>6. /\ new \in Chunks /\ new.pc = to /\ new.input = i /\ new.todo = chunk[s].todo
      /\ new.result = chunk[s].result /\ new.attempt = chunk[s].attempt
      /\ new.written = chunk[s].written + 1 /\ new.held = held
  <2>1. chunk[s].written + 1 \in Nat
    BY <1>2
  <2> QED
    BY <1>2, <1>3, <2>1 DEF Chunks
<1> HIDE DEF new
<1>7. chunk'[s] = new
  BY <1>4 DEF PoolInv, TypeInv
<1>8. FetchedOK(i, s)'
  <2> DEFINE before == (chunk[s].attempt - 1) * remote[i]
             left == torn[i] * remote[i]
  <2>1. before \in Int /\ left \in Int
    BY <1>2
  <2>2. /\ chunk[s].written <= file[i] + chunk[s].held
        /\ file[i] + chunk[s].held <= before + chunk[s].written
        /\ flushAt = 0 =>
             /\ chunk[s].held = chunk[s].written
             /\ torn[i] = 0 => file[i] + chunk[s].held = chunk[s].written
             /\ file[i] + chunk[s].held <= left + chunk[s].written
    BY <1>1, <1>2 DEF FetchedOK
  <2> HIDE DEF before, left
  <2>3. /\ new.written <= file[i] + new.held
        /\ file[i] + new.held <= before + new.written
        /\ flushAt = 0 =>
             /\ new.held = new.written
             /\ torn[i] = 0 => file[i] + new.held = new.written
             /\ file[i] + new.held <= left + new.written
    BY <1>2, <1>6, <2>1, <2>2 DEF held
  <2>4. new.written <= remote[i]
    BY <1>1, <1>2, <1>6
  <2>5. /\ chunk[s].result.processed[i] = IF flushAt = 0 THEN file[i] ELSE 0
        /\ i \notin chunk[s].result.skipped /\ i \notin chunk[s].result.failed
        /\ i \notin chunk[s].result.emitted /\ chunk[s].attempt >= 1
    BY <1>2 DEF FetchedOK
  <2>6. UNCHANGED <<remote, flushAt, file, torn>>
    BY <1>5 DEF given
  <2> QED
    BY <1>3, <1>6, <1>7, <2>3, <2>4, <2>5, <2>6 DEF FetchedOK, before, left
<1>9. \A j \in Inputs \ {i} : Agree(j, chunk[s].result, new.result)
  BY <1>6 DEF Agree
<1>10. /\ file' \in [Inputs -> Nat] /\ \A j \in Inputs \ {i} : file'[j] = file[j]
       /\ torn' \in [Inputs -> Nat] /\ \A j \in Inputs \ {i} : torn'[j] = torn[j]
       /\ new.pc \in {"fetch", "flush", "dump"}
       /\ UNCHANGED <<given, collected, total, status>>
  BY <1>3, <1>5, <1>6, SliceTypes
<1> QED
  BY <1>1, <1>4, <1>6, <1>8, <1>9, <1>10, TryStep

(* The fetch is through: all records are read, and none is written by it.  *)
LEMMA FetchReturnsKeeps == ASSUME PoolInv, NEW s \in Slices, FetchReturns(s) PROVE PoolInv'
<1> PICK i : i = chunk[s].input
  OBVIOUS
<1> DEFINE new == [chunk[s] EXCEPT !.pc = "dump"]
<1>1. Trying(s) /\ chunk[s].pc = "fetch" /\ chunk[s].written = remote[i]
  BY DEF FetchReturns, Trying
<1>2. chunk[s] \in Chunks /\ FetchedOK(i, s)
  BY <1>1, TryTypes
<1>3. chunk' = [chunk EXCEPT ![s] = new]
  BY Zenon DEF FetchReturns
<1>4. UNCHANGED <<given, file, torn, collected, total, status>>
  BY DEF FetchReturns
<1>5. /\ new \in Chunks /\ new.pc = "dump" /\ new.input = i /\ new.todo = chunk[s].todo
      /\ new.result = chunk[s].result /\ new.attempt = chunk[s].attempt
      /\ new.written = chunk[s].written /\ new.held = chunk[s].held
  BY <1>2 DEF Chunks
<1> HIDE DEF new
<1>6. chunk'[s] = new
  BY <1>3 DEF PoolInv, TypeInv
<1>7. FetchedOK(i, s)'
  <2>1. UNCHANGED <<remote, flushAt, file, torn>>
    BY <1>4 DEF given
  <2> QED
    BY <1>1, <1>2, <1>5, <1>6, <2>1 DEF FetchedOK
<1>8. \A j \in Inputs \ {i} : Agree(j, chunk[s].result, new.result)
  BY <1>5 DEF Agree
<1>9. /\ file' \in [Inputs -> Nat] /\ \A j \in Inputs \ {i} : file'[j] = file[j]
      /\ torn' \in [Inputs -> Nat] /\ \A j \in Inputs \ {i} : torn'[j] = torn[j]
      /\ new.pc \in {"fetch", "flush", "dump"}
      /\ UNCHANGED <<given, collected, total, status>>
  BY <1>4, <1>5, SliceTypes
<1> QED
  BY <1>1, <1>3, <1>5, <1>7, <1>8, <1>9, TryStep

(* A record moves from the writer to the file; without auto-flush to the   *)
(* count as well.                                                          *)
LEMMA WriteLineKeeps == ASSUME PoolInv, NEW s \in Slices, WriteLine(s) PROVE PoolInv'
<1> PICK i : i = chunk[s].input
  OBVIOUS
<1> DEFINE to == IF chunk[s].pc = "flush" /\ chunk[s].held = 1 THEN "fetch" ELSE chunk[s].pc
           count == chunk[s].result.processed
           counted == [count EXCEPT ![i] = IF flushAt = 0 THEN @ + 1 ELSE @]
           result == [chunk[s].result EXCEPT !.processed = counted]
           new == [chunk[s] EXCEPT !.held = @ - 1, !.pc = to, !.result = result]
<1>1. Trying(s) /\ Writing(s) /\ chunk[s].held > 0
  BY DEF WriteLine, Trying
<1>2. /\ chunk[s] \in Chunks /\ FetchedOK(i, s) /\ flushAt \in Nat /\ i \in Inputs
      /\ chunk[s].written \in Nat /\ chunk[s].held \in Nat /\ chunk[s].attempt \in Nat
      /\ file[i] \in Nat /\ remote[i] \in Nat /\ torn[i] \in Nat
      /\ chunk[s].pc \in {"fetch", "flush", "dump"} /\ count \in [Inputs -> Nat]
  BY <1>1, TryTypes
<1>3. /\ to \in {"fetch", "flush", "dump"} /\ (to = "dump" => chunk[s].pc = "dump")
      /\ flushAt = 0 => to = "dump"
  BY <1>1, <1>2 DEF FetchedOK, Writing
<1>4. chunk' = [chunk EXCEPT ![s] = new]
  BY Zenon DEF WriteLine
<1>5. /\ file' = [file EXCEPT ![i] = @ + 1]
      /\ UNCHANGED <<given, torn, collected, total, status>>
  BY DEF WriteLine
<1>6. /\ counted \in [Inputs -> Nat] /\ \A j \in Inputs \ {i} : counted[j] = count[j]
      /\ counted[i] = IF flushAt = 0 THEN count[i] + 1 ELSE count[i]
  BY <1>2
<1> HIDE DEF to, counted
<1>7. /\ result \in Results /\ result.processed = counted
      /\ result.skipped = chunk[s].result.skipped /\ result.failed = chunk[s].result.failed
      /\ result.emitted = chunk[s].result.emitted
  <2>1. chunk[s].result \in Results
    BY <1>2 DEF Chunks
  <2> QED
    BY <1>6, <2>1 DEF Results
<1> HIDE DEF result
<1>8. /\ new \in Chunks /\ new.pc = to /\ new.input = i /\ new.todo = chunk[s].todo
      /\ new.result = result /\ new.attempt = chunk[s].attempt
      /\ new.written = chunk[s].written /\ new.held = chunk[s].held - 1
  <2>1. chunk[s].held - 1 \in Nat
    BY <1>1, <1>2
  <2> QED
    BY <1>2, <1>3, <1>7, <2>1 DEF Chunks
<1> HIDE DEF new
<1>9. chunk'[s] = new
  BY <1>4 DEF PoolInv, TypeInv
<1>10. /\ file' \in [Inputs -> Nat] /\ file'[i] = file[i] + 1
       /\ \A j \in Inputs \ {i} : file'[j] = file[j]
       /\ torn' \in [Inputs -> Nat]
  BY <1>2, <1>5, SliceTypes
<1>11. FetchedOK(i, s)'
  <2>1. file'[i] + new.held = file[i] + chunk[s].held
    BY <1>2, <1>8, <1>10
  <2>2. new.result.processed[i] = IF flushAt = 0 THEN file'[i] ELSE 0
    BY <1>2, <1>6, <1>7, <1>8, <1>10 DEF FetchedOK
  <2>3. UNCHANGED <<remote, flushAt, torn>>
    BY <1>5 DEF given
  <2>4. /\ i \notin new.result.skipped /\ i \notin new.result.failed
        /\ i \notin new.result.emitted
        /\ new.attempt >= 1 /\ new.written <= remote[i]
        /\ new.pc = "dump" => new.written = remote[i]
        /\ new.written <= file'[i] + new.held
        /\ file'[i] + new.held <= (new.attempt - 1) * remote[i] + new.written
    BY <1>2, <1>3, <1>7, <1>8, <2>1 DEF FetchedOK
  <2>5. flushAt = 0 =>
          /\ new.pc # "flush" /\ new.pc # "fetch"
          /\ torn[i] = 0 => file'[i] + new.held = new.written
          /\ file'[i] + new.held <= torn[i] * remote[i] + new.written
    BY <1>2, <1>3, <1>8, <2>1 DEF FetchedOK
  <2> QED
    BY <1>9, <2>2, <2>3, <2>4, <2>5 DEF FetchedOK
<1>12. \A j \in Inputs \ {i} : Agree(j, chunk[s].result, new.result)
  BY <1>6, <1>7, <1>8 DEF Agree
<1>13. /\ \A j \in Inputs \ {i} : torn'[j] = torn[j]
       /\ new.pc \in {"fetch", "flush", "dump"}
       /\ UNCHANGED <<given, collected, total, status>>
  BY <1>3, <1>5, <1>8
<1> QED
  BY <1>1, <1>4, <1>8, <1>10, <1>11, <1>12, <1>13, TryStep

-----------------------------------------------------------------------------
(* A throw.                                                                *)

(* Whatever becomes of the input, what is there of it then is as it should *)
(* be, and no more than the attempts so far may have left.                 *)
LEMMA ThrowLands ==
  ASSUME PoolInv, NEW s \in Slices, Trying(s), Throw(s), NEW i, i = chunk[s].input
  PROVE  /\ torn' \in [Inputs -> Nat] /\ \A j \in Inputs \ {i} : torn'[j] = torn[j]
         /\ Landed(i, file[i], torn'[i])
         /\ file[i] <= chunk[s].attempt * remote[i]
         /\ flushAt = 0 => file[i] <= torn'[i] * remote[i]
         /\ flushAt = 0 /\ torn'[i] = 0 => file[i] = 0
<1>1. /\ FetchedOK(i, s) /\ flushAt \in Nat /\ i \in Inputs
      /\ chunk[s].written \in Nat /\ chunk[s].held \in Nat /\ chunk[s].attempt \in Nat
      /\ file[i] \in Nat /\ remote[i] \in Nat /\ torn[i] \in Nat
      /\ chunk[s].pc \in {"fetch", "flush", "dump"}
      /\ chunk[s].attempt <= MaxRetries /\ MaxRetries \in Nat
  BY TryTypes
<1>2. /\ torn' \in [Inputs -> Nat] /\ \A j \in Inputs \ {i} : torn'[j] = torn[j]
      /\ torn'[i] = IF Writing(s) THEN torn[i] + 1 ELSE torn[i]
  BY <1>1, SliceTypes DEF Throw
<1>3. file[i] <= chunk[s].attempt * remote[i] /\ file[i] <= MaxRetries * remote[i]
  <2>1. /\ chunk[s].attempt >= 1 /\ chunk[s].written <= remote[i]
        /\ file[i] + chunk[s].held <= (chunk[s].attempt - 1) * remote[i] + chunk[s].written
    BY <1>1 DEF FetchedOK
  <2>2. /\ file[i] + chunk[s].held <= chunk[s].attempt * remote[i]
        /\ file[i] + chunk[s].held <= MaxRetries * remote[i]
        /\ chunk[s].attempt * remote[i] \in Nat /\ MaxRetries * remote[i] \in Nat
    BY <1>1, <2>1, AttemptsBound
  <2> QED
    BY <1>1, <2>2
<1>4. ASSUME flushAt = 0
      PROVE  /\ file[i] <= torn'[i] * remote[i] /\ file[i] <= (torn'[i] + 1) * remote[i]
             /\ torn'[i] = 0 => file[i] = 0
  <2>1. /\ file[i] + chunk[s].held <= torn[i] * remote[i] + chunk[s].written
        /\ chunk[s].written <= remote[i] /\ chunk[s].pc # "flush"
        /\ chunk[s].pc = "fetch" => chunk[s].held = chunk[s].written
        /\ torn[i] = 0 => file[i] + chunk[s].held = chunk[s].written
    BY <1>1, <1>4 DEF FetchedOK
  <2>2. torn[i] * remote[i] \in Nat
    BY <1>1
  <2>3. file[i] <= torn'[i] * remote[i] /\ (torn'[i] = 0 => file[i] = 0)
    <3>1. CASE chunk[s].pc = "fetch"
      <4>1. torn'[i] = torn[i]
        BY <1>2, <3>1 DEF Writing
      <4> QED
        BY <1>1, <2>1, <2>2, <3>1, <4>1
    <3>2. CASE chunk[s].pc = "dump"
      <4>1. torn'[i] = torn[i] + 1
        BY <1>2, <3>2 DEF Writing
      <4>2. /\ file[i] + chunk[s].held <= (torn[i] + 1) * remote[i]
            /\ (torn[i] + 1) * remote[i] \in Nat
        BY <1>1, <2>1, TimesBound
      <4> QED
        BY <1>1, <4>1, <4>2
    <3> QED
      BY <1>1, <2>1, <3>1, <3>2
  <2>4. torn'[i] \in Nat
    BY <1>1, <1>2
  <2>5. file[i] <= torn'[i] * remote[i] + 0 /\ 0 <= remote[i]
    BY <1>1, <2>3, <2>4
  <2>6. file[i] <= (torn'[i] + 1) * remote[i]
    BY <1>1, <2>4, <2>5, TimesBound
  <2> QED
    BY <2>3, <2>6
<1> QED
  BY <1>2, <1>3, <1>4 DEF Landed

(* Another attempt may write as many records again.                        *)
LEMMA RetryKeeps == ASSUME PoolInv, NEW s \in Slices, Retry(s) PROVE PoolInv'
<1> PICK i : i = chunk[s].input
  OBVIOUS
<1> DEFINE new == [chunk[s] EXCEPT !.pc = "fetch", !.attempt = @ + 1, !.written = 0, !.held = 0]
<1>1. Trying(s) /\ Throw(s) /\ chunk[s].attempt < MaxRetries
  BY DEF Retry
<1>2. /\ chunk[s] \in Chunks /\ FetchedOK(i, s) /\ flushAt \in Nat /\ i \in Inputs
      /\ chunk[s].attempt \in Nat /\ MaxRetries \in Nat
      /\ file[i] \in Nat /\ remote[i] \in Nat /\ torn[i] \in Nat
  BY <1>1, TryTypes
<1>3. chunk' = [chunk EXCEPT ![s] = new]
  BY Zenon DEF Retry
<1>4. UNCHANGED <<given, file, collected, total, status>>
  BY DEF Retry
<1>5. /\ new \in Chunks /\ new.pc = "fetch" /\ new.input = i /\ new.todo = chunk[s].todo
      /\ new.result = chunk[s].result /\ new.attempt = chunk[s].attempt + 1
      /\ new.written = 0 /\ new.held = 0
  <2>1. chunk[s].attempt + 1 \in 0..MaxRetries
    BY <1>1, <1>2
  <2> QED
    BY <1>2, <2>1 DEF Chunks
<1> HIDE DEF new
<1>6. chunk'[s] = new
  BY <1>3 DEF PoolInv, TypeInv
<1>7. /\ torn' \in [Inputs -> Nat] /\ \A j \in Inputs \ {i} : torn'[j] = torn[j]
      /\ file[i] <= chunk[s].attempt * remote[i]
      /\ flushAt = 0 => file[i] <= torn'[i] * remote[i]
      /\ flushAt = 0 /\ torn'[i] = 0 => file[i] = 0
  BY <1>1, ThrowLands
<1>8. FetchedOK(i, s)'
  <2>1. new.attempt - 1 = chunk[s].attempt /\ chunk[s].attempt * remote[i] \in Nat
    BY <1>2, <1>5
  <2>2. torn'[i] * remote[i] \in Nat
    BY <1>2, <1>7
  <2>3. /\ file[i] + new.held = file[i]
        /\ (new.attempt - 1) * remote[i] + new.written = chunk[s].attempt * remote[i]
        /\ torn'[i] * remote[i] + new.written = torn'[i] * remote[i]
        /\ new.attempt >= 1 /\ new.written <= remote[i] /\ new.written <= file[i] + new.held
    <3>1. (new.attempt - 1) * remote[i] = chunk[s].attempt * remote[i]
      BY <2>1
    <3> DEFINE before == (new.attempt - 1) * remote[i]
               left == torn'[i] * remote[i]
    <3>2. before \in Nat /\ left \in Nat /\ before = chunk[s].attempt * remote[i]
      BY <2>1, <2>2, <3>1
    <3> HIDE DEF before, left
    <3>3. before + new.written = before /\ left + new.written = left
      BY <1>5, <3>2
    <3>4. /\ file[i] + new.held = file[i] /\ new.attempt >= 1
          /\ new.written <= remote[i] /\ new.written <= file[i] + new.held
      BY <1>2, <1>5
    <3> QED
      BY <3>2, <3>3, <3>4 DEF before, left
  <2>4. UNCHANGED <<remote, flushAt, file>>
    BY <1>4 DEF given
  <2>5. /\ new.result.processed[i] = IF flushAt = 0 THEN file[i] ELSE 0
        /\ i \notin new.result.skipped /\ i \notin new.result.failed
        /\ i \notin new.result.emitted
    BY <1>2, <1>5 DEF FetchedOK
  <2>6. /\ new.pc = "fetch" /\ new.held = new.written
        /\ flushAt = 0 /\ torn'[i] = 0 => file[i] + new.held = new.written
        /\ file[i] + new.held <= (new.attempt - 1) * remote[i] + new.written
        /\ flushAt = 0 => file[i] + new.held <= torn'[i] * remote[i] + new.written
    BY <1>5, <1>7, <2>3
  <2> QED
    BY <1>6, <2>3, <2>4, <2>5, <2>6 DEF FetchedOK
<1>9. \A j \in Inputs \ {i} : Agree(j, chunk[s].result, new.result)
  BY <1>5 DEF Agree
<1>10. /\ file' \in [Inputs -> Nat] /\ \A j \in Inputs \ {i} : file'[j] = file[j]
       /\ new.pc \in {"fetch", "flush", "dump"}
       /\ UNCHANGED <<given, collected, total, status>>
  BY <1>4, <1>5, SliceTypes
<1> QED
  BY <1>1, <1>3, <1>5, <1>7, <1>8, <1>9, <1>10, TryStep

(* The end of an attempt without another one: the chunk goes on to its     *)
(* next input, or throws; only then its result need not say what landed.   *)
LEMMA EndOfInput ==
  ASSUME PoolInv, NEW s \in Slices, Trying(s), NEW i, i = chunk[s].input,
         NEW new \in Chunks, chunk' = [chunk EXCEPT ![s] = new],
         \/ new.pc = "fatal"
         \/ new.pc = "next" /\ new.written = 0 /\ new.held = 0 /\ DoneWith(i, new.result, file[i]),
         new.todo = chunk[s].todo,
         \A j \in Inputs \ {i} : Agree(j, chunk[s].result, new.result),
         torn' \in [Inputs -> Nat], \A j \in Inputs \ {i} : torn'[j] = torn[j],
         Landed(i, file[i], torn'[i]), UNCHANGED <<given, file, collected, total, status>>
  PROVE  PoolInv'
<1>1. /\ i \in Inputs /\ i \in Mine(s) /\ i \notin chunk[s].todo /\ Current(s) = {i}
      /\ Mine(s)' = Mine(s) /\ chunk[s].pc \notin {"done", "fatal"}
  BY TryTypes
<1>2. chunk'[s] = new
  BY DEF PoolInv, TypeInv
<1>3. Current(s)' = {}
  BY <1>2 DEF Current, Trying, Writing
<1>4. SliceOK(s)'
  <2>1. \A j \in Inputs \ Mine(s) : Silent(j, new.result)
    BY <1>1 DEF PoolInv, SliceOK, Silent, Agree
  <2> QED
    BY <1>1, <1>2, <1>3, <2>1 DEF PoolInv, SliceOK, Silent
<1>5. ASSUME NEW j \in Mine(s), j # i PROVE InputOK(j, s)'
  <2>1. j \in Inputs
    BY DEF Mine
  <2> QED
    BY <1>1, <1>2, <1>3, <1>5, <2>1, InputUntouched DEF PoolInv
<1>6. InputOK(i, s)'
  <2>1. i \notin chunk'[s].todo \cup Current(s)'
    BY <1>1, <1>2, <1>3
  <2>2. Landed(i, file[i], torn[i])' /\ (chunk'[s].pc # "fatal" => DoneOK(i, s)')
    BY <1>2 DEF Landed, DoneOK, DoneWith, given
  <2> QED
    BY <2>1, <2>2 DEF InputOK
<1>7. file' \in [Inputs -> Nat]
  BY SliceTypes
<1> QED
  BY <1>1, <1>4, <1>5, <1>6, <1>7, SliceStep

(* The input is through, as landed, skipped or failed.                     *)
LEMMA LeaveKeeps ==
  ASSUME PoolInv, NEW s \in Slices, Trying(s), NEW i, i = chunk[s].input,
         NEW r \in Results, Leave(s, r),
         \A j \in Inputs \ {i} : Agree(j, chunk[s].result, r),
         torn' \in [Inputs -> Nat], \A j \in Inputs \ {i} : torn'[j] = torn[j],
         Landed(i, file[i], torn'[i]), DoneWith(i, r, file[i]),
         UNCHANGED <<given, file, collected, total, status>>
  PROVE  PoolInv'
<1> DEFINE new == [chunk[s] EXCEPT !.pc = "next", !.input = NoInput, !.attempt = 0,
                                   !.written = 0, !.held = 0, !.result = r]
<1>1. /\ new \in Chunks /\ new.pc = "next" /\ new.todo = chunk[s].todo
      /\ new.result = r /\ new.written = 0 /\ new.held = 0
  <2>1. 0 \in Nat /\ 0 \in 0..MaxRetries
    BY PoolAssumption
  <2>2. chunk[s] \in Chunks
    BY SliceTypes
  <2> QED
    BY <2>1, <2>2 DEF Chunks
<1>2. chunk' = [chunk EXCEPT ![s] = new]
  BY Zenon DEF Leave
<1> HIDE DEF new
<1> QED
  BY <1>1, <1>2, EndOfInput

(* All lines are written: this attempt has landed what it read.            *)
LEMMA InputDoneKeeps == ASSUME PoolInv, NEW s \in Slices, InputDone(s) PROVE PoolInv'
<1> DEFINE i == chunk[s].input
           written == chunk[s].written
           r == [chunk[s].result EXCEPT
                   !.processed[i] = IF flushAt = 0 THEN @ ELSE @ + written,
                   !.emitted = IF written > 0 THEN @ \cup {i} ELSE @]
<1>1. /\ Trying(s) /\ chunk[s].pc = "dump" /\ chunk[s].held = 0 /\ Leave(s, r)
      /\ UNCHANGED <<given, file, torn, collected, total, status>>
  BY DEF InputDone, Trying, Writing
<1>2. /\ FetchedOK(i, s) /\ i \in Inputs /\ flushAt \in Nat /\ written \in Nat
      /\ file[i] \in Nat /\ remote[i] \in Nat /\ torn[i] \in Nat
      /\ chunk[s].attempt \in Nat /\ chunk[s].attempt <= MaxRetries
      /\ chunk[s].result.processed \in [Inputs -> Nat]
  BY <1>1, TryTypes
<1>3. written = remote[i] /\ remote[i] <= file[i]
  BY <1>1, <1>2 DEF FetchedOK
<1>4. /\ r \in Results
      /\ r.processed[i] = IF flushAt = 0 THEN file[i] ELSE remote[i]
      /\ i \in r.emitted => remote[i] > 0
      /\ \A j \in Inputs \ {i} : Agree(j, chunk[s].result, r)
  <2> DEFINE p == [chunk[s].result.processed EXCEPT ![i] = IF flushAt = 0 THEN @ ELSE @ + written]
             e == IF written > 0 THEN chunk[s].result.emitted \cup {i}
                                 ELSE chunk[s].result.emitted
  <2>1. p \in [Inputs -> Nat] /\ p[i] = IF flushAt = 0 THEN file[i] ELSE remote[i]
    BY <1>2, <1>3 DEF FetchedOK
  <2>2. chunk[s].result \in Results
    BY SliceTypes
  <2>3. e \in SUBSET Inputs /\ (i \in e => remote[i] > 0)
    BY <1>2, <1>3, <2>2 DEF Results, FetchedOK
  <2>4. \A j \in Inputs \ {i} :
          p[j] = chunk[s].result.processed[j] /\ (j \in chunk[s].result.emitted <=> j \in e)
    BY <1>2
  <2>5. r = [chunk[s].result EXCEPT !.processed = p, !.emitted = e]
    BY <2>2 DEF Results
  <2> HIDE DEF p, e, r, i, written
  <2>6. /\ r \in Results /\ r.processed = p /\ r.emitted = e
        /\ r.skipped = chunk[s].result.skipped /\ r.failed = chunk[s].result.failed
    BY <2>1, <2>2, <2>3, <2>5 DEF Results
  <2> QED
    BY <2>1, <2>3, <2>4, <2>6 DEF Agree
<1>5. Landed(i, file[i], torn[i])
  <2>1. file[i] <= MaxRetries * remote[i]
    <3>1. /\ chunk[s].attempt >= 1 /\ written <= remote[i]
          /\ file[i] + chunk[s].held <= (chunk[s].attempt - 1) * remote[i] + written
      BY <1>2 DEF FetchedOK
    <3>2. file[i] + chunk[s].held = file[i]
      BY <1>1, <1>2
    <3> DEFINE a == chunk[s].attempt
    <3>3. /\ file[i] <= (a - 1) * remote[i] + written /\ 1 <= a /\ written <= remote[i]
          /\ a \in Nat /\ a <= MaxRetries /\ file[i] \in Nat /\ remote[i] \in Nat
          /\ written \in Nat
      BY <1>2, <3>1, <3>2
    <3> HIDE DEF i, a, written
    <3> QED
      BY <3>3, AttemptsBound
  <2>2. flushAt = 0 /\ torn[i] = 0 => file[i] = remote[i]
    BY <1>1, <1>2, <1>3 DEF FetchedOK
  <2>3. flushAt = 0 => file[i] <= (torn[i] + 1) * remote[i]
    <3>1. flushAt = 0 => file[i] <= torn[i] * remote[i] + written
      BY <1>1, <1>2 DEF FetchedOK
    <3> QED
      BY <1>2, <1>3, <3>1, TimesBound
  <2> QED
    BY <2>1, <2>2, <2>3 DEF Landed
<1>6. torn' \in [Inputs -> Nat] /\ torn' = torn
  BY <1>1, SliceTypes
<1> HIDE DEF r, i
<1>7. DoneWith(i, r, file[i])
  BY <1>2, <1>3, <1>4 DEF DoneWith
<1> QED
  BY <1>1, <1>4, <1>5, <1>6, <1>7, LeaveKeeps DEF i

(* An input is skipped or given up: what its attempts have left stays, and *)
(* is counted if it was written without auto-flush.                        *)
LEMMA GivenUp ==
  ASSUME PoolInv, NEW s \in Slices, Trying(s), Throw(s), NEW i, i = chunk[s].input,
         NEW r \in Results, Leave(s, r), r.processed = chunk[s].result.processed,
         r.emitted = chunk[s].result.emitted, i \in r.skipped \/ i \in r.failed,
         \A j \in Inputs \ {i} : Agree(j, chunk[s].result, r),
         UNCHANGED <<given, file, collected, total, status>>
  PROVE  PoolInv'
<1>1. FetchedOK(i, s) /\ file[i] \in Nat
  BY TryTypes
<1>2. DoneWith(i, r, file[i])
  BY <1>1 DEF FetchedOK, DoneWith
<1>3. /\ torn' \in [Inputs -> Nat] /\ \A j \in Inputs \ {i} : torn'[j] = torn[j]
      /\ Landed(i, file[i], torn'[i])
  BY ThrowLands
<1> QED
  BY <1>2, <1>3, LeaveKeeps

LEMMA InputSkippedKeeps == ASSUME PoolInv, NEW s \in Slices, InputSkipped(s) PROVE PoolInv'
<1> DEFINE i == chunk[s].input
           r == [chunk[s].result EXCEPT !.skipped = @ \cup {i}]
<1>1. /\ Trying(s) /\ Throw(s) /\ Leave(s, r)
      /\ UNCHANGED <<given, file, collected, total, status>>
  BY DEF InputSkipped
<1>2. chunk[s].result \in Results /\ i \in Inputs
  BY <1>1, SliceTypes
<1>3. /\ r \in Results /\ r.processed = chunk[s].result.processed /\ i \in r.skipped
      /\ r.emitted = chunk[s].result.emitted
      /\ \A j \in Inputs \ {i} : Agree(j, chunk[s].result, r)
  BY <1>2 DEF Results, Agree
<1> HIDE DEF r
<1> QED
  BY <1>1, <1>3, GivenUp

LEMMA InputFailsKeeps == ASSUME PoolInv, NEW s \in Slices, InputFails(s) PROVE PoolInv'
<1> DEFINE i == chunk[s].input
           r == [chunk[s].result EXCEPT !.failed = @ \cup {i}]
<1>1. /\ Trying(s) /\ Throw(s) /\ Leave(s, r)
      /\ UNCHANGED <<given, file, collected, total, status>>
  BY DEF InputFails
<1>2. chunk[s].result \in Results /\ i \in Inputs
  BY <1>1, SliceTypes
<1>3. /\ r \in Results /\ r.processed = chunk[s].result.processed /\ i \in r.failed
      /\ r.emitted = chunk[s].result.emitted
      /\ \A j \in Inputs \ {i} : Agree(j, chunk[s].result, r)
  BY <1>2 DEF Results, Agree
<1> HIDE DEF r
<1> QED
  BY <1>1, <1>3, GivenUp

LEMMA ChunkThrowsKeeps == ASSUME PoolInv, NEW s \in Slices, ChunkThrows(s) PROVE PoolInv'
<1> DEFINE new == [chunk[s] EXCEPT !.pc = "fatal"]
<1>1. chunk[s] \in Chunks
  BY SliceTypes
<1>2. /\ new \in Chunks /\ new.pc = "fatal" /\ new.todo = chunk[s].todo
      /\ new.result = chunk[s].result
      /\ new.written = chunk[s].written /\ new.held = chunk[s].held
  BY <1>1 DEF Chunks
<1>3. chunk' = [chunk EXCEPT ![s] = new]
  BY Zenon DEF ChunkThrows
<1>4. UNCHANGED <<given, file, collected, total, status>>
  BY DEF ChunkThrows
<1> HIDE DEF new
<1>5. CASE chunk[s].pc \in {"auth", "next"} /\ UNCHANGED torn
  <2>1. ~Trying(s)
    BY <1>5 DEF Trying, Writing
  <2> QED
    BY <1>2, <1>3, <1>4, <1>5, <2>1, IdleStep
<1>6. CASE Trying(s) /\ Throw(s)
  <2> DEFINE i == chunk[s].input
  <2>1. /\ torn' \in [Inputs -> Nat] /\ \A j \in Inputs \ {i} : torn'[j] = torn[j]
        /\ Landed(i, file[i], torn'[i])
    BY <1>6, ThrowLands
  <2>2. \A j \in Inputs : Agree(j, chunk[s].result, new.result)
    BY <1>2 DEF Agree
  <2> QED
    BY <1>2, <1>3, <1>4, <1>6, <2>1, <2>2, EndOfInput
<1> QED
  BY <1>5, <1>6 DEF ChunkThrows

-----------------------------------------------------------------------------
(* The collector.                                                          *)

(* A chunk that came to its end passes its result on; of one that threw    *)
(* only the error is left.                                                 *)
LEMMA CollectKeeps == ASSUME PoolInv, NEW s \in Slices, Collect(s) PROVE PoolInv'
<1>1. /\ status = "running" /\ s \notin collected /\ collected' = collected \cup {s}
      /\ UNCHANGED <<given, chunk, file, torn, status>>
  BY DEF Collect
<1>2. /\ total \in Totals /\ chunk[s].result \in Results /\ Mine(s) \subseteq Inputs
      /\ \A i \in Mine(s) : Silent(i, total)
      /\ \A i \in Inputs \ Mine(s) : Silent(i, chunk[s].result)
  BY <1>1, SliceTypes DEF PoolInv, TypeInv, PassedOn, SliceOK
<1>3. /\ total' \in Totals /\ total.chunks \subseteq total'.chunks
      /\ chunk[s].pc \in {"done", "fatal"}
      /\ \A i \in Inputs \ Mine(s) : Agree(i, total, total')
      /\ chunk[s].pc = "done" => \A i \in Mine(s) : Agree(i, chunk[s].result, total')
      /\ chunk[s].pc = "fatal" => s \in total'.chunks /\ \A i \in Mine(s) : Silent(i, total')
  <2>1. CASE chunk[s].pc = "done"
    <3>1. PICK reported \in SUBSET {s} :
            LET r == chunk[s].result IN
            total' = [total EXCEPT !.processed = Plus(@, r.processed),
                                   !.skipped = @ \cup r.skipped,
                                   !.failed = @ \cup r.failed,
                                   !.emitted = @ \cup r.emitted,
                                   !.chunks = @ \cup reported]
      BY <2>1 DEF Collect
    <3> DEFINE r == chunk[s].result
    <3>2. /\ total'.skipped = total.skipped \cup r.skipped
          /\ total'.failed = total.failed \cup r.failed
          /\ total'.emitted = total.emitted \cup r.emitted
          /\ total'.chunks = total.chunks \cup reported
          /\ total'.processed = Plus(total.processed, r.processed)
          /\ total' = [processed |-> Plus(total.processed, r.processed),
                       skipped |-> total.skipped \cup r.skipped,
                       failed |-> total.failed \cup r.failed,
                       emitted |-> total.emitted \cup r.emitted,
                       chunks |-> total.chunks \cup reported]
      BY <1>2, <3>1 DEF Totals
    <3>3. /\ r.processed \in [Inputs -> Nat] /\ total.processed \in [Inputs -> Nat]
          /\ r.skipped \subseteq Inputs /\ r.failed \subseteq Inputs /\ r.emitted \subseteq Inputs
      BY <1>2 DEF Totals, Results
    <3> HIDE DEF r
    <3>4. /\ Plus(total.processed, r.processed) \in [Inputs -> Nat]
          /\ \A i \in Inputs : total'.processed[i] = total.processed[i] + r.processed[i]
      BY <3>2, <3>3 DEF Plus
    <3>5. total' \in Totals
      BY <1>2, <3>2, <3>3, <3>4 DEF Totals
    <3>6. \A i \in Inputs \ Mine(s) : Agree(i, total, total')
      BY <1>2, <3>2, <3>3, <3>4 DEF Agree, Silent, r
    <3>7. \A i \in Mine(s) : Agree(i, r, total')
      BY <1>2, <3>2, <3>3, <3>4 DEF Agree, Silent
    <3> QED
      BY <2>1, <3>2, <3>5, <3>6, <3>7 DEF r
  <2>2. CASE chunk[s].pc = "fatal"
    <3>1. total' = [total EXCEPT !.chunks = @ \cup {s}]
      BY <2>2 DEF Collect
    <3> QED
      BY <1>2, <2>2, <3>1 DEF Totals, Agree, Silent
  <2> QED
    BY <2>1, <2>2 DEF Collect
<1>4. TypeInv'
  BY <1>1, <1>3 DEF PoolInv, TypeInv, given
<1>5. StatusOK'
  BY <1>1 DEF StatusOK
<1>6. \A q \in Slices : SliceOK(q)' /\ CollectedOK(q)' /\ Mine(q)' = Mine(q)
  BY <1>1, <1>3 DEF PoolInv, SliceOK, CollectedOK, Current, Trying, Writing, Mine, Silent
<1>7. ASSUME NEW q \in Slices, NEW i \in Mine(q) PROVE InputOK(i, q)' /\ PassedOn(i, q)'
  <2>1. InputOK(i, q)'
    BY <1>1 DEF PoolInv, InputOK, WaitingOK, FetchedOK, Landed, DoneOK, DoneWith, Silent, Current,
                Trying, Writing, given
  <2>2. CASE q = s
    <3>1. s \in collected' /\ chunk' = chunk
      BY <1>1
    <3>2. CASE chunk[s].pc = "done"
      BY <1>3, <2>1, <2>2, <3>1, <3>2 DEF PassedOn
    <3>3. CASE chunk[s].pc = "fatal"
      BY <1>3, <2>1, <2>2, <3>1, <3>3 DEF PassedOn
    <3> QED
      BY <1>3, <3>2, <3>3
  <2>3. CASE q # s
    <3>1. i \in Inputs \ Mine(s)
      BY <2>3 DEF Mine
    <3>2. Agree(i, total, total') /\ PassedOn(i, q)
      BY <1>3, <3>1 DEF PoolInv
    <3>3. chunk' = chunk /\ (q \in collected' <=> q \in collected)
      BY <1>1, <2>3
    <3> QED
      BY <2>1, <3>2, <3>3 DEF PassedOn, Agree, Silent
  <2> QED
    BY <2>1, <2>2, <2>3
<1> QED
  BY <1>4, <1>5, <1>6, <1>7 DEF PoolInv

LEMMA EndStageKeeps == ASSUME PoolInv, EndStage PROVE PoolInv'
<1>1. /\ collected = Slices /\ status' = Verdict
      /\ UNCHANGED <<given, chunk, file, torn, collected, total>>
  BY DEF EndStage
<1>2. Verdict' = Verdict
  BY <1>1 DEF Verdict, AllExhausted, TotalFailure, Errors
<1>3. Verdict \in {"success", "partial", "skipped", "failed"}
  BY DEF Verdict
<1>4. TypeInv' /\ StatusOK'
  BY <1>1, <1>2, <1>3 DEF PoolInv, TypeInv, StatusOK, given
<1>5. \A q \in Slices : SliceOK(q)' /\ CollectedOK(q)' /\ Mine(q)' = Mine(q)
  BY <1>1 DEF PoolInv, SliceOK, CollectedOK, Current, Trying, Writing, Mine, Silent
<1>6. ASSUME NEW q \in Slices, NEW i \in Mine(q) PROVE InputOK(i, q)' /\ PassedOn(i, q)'
  BY <1>1 DEF PoolInv, InputOK, WaitingOK, FetchedOK, Landed, DoneOK, DoneWith, Silent, Current,
              Trying, Writing, given, PassedOn, Agree
<1> QED
  BY <1>4, <1>5, <1>6 DEF PoolInv

-----------------------------------------------------------------------------
(* The specification.                                                      *)

LEMMA NextPool == PoolInv /\ [Next]_vars => PoolInv'
<1> SUFFICES ASSUME PoolInv, [Next]_vars PROVE PoolInv'
  OBVIOUS
<1>1. ASSUME NEW s \in Slices,
             \/ Authenticate(s) \/ NextInput(s) \/ ChunkThrows(s)
             \/ FetchRecord(s) \/ FetchReturns(s) \/ WriteLine(s) \/ InputDone(s)
             \/ InputSkipped(s) \/ InputFails(s) \/ Retry(s)
             \/ Collect(s)
      PROVE  PoolInv'
  BY <1>1, AuthenticateKeeps, NextInputKeeps, ChunkThrowsKeeps, FetchRecordKeeps,
     FetchReturnsKeeps, WriteLineKeeps, InputDoneKeeps, InputSkippedKeeps, InputFailsKeeps, RetryKeeps, CollectKeeps
<1>2. CASE EndStage
  BY <1>2, EndStageKeeps
<1>3. CASE UNCHANGED vars
  <2>1. UNCHANGED <<given, chunk, file, torn, collected, total, status>>
    BY <1>3 DEF vars
  <2>2. Verdict' = Verdict
    BY <2>1 DEF Verdict, AllExhausted, TotalFailure, Errors
  <2>3. TypeInv' /\ StatusOK'
    BY <2>1, <2>2 DEF PoolInv, TypeInv, StatusOK, given
  <2>4. \A q \in Slices : SliceOK(q)' /\ CollectedOK(q)' /\ Mine(q)' = Mine(q)
    BY <2>1 DEF PoolInv, SliceOK, CollectedOK, Current, Trying, Writing, Mine, Silent
  <2>5. ASSUME NEW q \in Slices, NEW i \in Mine(q) PROVE InputOK(i, q)' /\ PassedOn(i, q)'
    BY <2>1 DEF PoolInv, InputOK, WaitingOK, FetchedOK, Landed, DoneOK, DoneWith, Silent, Current,
                Trying, Writing, given, PassedOn, Agree
  <2> QED
    BY <2>3, <2>4, <2>5 DEF PoolInv
<1> QED
  BY <1>1, <1>2, <1>3 DEF Next

LEMMA PoolInvHolds == Spec => []PoolInv
BY InitPool, NextPool, PTL DEF Spec

(* Every input is somewhere.                                               *)
LEMMA InputOfSlice ==
  ASSUME PoolInv, NEW i \in Inputs
  PROVE  /\ SliceOf[i] \in Slices /\ i \in Mine(SliceOf[i])
         /\ InputOK(i, SliceOf[i]) /\ PassedOn(i, SliceOf[i])
BY PoolAssumption DEF PoolInv, Mine

(* Without auto-flush the records of an input land all or none, and once,  *)
(* but for attempts that throw while their lines are written: each adds at *)
(* most one copy.  In every stage there are no more copies than attempts.  *)
THEOREM LandedOnceHolds == Spec => []LandedOnce
<1>1. ASSUME PoolInv, NEW i \in Inputs
      PROVE  /\ flushAt = 0 /\ torn[i] = 0 /\ ~Dumping(i) => file[i] \in {0, remote[i]}
             /\ flushAt = 0 => file[i] <= (torn[i] + 1) * remote[i]
             /\ file[i] <= MaxRetries * remote[i]
  <2> DEFINE s == SliceOf[i]
  <2>1. s \in Slices /\ i \in Mine(s) /\ InputOK(i, s)
    BY <1>1, InputOfSlice
  <2>2. /\ MaxRetries \in Nat /\ remote[i] \in Nat /\ torn[i] \in Nat /\ file[i] \in Nat
        /\ MaxRetries * remote[i] \in Nat /\ (torn[i] + 1) * remote[i] \in Nat
    <3>1. MaxRetries \in Nat /\ remote[i] \in Nat /\ torn[i] \in Nat /\ file[i] \in Nat
      BY <1>1, <2>1, SliceTypes, PoolAssumption
    <3> QED
      BY <3>1
  <2>3. Dumping(i) <=> chunk[s].pc = "dump" /\ chunk[s].input = i
    BY DEF Dumping
  <2> HIDE DEF s
  <2>4. CASE i \in chunk[s].todo
    BY <2>1, <2>2, <2>4 DEF InputOK, WaitingOK
  <2>5. CASE i \in Current(s)
    <3>1. Trying(s) /\ i = chunk[s].input
      BY <2>5 DEF Current
    <3>2. /\ FetchedOK(i, s) /\ chunk[s].pc \in {"fetch", "flush", "dump"}
          /\ chunk[s].written \in Nat /\ chunk[s].held \in Nat /\ chunk[s].attempt \in Nat
          /\ chunk[s].attempt <= MaxRetries
      BY <1>1, <2>1, <3>1, TryTypes
    <3> DEFINE a == chunk[s].attempt
               w == chunk[s].written
               n == file[i] + chunk[s].held
    <3>3. n \in Nat /\ file[i] <= n /\ a \in Nat /\ a <= MaxRetries /\ w \in Nat
      BY <2>2, <3>2
    <3>4. /\ 1 <= a /\ w <= remote[i] /\ n <= (a - 1) * remote[i] + w
          /\ flushAt = 0 => n <= torn[i] * remote[i] + w
      BY <3>2 DEF FetchedOK
    <3>5. flushAt = 0 /\ torn[i] = 0 /\ ~Dumping(i) => file[i] = 0
      BY <2>2, <2>3, <3>1, <3>2 DEF FetchedOK
    <3> HIDE DEF a, w, n
    <3>6. file[i] <= MaxRetries * remote[i]
      <4>1. n <= MaxRetries * remote[i]
        BY <2>2, <3>3, <3>4, AttemptsBound
      <4> QED
        BY <2>2, <3>3, <4>1
    <3>7. ASSUME flushAt = 0 PROVE file[i] <= (torn[i] + 1) * remote[i]
      <4>1. n <= torn[i] * remote[i] + w
        BY <3>4, <3>7
      <4>2. n <= (torn[i] + 1) * remote[i]
        BY <2>2, <3>3, <3>4, <4>1, TimesBound
      <4> QED
        BY <2>2, <3>3, <4>2
    <3> QED
      BY <3>5, <3>6, <3>7
  <2>6. CASE i \notin chunk[s].todo \cup Current(s)
    BY <2>1, <2>6 DEF InputOK, Landed
  <2> QED
    BY <2>4, <2>5, <2>6
<1>2. PoolInv => LandedOnce
  BY <1>1 DEF LandedOnce
<1> QED
  BY <1>2, PoolInvHolds, PTL

(* An input whose chunk has come to its end is done with, and the totals   *)
(* say of it what the chunk says.                                          *)
LEMMA EndedInput ==
  ASSUME PoolInv, status # "running", NEW i \in Inputs
  PROVE  /\ Fatal(i) => Silent(i, total) /\ SliceOf[i] \in total.chunks
         /\ ~Fatal(i) => DoneWith(i, total, file[i])
<1> DEFINE s == SliceOf[i]
<1>1. /\ s \in Slices /\ InputOK(i, s) /\ PassedOn(i, s) /\ s \in collected
      /\ chunk[s].pc \in {"done", "fatal"} /\ SliceOK(s)
      /\ chunk[s].pc = "fatal" => s \in total.chunks
  BY InputOfSlice DEF PoolInv, StatusOK, CollectedOK
<1> HIDE DEF s
<1>2. CASE chunk[s].pc = "fatal"
  BY <1>1, <1>2 DEF Fatal, s, PassedOn
<1>3. CASE chunk[s].pc = "done"
  <2>1. chunk[s].todo = {} /\ Current(s) = {}
    BY <1>1, <1>3 DEF SliceOK, Current, Trying, Writing
  <2>2. DoneWith(i, chunk[s].result, file[i]) /\ Agree(i, chunk[s].result, total)
    BY <1>1, <1>3, <2>1 DEF InputOK, DoneOK, PassedOn
  <2>3. DoneWith(i, total, file[i])
    BY <2>2 DEF DoneWith, Agree
  <2>4. ~Fatal(i)
    BY <1>3 DEF Fatal, s
  <2> QED
    BY <2>3, <2>4
<1> QED
  BY <1>1, <1>2, <1>3

(* If all was skipped or has failed, and nothing has failed, then every    *)
(* input was skipped.                                                      *)
LEMMA AllSkipped ==
  ASSUME PoolInv, AllExhausted, total.failed = {}
  PROVE  total.skipped = Inputs
<1>1. total.skipped \subseteq Inputs /\ IsFiniteSet(Inputs)
  BY PoolAssumption DEF PoolInv, TypeInv, Totals
<1>2. /\ IsFiniteSet(total.skipped) /\ Cardinality(total.skipped) \in Nat
      /\ Cardinality(Inputs) \in Nat
      /\ Cardinality(Inputs) = Cardinality(total.skipped) => total.skipped = Inputs
      /\ Cardinality(total.skipped) <= Cardinality(Inputs)
  BY <1>1, FS_Subset, FS_CardinalityType
<1>3. Cardinality(total.failed) = 0
  BY FS_EmptySet
<1>4. Cardinality(total.skipped) >= Cardinality(Inputs)
  BY <1>2, <1>3 DEF AllExhausted
<1> QED
  BY <1>2, <1>4

(* What the stage tells the manifest and the stages below it is true: the  *)
(* count is that of the lines in the files of the chunks that returned, a  *)
(* good status means that every input was dealt with, and every id handed  *)
(* on belongs to an input whose records have landed.                       *)
THEOREM ResultIsTrueHolds == Spec => []ResultIsTrue
<1>1. ASSUME PoolInv PROVE CountIsLanded
  <2>1. ASSUME status # "running", NEW i \in Inputs
        PROVE  LET lines == IF Fatal(i) THEN 0 ELSE file[i] IN
               IF flushAt = 0 THEN total.processed[i] = lines ELSE total.processed[i] <= lines
    BY <1>1, <2>1, EndedInput DEF DoneWith, Silent
  <2> QED
    BY <2>1 DEF CountIsLanded
<1>2. ASSUME PoolInv PROVE ChildrenHaveParents
  <2>1. total.emitted \subseteq Inputs
    BY <1>2 DEF PoolInv, TypeInv, Totals
  <2>2. ASSUME status # "running", NEW i \in total.emitted
        PROVE  file[i] >= remote[i] /\ remote[i] > 0
    BY <1>2, <2>1, <2>2, EndedInput DEF DoneWith, Silent
  <2> QED
    BY <2>2 DEF ChildrenHaveParents
<1>3. ASSUME PoolInv PROVE GoodMeansComplete
  <2> SUFFICES ASSUME status \in {"success", "skipped"}, NEW i \in Inputs \ total.skipped
               PROVE  file[i] >= remote[i] /\ ~Fatal(i)
    BY DEF GoodMeansComplete
  <2>1. status = Verdict
    BY <1>3 DEF PoolInv, StatusOK
  <2>2. ~(AllExhausted /\ total.failed = {})
    BY <1>3, AllSkipped
  <2>3. ~Errors
    BY <2>1, <2>2 DEF Verdict
  <2> QED
    BY <1>3, <2>3, EndedInput DEF Errors, DoneWith
<1>4. PoolInv => ResultIsTrue
  BY <1>1, <1>2, <1>3 DEF PoolInv, ResultIsTrue
<1> QED
  BY <1>4, PoolInvHolds, PTL

-----------------------------------------------------------------------------
(* The stage as the module loop sees it.                                   *)

\* A chunk file is opened for its first line, and one opened in vain is empty.
Left == \E i \in Inputs : file[i] > 0

Outcome == IF status = "running" THEN {} ELSE {<<status, Left>>}

Result == INSTANCE StageResult WITH outcome <- Outcome

(* A stage that is partial has read something, and what it read is there.  *)
LEMMA EndedOutcome ==
  ASSUME PoolInv, status # "running"
  PROVE  <<status, Left>> \in PoolOutcomes
<1>1. status = Verdict /\ total \in Totals /\ file \in [Inputs -> Nat]
      /\ remote \in [Inputs -> Nat]
  BY PoolAssumption DEF PoolInv, StatusOK, TypeInv
<1>2. Left \in BOOLEAN
  BY DEF Left
<1>3. CASE AllExhausted /\ total.failed = {}
  <2>1. status = "skipped"
    BY <1>1, <1>3 DEF Verdict, TotalFailure
  <2> QED
    BY <1>2, <2>1 DEF PoolOutcomes
<1>4. CASE TotalFailure /\ ~(AllExhausted /\ total.failed = {})
  <2>1. status = "failed"
    BY <1>1, <1>4 DEF Verdict
  <2> QED
    BY <1>2, <2>1 DEF PoolOutcomes
<1>5. CASE ~TotalFailure /\ ~Errors
  <2>1. status = "success"
    BY <1>1, <1>5 DEF Verdict, TotalFailure
  <2> QED
    BY <1>2, <2>1 DEF PoolOutcomes, InlineOutcomes
<1>6. CASE ~TotalFailure /\ Errors
  <2>1. status = "partial"
    BY <1>1, <1>6 DEF Verdict, TotalFailure
  <2>2. PICK i \in Inputs : total.processed[i] > 0 \/ i \in total.emitted
    <3>1. total.processed # NoRecords \/ total.emitted # {}
      BY <1>6 DEF TotalFailure
    <3>2. total.emitted \subseteq Inputs /\ total.processed \in [Inputs -> Nat]
      BY <1>1 DEF Totals
    <3>3. CASE total.emitted # {}
      BY <3>2, <3>3
    <3>4. CASE total.processed # NoRecords
      <4>1. PICK i \in Inputs : total.processed[i] # 0
        BY <3>2, <3>4 DEF NoRecords
      <4> QED
        BY <3>2, <4>1
    <3> QED
      BY <3>1, <3>3, <3>4
  <2>3. file[i] > 0
    <3>1. CASE Fatal(i)
      BY <2>2, <3>1, EndedInput DEF Silent
    <3>2. CASE ~Fatal(i)
      <4>1. DoneWith(i, total, file[i])
        BY <3>2, EndedInput
      <4>2. file[i] \in Nat /\ remote[i] \in Nat /\ total.processed[i] \in Nat
        BY <1>1 DEF Totals
      <4> QED
        BY <2>2, <4>1, <4>2 DEF DoneWith
    <3> QED
      BY <3>1, <3>2
  <2>4. Left = TRUE
    BY <2>3 DEF Left
  <2> QED
    BY <2>1, <2>4 DEF PoolOutcomes
<1> QED
  BY <1>3, <1>4, <1>5, <1>6

(* Once the stage has ended nothing runs that could change its files: all  *)
(* chunks are collected, and a collected one has come to its end.          *)
LEMMA EndedStands ==
  ASSUME PoolInv, [Next]_vars, status # "running"
  PROVE  UNCHANGED <<status, file>>
<1>1. \A s \in Slices : chunk[s].pc \in {"done", "fatal"} /\ s \in collected
  BY DEF PoolInv, StatusOK, CollectedOK
<1>2. CASE UNCHANGED vars
  BY <1>2 DEF vars
<1>3. CASE EndStage
  BY <1>3 DEF EndStage
<1>4. ASSUME NEW s \in Slices,
             \/ Authenticate(s) \/ NextInput(s) \/ ChunkThrows(s)
             \/ FetchRecord(s) \/ FetchReturns(s) \/ WriteLine(s) \/ InputDone(s)
             \/ InputSkipped(s) \/ InputFails(s) \/ Retry(s) \/ Collect(s)
      PROVE  FALSE
  BY <1>1, <1>4 DEF Authenticate, NextInput, ChunkThrows, FetchRecord, FetchReturns,
       WriteLine, InputDone, InputSkipped, InputFails, Retry, Collect, Trying, Writing
<1> QED
  BY <1>2, <1>3, <1>4 DEF Next

(* A pool stage is the step of the module loop: it ends at most once, with *)
(* an outcome the loop is written for (a partial stage has left chunks),   *)
(* and no chunk appears or vanishes once they are being uploaded.          *)
THEOREM PoolIsAStage == Spec => Result!Stage
<1>1. Init => Result!Running
  BY DEF Init, Outcome, Result!Running
<1>2. ASSUME PoolInv, PoolInv', [Next]_vars PROVE [Result!End]_Outcome
  <2>1. CASE status # "running"
    BY <1>2, <2>1, EndedStands DEF Outcome, Left
  <2>2. CASE status = "running" /\ status' = "running"
    BY <2>2 DEF Outcome
  <2>3. CASE status = "running" /\ status' # "running"
    <3>1. Outcome = {}
      BY <2>3 DEF Outcome
    <3>2. Outcome' = {<<status, Left>>'}
      BY <2>3 DEF Outcome
    <3>3. <<status, Left>>' \in PoolOutcomes
      <4>1. (PoolInv /\ status # "running" => <<status, Left>> \in PoolOutcomes)'
        BY EndedOutcome, PTL
      <4> QED
        BY <1>2, <2>3, <4>1 DEF PoolOutcomes, InlineOutcomes
    <3> QED
      BY <3>1, <3>2, <3>3 DEF Result!End, PoolOutcomes, InlineOutcomes, Result!PoolOutcomes,
           Result!InlineOutcomes
  <2> QED
    BY <2>1, <2>2, <2>3
<1> QED
  BY <1>1, <1>2, PoolInvHolds, PTL DEF Spec, Result!Stage
=============================================================================
