----------------------------- MODULE StagePool ------------------------------
(***************************************************************************)
(* A pool stage: WorkerPool.psm1 (StageDispatchBlock, Invoke-StagePool)    *)
(* and the part of StageExecutor.psm1 that makes a status of its result.   *)
(* The inputs are cut into slices; a runspace per slice fetches one input  *)
(* after the other, retries, and writes the records to the file of its     *)
(* chunk; the collector adds up what the chunks return.                    *)
(*                                                                         *)
(* The stage materialises its records (WriteRecords), and each of them     *)
(* bears its id.  A fetch is external: it hands over the records of its    *)
(* input one by one, and may throw at any of them, and so may the writing  *)
(* of any line.  Counts of records are kept by input; the code has their   *)
(* sum.                                                                    *)
(***************************************************************************)
EXTENDS Integers, FiniteSets

CONSTANTS
    Slices,              \* the chunks of the stage
    Inputs,              \* the parent's ids
    SliceOf,             \* Split-WorkItems: [Inputs -> Slices]
    Sources,             \* bound: the numbers of records the inputs may have
    MaxRetries,          \* attempts per input: 5
    Thresholds,          \* values of AutoFlushThreshold
    NoInput              \* no fetch is under way

ASSUME PoolAssumption ==
    /\ IsFiniteSet(Inputs) /\ NoInput \notin Inputs
    /\ SliceOf \in [Inputs -> Slices]
    /\ \A s \in Slices : \E i \in Inputs : SliceOf[i] = s
    /\ Sources \subseteq [Inputs -> Nat] /\ MaxRetries \in Nat \ {0} /\ Thresholds \subseteq Nat

VARIABLES
    remote,     \* external: the number of records of an input
    flushAt,    \* AutoFlushThreshold of the stage: records held back; 0: all
    chunk,      \* per slice, its runspace
    file,       \* per input, the lines of it in the file of its chunk
    torn,       \* history: per input, the attempts that threw while writing lines
    collected,  \* chunks whose result has been added to the totals
    total,      \* the totals; chunks: those with an error of their own
    status      \* of the stage, in the manifest

given == <<remote, flushAt>>
vars == <<given, chunk, file, torn, collected, total, status>>

Mine(s) == {i \in Inputs : SliceOf[i] = s}
NoRecords == [i \in Inputs |-> 0]
NoResult == [processed |-> NoRecords, skipped |-> {}, failed |-> {}, emitted |-> {}]

Results == [processed : [Inputs -> Nat], skipped : SUBSET Inputs, failed : SUBSET Inputs,
            emitted : SUBSET Inputs]
Totals == [processed : [Inputs -> Nat], skipped : SUBSET Inputs, failed : SUBSET Inputs,
           emitted : SUBSET Inputs, chunks : SUBSET Slices]
Chunks == [pc : {"auth", "next", "fetch", "flush", "dump", "done", "fatal"},
           todo : SUBSET Inputs, input : Inputs \cup {NoInput}, attempt : 0..MaxRetries,
           written : Nat, held : Nat, result : Results]

TypeInv ==
    /\ remote \in Sources /\ flushAt \in Thresholds
    /\ chunk \in [Slices -> Chunks]
    /\ file \in [Inputs -> Nat] /\ torn \in [Inputs -> Nat]
    /\ collected \subseteq Slices
    /\ total \in Totals
    /\ status \in {"running", "success", "partial", "skipped", "failed"}

Init ==
    /\ remote \in Sources /\ flushAt \in Thresholds
    /\ chunk = [s \in Slices |->
         [pc |-> "auth", todo |-> Mine(s), input |-> NoInput, attempt |-> 0,
          written |-> 0, held |-> 0, result |-> NoResult]]
    /\ file = NoRecords /\ torn = NoRecords
    /\ collected = {}
    /\ total = [processed |-> NoRecords, skipped |-> {}, failed |-> {}, emitted |-> {},
                chunks |-> {}]
    /\ status = "running"

-----------------------------------------------------------------------------
(* The runspace of a slice                                                 *)

\* First dispatch on this runspace: Connect-Service.
Authenticate(s) ==
    /\ chunk[s].pc = "auth"
    /\ chunk' = [chunk EXCEPT ![s].pc = "next"]
    /\ UNCHANGED <<given, file, torn, collected, total, status>>

NextInput(s) ==
    /\ chunk[s].pc = "next"
    /\ \/ /\ chunk[s].todo = {}
          /\ chunk' = [chunk EXCEPT ![s].pc = "done"]
       \/ \E i \in chunk[s].todo :
            chunk' = [chunk EXCEPT ![s].pc = "fetch", ![s].todo = @ \ {i},
                                   ![s].input = i, ![s].attempt = 1]
    /\ UNCHANGED <<given, file, torn, collected, total, status>>

\* The try of an attempt: the fetch, a flush in the middle of it, and the dump
\* of the records after it.
Writing(s) == chunk[s].pc \in {"flush", "dump"}
Trying(s) == chunk[s].pc = "fetch" \/ Writing(s)

\* What an attempt leaves when it throws.
Throw(s) == torn' = [torn EXCEPT ![chunk[s].input] = IF Writing(s) THEN @ + 1 ELSE @]

\* WriteRecord: the record is held back; at the threshold all are flushed.
FetchRecord(s) ==
    LET held == chunk[s].held + 1
        flush == flushAt > 0 /\ held >= flushAt
    IN /\ chunk[s].pc = "fetch"
       /\ chunk[s].written < remote[chunk[s].input]
       /\ chunk' = [chunk EXCEPT ![s].written = @ + 1, ![s].held = held,
                                 ![s].pc = IF flush THEN "flush" ELSE "fetch"]
       /\ UNCHANGED <<given, file, torn, collected, total, status>>

FetchReturns(s) ==
    /\ chunk[s].pc = "fetch"
    /\ chunk[s].written = remote[chunk[s].input]
    /\ chunk' = [chunk EXCEPT ![s].pc = "dump"]
    /\ UNCHANGED <<given, file, torn, collected, total, status>>

\* One record becomes a line; without auto-flush it is counted with it.  After
\* a flush the fetch goes on.
WriteLine(s) ==
    LET i == chunk[s].input
        flushed == chunk[s].pc = "flush" /\ chunk[s].held = 1
    IN /\ Writing(s)
       /\ chunk[s].held > 0
       /\ chunk' = [chunk EXCEPT
            ![s].held = @ - 1,
            ![s].pc = IF flushed THEN "fetch" ELSE @,
            ![s].result.processed[i] = IF flushAt = 0 THEN @ + 1 ELSE @]
       /\ file' = [file EXCEPT ![i] = @ + 1]
       /\ UNCHANGED <<given, torn, collected, total, status>>

\* The input is through; what its writer held back goes with the writer.
Leave(s, result) ==
    chunk' = [chunk EXCEPT ![s].pc = "next", ![s].input = NoInput, ![s].attempt = 0,
                           ![s].written = 0, ![s].held = 0, ![s].result = result]

\* All is written: with auto-flush it is counted now, and ids are kept.
InputDone(s) ==
    LET i == chunk[s].input
        written == chunk[s].written
    IN /\ chunk[s].pc = "dump" /\ chunk[s].held = 0
       /\ Leave(s, [chunk[s].result EXCEPT
                      !.processed[i] = IF flushAt = 0 THEN @ ELSE @ + written,
                      !.emitted = IF written > 0 THEN @ \cup {i} ELSE @])
       /\ UNCHANGED <<given, file, torn, collected, total, status>>

\* Skippable: the input is gone, or locked.
InputSkipped(s) ==
    /\ Trying(s) /\ Throw(s)
    /\ Leave(s, [chunk[s].result EXCEPT !.skipped = @ \cup {chunk[s].input}])
    /\ UNCHANGED <<given, file, collected, total, status>>

\* Mutant: the ids seen so far are kept.
InputFailsEmitting(s) ==
    /\ Trying(s) /\ Throw(s)
    /\ Leave(s, [chunk[s].result EXCEPT !.failed = @ \cup {chunk[s].input},
                                        !.emitted = @ \cup {chunk[s].input}])
    /\ UNCHANGED <<given, file, collected, total, status>>

\* Mutant: the records of a failed input are counted.
InputFailsCounted(s) ==
    /\ Trying(s) /\ Throw(s)
    /\ Leave(s, [chunk[s].result EXCEPT !.failed = @ \cup {chunk[s].input},
                                        !.processed[chunk[s].input] = @ + chunk[s].written])
    /\ UNCHANGED <<given, file, collected, total, status>>

\* NonRetryable, RetryExhausted, or any error on the last attempt.
InputFails(s) ==
    /\ Trying(s) /\ Throw(s)
    /\ Leave(s, [chunk[s].result EXCEPT !.failed = @ \cup {chunk[s].input}])
    /\ UNCHANGED <<given, file, collected, total, status>>

\* Mutant: throttling does not use up an attempt.
RetryForEver(s) ==
    /\ Trying(s) /\ Throw(s)
    /\ chunk' = [chunk EXCEPT ![s].pc = "fetch", ![s].written = 0, ![s].held = 0]
    /\ UNCHANGED <<given, file, collected, total, status>>

\* Mutant: disposing of the writer flushes it.
RetryFlushing(s) ==
    /\ Trying(s) /\ Throw(s)
    /\ chunk[s].attempt < MaxRetries
    /\ chunk' = [chunk EXCEPT ![s].pc = "fetch", ![s].attempt = @ + 1,
                              ![s].written = 0, ![s].held = 0]
    /\ file' = [file EXCEPT ![chunk[s].input] = @ + chunk[s].held]
    /\ UNCHANGED <<given, collected, total, status>>

\* Auth, Throttle, Unknown: once more, with a new writer.  Lines that were
\* written, and counted, stay.
Retry(s) ==
    /\ Trying(s) /\ Throw(s)
    /\ chunk[s].attempt < MaxRetries
    /\ chunk' = [chunk EXCEPT ![s].pc = "fetch", ![s].attempt = @ + 1,
                              ![s].written = 0, ![s].held = 0]
    /\ UNCHANGED <<given, file, collected, total, status>>

\* A throw outside the try of an attempt, by Connect-Service, by the events
\* between two inputs, the last flush of the file, or by the log of a retry
\* in the catch: EndInvoke rethrows it, and the result is lost.  (That such a
\* flush may lose lines WriteLine has accepted is below this model.)
ChunkThrows(s) ==
    /\ \/ chunk[s].pc \in {"auth", "next"} /\ UNCHANGED torn
       \/ Trying(s) /\ Throw(s) /\ chunk[s].attempt < MaxRetries
    /\ chunk' = [chunk EXCEPT ![s].pc = "fatal"]
    /\ UNCHANGED <<given, file, collected, total, status>>

-----------------------------------------------------------------------------
(* The collector, and the status of the stage                              *)

Plus(m, n) == [i \in Inputs |-> m[i] + n[i]]

\* Mutant: a chunk that threw is collected like one without output.
CollectSilently(s) ==
    /\ status = "running" /\ s \notin collected /\ chunk[s].pc \in {"done", "fatal"}
    /\ collected' = collected \cup {s}
    /\ LET r == IF chunk[s].pc = "done" THEN chunk[s].result ELSE NoResult IN
         total' = [total EXCEPT !.processed = Plus(@, r.processed),
                                !.skipped = @ \cup r.skipped, !.failed = @ \cup r.failed,
                                !.emitted = @ \cup r.emitted]
    /\ UNCHANGED <<given, chunk, file, torn, status>>

\* EndInvoke: a chunk that came to its end may have reported errors (HadErrors);
\* of one that threw there is only the error.
Collect(s) ==
    /\ status = "running" /\ s \notin collected
    /\ collected' = collected \cup {s}
    /\ \/ /\ chunk[s].pc = "done"
          /\ \E reported \in SUBSET {s} :
               LET r == chunk[s].result IN
               total' = [total EXCEPT !.processed = Plus(@, r.processed),
                                      !.skipped = @ \cup r.skipped,
                                      !.failed = @ \cup r.failed,
                                      !.emitted = @ \cup r.emitted,
                                      !.chunks = @ \cup reported]
       \/ /\ chunk[s].pc = "fatal"
          /\ total' = [total EXCEPT !.chunks = @ \cup {s}]
    /\ UNCHANGED <<given, chunk, file, torn, status>>

Errors == total.failed # {} \/ total.chunks # {}

\* Nothing was read and every input was skipped or failed.
AllExhausted ==
    /\ total.processed = NoRecords /\ total.emitted = {}
    /\ Cardinality(total.skipped) + Cardinality(total.failed) >= Cardinality(Inputs)

TotalFailure ==
    AllExhausted \/ (total.processed = NoRecords /\ total.emitted = {} /\ Errors)

Verdict ==
    CASE AllExhausted /\ total.failed = {} -> "skipped"
      [] TotalFailure /\ ~(AllExhausted /\ total.failed = {}) -> "failed"
      [] ~TotalFailure /\ ~Errors -> "success"
      [] ~TotalFailure /\ Errors -> "partial"

EndStage ==
    /\ status = "running" /\ collected = Slices
    /\ status' = Verdict
    /\ UNCHANGED <<given, chunk, file, torn, collected, total>>

Next ==
    \/ \E s \in Slices :
         \/ Authenticate(s) \/ NextInput(s) \/ ChunkThrows(s)
         \/ FetchRecord(s) \/ FetchReturns(s) \/ WriteLine(s) \/ InputDone(s)
         \/ InputSkipped(s) \/ InputFails(s) \/ Retry(s)
         \/ Collect(s)
    \/ EndStage

Spec == Init /\ [][Next]_vars

\* A runspace goes on until it ends and the collector polls: the calls of a
\* fetch return or throw within the timeouts of their clients.
FairSpec == Spec /\ WF_vars(Next)

-----------------------------------------------------------------------------
(* Properties                                                              *)

Fatal(i) == chunk[SliceOf[i]].pc = "fatal"

\* The records of an input are being dumped.
Dumping(i) == chunk[SliceOf[i]].pc = "dump" /\ chunk[SliceOf[i]].input = i

\* Without auto-flush an attempt that breaks off in its fetch lands nothing: the
\* records of an input land all or none, and once, however often it was tried.
\* Only an attempt that throws while its lines are written leaves some of them,
\* and each of these adds at most one copy: "partial output cannot be retried
\* without producing duplicates" (StageExecutor.psm1).  With auto-flush every
\* attempt may leave lines, and no more than its own.
LandedOnce == \A i \in Inputs :
    /\ flushAt = 0 /\ torn[i] = 0 /\ ~Dumping(i) => file[i] \in {0, remote[i]}
    /\ flushAt = 0 => file[i] <= (torn[i] + 1) * remote[i]
    /\ file[i] <= MaxRetries * remote[i]

\* record_count of the manifest is the number of lines in the chunks that
\* returned, those of torn attempts and their repetitions included.  With
\* auto-flush a retried or failed input is not counted, though some lines of it
\* may be there.
CountIsLanded ==
    status # "running" => \A i \in Inputs :
        LET lines == IF Fatal(i) THEN 0 ELSE file[i] IN
        IF flushAt = 0 THEN total.processed[i] = lines ELSE total.processed[i] <= lines

\* A stage that reports success or skipped has dealt with every input: its
\* records have landed, or it was skipped as absent.
GoodMeansComplete ==
    status \in {"success", "skipped"} =>
        \A i \in Inputs \ total.skipped : file[i] >= remote[i] /\ ~Fatal(i)

\* Descendants are fed the ids of inputs whose records have landed.
ChildrenHaveParents ==
    status # "running" => \A i \in total.emitted : file[i] >= remote[i] /\ remote[i] > 0

\* What the stage tells the manifest and the stages below it is true.
ResultIsTrue == TypeInv /\ CountIsLanded /\ GoodMeansComplete /\ ChildrenHaveParents

\* A stage ends, however its fetches fail.
StageEnds == <>(status # "running")
=============================================================================
